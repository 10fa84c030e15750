-------------------------- MODULE BlackboardProofs --------------------------
(***************************************************************************)
(* Proofs about Blackboard: for any runs of any bodies whose plans are     *)
(* well formed, however their steps interleave and whichever tasks fail.   *)
(* And about Templates: the plans of the workflow endpoints are well       *)
(* formed, for any number of rounds, cycles, experts and names.            *)
(***************************************************************************)
EXTENDS Blackboard, Templates, Integers, WellFoundedInduction, TLAPS

Orderly == \A b \in Body : WellFormed(Plan[b], Before[b])

-----------------------------------------------------------------------------
(* What the assumptions on the constants say of a run.                     *)

LEMMA RunFacts ==
    ASSUME TypeOK, NEW r \in Run
    PROVE  /\ body[r] \in Body
           /\ task(r) = DOMAIN Plan[body[r]].after
           /\ members(r) \subseteq task(r)
BY BlackboardAssumption DEF TypeOK, task, tasks, members

LEMMA TaskFacts ==
    ASSUME TypeOK, NEW r \in Run, NEW t \in task(r)
    PROVE  /\ after(r, t) \subseteq task(r)
           /\ before(r, t) \subseteq task(r)
           /\ before(r, t) = after(r, t) \cup UNION {before(r, d) : d \in after(r, t)}
           /\ t \notin before(r, t)
<1>1. body[r] \in Body /\ t \in tasks(body[r])
  BY RunFacts DEF task
<1>2. after(r, t) \subseteq task(r)
  BY <1>1, BlackboardAssumption DEF after, task, tasks
<1>3. before(r, t) \subseteq task(r) /\ t \notin before(r, t)
  BY <1>1, BeforeAssumption DEF before, task
<1>4. before(r, t) = after(r, t) \cup UNION {before(r, d) : d \in after(r, t)}
  BY <1>1, BeforeAssumption DEF before, after
<1> QED  BY <1>2, <1>3, <1>4

LEMMA KeysApart ==
    ASSUME NEW r \in Run, NEW q \in Run, NEW k, NEW j,
           k \notin Unprefixed, slot(r, k) = slot(q, j)
    PROVE  j = k /\ (q = r \/ q \in sharing(r))
<1>1. slot(r, k) = <<prefix(r), k>>
  BY DEF slot
<1>2. prefix(r) # NoRun
  BY BlackboardAssumption DEF prefix
<1>3. CASE j \in Unprefixed
  <2>1. <<prefix(r), k>> = <<NoRun, j>>
    BY <1>1, <1>3 DEF slot
  <2> QED  BY <1>2, <2>1
<1>4. CASE j \notin Unprefixed
  <2>1. <<prefix(r), k>> = <<prefix(q), j>>
    BY <1>1, <1>4 DEF slot
  <2> QED  BY <2>1 DEF sharing
<1> QED  BY <1>3, <1>4

-----------------------------------------------------------------------------
(* The types.                                                              *)

LEMMA InitType == Init => TypeOK
BY DEF Init, TypeOK, Stage

(* Starting, reading and finishing move one task on.                       *)
LEMMA Moves ==
    ASSUME TypeOK, NEW r \in Run, NEW t \in task(r),
           start(r, t) \/ readAll(r, t) \/ finish(r, t)
    PROVE  /\ TypeOK'
           /\ stage'[r][t] \in {"reading", "writing", "done"}
           /\ \A q \in Run : \A u \in task(q) :
                (q = r /\ u = t) \/ stage'[q][u] = stage[q][u]
<1>1. PICK s \in {"reading", "writing", "done"} : stage' = [stage EXCEPT ![r][t] = s]
  BY DEF start, readAll, finish
<1>2. body' = body /\ submitted' = submitted /\ unwritten' = unwritten
  BY DEF start, readAll, finish
<1>3. \A q \in Run : stage'[q] = IF q = r THEN [stage[r] EXCEPT ![t] = s] ELSE stage[q]
  BY <1>1 DEF TypeOK
<1>4. s \in Stage
  BY DEF Stage
<1>5. \A q \in Run : stage'[q] \in [task(q) -> Stage]
  BY <1>3, <1>4 DEF TypeOK
<1>6. \A q \in Run : \A u \in task(q) :
        stage'[q][u] = IF q = r /\ u = t THEN s ELSE stage[q][u]
  BY <1>3 DEF TypeOK
<1>7. \A q \in Run : task(q)' = task(q) /\ \A u \in task(q) : writes(q, u)' = writes(q, u)
  BY <1>2 DEF task, tasks, writes
<1>8. DOMAIN stage' = Run
  BY <1>1 DEF TypeOK
<1>9. TypeOK'
  BY <1>2, <1>5, <1>7, <1>8 DEF TypeOK
<1> QED  BY <1>6, <1>9

LEMMA Puts ==
    ASSUME TypeOK, NEW r \in Run, NEW t \in task(r), NEW k \in writes(r, t), put(r, t, k)
    PROVE  /\ TypeOK'
           /\ k \notin unwritten'[r][t]
           /\ \A q \in Run : \A u \in task(q) :
                /\ (q = r /\ u = t) \/ unwritten'[q][u] = unwritten[q][u]
                /\ \A j : j \in unwritten'[q][u] => j \in unwritten[q][u]
<1>1. \A q \in Run : task(q)' = task(q) /\ \A u \in task(q) : writes(q, u)' = writes(q, u)
  BY DEF put, task, tasks, writes
<1>2. \A q \in Run : unwritten'[q] = IF q = r THEN [unwritten[r] EXCEPT ![t] = @ \ {k}]
                                     ELSE unwritten[q]
  BY DEF put, TypeOK
<1>3. \A q \in Run : \A u \in task(q) :
        unwritten'[q][u] = IF q = r /\ u = t THEN unwritten[q][u] \ {k} ELSE unwritten[q][u]
  BY <1>2 DEF TypeOK
<1>4. DOMAIN unwritten' = Run /\ \A q \in Run : DOMAIN unwritten'[q] = task(q)
  BY <1>2 DEF put, TypeOK
<1>5. \A q \in Run : \A u \in task(q) : unwritten'[q][u] \subseteq writes(q, u)
  BY <1>3 DEF TypeOK
<1>6. stage' = stage /\ body' = body /\ submitted' = submitted
  BY DEF put
<1>7. TypeOK'
  BY <1>1, <1>4, <1>5, <1>6 DEF TypeOK
<1>8. k \notin unwritten'[r][t]
  BY <1>3
<1>9. ASSUME NEW q \in Run, NEW u \in task(q)
      PROVE  /\ (q = r /\ u = t) \/ unwritten'[q][u] = unwritten[q][u]
             /\ \A j : j \in unwritten'[q][u] => j \in unwritten[q][u]
  BY <1>3
<1> QED  BY <1>7, <1>8, <1>9

LEMMA Fails ==
    ASSUME TypeOK, NEW r \in Run, NEW t \in task(r), fail(r, t)
    PROVE  /\ TypeOK'
           /\ \A q \in Run : \A u \in task(q) :
                stage'[q][u] = IF q = r /\ u = t THEN "failed"
                               ELSE IF q = r /\ t \in before(r, u) THEN "doomed"
                               ELSE stage[q][u]
<1>1. \A q \in Run : task(q)' = task(q) /\ \A u \in task(q) : writes(q, u)' = writes(q, u)
  BY DEF fail, task, tasks, writes
<1>2. \A q \in Run : stage'[q] = IF q = r
        THEN [u \in task(r) |-> IF u = t THEN "failed"
                                ELSE IF t \in before(r, u) THEN "doomed" ELSE stage[r][u]]
        ELSE stage[q]
  BY DEF fail, TypeOK
<1>3. \A q \in Run : \A u \in task(q) :
        stage'[q][u] = IF q = r /\ u = t THEN "failed"
                       ELSE IF q = r /\ t \in before(r, u) THEN "doomed"
                       ELSE stage[q][u]
  <2>1. ASSUME NEW u \in task(r)
        PROVE  stage'[r][u] = IF u = t THEN "failed"
                              ELSE IF t \in before(r, u) THEN "doomed" ELSE stage[r][u]
    <3>1. stage'[r] = [v \in task(r) |->
                         IF v = t THEN "failed"
                         ELSE IF t \in before(r, v) THEN "doomed" ELSE stage[r][v]]
      BY <1>2
    <3> QED  BY <3>1
  <2>2. ASSUME NEW q \in Run, q # r PROVE stage'[q] = stage[q]
    BY <1>2, <2>2
  <2> QED  BY <2>1, <2>2
<1>4. ASSUME NEW q \in Run  PROVE stage'[q] \in [task(q) -> Stage]
  <2>1. stage[q] \in [task(q) -> Stage]
    BY DEF TypeOK
  <2>2. "failed" \in Stage /\ "doomed" \in Stage
    BY DEF Stage
  <2>3. CASE q = r
    BY <1>2, <2>1, <2>2, <2>3
  <2> QED  BY <1>2, <2>1, <2>3
<1>5. DOMAIN stage' = Run
  BY DEF fail, TypeOK
<1>6. unwritten' = unwritten /\ body' = body /\ submitted' = submitted
  BY DEF fail
<1> QED  BY <1>1, <1>3, <1>4, <1>5, <1>6 DEF TypeOK

LEMMA TypeCorrect == ASSUME TypeOK, [Next]_vars PROVE TypeOK'
<1>1. CASE UNCHANGED vars
  BY <1>1 DEF vars, TypeOK, task, tasks, writes
<1>2. ASSUME NEW r \in Run, submit(r)  PROVE TypeOK'
  BY <1>2 DEF submit, TypeOK, task, tasks, writes
<1>3. ASSUME NEW r \in Run, NEW t \in task(r), NEW k \in writes(r, t), put(r, t, k)
      PROVE  TypeOK'
  BY <1>3, Puts
<1>4. ASSUME NEW r \in Run, NEW t \in task(r), start(r, t) \/ readAll(r, t) \/ finish(r, t)
      PROVE  TypeOK'
  BY <1>4, Moves
<1>5. ASSUME NEW r \in Run, NEW t \in task(r), fail(r, t)  PROVE TypeOK'
  BY <1>5, Fails
<1> QED  BY <1>1, <1>2, <1>3, <1>4, <1>5 DEF Next, work

(* The requests do not change.                                             *)
LEMMA SameRuns ==
    ASSUME [Next]_vars
    PROVE  /\ body' = body
           /\ \A q \in Run : task(q)' = task(q) /\ members(q)' = members(q)
           /\ \A q \in Run : \A u \in task(q) :
                /\ before(q, u)' = before(q, u)
                /\ reads(q, u)' = reads(q, u)
                /\ writes(q, u)' = writes(q, u)
<1>1. body' = body
  BY DEF Next, work, submit, start, readAll, put, finish, fail, vars
<1> QED  BY <1>1 DEF task, tasks, members, before, reads, writes

-----------------------------------------------------------------------------
(* The order of the tasks.                                                 *)

(* What a task comes after has completed when those it waits for have.     *)
LEMMA AllBefore ==
    ASSUME TypeOK, InOrder, NEW r \in Run, NEW t \in task(r),
           \A d \in after(r, t) : stage[r][d] = "done"
    PROVE  \A d \in before(r, t) : stage[r][d] = "done"
<1>1. \A d \in after(r, t) : \A c \in before(r, d) : stage[r][c] = "done"
  BY TaskFacts DEF InOrder, Started
<1> QED  BY <1>1, TaskFacts

LEMMA DoneStays ==
    ASSUME TypeOK, InOrder, [Next]_vars,
           NEW q \in Run, NEW u \in task(q), stage[q][u] = "done"
    PROVE  stage'[q][u] = "done"
<1>1. CASE stage' = stage
  BY <1>1
<1>2. ASSUME NEW r \in Run, NEW t \in task(r), start(r, t) \/ readAll(r, t) \/ finish(r, t)
      PROVE  stage'[q][u] = "done"
  <2>1. stage[r][t] # "done"
    BY <1>2 DEF start, readAll, finish
  <2> QED  BY <1>2, <2>1, Moves
<1>3. ASSUME NEW r \in Run, NEW t \in task(r), fail(r, t)
      PROVE  stage'[q][u] = "done"
  <2>1. stage[r][t] # "done"
    BY <1>3 DEF fail
  <2>2. q = r => t \notin before(q, u)
    BY <2>1 DEF InOrder, Started
  <2>3. ~(q = r /\ u = t)
    BY <2>1
  <2> QED  BY <1>3, <2>2, <2>3, Fails
<1> QED  BY <1>1, <1>2, <1>3 DEF Next, work, submit, put, vars

(* Who comes to work or ends by a step was at work, or may start.          *)
LEMMA StartedHow ==
    ASSUME TypeOK, [Next]_vars,
           NEW q \in Run, NEW u \in task(q), stage'[q][u] \in Started
    PROVE  stage[q][u] \in Started \/ \A d \in after(q, u) : stage[q][d] = "done"
<1>1. CASE stage' = stage
  BY <1>1
<1>2. ASSUME NEW r \in Run, NEW t \in task(r), start(r, t) \/ readAll(r, t) \/ finish(r, t)
      PROVE  stage[q][u] \in Started \/ \A d \in after(q, u) : stage[q][d] = "done"
  <2>1. stage[r][t] \in Started \/ \A d \in after(r, t) : stage[r][d] = "done"
    BY <1>2 DEF start, readAll, finish, Started
  <2> QED  BY <1>2, <2>1, Moves
<1>3. ASSUME NEW r \in Run, NEW t \in task(r), fail(r, t)
      PROVE  stage[q][u] \in Started
  <2>1. stage[r][t] \in Started
    BY <1>3 DEF fail, Started
  <2>2. "doomed" \notin Started
    BY DEF Started
  <2> QED  BY <1>3, <2>1, <2>2, Fails
<1> QED  BY <1>1, <1>2, <1>3 DEF Next, work, submit, put, vars

LEMMA OrderStays == ASSUME TypeOK, InOrder, [Next]_vars PROVE InOrder'
<1> SUFFICES ASSUME NEW q \in Run, NEW u \in task(q), stage'[q][u] \in Started,
                    NEW d \in before(q, u)
             PROVE  stage'[q][d] = "done"
  BY SameRuns DEF InOrder
<1>1. stage[q][d] = "done"
  BY StartedHow, AllBefore DEF InOrder
<1> QED  BY <1>1, TaskFacts, DoneStays

-----------------------------------------------------------------------------
(* What has been written.                                                  *)

LEMMA WroteStays ==
    ASSUME TypeOK, InOrder, [Next]_vars, NEW q \in Run, NEW u \in task(q), NEW j, Wrote(q, u, j)
    PROVE  Wrote(q, u, j)'
<1>1. writes(q, u)' = writes(q, u)
  BY SameRuns
<1>2. CASE stage' = stage /\ unwritten' = unwritten
  BY <1>1, <1>2 DEF Wrote
<1>3. ASSUME NEW r \in Run, NEW t \in task(r), start(r, t) \/ readAll(r, t) \/ finish(r, t)
      PROVE  Wrote(q, u, j)'
  <2>1. q = r /\ u = t => stage'[q][u] \in {"writing", "done"}
    BY <1>3 DEF start, readAll, finish, Wrote, TypeOK
  <2>2. unwritten' = unwritten
    BY <1>3 DEF start, readAll, finish
  <2> QED  BY <1>1, <1>3, <2>1, <2>2, Moves DEF Wrote
<1>4. ASSUME NEW r \in Run, NEW t \in task(r), NEW k \in writes(r, t), put(r, t, k)
      PROVE  Wrote(q, u, j)'
  <2>1. stage' = stage
    BY <1>4 DEF put
  <2> QED  BY <1>1, <1>4, <2>1, Puts DEF Wrote
<1>5. ASSUME NEW r \in Run, NEW t \in task(r), fail(r, t)
      PROVE  Wrote(q, u, j)'
  <2>1. stage[r][t] # "done" /\ unwritten' = unwritten
    BY <1>5 DEF fail
  <2>2. q = r => t \notin before(q, u)
    BY <2>1 DEF InOrder, Started, Wrote
  <2> QED  BY <1>1, <1>5, <2>1, <2>2, Fails DEF Wrote
<1> QED  BY <1>2, <1>3, <1>4, <1>5 DEF Next, work, submit, vars

LEMMA JustWrote ==
    ASSUME TypeOK, NEW r \in Run, NEW t \in task(r), NEW k \in writes(r, t), put(r, t, k)
    PROVE  Wrote(r, t, k)'
<1>1. writes(r, t)' = writes(r, t) /\ stage' = stage /\ stage[r][t] = "writing"
  BY DEF put, writes
<1>2. k \notin unwritten'[r][t]
  BY Puts
<1>3. k \in writes(r, t)' \ unwritten'[r][t]
  BY <1>1, <1>2
<1> QED  BY <1>1, <1>3 DEF Wrote

LEMMA HonestStays == ASSUME TypeOK, InOrder, PadHonest, [Next]_vars PROVE PadHonest'
<1> SUFFICES ASSUME NEW e \in pad'
             PROVE  /\ e.run \in Run /\ e.task \in task(e.run)
                    /\ \E k \in writes(e.run, e.task) :
                         e.slot = slot(e.run, k) /\ Wrote(e.run, e.task, k)'
  BY SameRuns DEF PadHonest, slot, prefix
<1>1. CASE e \in pad
  <2>1. e.run \in Run /\ e.task \in task(e.run)
    BY <1>1 DEF PadHonest
  <2>2. PICK k \in writes(e.run, e.task) : e.slot = slot(e.run, k) /\ Wrote(e.run, e.task, k)
    BY <1>1 DEF PadHonest
  <2> QED  BY <2>1, <2>2, WroteStays
<1>2. ASSUME NEW r \in Run, NEW t \in task(r), NEW k \in writes(r, t), put(r, t, k),
             e = [slot |-> slot(r, k), run |-> r, task |-> t]
      PROVE  /\ e.run \in Run /\ e.task \in task(e.run)
             /\ \E j \in writes(e.run, e.task) :
                  e.slot = slot(e.run, j) /\ Wrote(e.run, e.task, j)'
  <2>1. e.run = r /\ e.task = t /\ e.slot = slot(r, k)
    BY <1>2
  <2> QED  BY <1>2, <2>1, JustWrote
<1>3. e \in pad \/ \E r \in Run : \E t \in task(r) : \E k \in writes(r, t) :
                     put(r, t, k) /\ e = [slot |-> slot(r, k), run |-> r, task |-> t]
  BY DEF Next, work, submit, start, readAll, put, finish, fail, vars
<1> QED  BY <1>1, <1>2, <1>3

LEMMA WroteAllStays == ASSUME TypeOK, DoneWroteAll, [Next]_vars PROVE DoneWroteAll'
<1> SUFFICES ASSUME NEW q \in Run, NEW u \in task(q), stage'[q][u] = "done"
             PROVE  unwritten'[q][u] = {}
  BY SameRuns DEF DoneWroteAll
<1>1. CASE stage' = stage /\ unwritten' = unwritten
  BY <1>1 DEF DoneWroteAll
<1>2. ASSUME NEW r \in Run, NEW t \in task(r), start(r, t) \/ readAll(r, t) \/ finish(r, t)
      PROVE  unwritten'[q][u] = {}
  <2>1. unwritten' = unwritten
    BY <1>2 DEF start, readAll, finish
  <2>2. q = r /\ u = t => unwritten[q][u] = {}
    BY <1>2 DEF start, readAll, finish, TypeOK
  <2> QED  BY <1>2, <2>1, <2>2, Moves DEF DoneWroteAll
<1>3. ASSUME NEW r \in Run, NEW t \in task(r), NEW k \in writes(r, t), put(r, t, k)
      PROVE  unwritten'[q][u] = {}
  <2>1. stage' = stage
    BY <1>3 DEF put
  <2>2. unwritten[q][u] = {}
    BY <2>1 DEF DoneWroteAll
  <2>3. \A j : j \in unwritten'[q][u] => j \in unwritten[q][u]
    BY <1>3, Puts
  <2> QED  BY <2>2, <2>3
<1>4. ASSUME NEW r \in Run, NEW t \in task(r), fail(r, t)
      PROVE  unwritten'[q][u] = {}
  <2>1. unwritten' = unwritten
    BY <1>4 DEF fail
  <2> QED  BY <1>4, <2>1, Fails DEF DoneWroteAll
<1> QED  BY <1>1, <1>2, <1>3, <1>4 DEF Next, work, submit, vars

(* A task that has failed stays so, unless it came after one that fails    *)
(* now; but then it had not started.                                       *)
LEMMA FailedStays ==
    ASSUME TypeOK, InOrder, [Next]_vars,
           NEW q \in Run, NEW u \in task(q), stage[q][u] = "failed"
    PROVE  stage'[q][u] = "failed"
<1>1. CASE stage' = stage
  BY <1>1
<1>2. ASSUME NEW r \in Run, NEW t \in task(r), start(r, t) \/ readAll(r, t) \/ finish(r, t)
      PROVE  stage'[q][u] = "failed"
  <2>1. stage[r][t] # "failed"
    BY <1>2 DEF start, readAll, finish
  <2> QED  BY <1>2, <2>1, Moves
<1>3. ASSUME NEW r \in Run, NEW t \in task(r), fail(r, t)
      PROVE  stage'[q][u] = "failed"
  <2>1. stage[r][t] \in {"reading", "writing"}
    BY <1>3 DEF fail
  <2>2. q = r => t \notin before(q, u)
    BY <2>1 DEF InOrder, Started
  <2> QED  BY <1>3, <2>2, Fails
<1> QED  BY <1>1, <1>2, <1>3 DEF Next, work, submit, put, vars

LEMMA DoomStays == ASSUME TypeOK, InOrder, DoomedByFailure, [Next]_vars PROVE DoomedByFailure'
<1> SUFFICES ASSUME NEW q \in Run, NEW u \in task(q), stage'[q][u] = "doomed"
             PROVE  \E d \in before(q, u) : stage'[q][d] = "failed"
  BY SameRuns DEF DoomedByFailure
<1>1. CASE stage[q][u] = "doomed"
  <2>1. PICK d \in before(q, u) : stage[q][d] = "failed"
    BY <1>1 DEF DoomedByFailure
  <2> QED  BY <2>1, TaskFacts, FailedStays
<1>2. ASSUME NEW r \in Run, NEW t \in task(r), start(r, t) \/ readAll(r, t) \/ finish(r, t)
      PROVE  stage[q][u] = "doomed"
  BY <1>2, Moves
<1>3. ASSUME NEW r \in Run, NEW t \in task(r), fail(r, t), stage[q][u] # "doomed"
      PROVE  \E d \in before(q, u) : stage'[q][d] = "failed"
  <2>1. q = r /\ t \in before(q, u)
    BY <1>3, Fails
  <2> QED  BY <1>3, <2>1, Fails
<1> QED  BY <1>1, <1>2, <1>3 DEF Next, work, submit, put, vars

LEMMA ReadFirstStays == ASSUME TypeOK, ReadFirst, [Next]_vars PROVE ReadFirst'
<1> SUFFICES ASSUME NEW q \in Run, NEW u \in task(q), stage'[q][u] \in {"waiting", "reading"}
             PROVE  unwritten'[q][u] = writes(q, u)
  BY SameRuns DEF ReadFirst
<1>1. CASE stage' = stage /\ unwritten' = unwritten
  BY <1>1 DEF ReadFirst
<1>2. ASSUME NEW r \in Run, NEW t \in task(r), start(r, t) \/ readAll(r, t) \/ finish(r, t)
      PROVE  unwritten'[q][u] = writes(q, u)
  <2>1. unwritten' = unwritten
    BY <1>2 DEF start, readAll, finish
  <2>2. q = r /\ u = t => stage[q][u] = "waiting"
    BY <1>2 DEF start, readAll, finish, TypeOK
  <2> QED  BY <1>2, <2>1, <2>2, Moves DEF ReadFirst
<1>3. ASSUME NEW r \in Run, NEW t \in task(r), NEW k \in writes(r, t), put(r, t, k)
      PROVE  unwritten'[q][u] = writes(q, u)
  <2>1. stage' = stage /\ stage[r][t] = "writing"
    BY <1>3 DEF put
  <2>2. unwritten'[q][u] = unwritten[q][u]
    BY <1>3, <2>1, Puts
  <2> QED  BY <2>1, <2>2 DEF ReadFirst
<1>4. ASSUME NEW r \in Run, NEW t \in task(r), fail(r, t)
      PROVE  unwritten'[q][u] = writes(q, u)
  <2>1. unwritten' = unwritten
    BY <1>4 DEF fail
  <2> QED  BY <1>4, <2>1, Fails DEF ReadFirst
<1> QED  BY <1>1, <1>2, <1>3, <1>4 DEF Next, work, submit, vars

-----------------------------------------------------------------------------
(* What well-formed plans add.                                             *)

LEMMA Shared ==
    ASSUME Orderly, TypeOK, NEW r \in Run, NEW t \in task(r), NEW u \in task(r),
           NEW k \in writes(r, t), k \in reads(r, u) \/ k \in writes(r, u),
           k \notin Unprefixed, t # u
    PROVE  t \in before(r, u) \/ u \in before(r, t)
<1>1. WellFormed(Plan[body[r]], Before[body[r]])
  BY RunFacts DEF Orderly
<1>2. t \in DOMAIN Plan[body[r]].after /\ u \in DOMAIN Plan[body[r]].after
  BY RunFacts
<1> QED  BY <1>1, <1>2 DEF WellFormed, reads, writes, before

LEMMA Provided ==
    ASSUME Orderly, TypeOK, NEW r \in Run, NEW t \in task(r), NEW k \in reads(r, t)
    PROVE  /\ k \notin Unprefixed
           /\ \E u \in before(r, t) : k \in writes(r, u)
<1>1. WellFormed(Plan[body[r]], Before[body[r]])
  BY RunFacts DEF Orderly
<1> QED  BY <1>1, RunFacts DEF WellFormed, reads, writes, before

LEMMA Known ==
    ASSUME Orderly, TypeOK, NEW r \in Run
    PROVE  /\ members(r) = task(r)
           /\ \A t \in Plan[body[r]].replies : task(r) = {t} \cup before(r, t)
<1>1. WellFormed(Plan[body[r]], Before[body[r]])
  BY RunFacts DEF Orderly
<1> QED  BY <1>1, RunFacts DEF WellFormed, members, before

Kept(q, u, j, p) ==
    \E e \in p : /\ e.slot = slot(q, j)
                 /\ \/ e.run = q /\ (e.task = u \/ u \in before(q, e.task))
                    \/ e.run \in sharing(q)

LEMMA PutKeeps ==
    ASSUME Orderly, TypeOK, InOrder, NothingLost,
           NEW r \in Run, NEW t \in task(r), NEW k \in writes(r, t), put(r, t, k),
           NEW q \in Run, NEW u \in task(q), NEW j \in writes(q, u) \ Unprefixed,
           kept(q), stage[q][u] \in {"writing", "done"}, j \notin unwritten'[q][u]
    PROVE  Kept(q, u, j, pad')
<1> DEFINE new == [slot |-> slot(r, k), run |-> r, task |-> t]
<1>1. kept(r) => new \in pad' /\ \A e \in pad : e.slot = slot(r, k) \/ e \in pad'
  BY DEF put
<1>2. new.slot = slot(r, k) /\ new.run = r /\ new.task = t
  OBVIOUS
<1> HIDE DEF new
<1>3. CASE j \in unwritten[q][u]
  <2>1. q = r /\ u = t
    BY <1>3, Puts
  <2>2. j = k
    BY <1>3, <2>1 DEF put, TypeOK
  <2> QED  BY <1>1, <1>2, <2>1, <2>2 DEF Kept
<1>4. CASE j \notin unwritten[q][u]
  <2>1. PICK e \in pad : /\ e.slot = slot(q, j)
                         /\ \/ e.run = q /\ (e.task = u \/ u \in before(q, e.task))
                            \/ e.run \in sharing(q)
    BY <1>4 DEF NothingLost
  <2>2. CASE e \in pad'
    BY <2>1, <2>2 DEF Kept
  <2>3. CASE e \notin pad'
    <3>1. kept(r) /\ slot(q, j) = slot(r, k)
      <4>1. ~kept(r) => pad' = pad
        BY DEF put
      <4> QED  BY <1>1, <2>1, <2>3, <4>1
    <3>2. k = j /\ (r = q \/ r \in sharing(q))
      BY <3>1, KeysApart
    <3>3. CASE r = q
      <4>1. u = t \/ u \in before(q, t) \/ t \in before(q, u)
        BY <3>2, <3>3, Shared
      <4>2. stage[r][t] = "writing"
        BY DEF put
      <4>3. t \notin before(q, u)
        BY <3>3, <4>2 DEF InOrder, Started
      <4> QED  BY <1>1, <1>2, <3>1, <3>2, <3>3, <4>1, <4>3 DEF Kept
    <3>4. CASE r \in sharing(q)
      BY <1>1, <1>2, <3>1, <3>4 DEF Kept
    <3> QED  BY <3>2, <3>3, <3>4
  <2> QED  BY <2>2, <2>3
<1> QED  BY <1>3, <1>4

LEMMA LostNothing ==
    ASSUME Orderly, TypeOK, InOrder, ReadFirst, NothingLost, [Next]_vars
    PROVE  NothingLost'
<1> SUFFICES ASSUME NEW q \in Run, NEW u \in task(q),
                    NEW j \in writes(q, u) \ Unprefixed,
                    kept(q), stage'[q][u] \in {"writing", "done"}, j \notin unwritten'[q][u]
             PROVE  Kept(q, u, j, pad')
  <2>1. ASSUME NEW e \in pad', e.run \in Run, NEW v, v \in before(e.run, e.task)
        PROVE  v \in before(e.run, e.task)'
    BY <2>1, SameRuns DEF before
  <2>2. \A r \in Run : prefix(r)' = prefix(r) /\ kept(r)' = kept(r)
    BY SameRuns DEF prefix, kept
  <2>3. \A r \in Run : sharing(r)' = sharing(r) /\ \A k : slot(r, k)' = slot(r, k)
    BY <2>2 DEF sharing, slot
  <2> QED  BY <2>1, <2>2, <2>3, SameRuns DEF NothingLost, Kept
<1>1. CASE UNCHANGED <<stage, unwritten, pad>>
  BY <1>1 DEF NothingLost, Kept
<1>2. ASSUME NEW r \in Run, NEW t \in task(r), start(r, t) \/ readAll(r, t) \/ finish(r, t)
      PROVE  Kept(q, u, j, pad')
  <2>1. unwritten' = unwritten /\ pad' = pad
    BY <1>2 DEF start, readAll, finish
  <2>2. q = r /\ u = t => stage[q][u] = "writing"
    BY <1>2, <2>1 DEF start, readAll, finish, TypeOK, ReadFirst
  <2>3. stage[q][u] \in {"writing", "done"}
    BY <1>2, <2>2, Moves
  <2> QED  BY <2>1, <2>3 DEF NothingLost, Kept
<1>3. ASSUME NEW r \in Run, NEW t \in task(r), NEW k \in writes(r, t), put(r, t, k)
      PROVE  Kept(q, u, j, pad')
  <2>1. stage' = stage
    BY <1>3 DEF put
  <2> QED  BY <1>3, <2>1, PutKeeps
<1>4. ASSUME NEW r \in Run, NEW t \in task(r), fail(r, t)
      PROVE  Kept(q, u, j, pad')
  <2>1. unwritten' = unwritten /\ pad' = pad
    BY <1>4 DEF fail
  <2>2. stage[q][u] \in {"writing", "done"}
    BY <1>4, Fails
  <2> QED  BY <2>1, <2>2 DEF NothingLost, Kept
<1> QED  BY <1>1, <1>2, <1>3, <1>4 DEF Next, work, submit, vars

-----------------------------------------------------------------------------
(* The theorems.                                                           *)

LEMMA InvInit == Init => BlackboardInv
<1> SUFFICES ASSUME Init PROVE BlackboardInv
  OBVIOUS
<1>1. \A r \in Run : \A t \in task(r) : stage[r][t] = "waiting" /\ unwritten[r][t] = writes(r, t)
  BY DEF Init
<1>2. pad = {}
  BY DEF Init
<1> QED  BY <1>1, <1>2, InitType DEF BlackboardInv, InOrder, Started, PadHonest,
                                      DoneWroteAll, ReadFirst, DoomedByFailure

LEMMA InvNext == ASSUME BlackboardInv, [Next]_vars PROVE BlackboardInv'
BY TypeCorrect, OrderStays, HonestStays, WroteAllStays, ReadFirstStays, DoomStays
   DEF BlackboardInv

(* The types, and what every step keeps, whatever the plans: a task starts *)
(* only after all that it comes after, directly or not, has completed, one *)
(* that is given up has a failed one before it, and every value on the     *)
(* scratchpad was written by a task that was told to.                      *)
THEOREM StepsInOrder == Spec => []BlackboardInv
BY InvInit, InvNext, PTL DEF Spec

(* Runs with well-formed plans do not overwrite each other unless they     *)
(* were given one prefix, and parallel tasks of one run do not either: the *)
(* uuid in a prefix the endpoint makes and the order of the tasks that     *)
(* share a key are enough.                                                 *)
THEOREM NothingIsLost == ASSUME Orderly PROVE Spec => []NothingLost
<1>1. Init => NothingLost
  BY DEF Init, NothingLost
<1>2. BlackboardInv /\ NothingLost /\ [Next]_vars => NothingLost'
  BY LostNothing DEF BlackboardInv
<1> QED  BY <1>1, <1>2, StepsInOrder, PTL DEF Spec

(* A task with a well-formed plan finds every key it is told to read, and  *)
(* the last to have written it is a task of its run that has completed, or *)
(* one of a run that was given the same prefix.                            *)
LEMMA ReadyInputs ==
    ASSUME Orderly, BlackboardInv, NothingLost, NEW r \in Run, NEW t \in task(r),
           kept(r), stage[r][t] = "reading", NEW k \in reads(r, t)
    PROVE  /\ \E e \in pad : e.slot = slot(r, k)
           /\ \A e \in pad : e.slot = slot(r, k) =>
                \/ e.run = r /\ stage[r][e.task] = "done"
                \/ e.run \in sharing(r)
<1>1. TypeOK /\ k \notin Unprefixed
  BY Provided DEF BlackboardInv
<1>2. \A d \in before(r, t) : d \in task(r) /\ stage[r][d] = "done"
  BY <1>1, TaskFacts DEF BlackboardInv, InOrder, Started
<1>3. \E e \in pad : e.slot = slot(r, k)
  <2>1. PICK u \in before(r, t) : k \in writes(r, u)
    BY <1>1, Provided
  <2>2. stage[r][u] = "done" /\ unwritten[r][u] = {}
    BY <1>2 DEF BlackboardInv, DoneWroteAll
  <2> QED  BY <1>1, <1>2, <2>1, <2>2 DEF NothingLost
<1>4. ASSUME NEW e \in pad, e.slot = slot(r, k), e.run \notin sharing(r)
      PROVE  e.run = r /\ stage[r][e.task] = "done"
  <2>1. PICK j \in writes(e.run, e.task) :
          e.slot = slot(e.run, j) /\ Wrote(e.run, e.task, j)
    BY DEF BlackboardInv, PadHonest
  <2>2. e.run \in Run /\ e.task \in task(e.run)
    BY DEF BlackboardInv, PadHonest
  <2>3. e.run = r /\ j = k
    <3>1. slot(r, k) = slot(e.run, j)
      BY <1>4, <2>1
    <3>2. PICK q \in Run : q = e.run
      BY <2>2
    <3>3. j = k /\ (q = r \/ q \in sharing(r))
      BY <1>1, <3>1, <3>2, KeysApart
    <3> QED  BY <1>4, <3>2, <3>3
  <2>4. e.task # t
    BY <2>1, <2>3 DEF Wrote
  <2>5. e.task \in before(r, t) \/ t \in before(r, e.task)
    BY <1>1, <2>2, <2>3, <2>4, Shared
  <2>6. stage[r][e.task] \in Started
    BY <2>1, <2>3 DEF Wrote, Started
  <2>7. t \notin before(r, e.task)
    BY <2>2, <2>3, <2>6 DEF BlackboardInv, InOrder
  <2> QED  BY <1>2, <2>3, <2>5, <2>7
<1> QED  BY <1>3, <1>4

(* So an agent reads what a completed task of its own run wrote; or, where *)
(* the client gave several runs one prefix, what such a run did.           *)
THEOREM InputsAreReady == ASSUME Orderly PROVE Spec => []InputsReady
<1>1. BlackboardInv /\ NothingLost => InputsReady
  BY ReadyInputs DEF InputsReady
<1> QED  BY <1>1, StepsInOrder, NothingIsLost, PTL

(* The manager, which hears of members that complete or fail and not of    *)
(* those given up, reports every run whose tasks have ended.               *)
THEOREM RunsAreReported == ASSUME Orderly PROVE Spec => []RunReported
<1>1. ASSUME BlackboardInv, NEW r \in submitted, \A t \in task(r) : ended(r, t)
      PROVE  runStatus(r) \in {"complete", "failed"}
  <2>1. r \in Run /\ TypeOK /\ members(r) = task(r)
    BY <1>1, Known DEF BlackboardInv, TypeOK
  <2>2. CASE \E t \in task(r) : stage[r][t] # "done"
    <3>1. PICK t \in task(r) : stage[r][t] \in {"failed", "doomed"}
      BY <1>1, <2>2 DEF ended
    <3>2. \E d \in task(r) : stage[r][d] = "failed"
      BY <1>1, <2>1, <3>1, TaskFacts DEF BlackboardInv, DoomedByFailure
    <3> QED  BY <2>1, <3>2 DEF runStatus
  <2>3. CASE \A t \in task(r) : stage[r][t] = "done"
    BY <2>1, <2>3 DEF runStatus
  <2> QED  BY <2>2, <2>3
<1>2. ASSUME BlackboardInv, NEW r \in submitted, runStatus(r) = "complete"
      PROVE  \A t \in task(r) : stage[r][t] = "done"
  <2>1. members(r) = task(r)
    BY <1>2, Known DEF BlackboardInv, TypeOK
  <2> QED  BY <1>2, <2>1 DEF runStatus
<1>3. BlackboardInv => RunReported
  BY <1>1, <1>2 DEF RunReported
<1> QED  BY <1>3, StepsInOrder, PTL

(* When the task that has reply_to completes, every other task has.        *)
THEOREM RepliesComeLast == ASSUME Orderly PROVE Spec => []ReplyLast
<1>1. ASSUME BlackboardInv, NEW r \in Run, NEW t \in Plan[body[r]].replies,
             stage[r][t] = "done", NEW u \in task(r)
      PROVE  stage[r][u] = "done"
  <2>1. TypeOK /\ task(r) = {t} \cup before(r, t)
    BY <1>1, Known DEF BlackboardInv
  <2> QED  BY <1>1, <2>1 DEF BlackboardInv, InOrder, Started
<1>2. BlackboardInv => ReplyLast
  BY <1>1 DEF ReplyLast
<1> QED  BY <1>2, StepsInOrder, PTL

(* The tasks of a body made of phases keep the order of its blocks when    *)
(* the expansion makes each come after just those it has to.               *)
Exact ==
    \A b \in Body \cap DOMAIN Promised : \A t \in tasks(b) : Promised[b][t] = Before[b][t]

THEOREM PhasesInOrder == ASSUME Exact PROVE Spec => []PhaseOrder
<1>1. ASSUME BlackboardInv, NEW r \in submitted, body[r] \in DOMAIN Promised, NEW t \in task(r)
      PROVE  LET due == Promised[body[r]][t]
             IN  /\ atWork(r, t) => \A d \in due : stage[r][d] = "done"
                 /\ stage[r][t] = "waiting" /\ (\A d \in due : stage[r][d] = "done") =>
                      \A d \in after(r, t) : stage[r][d] = "done"
  <2>1. TypeOK /\ r \in Run
    BY <1>1 DEF BlackboardInv, TypeOK
  <2>2. Promised[body[r]][t] = before(r, t)
    BY <1>1, <2>1, RunFacts DEF Exact, before, task
  <2>3. atWork(r, t) => \A d \in before(r, t) : stage[r][d] = "done"
    BY <1>1, <2>1 DEF BlackboardInv, InOrder, Started, atWork
  <2>4. after(r, t) \subseteq before(r, t)
    BY <2>1, TaskFacts
  <2> QED  BY <2>2, <2>3, <2>4
<1>2. BlackboardInv => PhaseOrder
  BY <1>1 DEF PhaseOrder
<1> QED  BY <1>2, StepsInOrder, PTL

-----------------------------------------------------------------------------
(* The plans of the endpoints.                                             *)

(* A set of numbers that is not empty has a least one.                     *)
LEMMA LeastNumber ==
    ASSUME NEW S, S \subseteq Nat, S # {}
    PROVE  \E n \in S : \A m \in S : n <= m
<1>1. PICK R : R = OpToRel(<, Nat)
  OBVIOUS
<1>2. IsWellFoundedOn(R, Nat)
  BY <1>1, NatLessThanWellFounded
<1>3. PICK n \in S : \A m \in S : ~(<<m, n>> \in R)
  BY <1>2, WFMin
<1>4. ASSUME NEW m \in S PROVE n <= m
  <2>1. m \in Nat /\ n \in Nat
    OBVIOUS
  <2>2. ~(<<m, n>> \in OpToRel(<, Nat))
    BY <1>1, <1>3
  <2>3. ~(m < n)
    BY <2>1, <2>2 DEF OpToRel
  <2> QED  BY <2>1, <2>3
<1> QED  BY <1>4

(* B is the table of Before of the plan P.                                 *)
TableOf(P, B) ==
    LET T == DOMAIN P.after
    IN  /\ B \in [T -> SUBSET T]
        /\ \A t \in T : B[t] = P.after[t] \cup UNION {B[d] : d \in P.after[t]}

(* The layers of a plan follow each other without a gap.                   *)
Layers(p, layer) ==
    /\ layer \in [DOMAIN p -> Nat]
    /\ \A t, u \in DOMAIN p : layer[u] < layer[t] =>
         \E v \in DOMAIN p : layer[v] + 1 = layer[t]

(* A task comes after all tasks of lower layers, by induction on layers.   *)
LEMMA LowerLayersFirst ==
    ASSUME NEW p, NEW layer, NEW M, NEW replies, NEW B, Layers(p, layer),
           TableOf(plan(p, layer, M, replies), B)
    PROVE  \A t, u \in DOMAIN p : layer[u] < layer[t] => u \in B[t]
<1>1. PICK T : T = DOMAIN p
  OBVIOUS
<1>2. \A t \in T : layer[t] \in Nat
  BY <1>1 DEF Layers
<1>3. \A t, u, v \in T : /\ layer[u] + 1 = layer[t] => u \in B[t]
                         /\ layer[v] + 1 = layer[t] /\ u \in B[v] => u \in B[t]
  BY <1>1 DEF TableOf, plan
<1>4. PICK Bad : Bad = {n \in Nat : \E t, u \in T : n = layer[t] /\ layer[u] < n /\ u \notin B[t]}
  OBVIOUS
<1>5. ASSUME Bad # {} PROVE FALSE
  <2>1. PICK n \in Bad : \A m \in Bad : n <= m
    BY <1>4, <1>5, LeastNumber
  <2>2. PICK t \in T, u \in T : n = layer[t] /\ layer[u] < n /\ u \notin B[t]
    BY <1>4, <2>1
  <2>3. PICK v \in T : layer[v] + 1 = n
    BY <1>1, <2>2 DEF Layers
  <2>4. layer[v] \notin Bad
    BY <1>2, <1>4, <2>1, <2>3
  <2>5. layer[u] < layer[v]
    BY <1>2, <1>3, <2>2, <2>3
  <2>6. u \in B[v]
    BY <1>2, <1>4, <2>4, <2>5
  <2> QED  BY <1>3, <2>2, <2>3, <2>6
<1> QED  BY <1>1, <1>2, <1>4, <1>5

(* None of its keys but quality_approved is without the prefix of the run. *)
Prefixed(p) ==
    \A t \in DOMAIN p : p[t].writes \cap Unprefixed \subseteq {approved}

(* What each task reads a task of a lower layer wrote, and two of one      *)
(* layer share no key.                                                     *)
Supplied(p, layer) ==
    /\ \A t \in DOMAIN p : \A k \in p[t].reads :
         k # approved /\ \E u \in DOMAIN p : layer[u] < layer[t] /\ k \in p[u].writes
    /\ \A t, u \in DOMAIN p : \A k \in p[t].writes :
         (layer[t] = layer[u] /\ t # u) => k \notin p[u].reads \cup p[u].writes

(* Such a plan is well formed: the lower layers are what comes before.     *)
LEMMA PlanWellFormed ==
    ASSUME NEW p, NEW layer, NEW replies, NEW B, NEW P,
           P = plan(p, layer, DOMAIN p, replies),
           Layers(p, layer), Supplied(p, layer), Prefixed(p), TableOf(P, B),
           replies \subseteq DOMAIN p,
           \A t \in replies, u \in DOMAIN p : t # u => layer[u] < layer[t]
    PROVE  WellFormed(P, B)
<1>1. /\ DOMAIN P.after = DOMAIN p /\ P.members = DOMAIN p /\ P.replies = replies
      /\ \A t \in DOMAIN p : P.reads[t] = p[t].reads /\ P.writes[t] = p[t].writes
  BY DEF plan
<1>2. \A t, u \in DOMAIN p : layer[u] < layer[t] => u \in B[t]
  BY LowerLayersFirst
<1>3. ASSUME NEW t \in DOMAIN p, NEW k \in p[t].reads
      PROVE  k \notin Unprefixed /\ \E u \in B[t] : k \in P.writes[u]
  BY <1>1, <1>2, <1>3 DEF Supplied, Prefixed
<1>4. ASSUME NEW t \in DOMAIN p, NEW u \in DOMAIN p, t # u,
             NEW k \in p[t].writes \cap (p[u].reads \cup p[u].writes)
      PROVE  t \in B[u] \/ u \in B[t]
  <2>1. layer[t] # layer[u]
    BY <1>4 DEF Supplied
  <2>2. layer[t] \in Nat /\ layer[u] \in Nat
    BY DEF Layers
  <2> QED  BY <1>2, <2>1, <2>2
<1>5. ASSUME NEW t \in replies PROVE DOMAIN p = {t} \cup B[t]
  <2>1. t \in DOMAIN p /\ B[t] \subseteq DOMAIN p
    BY <1>1 DEF TableOf
  <2> QED  BY <1>2, <2>1
<1>6. \A t \in DOMAIN P.after : \A k \in P.reads[t] :
        k \notin Unprefixed /\ \E u \in B[t] : k \in P.writes[u]
  BY <1>1, <1>3
<1>7. \A t, u \in DOMAIN P.after : \A k \in P.writes[t] \cap (P.reads[u] \cup P.writes[u]) :
        (t # u /\ k \notin Unprefixed) => (t \in B[u] \/ u \in B[t])
  BY <1>1, <1>4
<1>8. \A t \in P.replies : DOMAIN P.after = {t} \cup B[t]
  BY <1>1, <1>5
<1> QED  BY <1>1, <1>6, <1>7, <1>8, Zenon DEF WellFormed

(* The same of a plan.                                                     *)
Filed(P) ==
    \A t \in DOMAIN P.writes : P.writes[t] \cap Unprefixed \subseteq {approved}

LEMMA FiledPlan ==
    ASSUME NEW p, NEW layer, NEW M, NEW replies, Filed(plan(p, layer, M, replies))
    PROVE  Prefixed(p)
  BY DEF Filed, Prefixed, plan

(* In a chain each task may read what any task before it wrote.            *)
Reads(p) ==
    \A t \in DOMAIN p : \A k \in p[t].reads :
        k # approved /\ \E u \in DOMAIN p : u < t /\ k \in p[u].writes

LEMMA InTurnWellFormed ==
    ASSUME NEW p, NEW n \in Nat, DOMAIN p = 1..n, NEW replies \in SUBSET {n},
           replies \subseteq 1..n, Reads(p), NEW P, NEW B,
           P = plan(p, inTurn(p), DOMAIN p, replies), TableOf(P, B), Filed(P)
    PROVE  WellFormed(P, B)
<1>1. PICK layer : layer = inTurn(p)
  OBVIOUS
<1>2. layer \in [1..n -> Nat] /\ \A t \in 1..n : layer[t] = t
  BY <1>1 DEF inTurn
<1>3. Layers(p, layer)
  <2> SUFFICES ASSUME NEW t \in 1..n, NEW u \in 1..n, u < t
               PROVE  \E v \in 1..n : layer[v] + 1 = t
    BY <1>2 DEF Layers
  <2>1. t - 1 \in 1..n /\ layer[t - 1] + 1 = t
    BY <1>2
  <2> QED  BY <2>1
<1>4. Supplied(p, layer)
  BY <1>2 DEF Supplied, Reads
<1>5. Prefixed(p)
  BY FiledPlan
<1>6. \A t \in replies, u \in DOMAIN p : t # u => layer[u] < layer[t]
  BY <1>2
<1> QED  BY <1>1, <1>3, <1>4, <1>5, <1>6, PlanWellFormed

(* With a role of its own, no task is missing among the members.           *)
OwnRoles(p) == \A i, j \in DOMAIN p : p[i].role = p[j].role => i = j

LEMMA AllMembers ==
    ASSUME NEW p, NEW n \in Nat, DOMAIN p = 1..n, OwnRoles(p)
    PROVE  oneTaskPerRole(p) = DOMAIN p
  BY DEF OwnRoles, oneTaskPerRole

LEMMA ChainWellFormed ==
    ASSUME NEW p, DOMAIN p = 1..Len(p), Len(p) \in Nat \ {0},
           Reads(p), OwnRoles(p), NEW B, TableOf(chain(p), B), Filed(chain(p))
    PROVE  WellFormed(chain(p), B)
<1>1. chain(p) = plan(p, inTurn(p), DOMAIN p, {Len(p)})
  BY AllMembers DEF chain, replying
<1>2. {Len(p)} \subseteq 1..Len(p)
  OBVIOUS
<1> QED  BY <1>1, <1>2, InTurnWellFormed

(* Numbers of the form size * m + k, with k below size.                    *)
LEMMA Remainder ==
    ASSUME NEW size \in Nat, size >= 1, NEW m \in Nat, NEW k \in 0..(size - 1)
    PROVE  (size * m + k) \div size = m /\ (size * m + k) % size = k
<1>1. PICK i : i = size * m + k
  OBVIOUS
<1>2. i \in Nat
  <2>1. size * m \in Nat
    OBVIOUS
  <2> QED  BY <1>1, <2>1
<1>3. PICK d, r : d = i \div size /\ r = i % size
  OBVIOUS
<1>4. d \in Int /\ r \in 0..(size - 1) /\ i = size * d + r
  BY <1>2, <1>3
<1>5. size * (m - d) = r - k /\ size * (d - m) = k - r
  BY <1>1, <1>4
<1>6. CASE m - d >= 1
  <2>1. size * (m - d) >= size
    BY <1>4, <1>6
  <2> QED  BY <1>4, <1>5, <2>1
<1>7. CASE d - m >= 1
  <2>1. size * (d - m) >= size
    BY <1>4, <1>7
  <2> QED  BY <1>4, <1>5, <2>1
<1>8. CASE m = d
  <2>1. r = k
    BY <1>4, <1>5, <1>8
  <2> QED  BY <1>1, <1>3, <1>8, <2>1
<1> QED  BY <1>4, <1>6, <1>7, <1>8

LEMMA Quotient ==
    ASSUME NEW size \in Nat, size >= 1, NEW n \in Nat, NEW i \in 1..(size * n)
    PROVE  LET m == ((i - 1) \div size) + 1
               k == ((i - 1) % size) + 1
           IN  m \in 1..n /\ k \in 1..size /\ i = size * (m - 1) + k
<1>1. PICK d, r : d = (i - 1) \div size /\ r = (i - 1) % size
  OBVIOUS
<1>2. i - 1 \in Nat /\ i <= size * n
  OBVIOUS
<1>3. d \in Nat /\ r \in 0..(size - 1) /\ i - 1 = size * d + r
  BY <1>1, <1>2
<1>4. ASSUME d >= n PROVE FALSE
  <2>1. PICK e \in Nat : d = n + e
    BY <1>3, <1>4
  <2>2. size * d = size * n + size * e /\ size * e >= 0
    BY <2>1
  <2> QED  BY <1>2, <1>3, <2>2
<1>5. d + 1 \in 1..n /\ r + 1 \in 1..size /\ i = size * d + (r + 1) /\ (d + 1) - 1 = d
  BY <1>2, <1>3, <1>4
<1> QED  BY <1>1, <1>5

(* The tasks of rounds of one size: place k of round m.                    *)
RoundsOf(p, round, n, size) ==
    /\ DOMAIN p = 1..(size * n)
    /\ \A i \in DOMAIN p : \E m \in 1..n, k \in 1..size :
         i = size * (m - 1) + k /\ p[i] = round[m][k]
    /\ \A m \in 1..n, k \in 1..size :
         /\ size * (m - 1) + k \in DOMAIN p
         /\ p[size * (m - 1) + k] = round[m][k]

LEMMA InRounds ==
    ASSUME NEW n \in Nat, NEW round, Len(round) = n, NEW size \in Nat, size >= 1
    PROVE  RoundsOf(inRounds(round, size), round, n, size)
<1>1. PICK p : p = inRounds(round, size)
  OBVIOUS
<1>2. DOMAIN p = 1..(size * n)
  BY <1>1 DEF inRounds
<1>3. \A i \in 1..(size * n) : p[i] = round[((i - 1) \div size) + 1][((i - 1) % size) + 1]
  BY <1>1 DEF inRounds
<1>4. ASSUME NEW i \in DOMAIN p
      PROVE  \E m \in 1..n, k \in 1..size : i = size * (m - 1) + k /\ p[i] = round[m][k]
  <2>1. PICK m, k : m = ((i - 1) \div size) + 1 /\ k = ((i - 1) % size) + 1
    OBVIOUS
  <2>2. m \in 1..n /\ k \in 1..size /\ i = size * (m - 1) + k
    <3>1. i \in 1..(size * n)
      BY <1>2
    <3> QED  BY <2>1, <3>1, Quotient
  <2>3. p[i] = round[m][k]
    BY <1>2, <1>3, <2>1
  <2> QED  BY <2>2, <2>3
<1>5. ASSUME NEW m \in 1..n, NEW k \in 1..size
      PROVE  /\ size * (m - 1) + k \in DOMAIN p
             /\ p[size * (m - 1) + k] = round[m][k]
  <2>1. PICK d, r, i : d = m - 1 /\ r = k - 1 /\ i = size * d + k
    OBVIOUS
  <2>2. d \in Nat /\ r \in 0..(size - 1) /\ d + 1 = m /\ r + 1 = k /\ size * d \in Nat
    BY <2>1
  <2>3. (size * d + r) \div size = d /\ (size * d + r) % size = r
    BY <2>2, Remainder
  <2>4. i - 1 = size * d + r /\ i \in Nat /\ i >= 1
    BY <2>1, <2>2
  <2>5. i <= size * n
    <3>1. PICK e \in Nat : n = d + 1 + e
      BY <2>1
    <3>2. size * n = size * d + size + size * e /\ size * e >= 0
      BY <2>2, <3>1
    <3> QED  BY <2>1, <2>2, <3>2
  <2>6. i \in 1..(size * n)
    BY <2>4, <2>5
  <2>7. p[i] = round[m][k]
    BY <1>3, <2>2, <2>3, <2>4, <2>6
  <2> QED  BY <1>2, <2>1, <2>6, <2>7
<1> QED  BY <1>1, <1>2, <1>4, <1>5 DEF RoundsOf

(* POST /workflows/pdca, with any number of cycles.                        *)
LEMMA PdcaWellFormed ==
    ASSUME NEW n \in Nat, NEW B, TableOf(pdca(n), B), Filed(pdca(n))
    PROVE  WellFormed(pdca(n), B)
<1>1. PICK round : round = [m \in 1..n |-> pdcaCycle(m)]
  OBVIOUS
<1>2. PICK p : p = inRounds(round, 4)
  OBVIOUS
<1>3. Len(round) = n /\ \A m \in 1..n : round[m] = pdcaCycle(m)
  BY <1>1
<1>4. RoundsOf(p, round, n, 4)
  BY <1>2, <1>3, InRounds
<1>5. Reads(p)
  <2> SUFFICES ASSUME NEW i \in DOMAIN p, NEW key \in p[i].reads
               PROVE  key # approved /\ \E u \in DOMAIN p : u < i /\ key \in p[u].writes
    BY DEF Reads
  <2>0. PICK m \in 1..n, k \in 1..4 : i = 4 * (m - 1) + k /\ p[i] = round[m][k]
    BY <1>4 DEF RoundsOf
  <2>1. i = 4 * (m - 1) + k /\ p[i] = pdcaCycle(m)[k]
    BY <1>3, <2>0
  <2>2. k # 1 /\ key # approved /\ key \in pdcaCycle(m)[k - 1].writes
    BY <2>1 DEF pdcaCycle, prompt, approved
  <2>3. PICK u : u = 4 * (m - 1) + (k - 1)
    OBVIOUS
  <2>4. k - 1 \in 1..4 /\ u < i
    BY <2>1, <2>2, <2>3
  <2>5. u \in DOMAIN p /\ p[u] = round[m][k - 1]
    BY <1>4, <2>3, <2>4, Zenon DEF RoundsOf
  <2>6. p[u] = pdcaCycle(m)[k - 1]
    BY <1>3, <2>5
  <2> QED  BY <2>2, <2>4, <2>5, <2>6
<1>6. pdca(n) = plan(p, inTurn(p), DOMAIN p, {})
  BY <1>1, <1>2 DEF pdca, everyTask
<1>7. 4 * n \in Nat
  OBVIOUS
<1> QED  BY <1>4, <1>5, <1>6, <1>7, InTurnWellFormed DEF RoundsOf

(* POST /workflows/paircoder, with any number of rounds.                   *)
LEMMA PaircoderWellFormed ==
    ASSUME NEW n \in Nat, NEW B, TableOf(paircoder(n), B), Filed(paircoder(n))
    PROVE  WellFormed(paircoder(n), B)
<1>1. PICK round : round = [m \in 1..n |-> paircoderRound(m, n)]
  OBVIOUS
<1>2. PICK p : p = inRounds(round, 2)
  OBVIOUS
<1>3. Len(round) = n /\ \A m \in 1..n : round[m] = paircoderRound(m, n)
  BY <1>1
<1>4. RoundsOf(p, round, n, 2)
  BY <1>2, <1>3, InRounds
<1>5. Reads(p)
  <2> SUFFICES ASSUME NEW i \in DOMAIN p, NEW key \in p[i].reads
               PROVE  key # approved /\ \E u \in DOMAIN p : u < i /\ key \in p[u].writes
    BY DEF Reads
  <2>0. PICK m \in 1..n, k \in 1..2 : i = 2 * (m - 1) + k /\ p[i] = round[m][k]
    BY <1>4 DEF RoundsOf
  <2>1. i = 2 * (m - 1) + k /\ p[i] = paircoderRound(m, n)[k]
    BY <1>3, <2>0
  <2>2. CASE k = 1
    <3>1. m # 1 /\ key = feedbackKey(m - 1) /\ key # approved
      BY <2>1, <2>2 DEF paircoderRound, prompt, approved, feedbackKey
    <3>2. PICK l \in 1..n : l = m - 1
      BY <3>1
    <3>3. 2 * (l - 1) + 2 \in DOMAIN p /\ p[2 * (l - 1) + 2] = round[l][2]
      BY <1>4 DEF RoundsOf
    <3>4. key \in paircoderRound(l, n)[2].writes
      BY <3>1, <3>2 DEF paircoderRound, prompt
    <3>5. 2 * (l - 1) + 2 < i
      BY <2>1, <2>2, <3>2
    <3> QED  BY <1>3, <3>1, <3>3, <3>4, <3>5
  <2>3. CASE k = 2
    <3>1. key # approved /\ key \in paircoderRound(m, n)[1].writes
      BY <2>1, <2>3 DEF paircoderRound, prompt, approved
    <3>2. 2 * (m - 1) + 1 \in DOMAIN p /\ p[2 * (m - 1) + 1] = round[m][1]
      BY <1>4 DEF RoundsOf
    <3>3. 2 * (m - 1) + 1 < i
      BY <2>1, <2>3
    <3> QED  BY <1>3, <3>1, <3>2, <3>3
  <2> QED  BY <2>2, <2>3
<1>6. paircoder(n) = plan(p, inTurn(p), DOMAIN p, {})
  BY <1>1, <1>2 DEF paircoder, everyTask
<1>7. 2 * n \in Nat
  OBVIOUS
<1> QED  BY <1>4, <1>5, <1>6, <1>7, InTurnWellFormed DEF RoundsOf

(* A task after those of a table of n.                                     *)
LEMMA OneMore ==
    ASSUME NEW n \in Nat, NEW q, DOMAIN q = 1..n, q = [i \in 1..n |-> q[i]], NEW e
    PROVE  LET p == Append(q, e)
           IN  /\ DOMAIN p = 1..(n + 1) /\ Len(p) = n + 1
               /\ p[n + 1] = e
               /\ \A i \in 1..n : p[i] = q[i]
<1>1. PICK S : S = {q[i] : i \in 1..n} \cup {e}
  OBVIOUS
<1>2. q \in [1..n -> S] /\ e \in S
  BY <1>1
<1>3. q \in Seq(S) /\ Len(q) = n
  BY <1>2
<1> QED  BY <1>2, <1>3

(* POST /workflows/debate, with any number of rounds.                      *)
LEMMA DebateWellFormed ==
    ASSUME NEW n \in Nat, NEW B, TableOf(debate(n), B), Filed(debate(n))
    PROVE  WellFormed(debate(n), B)
<1>1. PICK round : round = [m \in 1..n |-> debateRound(m)]
  OBVIOUS
<1>2. PICK q, p : q = inRounds(round, 2) /\ p = Append(q, debateJudge(n))
  OBVIOUS
<1>3. Len(round) = n /\ \A m \in 1..n : round[m] = debateRound(m)
  BY <1>1
<1>4. RoundsOf(q, round, n, 2)
  BY <1>2, <1>3, InRounds
<1>5. /\ DOMAIN p = 1..(2 * n + 1) /\ Len(p) = 2 * n + 1
      /\ p[2 * n + 1] = debateJudge(n)
      /\ \A i \in 1..(2 * n) : p[i] = q[i]
  <2>1. PICK N \in Nat : N = 2 * n
    OBVIOUS
  <2>2. q = [i \in 1..N |-> q[i]] /\ DOMAIN q = 1..N
    BY <1>2, <1>3, <2>1 DEF inRounds
  <2>3. PICK e : e = debateJudge(n)
    OBVIOUS
  <2>4. /\ DOMAIN p = 1..(N + 1) /\ Len(p) = N + 1 /\ p[N + 1] = e
        /\ \A i \in 1..N : p[i] = q[i]
    BY <1>2, <2>2, <2>3, OneMore
  <2>5. N + 1 = 2 * n + 1 /\ 1..N = 1..(2 * n)
    BY <2>1
  <2> QED  BY <2>3, <2>4, <2>5
<1>6. ASSUME NEW m \in 1..n, NEW k \in 1..2
      PROVE  2 * (m - 1) + k \in 1..(2 * n) /\ p[2 * (m - 1) + k] = debateRound(m)[k]
  <2>1. PICK i : i = 2 * (m - 1) + k
    OBVIOUS
  <2>2. i \in 1..(2 * n)
    BY <2>1
  <2>3. q[i] = round[m][k]
    BY <1>4, <2>1, Zenon DEF RoundsOf
  <2> QED  BY <1>3, <1>5, <2>1, <2>2, <2>3
<1>7. ASSUME NEW i \in 1..(2 * n)
      PROVE  \E m \in 1..n, k \in 1..2 : i = 2 * (m - 1) + k /\ p[i] = debateRound(m)[k]
  <2>1. PICK m \in 1..n, k \in 1..2 : i = 2 * (m - 1) + k /\ q[i] = round[m][k]
    BY <1>4, Zenon DEF RoundsOf
  <2>2. p[i] = debateRound(m)[k]
    BY <1>3, <1>5, <2>1
  <2> QED  BY <2>1, <2>2
<1>8. Reads(p)
  <2> SUFFICES ASSUME NEW i \in DOMAIN p, NEW key \in p[i].reads
               PROVE  key # approved /\ \E u \in DOMAIN p : u < i /\ key \in p[u].writes
    BY DEF Reads
  <2>1. CASE i = 2 * n + 1
    <3>1. PICK m \in 1..n, k \in 1..2 : key \in debateRound(m)[k].writes /\ key # approved
      <4>1. PICK m \in 1..n : key \in {advocateKey(m), criticKey(m)}
        BY <1>5, <2>1 DEF debateJudge, prompt
      <4>2. key # approved
        BY <4>1 DEF advocateKey, criticKey, approved
      <4>3. key \in debateRound(m)[1].writes \/ key \in debateRound(m)[2].writes
        BY <4>1 DEF debateRound, prompt
      <4> QED  BY <4>2, <4>3
    <3>2. PICK u : u = 2 * (m - 1) + k
      OBVIOUS
    <3>3. u \in 1..(2 * n) /\ p[u] = debateRound(m)[k]
      BY <1>6, <3>2
    <3>4. u < i /\ u \in DOMAIN p
      BY <1>5, <2>1, <3>3
    <3> QED  BY <3>1, <3>3, <3>4
  <2>2. CASE i \in 1..(2 * n)
    <3>1. PICK m \in 1..n, k \in 1..2 : i = 2 * (m - 1) + k /\ p[i] = debateRound(m)[k]
      BY <1>7, <2>2
    <3>2. CASE k = 1
      <4>1. m # 1 /\ key = criticKey(m - 1) /\ key # approved
        BY <3>1, <3>2 DEF debateRound, prompt, approved, criticKey
      <4>2. PICK l \in 1..n : l = m - 1
        BY <4>1
      <4>3. key \in debateRound(l)[2].writes
        BY <4>1, <4>2 DEF debateRound, prompt
      <4>4. 2 * (l - 1) + 2 < i
        BY <3>1, <3>2, <4>2
      <4>5. 2 * (l - 1) + 2 \in 1..(2 * n) /\ p[2 * (l - 1) + 2] = debateRound(l)[2]
        BY <1>6
      <4> QED  BY <1>5, <4>1, <4>3, <4>4, <4>5
    <3>3. CASE k = 2
      <4>1. key # approved /\ key \in debateRound(m)[1].writes
        BY <3>1, <3>3 DEF debateRound, prompt, approved, advocateKey
      <4>2. 2 * (m - 1) + 1 < i
        BY <3>1, <3>3
      <4>3. 2 * (m - 1) + 1 \in 1..(2 * n) /\ p[2 * (m - 1) + 1] = debateRound(m)[1]
        BY <1>6
      <4> QED  BY <1>5, <4>1, <4>2, <4>3
    <3> QED  BY <3>2, <3>3
  <2> QED  BY <1>5, <2>1, <2>2
<1>9. OwnRoles(p)
  <2> SUFFICES ASSUME NEW i \in DOMAIN p, NEW j \in DOMAIN p, p[i].role = p[j].role
               PROVE  i = j
    BY DEF OwnRoles
  <2>1. \A m \in 1..n, k \in 1..2 :
          debateRound(m)[k].role = IF k = 1 THEN <<"advocate", m>> ELSE <<"critic", m>>
    BY DEF debateRound, prompt
  <2>2. debateJudge(n).role = <<"judge">>
    BY DEF debateJudge, prompt
  <2>3. ASSUME NEW x \in 1..(2 * n) PROVE p[x].role # <<"judge">>
    BY <1>7, <2>1
  <2>4. CASE i \in 1..(2 * n) /\ j \in 1..(2 * n)
    <3>1. PICK m \in 1..n, k \in 1..2 : i = 2 * (m - 1) + k /\ p[i] = debateRound(m)[k]
      BY <1>7, <2>4
    <3>2. PICK o \in 1..n, l \in 1..2 : j = 2 * (o - 1) + l /\ p[j] = debateRound(o)[l]
      BY <1>7, <2>4
    <3>3. m = o /\ k = l
      BY <2>1, <3>1, <3>2
    <3> QED  BY <3>1, <3>2, <3>3
  <2> QED  BY <1>5, <2>2, <2>3, <2>4
<1>10. debate(n) = plan(p, inTurn(p), DOMAIN p, {2 * n + 1})
  <2>1. 2 * n + 1 \in Nat
    OBVIOUS
  <2>2. oneTaskPerRole(p) = DOMAIN p
    BY <1>5, <1>9, <2>1, AllMembers
  <2> QED  BY <1>1, <1>2, <1>5, <2>2 DEF debate, chain, replying
<1>11. 2 * n + 1 \in Nat /\ {2 * n + 1} \subseteq 1..(2 * n + 1)
  OBVIOUS
<1> QED  BY <1>5, <1>8, <1>10, <1>11, InTurnWellFormed

(* In a diamond the first, if there is one, reads nothing, those in the    *)
(* middle read what it writes and share no key, and the last reads what    *)
(* the others write.                                                       *)
Diamond(first, middle, e) ==
    LET a == DOMAIN first
        b == DOMAIN middle
    IN  /\ Len(first) <= 1 /\ Len(middle) >= 1
        /\ \A i \in a : first[i].reads = {}
        /\ \A j \in b : \A k \in middle[j].reads :
             k # approved /\ \E i \in a : k \in first[i].writes
        /\ \A k \in e.reads : /\ k # approved
                              /\ \/ \E i \in a : k \in first[i].writes
                                 \/ \E j \in b : k \in middle[j].writes
        /\ \A i, j \in b : i # j =>
             \A k \in middle[i].writes : k \notin middle[j].reads \cup middle[j].writes
        /\ \A i \in a : first[i].role # e.role
        /\ \A j \in b : middle[j].role # e.role /\ \A i \in a : middle[j].role # first[i].role
        /\ \A i, j \in b : middle[i].role = middle[j].role => i = j

LEMMA ThreeParts ==
    ASSUME NEW S, NEW first \in Seq(S), NEW middle \in Seq(S), NEW e \in S
    PROVE  LET p == first \o middle \o <<e>>
               a == Len(first)
               b == Len(middle)
           IN  /\ DOMAIN p = 1..(a + b + 1) /\ Len(p) = a + b + 1
               /\ \A i \in 1..a : p[i] = first[i]
               /\ \A i \in 1..b : p[a + i] = middle[i]
               /\ \A i \in 1..(a + b) : i > a => i - a \in 1..b /\ p[i] = middle[i - a]
               /\ p[a + b + 1] = e
  OBVIOUS

LEMMA DiamondWellFormed ==
    ASSUME NEW S, NEW first \in Seq(S), NEW middle \in Seq(S), NEW e \in S,
           Diamond(first, middle, e), NEW P, P = diamond(first, middle, <<e>>),
           NEW B, TableOf(P, B), Filed(P)
    PROVE  WellFormed(P, B)
<1>1. PICK p, a, b : p = first \o middle \o <<e>> /\ a = Len(first) /\ b = Len(middle)
  OBVIOUS
<1>2. PICK layer : layer = [i \in DOMAIN p |-> IF i <= a THEN 1 ELSE IF i <= a + b THEN 2 ELSE 3]
  OBVIOUS
<1>3. a \in {0, 1} /\ b \in Nat /\ b >= 1 /\ DOMAIN first = 1..a /\ DOMAIN middle = 1..b
  BY <1>1 DEF Diamond
<1>4. /\ DOMAIN p = 1..(a + b + 1) /\ Len(p) = a + b + 1
      /\ \A i \in 1..a : p[i] = first[i]
      /\ \A i \in 1..b : p[a + i] = middle[i]
      /\ \A i \in 1..(a + b) : i > a => i - a \in 1..b /\ p[i] = middle[i - a]
      /\ p[a + b + 1] = e
  BY <1>1, ThreeParts
<1>5. \A i \in DOMAIN p :
        /\ layer[i] = 1 \/ layer[i] = 2 \/ layer[i] = 3
        /\ layer[i] = 1 <=> i \in 1..a
        /\ layer[i] = 2 <=> i - a \in 1..b
        /\ layer[i] = 3 <=> i = a + b + 1
  BY <1>2, <1>3, <1>4
<1>6. Layers(p, layer)
  <2>1. layer \in [DOMAIN p -> Nat]
    BY <1>2
  <2>2. a + 1 \in DOMAIN p /\ layer[a + 1] = 2
    BY <1>2, <1>3, <1>4
  <2> QED  BY <1>5, <2>1, <2>2 DEF Layers
<1>7. ASSUME NEW t \in DOMAIN p, NEW k \in p[t].reads
      PROVE  k # approved /\ \E u \in DOMAIN p : layer[u] < layer[t] /\ k \in p[u].writes
  <2>1. CASE layer[t] = 1
    BY <1>3, <1>4, <1>5, <1>7, <2>1 DEF Diamond
  <2>2. CASE layer[t] = 2
    <3>1. t - a \in 1..b /\ p[t] = middle[t - a]
      BY <1>3, <1>4, <1>5, <2>2
    <3>2. k # approved /\ \E i \in 1..a : k \in first[i].writes
      BY <1>3, <1>7, <3>1 DEF Diamond
    <3>3. PICK i \in 1..a : k \in first[i].writes
      BY <3>2
    <3>4. i \in DOMAIN p /\ layer[i] < layer[t] /\ p[i] = first[i]
      BY <1>2, <1>3, <1>4, <2>2
    <3> QED  BY <3>2, <3>3, <3>4
  <2>3. CASE layer[t] = 3
    <3>1. p[t] = e
      BY <1>4, <1>5, <2>3
    <3>2. /\ k # approved
          /\ (\E i \in 1..a : k \in first[i].writes) \/ \E j \in 1..b : k \in middle[j].writes
      BY <1>3, <1>7, <3>1 DEF Diamond
    <3>3. CASE \E i \in 1..a : k \in first[i].writes
      <4>1. PICK i \in 1..a : k \in first[i].writes
        BY <3>3
      <4>2. i \in DOMAIN p /\ layer[i] < layer[t] /\ p[i] = first[i]
        BY <1>2, <1>3, <1>4, <2>3
      <4> QED  BY <3>2, <4>1, <4>2
    <3>4. CASE \E j \in 1..b : k \in middle[j].writes
      <4>1. PICK j \in 1..b : k \in middle[j].writes
        BY <3>4
      <4>2. a + j \in DOMAIN p /\ layer[a + j] < layer[t] /\ p[a + j] = middle[j]
        BY <1>2, <1>3, <1>4, <2>3
      <4> QED  BY <3>2, <4>1, <4>2
    <3> QED  BY <3>2, <3>3, <3>4
  <2> QED  BY <1>5, <2>1, <2>2, <2>3
<1>8. ASSUME NEW t \in DOMAIN p, NEW u \in DOMAIN p, NEW k \in p[t].writes,
             layer[t] = layer[u], t # u
      PROVE  k \notin p[u].reads \cup p[u].writes
  <2>1. layer[t] = 2 /\ layer[u] = 2
    BY <1>3, <1>5, <1>8
  <2>2. t - a \in 1..b /\ u - a \in 1..b
    BY <1>5, <2>1
  <2>3. t \in 1..(a + b) /\ t > a /\ u \in 1..(a + b) /\ u > a
    BY <1>3, <1>4, <2>2
  <2>4. p[t] = middle[t - a] /\ p[u] = middle[u - a]
    BY <1>4, <2>3
  <2>5. t - a # u - a
    BY <1>3, <1>4, <1>8
  <2> QED  BY <1>3, <1>8, <2>2, <2>4, <2>5 DEF Diamond
<1>9. Supplied(p, layer)
  BY <1>7, <1>8 DEF Supplied
<1>10. oneTaskPerRole(p) = DOMAIN p
  <2>1. \A i \in 1..a : p[i].role = first[i].role
    BY <1>4
  <2>2. \A i \in DOMAIN p : i - a \in 1..b => p[i].role = middle[i - a].role
    BY <1>3, <1>4
  <2>3. p[a + b + 1].role = e.role
    BY <1>4
  <2>4. ASSUME NEW i \in DOMAIN p, NEW j \in DOMAIN p, p[i].role = p[j].role
        PROVE  layer[i] = layer[j]
    BY <1>3, <1>5, <2>1, <2>2, <2>3, <2>4 DEF Diamond
  <2>5. ASSUME NEW i \in DOMAIN p, NEW j \in DOMAIN p, p[i].role = p[j].role
        PROVE  i = j
    <3>1. CASE layer[i] = 2
      <4>1. i - a \in 1..b /\ j - a \in 1..b
        BY <1>5, <2>4, <2>5, <3>1
      <4>2. i - a = j - a
        BY <1>3, <2>2, <2>5, <4>1 DEF Diamond
      <4> QED  BY <1>3, <1>4, <4>2
    <3>2. CASE layer[i] # 2
      BY <1>3, <1>5, <2>4, <2>5, <3>2
    <3> QED  BY <3>1, <3>2
  <2>6. OwnRoles(p)
    BY <2>5 DEF OwnRoles
  <2>7. PICK n \in Nat : n = a + b + 1
    BY <1>3
  <2> QED  BY <1>4, <2>6, <2>7, AllMembers
<1>11. P = plan(p, layer, DOMAIN p, {Len(p)})
  BY <1>1, <1>2, <1>10 DEF diamond, replying
<1>12. Prefixed(p)
  BY <1>11, FiledPlan
<1>13. {Len(p)} \subseteq DOMAIN p /\ \A t \in {Len(p)}, u \in DOMAIN p : t # u => layer[u] < layer[t]
  BY <1>2, <1>3, <1>4
<1> QED  BY <1>6, <1>9, <1>11, <1>12, <1>13, PlanWellFormed

(* One task per name, the names cleaned, and one after them.               *)
Apart(safe) == safe # <<>> /\ \A i, j \in DOMAIN safe : safe[i] = safe[j] => i = j

LEMMA PerName ==
    ASSUME NEW S, NEW safe \in Seq(S), Apart(safe), NEW x, NEW e,
           NEW middle, middle = [i \in DOMAIN safe |-> middle[i]]
    PROVE  \E T : /\ middle \in Seq(T) /\ <<x>> \in Seq(T) /\ e \in T
                  /\ Len(middle) >= 1 /\ DOMAIN middle = DOMAIN safe
<1>1. PICK T : T = {middle[i] : i \in DOMAIN safe} \cup {x, e}
  OBVIOUS
<1>2. DOMAIN safe = 1..Len(safe) /\ Len(safe) >= 1 /\ Len(safe) \in Nat
  BY DEF Apart
<1>3. middle \in [1..Len(safe) -> T]
  BY <1>1, <1>2
<1>4. middle \in Seq(T) /\ Len(middle) = Len(safe)
  BY <1>2, <1>3
<1>5. <<x>> \in Seq(T) /\ e \in T
  BY <1>1
<1> QED  BY <1>2, <1>4, <1>5

(* POST /workflows/competition.                                            *)
LEMMA CompetitionWellFormed ==
    ASSUME NEW S, NEW safe \in Seq(S), Apart(safe), NEW B,
           TableOf(competition(safe), B), Filed(competition(safe))
    PROVE  WellFormed(competition(safe), B)
<1>1. PICK middle, e :
        /\ middle = competitionSolvers(safe)
        /\ e = prompt(<<"judge">>, {<<"solver", safe[i]>> : i \in DOMAIN safe}, {<<"judge">>})
  OBVIOUS
<1>2. DOMAIN middle = DOMAIN safe
  BY <1>1 DEF competitionSolvers
<1>3. \A i \in DOMAIN safe : /\ middle[i].role = <<"solver", safe[i]>>
                             /\ middle[i].reads = {}
                             /\ middle[i].writes = {<<"solver", safe[i]>>}
  BY <1>1 DEF competitionSolvers, prompt
<1>4. e.role = <<"judge">> /\ e.reads = {<<"solver", safe[i]>> : i \in DOMAIN safe}
  BY <1>1 DEF prompt
<1>5. PICK T : middle \in Seq(T) /\ <<>> \in Seq(T) /\ e \in T /\ Len(middle) >= 1
  <2>1. middle = [i \in DOMAIN safe |-> middle[i]]
    BY <1>1 DEF competitionSolvers
  <2>2. PICK T : middle \in Seq(T) /\ <<e>> \in Seq(T) /\ e \in T /\ Len(middle) >= 1
    BY <2>1, PerName
  <2> QED  BY <2>2
<1>6. Diamond(<<>>, middle, e)
  <2>1. \A i, j \in DOMAIN middle : i # j =>
          \A k \in middle[i].writes : k \notin middle[j].reads \cup middle[j].writes
    BY <1>2, <1>3 DEF Apart
  <2>2. \A k \in e.reads : k # approved /\ \E j \in DOMAIN middle : k \in middle[j].writes
    BY <1>2, <1>3, <1>4 DEF approved
  <2>3. \A j \in DOMAIN middle : middle[j].role # e.role /\ middle[j].reads = {}
    BY <1>2, <1>3, <1>4
  <2>4. \A i, j \in DOMAIN middle : middle[i].role = middle[j].role => i = j
    BY <1>2, <1>3 DEF Apart
  <2> QED  BY <1>5, <2>1, <2>2, <2>3, <2>4 DEF Diamond
<1>7. competition(safe) = diamond(<<>>, middle, <<e>>)
  BY <1>1 DEF competition
<1> QED  BY <1>5, <1>6, <1>7, DiamondWellFormed

(* POST /workflows/mob-review.                                             *)
LEMMA MobReviewWellFormed ==
    ASSUME NEW S, NEW safe \in Seq(S), Apart(safe), NEW B,
           TableOf(mob_review(safe), B), Filed(mob_review(safe))
    PROVE  WellFormed(mob_review(safe), B)
<1>1. PICK middle, e :
        /\ middle = mob_reviewers(safe)
        /\ e = prompt(<<"synthesizer">>, {<<"review", safe[i]>> : i \in DOMAIN safe}, {<<"synthesis">>})
  OBVIOUS
<1>2. DOMAIN middle = DOMAIN safe
  BY <1>1 DEF mob_reviewers
<1>3. \A i \in DOMAIN safe : /\ middle[i].role = <<"reviewer", safe[i]>>
                             /\ middle[i].reads = {}
                             /\ middle[i].writes = {<<"review", safe[i]>>}
  BY <1>1 DEF mob_reviewers, prompt
<1>4. e.role = <<"synthesizer">> /\ e.reads = {<<"review", safe[i]>> : i \in DOMAIN safe}
  BY <1>1 DEF prompt
<1>5. PICK T : middle \in Seq(T) /\ <<>> \in Seq(T) /\ e \in T /\ Len(middle) >= 1
  <2>1. middle = [i \in DOMAIN safe |-> middle[i]]
    BY <1>1 DEF mob_reviewers
  <2>2. PICK T : middle \in Seq(T) /\ <<e>> \in Seq(T) /\ e \in T /\ Len(middle) >= 1
    BY <2>1, PerName
  <2> QED  BY <2>2
<1>6. Diamond(<<>>, middle, e)
  <2>1. \A i, j \in DOMAIN middle : i # j =>
          \A k \in middle[i].writes : k \notin middle[j].reads \cup middle[j].writes
    BY <1>2, <1>3 DEF Apart
  <2>2. \A k \in e.reads : k # approved /\ \E j \in DOMAIN middle : k \in middle[j].writes
    BY <1>2, <1>3, <1>4 DEF approved
  <2>3. \A j \in DOMAIN middle : middle[j].role # e.role /\ middle[j].reads = {}
    BY <1>2, <1>3, <1>4
  <2>4. \A i, j \in DOMAIN middle : middle[i].role = middle[j].role => i = j
    BY <1>2, <1>3 DEF Apart
  <2> QED  BY <1>5, <2>1, <2>2, <2>3, <2>4 DEF Diamond
<1>7. mob_review(safe) = diamond(<<>>, middle, <<e>>)
  BY <1>1 DEF mob_review
<1> QED  BY <1>5, <1>6, <1>7, DiamondWellFormed

(* POST /workflows/ddd with contexts in the body.                          *)
LEMMA DDDWellFormed ==
    ASSUME NEW S, NEW safe \in Seq(S), Apart(safe), NEW B,
           TableOf(ddd(safe), B), Filed(ddd(safe))
    PROVE  WellFormed(ddd(safe), B)
<1>1. PICK x, middle, e :
        /\ x = contextMapper /\ middle = domainExperts(safe)
        /\ e = integrationDesigner({<<"domain", safe[i]>> : i \in DOMAIN safe})
  OBVIOUS
<1>2. DOMAIN middle = DOMAIN safe
  BY <1>1 DEF domainExperts
<1>3. \A i \in DOMAIN safe : /\ middle[i].role = <<"domain_expert", safe[i]>>
                             /\ middle[i].reads = {<<"bounded_contexts">>}
                             /\ middle[i].writes = {<<"domain", safe[i]>>}
  BY <1>1 DEF domainExperts, prompt
<1>4. /\ e.role = <<"integration_designer">>
      /\ e.reads = {<<"bounded_contexts">>} \cup {<<"domain", safe[i]>> : i \in DOMAIN safe}
  BY <1>1 DEF integrationDesigner, prompt
<1>5. x.role = <<"context_mapper">> /\ x.reads = {} /\ <<"bounded_contexts">> \in x.writes
  BY <1>1 DEF contextMapper, prompt
<1>6. PICK T : middle \in Seq(T) /\ <<x>> \in Seq(T) /\ e \in T /\ Len(middle) >= 1
  <2>1. middle = [i \in DOMAIN safe |-> middle[i]]
    BY <1>1 DEF domainExperts
  <2> QED  BY <2>1, PerName
<1>7. Diamond(<<x>>, middle, e)
  <2>1. Len(<<x>>) = 1 /\ DOMAIN <<x>> = {1} /\ <<x>>[1] = x
    OBVIOUS
  <2>2. \A i, j \in DOMAIN middle : i # j =>
          \A k \in middle[i].writes : k \notin middle[j].reads \cup middle[j].writes
    BY <1>2, <1>3 DEF Apart
  <2>3. \A k \in e.reads : /\ k # approved
                           /\ k \in x.writes \/ \E j \in DOMAIN middle : k \in middle[j].writes
    BY <1>2, <1>3, <1>4, <1>5 DEF approved
  <2>4. \A j \in DOMAIN middle : /\ middle[j].role # e.role /\ middle[j].role # x.role
                                 /\ \A k \in middle[j].reads : k # approved /\ k \in x.writes
    BY <1>2, <1>3, <1>4, <1>5 DEF approved
  <2>5. \A i, j \in DOMAIN middle : middle[i].role = middle[j].role => i = j
    BY <1>2, <1>3 DEF Apart
  <2>6. x.role # e.role
    BY <1>4, <1>5
  <2>7. PICK f : f = <<x>> /\ Len(f) = 1 /\ DOMAIN f = {1} /\ f[1] = x
    BY <2>1
  <2>8. /\ Len(f) <= 1 /\ Len(middle) >= 1
        /\ \A i \in DOMAIN f : f[i].reads = {} /\ f[i].role # e.role
    BY <1>5, <1>6, <2>6, <2>7
  <2>9. \A j \in DOMAIN middle : /\ middle[j].role # e.role
                                 /\ \A i \in DOMAIN f : middle[j].role # f[i].role
    BY <2>4, <2>7
  <2>10. \A j \in DOMAIN middle : \A k \in middle[j].reads :
           k # approved /\ \E i \in DOMAIN f : k \in f[i].writes
    BY <2>4, <2>7
  <2>11. \A k \in e.reads : /\ k # approved
                            /\ \/ \E i \in DOMAIN f : k \in f[i].writes
                               \/ \E j \in DOMAIN middle : k \in middle[j].writes
    BY <2>3, <2>7
  <2>12. Diamond(f, middle, e)
    BY <2>2, <2>5, <2>8, <2>9, <2>10, <2>11, Zenon DEF Diamond
  <2> QED  BY <2>7, <2>12
<1>8. ddd(safe) = diamond(<<x>>, middle, <<e>>)
  BY <1>1 DEF ddd
<1> QED  BY <1>6, <1>7, <1>8, DiamondWellFormed

(* What an expert reads and writes in a round.                             *)
Expert(prompted, m, name) ==
    /\ prompted.reads = IF m = 1 THEN {} ELSE {<<"r", m - 1, "moderator">>}
    /\ prompted.writes = {<<"r", m, name>>}

(* POST /workflows/delphi, with any experts and any number of rounds.      *)
LEMMA DelphiWellFormed ==
    ASSUME NEW S, NEW names \in Seq(S), Apart(names), NEW n \in Nat, NEW B,
           TableOf(delphi(names, n), B), Filed(delphi(names, n))
    PROVE  WellFormed(delphi(names, n), B)
<1>1. PICK z, size : z = Len(names) /\ size = z + 1
  OBVIOUS
<1>2. z \in Nat /\ z >= 1 /\ size \in Nat /\ size >= 2 /\ DOMAIN names = 1..z
  BY <1>1 DEF Apart
<1>3. PICK round, q, p, N :
        /\ round = [m \in 1..n |-> Append(experts(names, m), moderator(names, m))]
        /\ q = inRounds(round, size) /\ p = Append(q, consensus(n)) /\ N = size * n
  OBVIOUS
<1>4. PICK layer : layer = [i \in DOMAIN p |-> IF i % size = 0 THEN 2 * (i \div size)
                                               ELSE 2 * (i \div size) + 1]
  OBVIOUS
<1>5. N \in Nat
  BY <1>2, <1>3
<1>6. RoundsOf(q, round, n, size)
  <2>1. Len(round) = n
    BY <1>3
  <2> QED  BY <1>2, <1>3, <2>1, InRounds
<1>7. /\ DOMAIN p = 1..(N + 1) /\ Len(p) = N + 1 /\ p[N + 1] = consensus(n)
      /\ \A i \in 1..N : i \in DOMAIN p /\ p[i] = q[i]
  <2>1. DOMAIN q = 1..N
    BY <1>3, <1>6 DEF RoundsOf
  <2>2. q = [i \in DOMAIN q |-> q[i]]
    <3>1. q = inRounds(round, size)
      BY <1>3
    <3> QED  BY <3>1 DEF inRounds
  <2>3. PICK e : e = consensus(n) /\ p = Append(q, e)
    BY <1>3
  <2>4. q = [i \in 1..N |-> q[i]]
    BY <2>1, <2>2
  <2>5. /\ DOMAIN Append(q, e) = 1..(N + 1) /\ Len(Append(q, e)) = N + 1
        /\ Append(q, e)[N + 1] = e
        /\ \A i \in 1..N : Append(q, e)[i] = q[i]
    BY <1>5, <2>1, <2>4, OneMore
  <2>6. \A i \in 1..N : i \in 1..(N + 1)
    BY <1>5
  <2> QED  BY <2>3, <2>5, <2>6
<1>8. ASSUME NEW m \in 1..n
      PROVE  /\ \A k \in 1..z : round[m][k] = experts(names, m)[k]
             /\ round[m][size] = moderator(names, m)
  <2>1. PICK x, e : x = experts(names, m) /\ e = moderator(names, m)
    OBVIOUS
  <2>2. DOMAIN x = 1..z /\ x = [i \in 1..z |-> x[i]]
    BY <1>2, <2>1 DEF experts
  <2>3. Append(x, e)[z + 1] = e /\ \A i \in 1..z : Append(x, e)[i] = x[i]
    BY <1>2, <2>2, OneMore
  <2>4. round[m] = Append(x, e)
    BY <1>3, <2>1
  <2> QED  BY <1>1, <2>1, <2>3, <2>4
(* Where the tasks of a round are, and what their layers are.              *)
<1>9. ASSUME NEW m \in 1..n, NEW k \in 1..z
      PROVE  \E i \in 1..N : i = size * (m - 1) + k /\ layer[i] = 2 * m - 1 /\ Expert(p[i], m, names[k])
  <2>1. PICK i, d : i = size * (m - 1) + k /\ d = m - 1
    OBVIOUS
  <2>2. k \in 1..size
    BY <1>1, <1>2
  <2>3. i \in 1..N /\ q[i] = round[m][k]
    BY <1>3, <1>6, <2>1, <2>2, Zenon DEF RoundsOf
  <2>4. i % size = k /\ i \div size = d
    <3>1. d \in Nat /\ k \in 0..(size - 1) /\ i = size * d + k
      BY <1>1, <1>2, <2>1
    <3> QED  BY <1>2, <3>1, Remainder
  <2>5. layer[i] = 2 * m - 1
    BY <1>4, <1>5, <1>7, <2>1, <2>3, <2>4
  <2>6. p[i] = experts(names, m)[k]
    BY <1>7, <1>8, <2>3
  <2>7. Expert(p[i], m, names[k])
    <3>1. k \in DOMAIN names
      BY <1>2
    <3>2. p[i] = prompt(<<"expert", names[k], m>>, IF m = 1 THEN {} ELSE {moderatorKey(m - 1)},
                        {expertKey(m, names[k])})
      BY <2>6, <3>1 DEF experts
    <3> QED  BY <3>2 DEF prompt, expertKey, moderatorKey, Expert
  <2> QED  BY <2>1, <2>3, <2>5, <2>7
<1>10. ASSUME NEW m \in 1..n
       PROVE  \E i \in 1..N : /\ i = size * (m - 1) + size
                              /\ p[i] = moderator(names, m) /\ layer[i] = 2 * m
  <2>1. PICK i : i = size * (m - 1) + size
    OBVIOUS
  <2>2. size \in 1..size
    BY <1>2
  <2>3. i \in 1..N /\ q[i] = round[m][size]
    BY <1>3, <1>6, <2>1, <2>2, Zenon DEF RoundsOf
  <2>4. i % size = 0 /\ i \div size = m
    <3>1. m \in Nat /\ 0 \in 0..(size - 1)
      BY <1>2
    <3>2. i = size * m + 0
      BY <1>2, <2>1
    <3> QED  BY <1>2, <3>1, <3>2, Remainder
  <2>5. layer[i] = 2 * m
    BY <1>4, <1>5, <1>7, <2>3, <2>4
  <2> QED  BY <1>7, <1>8, <2>1, <2>3, <2>5
<1>11. layer[N + 1] = 2 * n + 1
  <2>1. 1 \in 0..(size - 1)
    BY <1>2
  <2>2. (N + 1) % size = 1 /\ (N + 1) \div size = n
    BY <1>2, <1>3, <2>1, Remainder
  <2> QED  BY <1>4, <1>5, <1>7, <2>2
<1>12. ASSUME NEW i \in 1..N
       PROVE  \E m \in 1..n :
                \/ \E k \in 1..z : /\ i = size * (m - 1) + k /\ layer[i] = 2 * m - 1
                                   /\ Expert(p[i], m, names[k])
                \/ /\ i = size * (m - 1) + size
                   /\ p[i] = moderator(names, m) /\ layer[i] = 2 * m
  <2>1. PICK m \in 1..n, k \in 1..size : i = size * (m - 1) + k
    <3>1. \A j \in 1..N : \E m \in 1..n, k \in 1..size : j = size * (m - 1) + k
      <4>1. \A j \in DOMAIN q : \E m \in 1..n, k \in 1..size : j = size * (m - 1) + k
        BY <1>6, Zenon DEF RoundsOf
      <4>2. DOMAIN q = 1..N
        BY <1>3, <1>6, Zenon DEF RoundsOf
      <4> QED  BY <4>1, <4>2, Zenon
    <3> QED  BY <3>1, Zenon
  <2>2. CASE k = size
    BY <1>10, <2>1, <2>2
  <2>3. CASE k # size
    <3>1. k \in 1..z
      BY <1>1, <1>2, <2>3
    <3>2. PICK j \in 1..N : /\ j = size * (m - 1) + k /\ layer[j] = 2 * m - 1
                            /\ Expert(p[j], m, names[k])
      BY <1>9, <3>1
    <3>3. j = i
      BY <2>1, <3>2
    <3> QED  BY <2>1, <3>1, <3>2, <3>3
  <2> QED  BY <2>2, <2>3
(* The prompts.                                                            *)
<1>14. ASSUME NEW m \in 1..n
       PROVE  /\ moderator(names, m).writes = {<<"r", m, "moderator">>}
              /\ moderator(names, m).reads = {<<"r", m, names[k]>> : k \in 1..z}
  BY <1>2 DEF moderator, prompt, expertKey, moderatorKey
<1>15. consensus(n).reads = {<<"r", m, "moderator">> : m \in 1..n}
  BY DEF consensus, prompt, moderatorKey
<1>16. ASSUME NEW i \in 1..N PROVE layer[i] \in Nat /\ layer[i] >= 1 /\ layer[i] <= 2 * n
  BY <1>12
<1>17. Layers(p, layer)
  <2>1. layer \in [DOMAIN p -> Nat]
    <3>1. \A i \in DOMAIN p : layer[i] \in Nat
      BY <1>5, <1>7, <1>11, <1>16
    <3> QED  BY <1>4, <3>1
  <2>2. ASSUME NEW t \in DOMAIN p, NEW u \in DOMAIN p, layer[u] < layer[t]
        PROVE  \E v \in DOMAIN p : layer[v] + 1 = layer[t]
    <3>1. layer[u] >= 1 /\ layer[u] \in Nat
      BY <1>5, <1>7, <1>11, <1>16
    <3>2. CASE t = N + 1
      <4>1. layer[t] = 2 * n + 1
        BY <1>11, <3>2
      <4>2. n \in 1..n
        BY <2>2, <3>1, <4>1
      <4>3. PICK v \in 1..N : layer[v] = 2 * n
        BY <1>10, <4>2
      <4> QED  BY <1>7, <4>1, <4>3
    <3>3. CASE t \in 1..N
      <4>1. PICK m \in 1..n : layer[t] = 2 * m - 1 \/ layer[t] = 2 * m
        BY <1>12, <3>3
      <4>2. CASE layer[t] = 2 * m - 1
        <5>1. m - 1 \in 1..n
          BY <2>2, <3>1, <4>2
        <5>2. PICK v \in 1..N : layer[v] = 2 * (m - 1)
          BY <1>10, <5>1
        <5> QED  BY <1>7, <4>2, <5>2
      <4>3. CASE layer[t] = 2 * m
        <5>1. 1 \in 1..z
          BY <1>2
        <5>2. PICK v \in 1..N : layer[v] = 2 * m - 1
          BY <1>9, <5>1
        <5> QED  BY <1>7, <4>3, <5>2
      <4> QED  BY <4>1, <4>2, <4>3
    <3> QED  BY <1>5, <1>7, <3>2, <3>3
  <2> QED  BY <2>1, <2>2 DEF Layers
<1>18. ASSUME NEW t \in DOMAIN p, NEW key \in p[t].reads
       PROVE  key # approved /\ \E u \in DOMAIN p : layer[u] < layer[t] /\ key \in p[u].writes
  <2>1. CASE t = N + 1
    <3>1. PICK m \in 1..n : key = <<"r", m, "moderator">>
      BY <1>7, <1>15, <1>18, <2>1
    <3>2. PICK u \in 1..N : p[u] = moderator(names, m) /\ layer[u] = 2 * m
      BY <1>10
    <3>3. key # approved /\ p[u].writes = {<<"r", m, "moderator">>}
      BY <1>14, <3>1, <3>2 DEF approved
    <3>4. u \in DOMAIN p /\ layer[u] < layer[t]
      BY <1>7, <1>11, <2>1, <3>2
    <3> QED  BY <3>1, <3>3, <3>4
  <2>2. CASE t \in 1..N
    <3>1. PICK m \in 1..n :
            \/ \E k \in 1..z : layer[t] = 2 * m - 1 /\ Expert(p[t], m, names[k])
            \/ p[t] = moderator(names, m) /\ layer[t] = 2 * m
      BY <1>12, <2>2
    <3>2. CASE \E k \in 1..z : layer[t] = 2 * m - 1 /\ Expert(p[t], m, names[k])
      <4>1. layer[t] = 2 * m - 1 /\ m # 1 /\ key = <<"r", m - 1, "moderator">>
        BY <1>18, <3>2 DEF Expert
      <4>2. PICK l \in 1..n : l = m - 1
        BY <4>1
      <4>3. PICK u \in 1..N : p[u] = moderator(names, l) /\ layer[u] = 2 * l
        BY <1>10
      <4>4. key # approved /\ p[u].writes = {<<"r", l, "moderator">>}
        BY <1>14, <4>1, <4>3 DEF approved
      <4>5. u \in DOMAIN p /\ layer[u] < layer[t]
        BY <1>7, <4>1, <4>2, <4>3
      <4> QED  BY <4>1, <4>2, <4>4, <4>5
    <3>3. CASE p[t] = moderator(names, m) /\ layer[t] = 2 * m
      <4>1. PICK k \in 1..z : key = <<"r", m, names[k]>>
        BY <1>14, <1>18, <3>3
      <4>2. PICK u \in 1..N : layer[u] = 2 * m - 1 /\ Expert(p[u], m, names[k])
        BY <1>9
      <4>3. key # approved /\ p[u].writes = {<<"r", m, names[k]>>}
        BY <4>1, <4>2 DEF approved, Expert
      <4>4. u \in DOMAIN p /\ layer[u] < layer[t]
        BY <1>7, <3>3, <4>2
      <4> QED  BY <4>1, <4>3, <4>4
    <3> QED  BY <3>1, <3>2, <3>3
  <2> QED  BY <1>5, <1>7, <2>1, <2>2
<1>19. ASSUME NEW t \in DOMAIN p, NEW u \in DOMAIN p, NEW key \in p[t].writes,
              layer[t] = layer[u], t # u
       PROVE  key \notin p[u].reads \cup p[u].writes
  <2>1. t \in 1..N /\ u \in 1..N
    BY <1>5, <1>7, <1>11, <1>16, <1>19
  <2>2. PICK m \in 1..n :
          \/ \E k \in 1..z : /\ t = size * (m - 1) + k /\ layer[t] = 2 * m - 1
                             /\ Expert(p[t], m, names[k])
          \/ t = size * (m - 1) + size /\ layer[t] = 2 * m
    BY <1>12, <2>1
  <2>3. PICK l \in 1..n :
          \/ \E k \in 1..z : /\ u = size * (l - 1) + k /\ layer[u] = 2 * l - 1
                             /\ Expert(p[u], l, names[k])
          \/ u = size * (l - 1) + size /\ layer[u] = 2 * l
    BY <1>12, <2>1
  <2>4. m = l
    BY <1>19, <2>2, <2>3
  <2>5. layer[t] # 2 * m
    BY <1>19, <2>2, <2>3, <2>4
  <2>6. PICK k \in 1..z : t = size * (m - 1) + k /\ Expert(p[t], m, names[k])
    BY <2>2, <2>5
  <2>7. PICK j \in 1..z : u = size * (m - 1) + j /\ Expert(p[u], m, names[j])
    BY <1>19, <2>3, <2>4, <2>5
  <2>8. names[k] # names[j]
    BY <1>2, <1>19, <2>6, <2>7 DEF Apart
  <2>9. key = <<"r", m, names[k]>>
    BY <1>19, <2>6 DEF Expert
  <2> QED  BY <2>7, <2>8, <2>9 DEF Expert
<1>20. Supplied(p, layer)
  BY <1>18, <1>19 DEF Supplied
<1>21. PICK P : P = delphi(names, n)
  OBVIOUS
<1>22. P = plan(p, layer, DOMAIN p, {Len(p)})
  BY <1>1, <1>3, <1>4, <1>21 DEF delphi, everyTask
<1>23. Prefixed(p)
  BY <1>21, <1>22, FiledPlan
<1>24. /\ {Len(p)} \subseteq DOMAIN p
       /\ \A t \in {Len(p)}, u \in DOMAIN p : t # u => layer[u] < layer[t]
  BY <1>5, <1>7, <1>11, <1>16
<1> QED  BY <1>17, <1>20, <1>21, <1>22, <1>23, <1>24, PlanWellFormed

(* The endpoints that make a chain of fixed length.                        *)
LEMMA TddWellFormed ==
    ASSUME NEW B, TableOf(tdd, B), Filed(tdd)
    PROVE  WellFormed(tdd, B)
<1>1. PICK p : p = tddPrompts
  OBVIOUS
<1>2. PICK n \in Nat : n = 3
  OBVIOUS
<1>3. DOMAIN p = 1..n
  BY <1>1, <1>2 DEF tddPrompts
<1>4. Reads(p)
  BY <1>1 DEF tddPrompts, Reads, prompt, approved
<1>5. tdd = plan(p, inTurn(p), DOMAIN p, {n})
  BY <1>1, <1>2 DEF tdd, everyTask
<1>6. {n} \subseteq 1..n
  BY <1>2
<1> QED  BY <1>3, <1>4, <1>5, <1>6, InTurnWellFormed

(* The others take a task for each role.                                   *)
Chains == {adr, redblue, socratic, pair, fulldev, clean_arch, spec_first, iterative_review, spec_first_tdd, agentmesh, mutation_test, refactor}

LEMMA ChainsWellFormed ==
    ASSUME NEW P \in Chains, NEW B, TableOf(P, B), Filed(P)
    PROVE  WellFormed(P, B)
<1>1. CASE P = adr
  <2>1. PICK p : p = adrPrompts /\ P = chain(p)
    BY <1>1 DEF adr
  <2>2. DOMAIN p = 1..Len(p) /\ Len(p) \in Nat \ {0}
    BY <2>1 DEF adrPrompts
  <2>3. Reads(p)
    BY <2>1 DEF adrPrompts, Reads, prompt, approved
  <2>4. OwnRoles(p)
    BY <2>1 DEF adrPrompts, OwnRoles, prompt
  <2> QED  BY <2>1, <2>2, <2>3, <2>4, ChainWellFormed
<1>2. CASE P = redblue
  <2>1. PICK p : p = redbluePrompts /\ P = chain(p)
    BY <1>2 DEF redblue
  <2>2. DOMAIN p = 1..Len(p) /\ Len(p) \in Nat \ {0}
    BY <2>1 DEF redbluePrompts, redblueAttack
  <2>3. Reads(p)
    BY <2>1 DEF redbluePrompts, redblueAttack, Reads, prompt, approved
  <2>4. OwnRoles(p)
    BY <2>1 DEF redbluePrompts, redblueAttack, OwnRoles, prompt
  <2> QED  BY <2>1, <2>2, <2>3, <2>4, ChainWellFormed
<1>3. CASE P = socratic
  <2>1. PICK p : p = socraticPrompts /\ P = chain(p)
    BY <1>3 DEF socratic
  <2>2. DOMAIN p = 1..Len(p) /\ Len(p) \in Nat \ {0}
    BY <2>1 DEF socraticPrompts
  <2>3. Reads(p)
    BY <2>1 DEF socraticPrompts, Reads, prompt, approved
  <2>4. OwnRoles(p)
    BY <2>1 DEF socraticPrompts, OwnRoles, prompt
  <2> QED  BY <2>1, <2>2, <2>3, <2>4, ChainWellFormed
<1>4. CASE P = pair
  <2>1. PICK p : p = pairPrompts /\ P = chain(p)
    BY <1>4 DEF pair
  <2>2. DOMAIN p = 1..Len(p) /\ Len(p) \in Nat \ {0}
    BY <2>1 DEF pairPrompts
  <2>3. Reads(p)
    BY <2>1 DEF pairPrompts, Reads, prompt, approved
  <2>4. OwnRoles(p)
    BY <2>1 DEF pairPrompts, OwnRoles, prompt
  <2> QED  BY <2>1, <2>2, <2>3, <2>4, ChainWellFormed
<1>5. CASE P = fulldev
  <2>1. PICK p : p = fulldevPrompts \o fulldevBuild /\ P = chain(p)
    BY <1>5 DEF fulldev
  <2>2. DOMAIN p = 1..Len(p) /\ Len(p) \in Nat \ {0}
    BY <2>1 DEF fulldevPrompts, fulldevBuild
  <2>3. Reads(p)
    BY <2>1 DEF fulldevPrompts, fulldevBuild, Reads, prompt, approved
  <2>4. OwnRoles(p)
    BY <2>1 DEF fulldevPrompts, fulldevBuild, OwnRoles, prompt
  <2> QED  BY <2>1, <2>2, <2>3, <2>4, ChainWellFormed
<1>6. CASE P = clean_arch
  <2>1. PICK p : p = Append(clean_archPrompts, frameworkDesigner) /\ P = chain(p)
    BY <1>6 DEF clean_arch
  <2>2. DOMAIN p = 1..Len(p) /\ Len(p) \in Nat \ {0}
    BY <2>1 DEF clean_archPrompts, frameworkDesigner
  <2>3. Reads(p)
    BY <2>1 DEF clean_archPrompts, frameworkDesigner, Reads, prompt, approved
  <2>4. OwnRoles(p)
    BY <2>1 DEF clean_archPrompts, frameworkDesigner, OwnRoles, prompt
  <2> QED  BY <2>1, <2>2, <2>3, <2>4, ChainWellFormed
<1>7. CASE P = spec_first
  <2>1. PICK p : p = spec_firstPrompts /\ P = chain(p)
    BY <1>7 DEF spec_first
  <2>2. DOMAIN p = 1..Len(p) /\ Len(p) \in Nat \ {0}
    BY <2>1 DEF spec_firstPrompts
  <2>3. Reads(p)
    BY <2>1 DEF spec_firstPrompts, Reads, prompt, approved
  <2>4. OwnRoles(p)
    BY <2>1 DEF spec_firstPrompts, OwnRoles, prompt
  <2> QED  BY <2>1, <2>2, <2>3, <2>4, ChainWellFormed
<1>8. CASE P = iterative_review
  <2>1. PICK p : p = iterative_reviewPrompts /\ P = chain(p)
    BY <1>8 DEF iterative_review
  <2>2. DOMAIN p = 1..Len(p) /\ Len(p) \in Nat \ {0}
    BY <2>1 DEF iterative_reviewPrompts
  <2>3. Reads(p)
    BY <2>1 DEF iterative_reviewPrompts, Reads, prompt, approved
  <2>4. OwnRoles(p)
    BY <2>1 DEF iterative_reviewPrompts, OwnRoles, prompt
  <2> QED  BY <2>1, <2>2, <2>3, <2>4, ChainWellFormed
<1>9. CASE P = spec_first_tdd
  <2>1. PICK p : p = spec_first_tddPrompts /\ P = chain(p)
    BY <1>9 DEF spec_first_tdd
  <2>2. DOMAIN p = 1..Len(p) /\ Len(p) \in Nat \ {0}
    BY <2>1 DEF spec_first_tddPrompts
  <2>3. Reads(p)
    BY <2>1 DEF spec_first_tddPrompts, Reads, prompt, approved
  <2>4. OwnRoles(p)
    BY <2>1 DEF spec_first_tddPrompts, OwnRoles, prompt
  <2> QED  BY <2>1, <2>2, <2>3, <2>4, ChainWellFormed
<1>10. CASE P = agentmesh
  <2>1. PICK p : p = agentmeshPrompts /\ P = chain(p)
    BY <1>10 DEF agentmesh
  <2>2. DOMAIN p = 1..Len(p) /\ Len(p) \in Nat \ {0}
    BY <2>1 DEF agentmeshPrompts
  <2>3. Reads(p)
    BY <2>1 DEF agentmeshPrompts, Reads, prompt, approved
  <2>4. OwnRoles(p)
    BY <2>1 DEF agentmeshPrompts, OwnRoles, prompt
  <2> QED  BY <2>1, <2>2, <2>3, <2>4, ChainWellFormed
<1>11. CASE P = mutation_test
  <2>1. PICK p : p = mutation_testPrompts /\ P = chain(p)
    BY <1>11 DEF mutation_test
  <2>2. DOMAIN p = 1..Len(p) /\ Len(p) \in Nat \ {0}
    BY <2>1 DEF mutation_testPrompts
  <2>3. Reads(p)
    BY <2>1 DEF mutation_testPrompts, Reads, prompt, approved
  <2>4. OwnRoles(p)
    BY <2>1 DEF mutation_testPrompts, OwnRoles, prompt
  <2> QED  BY <2>1, <2>2, <2>3, <2>4, ChainWellFormed
<1>12. CASE P = refactor
  <2>1. PICK p : p = refactorPrompts /\ P = chain(p)
    BY <1>12 DEF refactor
  <2>2. DOMAIN p = 1..Len(p) /\ Len(p) \in Nat \ {0}
    BY <2>1 DEF refactorPrompts
  <2>3. Reads(p)
    BY <2>1 DEF refactorPrompts, Reads, prompt, approved
  <2>4. OwnRoles(p)
    BY <2>1 DEF refactorPrompts, OwnRoles, prompt
  <2> QED  BY <2>1, <2>2, <2>3, <2>4, ChainWellFormed
<1> QED  BY <1>1, <1>2, <1>3, <1>4, <1>5, <1>6, <1>7, <1>8, <1>9, <1>10, <1>11, <1>12 DEF Chains

(* POST /workflows/peer-review.                                            *)
LEMMA PeerReviewWellFormed ==
    ASSUME NEW B, TableOf(peer_review, B), Filed(peer_review)
    PROVE  WellFormed(peer_review, B)
<1>1. PICK x, y, e :
        /\ x = peer_implementers[1] /\ y = peer_implementers[2]
        /\ e = prompt(<<"reviewer">>, {<<"impl_a">>, <<"impl_b">>}, {<<"review">>, <<"winner">>})
  OBVIOUS
<1>2. peer_review = diamond(<<>>, <<x, y>>, <<e>>)
  BY <1>1 DEF peer_review, peer_implementers
<1>3. Diamond(<<>>, <<x, y>>, e)
  BY <1>1 DEF Diamond, peer_implementers, prompt, approved
<1>4. PICK S : S = {x, y, e}
  OBVIOUS
<1>5. <<>> \in Seq(S) /\ <<x, y>> \in Seq(S) /\ e \in S
  BY <1>4
<1> QED  BY <1>2, <1>3, <1>5, DiamondWellFormed

(* POST /workflows/code-audit.                                             *)
LEMMA CodeAuditWellFormed ==
    ASSUME NEW B, TableOf(code_audit, B), Filed(code_audit)
    PROVE  WellFormed(code_audit, B)
<1>1. PICK x, y, z, e :
        /\ x = prompt(<<"implementer">>, {}, {<<"impl">>})
        /\ y = code_auditors[1] /\ z = code_auditors[2]
        /\ e = prompt(<<"synthesizer">>,
                      {<<"security_audit">>, <<"performance_audit">>, <<"impl">>},
                      {<<"audit_report">>})
  OBVIOUS
<1>2. code_audit = diamond(<<x>>, <<y, z>>, <<e>>)
  BY <1>1 DEF code_audit, code_auditors
<1>3. Diamond(<<x>>, <<y, z>>, e)
  BY <1>1 DEF Diamond, code_auditors, prompt, approved
<1>4. PICK S : S = {x, y, z, e}
  OBVIOUS
<1>5. <<x>> \in Seq(S) /\ <<y, z>> \in Seq(S) /\ e \in S
  BY <1>4
<1> QED  BY <1>2, <1>3, <1>5, DiamondWellFormed

-----------------------------------------------------------------------------
(* The plans the endpoints make of the bodies web/schemas.py accepts, and  *)
(* of more rounds, cycles and names than it does, of which no two are one  *)
(* when cleaned.  Missing is ddd without contexts, whose plan is not well  *)
(* formed.                                                                 *)
FromTemplate(P, Name) ==
    \/ P \in Chains \cup {tdd, peer_review, code_audit}
    \/ \E n \in Nat : P \in {debate(n), paircoder(n), pdca(n)}
    \/ \E safe \in Seq(Name) :
         /\ Apart(safe)
         /\ \/ P \in {competition(safe), mob_review(safe), ddd(safe)}
            \/ \E n \in Nat : P = delphi(safe, n)

LEMMA TemplateWellFormed ==
    ASSUME NEW P, NEW Name, FromTemplate(P, Name), NEW B, TableOf(P, B), Filed(P)
    PROVE  WellFormed(P, B)
<1>1. CASE P \in Chains \cup {tdd, peer_review, code_audit}
  BY <1>1, TddWellFormed, ChainsWellFormed, PeerReviewWellFormed, CodeAuditWellFormed
<1>2. CASE \E n \in Nat : P \in {debate(n), paircoder(n), pdca(n)}
  BY <1>2, DebateWellFormed, PaircoderWellFormed, PdcaWellFormed
<1>3. ASSUME NEW safe \in Seq(Name), Apart(safe),
             P \in {competition(safe), mob_review(safe), ddd(safe)}
      PROVE  WellFormed(P, B)
  BY <1>3, CompetitionWellFormed, MobReviewWellFormed, DDDWellFormed
<1>4. ASSUME NEW safe \in Seq(Name), Apart(safe), NEW n \in Nat, P = delphi(safe, n)
      PROVE  WellFormed(P, B)
  BY <1>4, DelphiWellFormed
<1> QED  BY <1>1, <1>2, <1>3, <1>4 DEF FromTemplate

(* Each body is one of a template, or its plan is well formed anyway.      *)
Ready(Name) ==
    \A b \in Body : \/ FromTemplate(Plan[b], Name) /\ Filed(Plan[b])
                    \/ WellFormed(Plan[b], Before[b])

(* Each task of a template's plan is told to read only what a task that it *)
(* comes after writes, and tasks at work at the same time share no key,    *)
(* whatever the number of rounds and names of the request.                 *)
THEOREM TemplatesAreOrderly == ASSUME NEW Name, Ready(Name) PROVE Orderly
<1>1. ASSUME NEW b \in Body PROVE TableOf(Plan[b], Before[b])
  BY BeforeAssumption DEF TableOf, tasks
<1> QED  BY <1>1, TemplateWellFormed DEF Ready, Orderly

(* So runs of the workflow endpoints go well, side by side and with others *)
(* whose plans are well formed: only a run that was given the same prefix  *)
(* can put something else where one of them reads.                         *)
THEOREM TemplateRunsGoWell ==
    ASSUME NEW Name, Ready(Name)
    PROVE  Spec => [](InputsReady /\ NothingLost /\ RunReported /\ ReplyLast)
<1>1. Orderly
  BY TemplatesAreOrderly
<1> QED  BY <1>1, InputsAreReady, NothingIsLost, RunsAreReported, RepliesComeLast, PTL

=============================================================================
