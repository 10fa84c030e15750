------------------------- MODULE SupervisionProofs -------------------------
(***************************************************************************)
(* Proofs about Supervision: the types of its variables, and that an agent *)
(* the dispatch loop sees IDLE has a run loop, however many restarts,      *)
(* resets and recoveries there are; and when the breaker stands in an      *)
(* agent's way, whatever its tasks report.                                 *)
(***************************************************************************)
EXTENDS Supervision, FiniteSetTheorems, WellFoundedInduction, TLAPS

-----------------------------------------------------------------------------
(* The breaker.                                                            *)

LEMMA FreshType == fresh \in Breaker
BY DEF fresh, Breaker

LEMMA AskedType == ASSUME NEW b \in Breaker PROVE asked(b) \in Breaker
BY DEF asked, _to_half_open, Breaker

LEMMA SuccessType == ASSUME NEW b \in Breaker PROVE record_success(b) \in Breaker
<1>1. b.state \in {"CLOSED", "OPEN", "HALF_OPEN"}
  BY DEF Breaker
<1> QED  BY <1>1, FreshType DEF record_success, Breaker

LEMMA FailureType == ASSUME NEW b \in Breaker PROVE record_failure(b) \in Breaker
<1> DEFINE counted == [b EXCEPT !.failures = IF @ < FailureThreshold THEN @ + 1 ELSE @]
<1>1. counted \in Breaker
  BY BreakerAssumption DEF Breaker
<1> HIDE DEF counted
<1>2. _to_open(counted) \in Breaker
  BY <1>1 DEF _to_open, Breaker
<1>3. record_failure(b) \in {counted, _to_open(counted)}
  BY DEF record_failure, counted
<1> QED  BY <1>1, <1>2, <1>3

-----------------------------------------------------------------------------
(* What stop(), start() and a run loop that goes back do to the objects.   *)

LEMMA Stops ==
    ASSUME ObjectTypes, LiveHasLoop, NEW x, stop(x)
    PROVE  ObjectTypes' /\ LiveHasLoop'
<1>1. ObjectTypes'
  BY DEF ObjectTypes, stop, Status
<1>2. ASSUME NEW o \in Object, status'[o] \in {"IDLE", "BUSY"}
      PROVE  loops(o)' # {}
  <2>1. o # x
    BY <1>2 DEF stop, ObjectTypes
  <2>2. status'[o] = status[o] /\ loop'[o] = loop[o]
    BY <2>1 DEF stop, ObjectTypes
  <2> QED  BY <1>2, <2>2 DEF LiveHasLoop, loops
<1> QED  BY <1>1, <1>2 DEF LiveHasLoop

LEMMA Starts ==
    ASSUME ObjectTypes, LiveHasLoop, NEW x, start(x)
    PROVE  ObjectTypes' /\ LiveHasLoop'
<1>1. PICK l \in Loop :
        /\ status' = [status EXCEPT ![x] = "IDLE"]
        /\ loop' = [loop EXCEPT ![x][l] = "inbox"]
        /\ runTask' = [runTask EXCEPT ![x] = l]
        /\ UNCHANGED <<current, inbox>>
  BY DEF start
<1>2. ObjectTypes'
  BY <1>1 DEF ObjectTypes, Status
<1>3. ASSUME NEW o \in Object, status'[o] \in {"IDLE", "BUSY"}
      PROVE  loops(o)' # {}
  <2>1. CASE o = x
    <3>1. loop'[o][l] = "inbox"
      BY <1>1, <2>1 DEF ObjectTypes
    <3> QED  BY <3>1 DEF loops
  <2>2. CASE o # x
    <3>1. status'[o] = status[o] /\ loop'[o] = loop[o]
      BY <1>1, <2>2 DEF ObjectTypes
    <3> QED  BY <1>3, <3>1 DEF LiveHasLoop, loops
  <2> QED  BY <2>1, <2>2
<1> QED  BY <1>2, <1>3 DEF LiveHasLoop

LEMMA StartRaises ==
    ASSUME ObjectTypes, LiveHasLoop, NEW x, startRaises(x, "ERROR")
    PROVE  ObjectTypes' /\ LiveHasLoop'
<1>1. ObjectTypes'
  BY DEF ObjectTypes, startRaises, Status
<1>2. ASSUME NEW o \in Object, status'[o] \in {"IDLE", "BUSY"}
      PROVE  status[o] = status'[o] /\ loop' = loop
  BY <1>2 DEF startRaises, ObjectTypes
<1> QED  BY <1>1, <1>2 DEF LiveHasLoop, loops

(* A run loop ends only where the status is STOPPED or ERROR.              *)
LEMMA GoesBack ==
    ASSUME ObjectTypes, LiveHasLoop, NEW x \in Object, NEW l \in Loop,
           loop[x][l] = "task",
           status' \in [Object -> Status],
           \A o \in Object \ {x} : status'[o] = status[o],
           goesBack(x, l)
    PROVE  /\ loop' \in [Object -> [Loop -> {"none", "inbox", "task"}]]
           /\ runTask' \in [Object -> Loop \cup {0}]
           /\ LiveHasLoop'
<1>1. /\ loop' \in [Object -> [Loop -> {"none", "inbox", "task"}]]
      /\ runTask' \in [Object -> Loop \cup {0}]
  BY DEF goesBack, ObjectTypes
<1>2. ASSUME NEW o \in Object, status'[o] \in {"IDLE", "BUSY"}
      PROVE  loops(o)' # {}
  <2>1. CASE o = x
    <3>1. loop'[o][l] = "inbox"
      BY <1>2, <2>1 DEF goesBack, ObjectTypes
    <3> QED  BY <3>1 DEF loops
  <2>2. CASE o # x
    <3>1. status'[o] = status[o] /\ loop'[o] = loop[o]
      BY <2>2 DEF goesBack, ObjectTypes
    <3> QED  BY <1>2, <3>1 DEF LiveHasLoop, loops
  <2> QED  BY <2>1, <2>2
<1> QED  BY <1>1, <1>2 DEF LiveHasLoop

(* _set_idle makes an object IDLE only if it was at work before.           *)
LEMMA SetsIdle ==
    ASSUME ObjectTypes, NEW x, _set_idle(x)
    PROVE  /\ status' \in [Object -> Status]
           /\ current' \in [Object -> Loop \cup {0}]
           /\ \A o \in Object : status'[o] \in {"IDLE", "BUSY"} =>
                                    status[o] \in {"IDLE", "BUSY"}
           /\ \A o \in Object \ {x} : status'[o] = status[o]
BY DEF _set_idle, ObjectTypes, Status

LEMMA ObjectsUnchanged ==
    ASSUME ObjectTypes, LiveHasLoop, UNCHANGED objectVars
    PROVE  ObjectTypes' /\ LiveHasLoop'
BY DEF ObjectTypes, LiveHasLoop, loops, objectVars

-----------------------------------------------------------------------------
(* The bus, the coroutines and what else a step writes.                    *)

LEMMA Publishes ==
    ASSUME CountTypes, NEW r \in {"success", "retried", "failed"}, publish(r)
    PROVE  bus' \in Seq({"success", "retried", "failed"}) /\ Len(bus') <= MaxResults
BY SupervisionAssumption DEF CountTypes, publish

LEMMA PublishesError ==
    ASSUME CountTypes, NEW k, publishError(k)
    PROVE  /\ bus' \in Seq({"success", "retried", "failed"}) /\ Len(bus') <= MaxResults
           /\ final' \in 0..FinalFailures
<1>1. CASE publish("retried") /\ UNCHANGED final
  BY <1>1, Publishes DEF CountTypes
<1>2. CASE final < FinalFailures /\ publish("failed") /\ final' = final + 1
  <2>1. final' \in 0..FinalFailures
    BY <1>2, SupervisionAssumption DEF CountTypes
  <2> QED  BY <1>2, <2>1, Publishes
<1> QED  BY <1>1, <1>2 DEF publishError

LEMMA Receives ==
    ASSUME CountTypes, bus # <<>>, bus' = Tail(bus)
    PROVE  bus' \in Seq({"success", "retried", "failed"}) /\ Len(bus') <= MaxResults
BY SupervisionAssumption DEF CountTypes

LEMMA Begins ==
    ASSUME CoroutineTypes, NEW w \in {"restart", "reset"},
           NEW t \in {"scheduled", "starting"}, NEW x \in Object \cup {0}, begin(w, t, x)
    PROVE  job' \in [Job -> [what : {"none", "restart", "reset"},
                             at : {"scheduled", "stopping", "starting", "end"},
                             object : Object \cup {0}]]
BY DEF CoroutineTypes, begin

LEMMA GoesOn ==
    ASSUME CoroutineTypes, NEW j \in Job, NEW t \in {"stopping", "starting"},
           NEW x \in Object \cup {0}, goesOn(j, t, x)
    PROVE  job' \in [Job -> [what : {"none", "restart", "reset"},
                             at : {"scheduled", "stopping", "starting", "end"},
                             object : Object \cup {0}]]
<1> DEFINE What == {"none", "restart", "reset"}
           At == {"scheduled", "stopping", "starting", "end"}
<1>1. /\ job \in [Job -> [what : What, at : At, object : Object \cup {0}]]
      /\ job' = [job EXCEPT ![j] = [job[j] EXCEPT !.at = t, !.object = x]]
  BY DEF CoroutineTypes, goesOn
<1>2. t \in At
  OBVIOUS
<1> HIDE DEF What, At
<1>3. [job[j] EXCEPT !.at = t, !.object = x] \in [what : What, at : At, object : Object \cup {0}]
  BY <1>1, <1>2
<1>4. job' \in [Job -> [what : What, at : At, object : Object \cup {0}]]
  BY <1>1, <1>3
<1> QED  BY <1>4 DEF What, At

LEMMA Ends ==
    ASSUME CoroutineTypes, NEW j \in Job, ends(j)
    PROVE  job' \in [Job -> [what : {"none", "restart", "reset"},
                             at : {"scheduled", "stopping", "starting", "end"},
                             object : Object \cup {0}]]
BY DEF CoroutineTypes, ends, NoJob

-----------------------------------------------------------------------------
(* The invariant is inductive.                                             *)

LEMMA InitInv == Init => SupervisionInv
<1> SUFFICES ASSUME Init PROVE SupervisionInv
  OBVIOUS
<1>1. 1 \in Object /\ 1 \in Loop
  BY SupervisionAssumption DEF Object, Loop
<1>2. ObjectTypes
  BY <1>1 DEF Init, ObjectTypes, Status
<1>3. CountTypes
  <2>1. busySince \in BOOLEAN /\ givenUp \in BOOLEAN
    BY DEF Init
  <2>2. /\ registered \in Object /\ breaker \in Breaker
        /\ streak \in Nat /\ attempts \in Nat
        /\ final \in 0..FinalFailures /\ resets \in 0..MaxResets
    BY <1>1, FreshType, SupervisionAssumption DEF Init
  <2>3. bus \in Seq({"success", "retried", "failed"}) /\ Len(bus) <= MaxResults
    BY SupervisionAssumption DEF Init
  <2> QED  BY <2>1, <2>2, <2>3 DEF CountTypes
<1>4. CoroutineTypes
  BY DEF Init, CoroutineTypes, NoJob, Asleep
<1>5. ASSUME NEW o \in Object, status[o] \in {"IDLE", "BUSY"}
      PROVE  loops(o) # {}
  <2>1. o = 1
    BY <1>5 DEF Init
  <2>2. loop[o][1] = "inbox"
    BY <1>1, <2>1 DEF Init
  <2> QED  BY <1>1, <2>2 DEF loops
<1> QED  BY <1>2, <1>3, <1>4, <1>5 DEF SupervisionInv, TypeOK, LiveHasLoop

LEMMA RunLoopInv ==
    ASSUME SupervisionInv, NEW o \in Object, NEW l \in Loop,
           _run_loop(o, l) \/ dispatchRaises(o, l)
    PROVE  SupervisionInv'
<1> USE DEF SupervisionInv, TypeOK
<1>1. CASE takeTask(o, l)
  <2>1. ObjectTypes'
    BY <1>1 DEF takeTask, ObjectTypes, Status
  <2>2. ASSUME NEW p \in Object, status'[p] \in {"IDLE", "BUSY"}
        PROVE  loops(p)' # {}
    <3>1. CASE p = o
      <4>1. loop'[p][l] = "task"
        BY <1>1, <3>1 DEF takeTask, ObjectTypes
      <4> QED  BY <4>1 DEF loops
    <3>2. CASE p # o
      <4>1. status'[p] = status[p] /\ loop'[p] = loop[p]
        BY <1>1, <3>2 DEF takeTask, ObjectTypes
      <4> QED  BY <2>2, <4>1 DEF LiveHasLoop, loops
    <3> QED  BY <3>1, <3>2
  <2>3. CountTypes' /\ CoroutineTypes'
    BY <1>1 DEF takeTask, CountTypes, CoroutineTypes, registryVars, countVars, boundVars
  <2> QED  BY <2>1, <2>2, <2>3 DEF LiveHasLoop
<1>2. CASE waitReturns(o, l)
  <2>1. ObjectTypes' /\ LiveHasLoop'
    <3>1. status' = status /\ status \in [Object -> Status] /\ loop[o][l] = "task"
      BY <1>2 DEF waitReturns, ObjectTypes
    <3> QED  BY <1>2, <3>1, GoesBack DEF waitReturns, ObjectTypes
  <2>2. CountTypes' /\ CoroutineTypes'
    BY <1>2 DEF waitReturns, CountTypes, CoroutineTypes, registryVars, countVars, boundVars
  <2> QED  BY <2>1, <2>2
<1>3. CASE timesOut(o, l)
  <2>1. ObjectTypes' /\ LiveHasLoop'
    <3>1. _set_idle(o) /\ goesBack(o, l) /\ loop[o][l] = "task" /\ inbox' = inbox
      BY <1>3 DEF timesOut
    <3> QED  BY <3>1, SetsIdle, GoesBack DEF ObjectTypes
  <2>2. CountTypes'
    BY <1>3, PublishesError DEF timesOut, CountTypes, registryVars, countVars
  <2>3. CoroutineTypes'
    BY <1>3 DEF timesOut, CoroutineTypes
  <2> QED  BY <2>1, <2>2, <2>3
<1>4. CASE dispatchRaises(o, l)
  <2>1. ObjectTypes' /\ LiveHasLoop'
    <3>1. /\ status' \in [Object -> Status]
          /\ \A p \in Object \ {o} : status'[p] = status[p]
      BY <1>4 DEF dispatchRaises, ObjectTypes, Status
    <3>2. goesBack(o, l) /\ loop[o][l] = "task" /\ UNCHANGED <<current, inbox>>
      BY <1>4 DEF dispatchRaises
    <3> QED  BY <3>1, <3>2, GoesBack DEF ObjectTypes
  <2>2. CountTypes' /\ CoroutineTypes'
    BY <1>4 DEF dispatchRaises, CountTypes, CoroutineTypes, registryVars, countVars, boundVars
  <2> QED  BY <2>1, <2>2
<1> QED  BY <1>1, <1>2, <1>3, <1>4 DEF _run_loop

LEMMA WorkInv ==
    ASSUME SupervisionInv,
           passOver \/ dispatch \/ taskComplete \/ watchdog \/ recovery_timeout
    PROVE  SupervisionInv'
<1> USE DEF SupervisionInv, TypeOK
<1>1. CASE passOver
  <2>1. breaker' \in Breaker
    BY <1>1, AskedType DEF passOver, find_idle_worker, CountTypes
  <2> QED
    BY <1>1, <2>1, ObjectsUnchanged
       DEF passOver, CountTypes, CoroutineTypes, countVars, boundVars
<1>2. CASE dispatch
  <2>1. breaker' \in Breaker
    BY <1>2, AskedType DEF dispatch, find_idle_worker, CountTypes
  <2>2. ObjectTypes' /\ LiveHasLoop'
    <3>1. inbox' = [inbox EXCEPT ![registered] = 1]
      BY <1>2 DEF dispatch
    <3>2. UNCHANGED <<status, current, loop, runTask>>
      BY <1>2, Zenon DEF dispatch
    <3>3. inbox' \in [Object -> 0..1]
      <4>1. inbox \in [Object -> 0..1]
        BY DEF ObjectTypes
      <4>2. 1 \in 0..1
        OBVIOUS
      <4> QED  BY <3>1, <4>1, <4>2, Zenon
    <3>4. ObjectTypes'
      BY <3>2, <3>3 DEF ObjectTypes
    <3>5. LiveHasLoop'
      BY <3>2 DEF LiveHasLoop, loops
    <3> QED  BY <3>4, <3>5
  <2>3. busySince' \in BOOLEAN
    BY <1>2 DEF dispatch
  <2>4. UNCHANGED <<registered, countVars, bus, job, recovery, boundVars>>
    BY <1>2 DEF dispatch
  <2>5. CountTypes'
    BY <2>1, <2>3, <2>4 DEF CountTypes, countVars, boundVars
  <2>6. CoroutineTypes'
    BY <2>4 DEF CoroutineTypes
  <2> QED  BY <2>2, <2>5, <2>6
<1>3. CASE taskComplete
  <2>1. ObjectTypes' /\ LiveHasLoop'
    <3>1. _set_idle(registered) /\ UNCHANGED <<inbox, loop, runTask>>
      BY <1>3 DEF taskComplete
    <3> QED  BY <3>1, SetsIdle DEF ObjectTypes, LiveHasLoop, loops
  <2>2. CountTypes'
    BY <1>3, Publishes DEF taskComplete, CountTypes, registryVars, countVars, boundVars
  <2>3. CoroutineTypes'
    BY <1>3 DEF taskComplete, CoroutineTypes
  <2> QED  BY <2>1, <2>2, <2>3
<1>4. CASE watchdog
  <2>1. CountTypes'
    BY <1>4, PublishesError DEF watchdog, CountTypes, registryVars, countVars
  <2> QED  BY <1>4, <2>1, ObjectsUnchanged DEF watchdog, CoroutineTypes
<1>5. CASE recovery_timeout
  <2>1. breaker' \in Breaker
    BY <1>5 DEF recovery_timeout, CountTypes, Breaker
  <2> QED
    BY <1>5, <2>1, ObjectsUnchanged
       DEF recovery_timeout, CountTypes, CoroutineTypes, countVars, boundVars
<1> QED  BY <1>1, <1>2, <1>3, <1>4, <1>5

LEMMA RouteInv ==
    ASSUME SupervisionInv, _route_loop
    PROVE  SupervisionInv'
<1> USE DEF SupervisionInv, TypeOK
<1>1. CASE route
  <2>1. Head(bus) \in {"success", "retried", "failed"}
    BY <1>1 DEF route, CountTypes
  <2>2. breaker' \in Breaker /\ busySince' \in BOOLEAN
    BY <1>1, SuccessType, FailureType DEF route, record_result, CountTypes
  <2>3. streak' \in Nat
    BY <1>1, <2>1 DEF route, CountTypes
  <2>4. CountTypes'
    BY <1>1, <2>2, <2>3, Receives DEF route, CountTypes, boundVars
  <2>5. CoroutineTypes'
    BY <1>1, Begins DEF route, CoroutineTypes
  <2> QED  BY <1>1, <2>4, <2>5, ObjectsUnchanged DEF route
<1>2. CASE routeCancelled
  <2>1. CountTypes'
    BY <1>2, Receives DEF routeCancelled, CountTypes, registryVars, countVars, boundVars
  <2> QED  BY <1>2, <2>1, ObjectsUnchanged DEF routeCancelled, CoroutineTypes
<1> QED  BY <1>1, <1>2 DEF _route_loop

LEMMA CoroutineInv ==
    ASSUME SupervisionInv, NEW j \in Job, coroutine(j)
    PROVE  SupervisionInv'
<1> USE DEF SupervisionInv, TypeOK
<1>1. CASE restartStops(j)
  BY <1>1, Stops, GoesOn
     DEF restartStops, CountTypes, CoroutineTypes, registryVars, countVars, boundVars
<1>2. CASE restartRegisters(j)
  <2>1. CountTypes'
    BY <1>2, FreshType DEF restartRegisters, CountTypes, boundVars
  <2>2. CoroutineTypes'
    BY <1>2, GoesOn DEF restartRegisters, CoroutineTypes
  <2> QED  BY <1>2, <2>1, <2>2, ObjectsUnchanged DEF restartRegisters
<1>3. CASE restartStarts(j)
  BY <1>3, Starts, ObjectsUnchanged, Ends
     DEF restartStarts, CountTypes, CoroutineTypes, registryVars, countVars, boundVars
<1>4. CASE resetStarts(j)
  BY <1>4, Starts, StartRaises, Ends
     DEF resetStarts, CountTypes, CoroutineTypes, registryVars, countVars, boundVars
<1> QED  BY <1>1, <1>2, <1>3, <1>4 DEF coroutine

LEMMA ClientInv ==
    ASSUME SupervisionInv, reset_agent \/ stop_agent
    PROVE  SupervisionInv'
<1> USE DEF SupervisionInv, TypeOK
<1>1. CASE reset_agent
  <2>1. CountTypes'
    <3>1. givenUp' \in BOOLEAN
      BY <1>1 DEF reset_agent
    <3>2. attempts' \in Nat /\ resets' \in 0..MaxResets
      BY <1>1, SupervisionAssumption DEF reset_agent, CountTypes
    <3>3. UNCHANGED <<registryVars, streak, bus, final>>
      BY <1>1 DEF reset_agent
    <3> QED  BY <3>1, <3>2, <3>3 DEF CountTypes, registryVars
  <2>2. CoroutineTypes'
    BY <1>1, Begins DEF reset_agent, CoroutineTypes, CountTypes
  <2> QED  BY <1>1, <2>1, <2>2, Stops DEF reset_agent
<1>2. CASE stop_agent
  BY <1>2, Stops
     DEF stop_agent, CountTypes, CoroutineTypes, registryVars, countVars, boundVars
<1> QED  BY <1>1, <1>2

LEMMA RecoveryInv ==
    ASSUME SupervisionInv, _recovery_loop
    PROVE  SupervisionInv'
<1> USE DEF SupervisionInv, TypeOK
<1>1. CASE sweep
  BY <1>1, ObjectsUnchanged
     DEF sweep, CountTypes, CoroutineTypes, registryVars, countVars, boundVars
<1>2. CASE skip
  BY <1>2, ObjectsUnchanged
     DEF skip, Asleep, CountTypes, CoroutineTypes, registryVars, countVars, boundVars
<1>3. CASE recover
  BY <1>3, Stops
     DEF recover, CountTypes, CoroutineTypes, registryVars, boundVars
<1>4. CASE giveUp
  BY <1>4, ObjectsUnchanged
     DEF giveUp, Asleep, CountTypes, CoroutineTypes, registryVars, boundVars
<1>5. CASE recoveryStarts
  <2>1. ObjectTypes' /\ LiveHasLoop'
    BY <1>5, Starts, StartRaises DEF recoveryStarts
  <2>2. CountTypes' /\ CoroutineTypes'
    BY <1>5 DEF recoveryStarts, Asleep, CountTypes, CoroutineTypes, registryVars,
                countVars, boundVars
  <2> QED  BY <2>1, <2>2
<1>6. CASE recoveryWatched
  BY <1>6, ObjectsUnchanged
     DEF recoveryWatched, Asleep, CountTypes, CoroutineTypes, registryVars, boundVars
<1> QED  BY <1>1, <1>2, <1>3, <1>4, <1>5, <1>6 DEF _recovery_loop

LEMMA NextInv == SupervisionInv /\ [Next]_vars => SupervisionInv'
<1> SUFFICES ASSUME SupervisionInv, [Next]_vars PROVE SupervisionInv'
  OBVIOUS
<1>1. CASE UNCHANGED vars
  BY <1>1, ObjectsUnchanged
     DEF vars, SupervisionInv, TypeOK, CountTypes, CoroutineTypes, registryVars,
         countVars, boundVars
<1> QED
  BY <1>1, RunLoopInv, WorkInv, RouteInv, CoroutineInv, ClientInv, RecoveryInv DEF Next

(* Every reachable state is well typed, and an object that is at work has  *)
(* a run loop.                                                             *)
THEOREM SupervisionInvariant == Spec => []SupervisionInv
BY InitInv, NextInv, PTL DEF Spec

(* What the dispatch loop relies on: an agent that is IDLE has a run loop, *)
(* for any number of restarts, resets, recoveries and coroutines at once.  *)
THEOREM IdleAgentsHaveLoops == Spec => []IdleHasLoop
<1>1. SupervisionInv => IdleHasLoop
  BY DEF SupervisionInv, TypeOK, CountTypes, LiveHasLoop, IdleHasLoop
<1> QED  BY <1>1, SupervisionInvariant, PTL

-----------------------------------------------------------------------------
(* What a breaker promises, over any RESULTs, questions and waits.         *)

(* b[0] is a new breaker, and b[i] what it is after the event e[i].        *)
Told(e, b) ==
    /\ b[0] = fresh
    /\ \A i \in Nat :
         b[i + 1] = IF e[i + 1] = "failure" THEN record_failure(b[i])
                    ELSE IF e[i + 1] = "success" THEN record_success(b[i])
                    ELSE IF e[i + 1] = "question" THEN asked(b[i])
                    ELSE [b[i] EXCEPT !.cooled = @ \/ b[i].state = "OPEN"]

(* The failures that no success has followed.                              *)
inARow(e, n) == {i \in 1..n : e[i] = "failure" /\ \A j \in i..n : e[j] # "success"}

(* A count of failures below the threshold, while the breaker is closed.   *)
Counting(c, failures) ==
    /\ c \in Breaker
    /\ c.state = "CLOSED" => c.failures = Cardinality(failures)
                                  /\ Cardinality(failures) < FailureThreshold
    /\ c.state = "HALF_OPEN" => c.failures = 0

LEMMA EveryNumber ==
    ASSUME NEW S, 0 \in S, \A n \in Nat : n \in S => n + 1 \in S
    PROVE  Nat \subseteq S
<1>1. PICK R : R = OpToRel(<, Nat)
  OBVIOUS
<1>2. PICK Left : Left = Nat \ S
  OBVIOUS
<1>3. ASSUME Left # {} PROVE FALSE
  <2>1. IsWellFoundedOn(R, Nat)
    BY <1>1, NatLessThanWellFounded
  <2>2. PICK n \in Left : \A m \in Left : ~(<<m, n>> \in R)
    BY <1>2, <1>3, <2>1, WFMin
  <2>3. n \in Nat /\ n # 0 /\ n \notin S
    BY <1>2
  <2>4. n - 1 \in Nat /\ n - 1 < n /\ (n - 1) + 1 = n
    BY <2>3
  <2>5. <<n - 1, n>> \in R
    BY <1>1, <2>3, <2>4 DEF OpToRel
  <2>6. n - 1 \in S
    BY <1>2, <2>2, <2>4, <2>5
  <2>7. (n - 1) + 1 \in S
    BY <2>4, <2>6
  <2> QED  BY <2>3, <2>4, <2>7
<1> QED  BY <1>2, <1>3

LEMMA NextInARow ==
    ASSUME NEW e, NEW n \in Nat
    PROVE  inARow(e, n + 1) = IF e[n + 1] = "success" THEN {}
                              ELSE IF e[n + 1] = "failure" THEN inARow(e, n) \cup {n + 1}
                              ELSE inARow(e, n)
<1>1. /\ 1..(n + 1) = (1..n) \cup {n + 1} /\ n + 1 \notin 1..n
      /\ \A i \in 1..n : i..(n + 1) = (i..n) \cup {n + 1}
      /\ (n + 1)..(n + 1) = {n + 1}
  OBVIOUS
<1>2. CASE e[n + 1] = "success"
  BY <1>1, <1>2 DEF inARow
<1>3. CASE e[n + 1] # "success"
  <2>1. ASSUME NEW i \in 1..n
        PROVE  i \in inARow(e, n + 1) <=> i \in inARow(e, n)
    <3>1. (\A j \in i..(n + 1) : e[j] # "success") <=> (\A j \in i..n : e[j] # "success")
      BY <1>1, <1>3
    <3> QED  BY <1>1, <3>1 DEF inARow
  <2>2. n + 1 \in inARow(e, n + 1) <=> e[n + 1] = "failure"
    BY <1>1, <1>3 DEF inARow
  <2>3. inARow(e, n + 1) \subseteq (1..n) \cup {n + 1} /\ inARow(e, n) \subseteq 1..n
    BY <1>1 DEF inARow
  <2> QED  BY <1>1, <1>3, <2>1, <2>2, <2>3
<1> QED  BY <1>2, <1>3

LEMMA RowsAreFinite ==
    ASSUME NEW e, NEW n \in Nat
    PROVE  /\ IsFiniteSet(inARow(e, n)) /\ Cardinality(inARow(e, n)) \in Nat
           /\ Cardinality(inARow(e, n) \cup {n + 1}) = Cardinality(inARow(e, n)) + 1
<1>1. inARow(e, n) \subseteq 1..n /\ n + 1 \notin 1..n
  BY DEF inARow
<1>2. IsFiniteSet(1..n)
  BY FS_Interval
<1>3. IsFiniteSet(inARow(e, n))
  BY <1>1, <1>2, FS_Subset
<1> QED  BY <1>1, <1>3, FS_AddElement, FS_CardinalityType

LEMMA CountsOn ==
    ASSUME NEW e, NEW b, Told(e, b), NEW n \in Nat, Counting(b[n], inARow(e, n))
    PROVE  /\ Counting(b[n + 1], inARow(e, n + 1))
           /\ b[n].state = "CLOSED" =>
                (b[n + 1].state # "CLOSED"
                   <=> Cardinality(inARow(e, n + 1)) = FailureThreshold)
<1>1. PICK x, y, F, G, ev :
        x = b[n] /\ y = b[n + 1] /\ F = inARow(e, n) /\ G = inARow(e, n + 1) /\ ev = e[n + 1]
  OBVIOUS
<1>2. PICK c : c = Cardinality(F)
  OBVIOUS
<1>3. /\ x \in Breaker /\ c \in Nat /\ FailureThreshold \in Nat \ {0}
      /\ x.state = "CLOSED" => x.failures = c /\ c < FailureThreshold
      /\ x.state = "HALF_OPEN" => x.failures = 0
  BY <1>1, <1>2, RowsAreFinite, BreakerAssumption DEF Counting
<1>4. /\ x.state \in {"CLOSED", "OPEN", "HALF_OPEN"} /\ x.failures \in Nat
      /\ x.cooled \in BOOLEAN
  BY <1>3 DEF Breaker
<1>5. CASE ev = "failure"
  <2>1. PICK counted : counted = [x EXCEPT !.failures = IF @ < FailureThreshold THEN @ + 1 ELSE @]
    OBVIOUS
  <2>2. /\ counted \in Breaker /\ counted.state = x.state
        /\ x.state = "CLOSED" => counted.failures = c + 1
    BY <1>3, <2>1 DEF Breaker
  <2>3. PICK opened : opened = [counted EXCEPT !.state = "OPEN", !.cooled = FALSE]
    OBVIOUS
  <2>4. opened \in Breaker /\ opened.state = "OPEN"
    BY <2>2, <2>3 DEF Breaker
  <2>5. record_failure(x) = IF \/ x.state = "HALF_OPEN"
                               \/ x.state = "CLOSED" /\ counted.failures >= FailureThreshold
                            THEN opened ELSE counted
    BY <2>1, <2>3 DEF record_failure, _to_open
  <2>6. y = record_failure(x)
    BY <1>1, <1>5 DEF Told
  <2>7. Cardinality(G) = c + 1
    BY <1>1, <1>2, <1>5, NextInARow, RowsAreFinite
  <2>8. CASE x.state = "CLOSED" /\ c + 1 >= FailureThreshold
    <3>1. y = opened /\ c + 1 = FailureThreshold
      BY <1>3, <2>2, <2>5, <2>6, <2>8
    <3> QED  BY <1>1, <2>4, <2>7, <3>1 DEF Counting
  <2>9. CASE x.state = "CLOSED" /\ ~(c + 1 >= FailureThreshold)
    <3>1. y = counted /\ c + 1 < FailureThreshold
      BY <1>3, <2>2, <2>5, <2>6, <2>9
    <3>2. /\ y \in Breaker /\ y.state = "CLOSED" /\ y.failures = Cardinality(G)
          /\ Cardinality(G) < FailureThreshold /\ Cardinality(G) # FailureThreshold
      BY <1>3, <2>2, <2>7, <2>9, <3>1
    <3> QED  BY <1>1, <2>9, <3>2 DEF Counting
  <2>10. CASE x.state = "HALF_OPEN"
    <3>1. y = opened
      BY <2>5, <2>6, <2>10
    <3> QED  BY <1>1, <2>4, <2>10, <3>1 DEF Counting
  <2>11. CASE x.state = "OPEN"
    <3>1. y = counted
      BY <2>5, <2>6, <2>11
    <3> QED  BY <1>1, <2>2, <2>11, <3>1 DEF Counting
  <2> QED  BY <1>4, <2>8, <2>9, <2>10, <2>11
<1>6. CASE ev = "success"
  <2>1. y = record_success(x)
    BY <1>1, <1>6 DEF Told
  <2>2. G = {}
    BY <1>1, <1>6, NextInARow
  <2>3. Cardinality(G) = 0
    BY <2>2, FS_EmptySet
  <2>4. CASE x.state = "HALF_OPEN"
    <3>1. y = fresh
      BY <2>1, <2>4 DEF record_success
    <3>2. y \in Breaker /\ y.state = "CLOSED" /\ y.failures = 0
      BY <3>1 DEF fresh, Breaker
    <3> QED  BY <1>1, <1>3, <2>3, <2>4, <3>2 DEF Counting
  <2>5. CASE x.state = "CLOSED"
    <3>1. y = [x EXCEPT !.failures = 0]
      BY <2>1, <2>5 DEF record_success
    <3>2. y \in Breaker /\ y.state = "CLOSED" /\ y.failures = 0
      BY <1>3, <2>5, <3>1 DEF Breaker
    <3> QED  BY <1>1, <1>3, <2>3, <2>5, <3>2 DEF Counting
  <2>6. CASE x.state = "OPEN"
    <3>1. y = x
      BY <2>1, <2>6 DEF record_success
    <3> QED  BY <1>1, <1>3, <2>6, <3>1 DEF Counting
  <2> QED  BY <1>4, <2>4, <2>5, <2>6
<1>7. CASE ev \notin {"failure", "success"}
  <2>1. G = F
    BY <1>1, <1>7, NextInARow
  <2>2. /\ y \in Breaker
        /\ x.state = "CLOSED" => y.state = "CLOSED" /\ y.failures = x.failures
        /\ y.state # x.state => y.state = "HALF_OPEN"
        /\ y.state = "HALF_OPEN" => y.failures = 0
    <3>1. CASE ev = "question"
      <4>1. y = asked(x)
        BY <1>1, <1>7, <3>1 DEF Told
      <4> QED  BY <1>3, <4>1 DEF asked, _to_half_open, Breaker
    <3>2. CASE ev # "question"
      <4>1. y = [x EXCEPT !.cooled = @ \/ x.state = "OPEN"]
        BY <1>1, <1>7, <3>2 DEF Told
      <4> QED  BY <1>3, <4>1 DEF Breaker
    <3> QED  BY <3>1, <3>2
  <2> QED  BY <1>1, <1>2, <1>3, <2>1, <2>2 DEF Counting
<1> QED  BY <1>5, <1>6, <1>7

(* A breaker lets its agent go until FailureThreshold failures have come   *)
(* with no success between them, opens with the last of these and not      *)
(* before, and then lets it go again just when recovery_timeout has        *)
(* passed: that a prober is on its way, the code's last line of            *)
(* is_allowed, never refuses one.                                          *)
THEOREM BreakerKeepsCount ==
    ASSUME NEW e, NEW b, Told(e, b), NEW n \in Nat
    PROVE  /\ b[n].state = "CLOSED" =>
                /\ Cardinality(inARow(e, n)) < FailureThreshold
                /\ b[n + 1].state # "CLOSED"
                     <=> Cardinality(inARow(e, n + 1)) = FailureThreshold
           /\ is_allowed(b[n]) <=> b[n].state # "OPEN" \/ b[n].cooled
<1>1. Counting(b[0], inARow(e, 0))
  <2>1. 1..0 = {}
    OBVIOUS
  <2>2. inARow(e, 0) = {}
    BY <2>1 DEF inARow
  <2>3. Cardinality(inARow(e, 0)) = 0
    BY <2>2, FS_EmptySet
  <2>4. b[0] \in Breaker /\ b[0].state = "CLOSED" /\ b[0].failures = 0
    BY DEF Told, fresh, Breaker
  <2> QED  BY <2>3, <2>4, BreakerAssumption DEF Counting
<1>2. \A k \in Nat : Counting(b[k], inARow(e, k))
  <2>1. PICK S : S = {k \in Nat : Counting(b[k], inARow(e, k))}
    OBVIOUS
  <2>2. 0 \in S /\ \A k \in Nat : k \in S => k + 1 \in S
    BY <1>1, <2>1, CountsOn
  <2>3. Nat \subseteq S
    BY <2>2, EveryNumber
  <2> QED  BY <2>1, <2>3
<1>3. Counting(b[n], inARow(e, n))
  BY <1>2
<1>4. b[n].state \in {"CLOSED", "OPEN", "HALF_OPEN"}
  BY <1>3 DEF Counting, Breaker
<1>5. is_allowed(b[n]) <=> b[n].state # "OPEN" \/ b[n].cooled
  BY <1>3, <1>4 DEF Counting, is_allowed
<1>6. b[n].state = "CLOSED" =>
        /\ Cardinality(inARow(e, n)) < FailureThreshold
        /\ b[n + 1].state # "CLOSED"
             <=> Cardinality(inARow(e, n + 1)) = FailureThreshold
  BY <1>3, CountsOn DEF Counting
<1> QED  BY <1>5, <1>6

=============================================================================
