--------------------------- MODULE CircuitBreaker ---------------------------
(***************************************************************************)
(* The breaker of one agent (application/circuit_breaker.py), as operators *)
(* on its record: the caller has the variable.  The clock is reduced to    *)
(* whether recovery_timeout has passed since the breaker opened.           *)
(***************************************************************************)
EXTENDS Naturals

CONSTANT FailureThreshold

ASSUME BreakerAssumption == FailureThreshold \in Nat \ {0}

Breaker == [state : {"CLOSED", "OPEN", "HALF_OPEN"}, failures : Nat, cooled : BOOLEAN]

fresh == [state |-> "CLOSED", failures |-> 0, cooled |-> FALSE]

_to_open(b) == [b EXCEPT !.state = "OPEN", !.cooled = FALSE]

(* Mutant: the failures that opened the breaker stay on the count.         *)
_to_half_open_counted(b) == [b EXCEPT !.state = "HALF_OPEN"]

_to_half_open(b) == [b EXCEPT !.state = "HALF_OPEN", !.failures = 0]

(* is_allowed: the answer, and what asking does to the breaker.            *)
is_allowed(b) ==
    \/ b.state = "CLOSED"
    \/ b.state = "OPEN" /\ b.cooled
    \/ b.state = "HALF_OPEN" /\ b.failures = 0

asked(b) == IF b.state = "OPEN" /\ b.cooled THEN _to_half_open(b) ELSE b

record_success(b) ==
    CASE b.state = "HALF_OPEN" -> fresh
      [] b.state = "CLOSED"    -> [b EXCEPT !.failures = 0]
      [] b.state = "OPEN"      -> b

(* The count is asked only whether it is zero and whether it has reached   *)
(* the threshold, so it stops there.                                       *)
record_failure(b) ==
    LET counted == [b EXCEPT !.failures =
                        IF @ < FailureThreshold THEN @ + 1 ELSE @]
    IN  IF \/ b.state = "HALF_OPEN"
           \/ b.state = "CLOSED" /\ counted.failures >= FailureThreshold
        THEN _to_open(counted) ELSE counted

=============================================================================
