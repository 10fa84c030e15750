----------------------------- MODULE MCDispatch -----------------------------
(***************************************************************************)
(* Small instances of Dispatch for TLC: two tasks, t1 for any agent and    *)
(* t2 for any agent or, when aimed, for one of them.  Broadcast groups,    *)
(* which the route loop brings up to date, and the token bucket in front   *)
(* of submit_task are values; what they promise is checked below for every *)
(* sequence of RESULTs of three tasks and of attempts to submit.           *)
(***************************************************************************)
EXTENDS Dispatch

CONSTANTS t1, t2, a1, a2

AnyAgent == [t \in Task |-> Agent]

NoTarget == [t \in Task |-> NoAgent]

AimedAtA1 == [t \in Task |-> IF t = t2 THEN a1 ELSE NoAgent]

-----------------------------------------------------------------------------
Groups == INSTANCE Broadcast

Member == {"b1", "b2", "b3"}

(* The RESULTs of some of the members in some order, each ok or not; the   *)
(* others are cancelled, expire or are dead-lettered, and have none.       *)
Outcomes ==
    {r \in UNION {[1..n -> [task : Member, ok : BOOLEAN]] : n \in 0..3} :
        \A i, j \in DOMAIN r : r[i].task = r[j].task => i = j}

ended(r) == {r[i].task : i \in DOMAIN r}
succeeded(r) == {i \in DOMAIN r : r[i].ok}
over(g) == g.status \in {"complete", "failed"}

(* A gather is over with the last RESULT and not before, complete unless   *)
(* every task failed; so with one task that has no RESULT it never is.     *)
ASSUME GatherEnds ==
    \A r \in Outcomes :
        LET g == Groups!heard("gather", Member, <<>>, r)
        IN  /\ over(g) <=> ended(r) = Member
            /\ over(g) => (g.status = "failed" <=> succeeded(r) = {})
            /\ g.completed = {r[i].task : i \in succeeded(r)}
            /\ g.cancelled = {}

(* A race is won by the first success, and every task that has not had its *)
(* RESULT by then is cancelled, no other.  It is lost when all have failed.*)
ASSUME RaceWon ==
    \A r \in Outcomes :
        LET g == Groups!heard("race", Member, <<>>, r)
            first == CHOOSE i \in succeeded(r) : \A j \in succeeded(r) : i <= j
        IN  IF succeeded(r) = {}
            THEN /\ g.winner = Groups!NoWinner /\ g.cancelled = {}
                 /\ over(g) <=> ended(r) = Member
            ELSE /\ g.winner = r[first].task /\ g.status = "complete"
                 /\ g.cancelled = Member \ {r[i].task : i \in 1..first}

(* What broadcast_task misses: a RESULT that comes while it still submits  *)
(* to the other agents leaves a gather open for good, and a race without   *)
(* the winner it has had.                                                  *)
ASSUME EarlyResultForgotten ==
    \A r \in Outcomes :
        LET before == SubSeq(r, 1, 1)
        IN  r # <<>> =>
              /\ ~over(Groups!heard("gather", Member, before, r))
              /\ Groups!heard("race", Member, before, r).winner # r[1].task

-----------------------------------------------------------------------------
Limiter == INSTANCE RateLimiter

(* An attempt at each of five times, by the ticks since the one before.    *)
Waits == [1..5 -> 0..3]

BucketRate == 1..2
BucketBurst == 0..2

RECURSIVE at(_, _)
at(w, i) == IF i = 0 THEN 0 ELSE at(w, i - 1) + w[i]

(* The bucket after the first i attempts.                                  *)
RECURSIVE bucket(_, _, _, _)
bucket(rate, burst, w, i) ==
    IF i = 0 THEN Limiter!TokenBucketRateLimiter(rate, burst, 0)
    ELSE Limiter!try_acquire(bucket(rate, burst, w, i - 1), at(w, i))

admitted(rate, burst, w) ==
    {i \in 1..5 : Limiter!has_token(bucket(rate, burst, w, i - 1), at(w, i))}

(* Between any two attempts no more are let through than the bucket holds  *)
(* and gets in the time between, and one that is turned away would be one  *)
(* too many: the bucket forgets no time that has passed.                   *)
ASSUME RateKept ==
    \A rate \in BucketRate, burst \in BucketBurst, w \in Waits :
        LET in == admitted(rate, burst, w)
            room(i, j) == burst * Limiter!Token + rate * (at(w, j) - at(w, i))
        IN  /\ \A i, j \in 1..5 : i <= j =>
                 Cardinality(in \cap i..j) * Limiter!Token <= room(i, j)
            /\ \A j \in (1..5) \ in : \E i \in 1..j :
                 (Cardinality(in \cap i..j) + 1) * Limiter!Token > room(i, j)

(* acquire() sleeps long enough, and not a tick longer, unless the bucket  *)
(* holds no token: then no sleep is, and every submission waits for ever.  *)
ASSUME SleepEnough ==
    \A rate \in BucketRate, burst \in BucketBurst, w \in Waits :
        LET b == bucket(rate, burst, w, 5)
            now == at(w, 5)
            then == now + Limiter!acquire_wait(b, now)
        IN  ~Limiter!has_token(b, now) =>
              /\ Limiter!has_token(b, then) <=> burst > 0
              /\ ~Limiter!has_token(b, then - 1)

(* A bucket that is given another rate and burst keeps no more tokens than *)
(* it may hold, and rate 0 turns it off.                                   *)
ASSUME Reconfigured ==
    \A rate, new \in 0..2, burst, size \in BucketBurst, w \in Waits :
        LET b == bucket(rate, burst, w, 5)
            c == Limiter!reconfigure_rate_limiter(b, new, size, at(w, 5))
        IN  /\ c.tokens <= size * Limiter!Token
            /\ c.tokens <= b.tokens
            /\ Limiter!enabled(c) <=> new > 0

=============================================================================
