---------------------------- MODULE RateLimiter -----------------------------
(***************************************************************************)
(* The token bucket that submit_task takes a token from                    *)
(* (application/rate_limiter.py).  Time is counted in ticks and a token in *)
(* parts, of which the bucket gets rate in a tick; a token is Token parts. *)
(***************************************************************************)
EXTENDS Naturals, FiniteSetsExt

Token == 3

TokenBucketRateLimiter(rate, burst, now) ==
    [rate |-> rate, burst |-> burst, last_refill |-> now,
     tokens |-> IF rate > 0 THEN burst * Token ELSE 0]

enabled(b) == b.rate > 0

_refill(b, now) ==
    IF ~enabled(b) THEN b
    ELSE [b EXCEPT !.tokens = Min({b.burst * Token, @ + (now - b.last_refill) * b.rate}),
                   !.last_refill = now]

has_token(b, now) == ~enabled(b) \/ _refill(b, now).tokens >= Token

(* What is left of the bucket, whether or not there was a token.           *)
try_acquire(b, now) ==
    LET full == _refill(b, now)
    IN  IF enabled(b) /\ full.tokens >= Token
        THEN [full EXCEPT !.tokens = @ - Token] ELSE full

(* How long acquire() sleeps before it tries again: until what is missing  *)
(* has come in, in whole ticks.                                            *)
acquire_wait(b, now) ==
    LET deficit == Token - _refill(b, now).tokens
    IN  (deficit + b.rate - 1) \div b.rate

reconfigure(b, rate, burst) ==
    [b EXCEPT !.rate = rate, !.burst = burst,
              !.tokens = IF rate > 0 THEN Min({@, burst * Token}) ELSE 0]

(* Of a bucket there is.  Rate 0 is not passed on to it: another one takes *)
(* its place.                                                              *)
reconfigure_rate_limiter(b, rate, burst, now) ==
    IF rate = 0 THEN TokenBucketRateLimiter(0, 0, now) ELSE reconfigure(b, rate, burst)

=============================================================================
