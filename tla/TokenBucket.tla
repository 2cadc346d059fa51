----------------------------- MODULE TokenBucket -----------------------------
(***************************************************************************)
(* The token bucket of one API key, as its two limiters compute it under   *)
(* their lock: LocalLimiter (internal/api/ratelimit.go, a mutex) and       *)
(* RedisLimiter (internal/api/redis_limiter.go, one Lua script).           *)
(*                                                                         *)
(* Time is counted in seconds.  Tokens are counted in parts, so that the   *)
(* refill of one second is whole: with a limit of rpm requests a minute,   *)
(* one request costs 60 parts and a second brings rpm of them.  The code   *)
(* uses floats, whose rounding is not modelled.                            *)
(***************************************************************************)
EXTENDS Integers

CONSTANTS
  Rate,  \* parts a second brings: the limit in requests per minute
  Cost,  \* parts one request takes
  Burst  \* requests a full bucket is worth

ASSUME TokenBucketAssumption ==
  /\ Rate \in Nat \ {0}
  /\ Cost \in Nat \ {0}
  /\ Burst \in Nat \ {0}

Capacity == Burst * Cost

Bucket == [tokens : 0..Capacity, last : Int]

\* A key that has made no request, or none for long.
FullBucket(t) == [tokens |-> Capacity, last |-> t]

Capped(n) == IF n > Capacity THEN Capacity ELSE n

\* The tokens of a bucket at time t.
Level(b, t) ==
  IF t > b.last THEN Capped(b.tokens + Rate * (t - b.last)) ELSE b.tokens

\* LocalLimiter: a clock that has not advanced changes nothing.
Refill(b, t) ==
  IF t > b.last THEN [tokens |-> Level(b, t), last |-> t] ELSE b

\* mutant: unspent refill accumulates past the capacity.
ScriptRefillUncapped(b, t) ==
  [tokens |-> IF t > b.last THEN b.tokens + Rate * (t - b.last) ELSE b.tokens,
   last |-> t]

\* The script: the caller's clock is written back, whichever way it moved.
ScriptRefill(b, t) == [tokens |-> Level(b, t), last |-> t]

Affords(b) == b.tokens >= Cost

Spend(b) == [b EXCEPT !.tokens = @ - Cost]

\* mutant: the advice is rounded down.
WaitRoundedDown(b) == (Cost - b.tokens) \div Rate

\* Retry-After, in whole seconds: "rounding down would advise a retry that is
\* still too early".
RetryAfter(b) == (Cost - b.tokens + Rate - 1) \div Rate
=============================================================================
