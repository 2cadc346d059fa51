----------------------------- MODULE RateLimiter -----------------------------
(***************************************************************************)
(* Rate limiting of one API key (withRateLimit over a Limiter): requests   *)
(* of several handlers against one token bucket, in memory or in Redis.    *)
(*                                                                         *)
(* LocalLimiter reads the clock under its mutex.  RedisLimiter reads it in *)
(* the gateway and sends it to the script, so that the script may see the  *)
(* clocks of overlapping requests, and of other replicas, in any order.    *)
(***************************************************************************)
EXTENDS TokenBucket

CONSTANTS
  Handlers,  \* concurrent requests of the key, on any replica
  Skew,      \* handler -> how far its replica's clock is ahead
  Shared,    \* TRUE: RedisLimiter; FALSE: LocalLimiter
  TTL,       \* expiry of an idle bucket in Redis, in seconds
  Delay,     \* seconds from reading the clock to the script, at most
  MaxTime    \* bound: the clock stops here

ASSUME RateLimiterAssumption ==
  /\ Skew \in [Handlers -> Int]
  /\ Shared \in BOOLEAN
  /\ TTL \in Nat /\ TTL * Rate >= Capacity
  /\ Delay \in Nat /\ MaxTime \in Nat

VARIABLES
  now,      \* the time
  stored,   \* whether the bucket exists
  bucket,   \* the bucket
  expires,  \* when Redis drops it
  stamp,    \* handler -> the clock it read for the call in progress, or none
  given,    \* history: s -> requests granted since the instant s
  promised  \* history: when a token is promised to a denied client, or none

vars == <<now, stored, bucket, expires, stamp, given, promised>>

None == -1

Init ==
  /\ now = 0
  /\ stored = FALSE /\ bucket = FullBucket(0) /\ expires = 0
  /\ stamp = [h \in Handlers |-> None]
  /\ given = [s \in 0..MaxTime |-> 0]
  /\ promised = None

\* RedisLimiter: the handler reads its clock and sends the script.
ReadClock(h) ==
  /\ Shared /\ stamp[h] = None
  /\ now + Skew[h] >= 0
  /\ stamp' = [stamp EXCEPT ![h] = now + Skew[h]]
  /\ UNCHANGED <<now, stored, bucket, expires, given, promised>>

\* The bucket a check at time t works on, refilled.
Refilled(t) ==
  LET b == IF stored THEN bucket ELSE FullBucket(t)
  IN  IF Shared THEN ScriptRefill(b, t) ELSE Refill(b, t)

\* mutant: an idle bucket is dropped before it can have refilled.
StoreBriefly(b) ==
  /\ stored' = TRUE
  /\ bucket' = b
  /\ expires' = now + 1

Store(b) ==
  /\ stored' = TRUE
  /\ bucket' = b
  /\ expires' = now + TTL

Grant(t) ==
  /\ Affords(Refilled(t))
  /\ Store(Spend(Refilled(t)))
  /\ given' = [s \in 0..MaxTime |-> IF s <= now THEN given[s] + 1 ELSE given[s]]
  /\ promised' = None

Deny(t) ==
  /\ ~Affords(Refilled(t))
  /\ Store(Refilled(t))
  /\ promised' = now + RetryAfter(Refilled(t))
  /\ UNCHANGED given

\* Refill, check and decrement are one step: a mutex, or the script.
Allow(h) ==
  /\ Shared => stamp[h] # None
  /\ LET t == IF Shared THEN stamp[h] ELSE now IN Grant(t) \/ Deny(t)
  /\ stamp' = [stamp EXCEPT ![h] = None]
  /\ UNCHANGED now

\* Redis is unreachable: the request is let through unlimited.
FailOpen(h) ==
  /\ Shared /\ stamp[h] # None
  /\ stamp' = [stamp EXCEPT ![h] = None]
  /\ UNCHANGED <<now, stored, bucket, expires, given, promised>>

\* Redis drops the idle bucket.
Expire ==
  /\ Shared /\ stored /\ now >= expires
  /\ stored' = FALSE
  /\ UNCHANGED <<now, bucket, expires, stamp, given, promised>>

Tick ==
  /\ now < MaxTime
  /\ \A h \in Handlers :
       stamp[h] # None => now < stamp[h] - Skew[h] + Delay
  /\ now' = now + 1
  /\ UNCHANGED <<stored, bucket, expires, stamp, given, promised>>

Next ==
  \/ \E h \in Handlers : ReadClock(h) \/ Allow(h) \/ FailOpen(h)
  \/ Expire
  \/ Tick

Spec == Init /\ [][Next]_vars

-----------------------------------------------------------------------------
TypeOK ==
  /\ now \in 0..MaxTime
  /\ stored \in BOOLEAN
  /\ bucket \in Bucket
  /\ expires \in Nat
  /\ stamp \in [Handlers -> Int]
  /\ given \in [0..MaxTime -> Nat]
  /\ promised \in Int

(* "a tenant's limit is the limit" (redis_limiter.go:12-14): over any        *)
(* interval, the bucket grants no more than a burst and what the interval    *)
(* refills, in whatever order checks, refills and the expiry of an idle      *)
(* bucket fall.                                                              *)
GrantsBounded ==
  \A s \in 0..now : given[s] * Cost <= Capacity + Rate * (now - s)

(* "RetryAfter is how long until a token is available" (ratelimit.go:18): a  *)
(* denied client that waits as long as it was told is granted its request,   *)
(* unless another one was granted meanwhile.                                 *)
PromiseKept ==
  promised # None /\ now >= promised =>
    ~stored \/ Level(bucket, now) >= Cost
=============================================================================
