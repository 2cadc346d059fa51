-------------------------- MODULE RateLimiterProofs --------------------------
(***************************************************************************)
(* Theorems of RateLimiter, for every rate, burst, cost of a request and   *)
(* set of handlers, with either limiter.  The bounds on what is granted    *)
(* are proved of checks that are made with one clock: always so in memory, *)
(* where it is read under the lock, and with the script when no second     *)
(* passes between reading the clock and running it.                        *)
(***************************************************************************)
EXTENDS RateLimiter, TLAPS

-----------------------------------------------------------------------------
(* Arithmetic. *)

(* What a refill needs to know of multiplication.                           *)
LEMMA RefillSteps ==
  ASSUME NEW r \in Nat, NEW a \in Int, NEW b \in Int
  PROVE  /\ r * a \in Int
         /\ r * (a + b) = r * a + r * b
         /\ a >= 0 => r * a >= 0
         /\ a <= b => r * a <= r * b
  OBVIOUS

(* RetryAfter rounds up.                                                    *)
LEMMA RoundedUp ==
  ASSUME NEW x \in Nat, NEW r \in Nat \ {0}
  PROVE  /\ (x + r - 1) \div r \in Nat
         /\ r * ((x + r - 1) \div r) >= x
  OBVIOUS

LEMMA Parameters ==
  /\ Rate \in Nat /\ Rate > 0 /\ Cost \in Nat /\ Cost > 0 /\ Burst \in Nat
  /\ Capacity \in Nat /\ Cost <= Capacity
  <1>1. Burst * Cost \in Nat /\ Cost <= Burst * Cost
    BY TokenBucketAssumption
  <1>2. QED
    BY <1>1, TokenBucketAssumption DEF Capacity

-----------------------------------------------------------------------------
(* The operators of a bucket. *)

(* The level of a bucket never exceeds its capacity or falls by waiting, and *)
(* a second brings at most the rate.                                         *)
LEMMA Levels ==
  ASSUME NEW b \in Bucket, NEW t \in Int, NEW u \in Int, t <= u
  PROVE  /\ Level(b, t) \in 0..Capacity
         /\ b.tokens <= Level(b, t)
         /\ Level(b, t) <= Level(b, u)
         /\ Level(b, t + 1) <= Level(b, t) + Rate
         /\ t <= b.last => Level(b, t) = b.tokens
  <1> DEFINE brought(x) == Rate * (x - b.last)
  <1>1. b.tokens \in 0..Capacity /\ b.last \in Int
    BY DEF Bucket
  <1>2. /\ brought(t) \in Int /\ brought(u) \in Int
        /\ brought(t) <= brought(u)
        /\ brought(t + 1) = brought(t) + Rate
        /\ t > b.last => brought(t) >= 0
        /\ t <= b.last => brought(t + 1) <= Rate
        /\ u > b.last => brought(u) >= 0
        /\ t + 1 > b.last => brought(t + 1) >= 0
    BY <1>1, Parameters
  <1>3. \A x : Level(b, x) = IF x > b.last THEN Capped(b.tokens + brought(x))
                                          ELSE b.tokens
    BY DEF Level
  <1> HIDE DEF brought
  <1>4. QED
    BY <1>1, <1>2, <1>3, Parameters DEF Capped

(* What the key could spend at time t: a bucket that does not exist is full. *)
Have(t) == IF stored THEN Level(bucket, t) ELSE Capacity

(* A bucket refilled by the present clock holds its level, as of now.        *)
LEMMA RefilledBucket ==
  ASSUME TypeOK, bucket.last <= now
  PROVE  /\ Refilled(now) \in Bucket
         /\ Refilled(now).last = now
         /\ Refilled(now).tokens = Have(now)
  <1> DEFINE b == IF stored THEN bucket ELSE FullBucket(now)
  <1>1. bucket \in Bucket /\ now \in Int /\ FullBucket(now) \in Bucket
    BY Parameters DEF TypeOK, FullBucket, Bucket
  <1>2. b \in Bucket /\ b.last <= now /\ b.last \in Int
    BY <1>1 DEF FullBucket, Bucket
  <1>3. Level(b, now) = Have(now)
    <2>1. ~stored => Level(b, now) = Capacity
      BY <1>1 DEF Level, FullBucket
    <2>2. QED
      BY <2>1 DEF Have
  <1>4. Level(b, now) \in 0..Capacity
    BY <1>1, <1>2, Levels
  <1>5. now <= b.last => Level(b, now) = b.tokens
    BY <1>1, <1>2, Levels
  <1>6. Refilled(now) = IF Shared THEN ScriptRefill(b, now) ELSE Refill(b, now)
    BY DEF Refilled
  <1> HIDE DEF b
  <1>7. [tokens |-> Level(b, now), last |-> now] \in Bucket
    BY <1>1, <1>4 DEF Bucket
  <1>8. CASE Shared \/ now > b.last
    <2>1. Refilled(now) = [tokens |-> Level(b, now), last |-> now]
      BY <1>6, <1>8 DEF ScriptRefill, Refill
    <2>2. QED
      BY <1>3, <1>7, <2>1
  <1>9. CASE ~Shared /\ ~(now > b.last)
    <2>1. Refilled(now) = b /\ b.last = now
      BY <1>1, <1>2, <1>6, <1>9 DEF Refill
    <2>2. QED
      BY <1>1, <1>2, <1>3, <1>5, <2>1
  <1>10. QED
    BY <1>8, <1>9

(* Spending what a bucket affords leaves a bucket.                           *)
LEMMA Spending ==
  ASSUME NEW b \in Bucket, Affords(b)
  PROVE  /\ Spend(b) \in Bucket
         /\ Spend(b).last = b.last
         /\ Spend(b).tokens = b.tokens - Cost
  BY Parameters DEF Bucket, Affords, Spend

(* The wait of a denied client is a number of seconds that brings what the   *)
(* bucket lacks.                                                             *)
LEMMA Waiting ==
  ASSUME NEW b \in Bucket, ~Affords(b)
  PROVE  /\ RetryAfter(b) \in Nat
         /\ Level(b, b.last + RetryAfter(b)) >= Cost
  <1> DEFINE x == Cost - b.tokens
  <1>1. x \in Nat /\ x > 0 /\ b.tokens \in 0..Capacity /\ b.last \in Int
    BY Parameters DEF Bucket, Affords
  <1>2. RetryAfter(b) = (x + Rate - 1) \div Rate
    BY <1>1 DEF RetryAfter
  <1> HIDE DEF x
  <1>3. RetryAfter(b) \in Nat /\ Rate * RetryAfter(b) >= x
    BY <1>1, <1>2, Parameters, RoundedUp
  <1>4. RetryAfter(b) > 0
    BY <1>1, <1>3, Parameters
  <1>5. b.last + RetryAfter(b) - b.last = RetryAfter(b)
    BY <1>1, <1>3
  <1>6. Level(b, b.last + RetryAfter(b)) = Capped(b.tokens + Rate * RetryAfter(b))
    BY <1>1, <1>3, <1>4, <1>5 DEF Level
  <1>7. Rate * RetryAfter(b) \in Nat
    BY <1>3, Parameters
  <1>8. b.tokens + Rate * RetryAfter(b) >= Cost
    BY <1>1, <1>3, <1>7, Parameters DEF x
  <1>9. QED
    BY <1>1, <1>3, <1>6, <1>7, <1>8, Parameters DEF Capped

-----------------------------------------------------------------------------
(* The type invariant. *)

(* What a check works on is a bucket, whatever clock it is given.            *)
LEMMA RefilledType ==
  ASSUME TypeOK, NEW t \in Int
  PROVE  Refilled(t) \in Bucket
  <1> DEFINE b == IF stored THEN bucket ELSE FullBucket(t)
  <1>1. b \in Bucket
    BY Parameters DEF TypeOK, FullBucket, Bucket
  <1> HIDE DEF b
  <1>2. Level(b, t) \in 0..Capacity
    BY <1>1, Levels
  <1>3. ScriptRefill(b, t) \in Bucket /\ Refill(b, t) \in Bucket
    BY <1>1, <1>2 DEF ScriptRefill, Refill, Bucket
  <1>4. QED
    BY <1>3 DEF Refilled, b

(* Storing a bucket keeps the parts of the state it writes well typed.       *)
LEMMA StoredType ==
  ASSUME TypeOK, NEW b \in Bucket, Store(b)
  PROVE  stored' \in BOOLEAN /\ bucket' \in Bucket /\ expires' \in Nat
  BY RateLimiterAssumption DEF TypeOK, Store

LEMMA TypeStep == TypeOK /\ [Next]_vars => TypeOK'
  <1> SUFFICES ASSUME TypeOK, [Next]_vars PROVE TypeOK'
    OBVIOUS
  <1> USE RateLimiterAssumption
  <1>1. ASSUME NEW h \in Handlers, ReadClock(h) PROVE TypeOK'
    BY <1>1 DEF TypeOK, ReadClock
  <1>2. ASSUME NEW h \in Handlers, Allow(h) PROVE TypeOK'
    <2> DEFINE t == IF Shared THEN stamp[h] ELSE now
    <2>1. t \in Int
      BY DEF TypeOK
    <2>2. Grant(t) \/ Deny(t)
      BY <1>2 DEF Allow
    <2> HIDE DEF t
    <2>3. Refilled(t) \in Bucket
      BY <2>1, RefilledType
    <2>4. stamp' \in [Handlers -> Int] /\ now' \in 0..MaxTime
      BY <1>2 DEF TypeOK, Allow, None
    <2>5. CASE Grant(t)
      <3>1. Spend(Refilled(t)) \in Bucket
        BY <2>3, <2>5, Spending DEF Grant
      <3>2. stored' \in BOOLEAN /\ bucket' \in Bucket /\ expires' \in Nat
        BY <2>5, <3>1, StoredType DEF Grant
      <3>3. given' \in [0..MaxTime -> Nat] /\ promised' \in Int
        BY <2>5 DEF Grant, TypeOK, None
      <3>4. QED
        BY <2>4, <3>2, <3>3 DEF TypeOK
    <2>6. CASE Deny(t)
      <3>1. stored' \in BOOLEAN /\ bucket' \in Bucket /\ expires' \in Nat
        BY <2>3, <2>6, StoredType DEF Deny
      <3>2. RetryAfter(Refilled(t)) \in Nat
        BY <2>3, <2>6, Waiting DEF Deny
      <3>3. given' \in [0..MaxTime -> Nat] /\ promised' \in Int
        BY <2>6, <3>2 DEF Deny, TypeOK
      <3>4. QED
        BY <2>4, <3>1, <3>3 DEF TypeOK
    <2>7. QED
      BY <2>2, <2>5, <2>6
  <1>3. ASSUME NEW h \in Handlers, FailOpen(h) PROVE TypeOK'
    BY <1>3 DEF TypeOK, FailOpen, None
  <1>4. CASE Expire
    BY <1>4 DEF TypeOK, Expire
  <1>5. CASE Tick
    BY <1>5 DEF TypeOK, Tick
  <1>6. CASE UNCHANGED vars
    BY <1>6 DEF TypeOK, vars
  <1>7. QED
    BY <1>1, <1>2, <1>3, <1>4, <1>5, <1>6 DEF Next

LEMMA TypeInit == Init => TypeOK
  <1> SUFFICES ASSUME Init PROVE TypeOK
    OBVIOUS
  <1>1. now \in 0..MaxTime /\ stored \in BOOLEAN /\ expires \in Nat
    <2>1. 0 \in 0..MaxTime
      BY RateLimiterAssumption
    <2>2. QED
      BY <2>1 DEF Init
  <1>2. bucket \in Bucket
    BY Parameters DEF Init, FullBucket, Bucket
  <1>3. /\ stamp \in [Handlers -> Int] /\ promised \in Int
        /\ given \in [0..MaxTime -> Nat]
    <2>1. /\ stamp = [h \in Handlers |-> -1] /\ promised = -1
          /\ given = [s \in 0..MaxTime |-> 0]
      BY DEF Init, None
    <2>2. QED
      BY <2>1
  <1>4. QED
    BY <1>1, <1>2, <1>3 DEF TypeOK

(* The limiter's state is well typed: in particular, a bucket never holds    *)
(* more than its capacity, nor less than nothing, whatever the clocks its    *)
(* checks are made with (ratelimit.go:105-125, redis_limiter.go:49-70).      *)
THEOREM LimiterTypeCorrect == Spec => []TypeOK
  BY TypeInit, TypeStep, PTL DEF Spec

-----------------------------------------------------------------------------
(* What a limiter with one clock grants and promises. *)

(* Every check sees the present time.                                        *)
OneClock == Shared => Delay = 0 /\ \A h \in Handlers : Skew[h] = 0

(* A clock that has been read is still right.                                *)
Prompt == Shared => \A h \in Handlers : stamp[h] # None => stamp[h] = now

(* A bucket was refilled in the past, and lasts until it would be full.      *)
Lasting ==
  /\ bucket.last <= now
  /\ stored => expires = bucket.last + TTL

(* Nothing has been granted in the future.                                   *)
Untouched == \A s \in 0..MaxTime : s > now => given[s] = 0

(* What was granted since s, with what is left, is within a burst and the    *)
(* refill since s.                                                           *)
Balanced ==
  \A s \in 0..now :
    given[s] * Cost + Have(now) <= Capacity + Rate * (now - s)

(* The promised instant comes with a token.                                  *)
PromiseFunded == promised # None => Have(promised) >= Cost

LimiterInv ==
  /\ TypeOK
  /\ Prompt
  /\ Lasting
  /\ Untouched
  /\ Balanced
  /\ PromiseFunded

(* What the key has is within its capacity, is not lost by waiting, and      *)
(* grows by at most the rate.                                                *)
LEMMA HaveLevels ==
  ASSUME TypeOK, NEW t \in Int, NEW u \in Int, t <= u
  PROVE  /\ Have(t) \in 0..Capacity
         /\ Have(t) <= Have(u)
         /\ Have(t + 1) <= Have(t) + Rate
  <1>1. bucket \in Bucket
    BY DEF TypeOK
  <1>2. /\ Level(bucket, t) \in 0..Capacity
        /\ Level(bucket, t) <= Level(bucket, u)
        /\ Level(bucket, t + 1) <= Level(bucket, t) + Rate
    BY <1>1, Levels
  <1>3. QED
    BY <1>2, Parameters DEF Have

LEMMA LimiterInit == Init => LimiterInv
  <1> SUFFICES ASSUME Init PROVE LimiterInv
    OBVIOUS
  <1>1. TypeOK
    BY TypeInit
  <1>2. /\ bucket.last = 0 /\ now = 0 /\ promised = None /\ stored = FALSE
        /\ given = [s \in 0..MaxTime |-> 0]
        /\ \A h \in Handlers : stamp[h] = None
    BY DEF Init, FullBucket
  <1>3. Untouched /\ Prompt /\ Lasting /\ PromiseFunded
    BY <1>2 DEF Untouched, Prompt, Lasting, PromiseFunded
  <1>4. Balanced
    <2>1. ASSUME NEW s \in 0..now
          PROVE  given[s] * Cost + Have(now) <= Capacity + Rate * (now - s)
      <3>1. s = 0 /\ given[s] = 0 /\ now - s = 0
        <4>1. s = 0 /\ now = 0 /\ 0 \in 0..MaxTime
          BY <1>2, <2>1, RateLimiterAssumption
        <4>2. QED
          BY <1>2, <4>1
      <3>2. given[s] * Cost = 0 /\ Rate * (now - s) = 0
        BY <3>1, Parameters
      <3>3. QED
        BY <1>2, <3>2, Parameters DEF Have
    <2>2. QED
      BY <2>1 DEF Balanced
  <1>5. QED
    BY <1>1, <1>3, <1>4 DEF LimiterInv

(* Storing what a check leaves of the bucket restores the balance: cost is   *)
(* what it took, and count what it granted.                                  *)
LEMMA Account ==
  ASSUME NEW g \in Nat, NEW l \in Nat, NEW c \in Nat, NEW bound \in Int,
         g * c + l <= bound
  PROVE  (g + 1) * c + (l - c) <= bound
  <1>1. (g + 1) * c = g * c + c /\ g * c \in Nat
    OBVIOUS
  <1>2. QED
    BY <1>1

(* When Redis drops a bucket, it has long been full.                         *)
LEMMA ExpiredIsFull ==
  ASSUME TypeOK, Lasting, stored, now >= expires
  PROVE  \A t \in Int : t >= now => Level(bucket, t) = Capacity
  <1>1. /\ bucket.tokens \in 0..Capacity /\ bucket.last \in Int /\ now \in Int
        /\ expires \in Nat /\ TTL \in Nat /\ TTL * Rate >= Capacity
    BY RateLimiterAssumption DEF TypeOK, Bucket
  <1>2. now >= bucket.last + TTL
    BY <1>1 DEF Lasting
  <1>3. TTL > 0
    BY <1>1, Parameters
  <1>4. ASSUME NEW t \in Int, t >= now
        PROVE  Level(bucket, t) = Capacity
    <2>1. t - bucket.last \in Int /\ t - bucket.last >= TTL /\ t > bucket.last
      BY <1>1, <1>2, <1>3, <1>4
    <2>2. /\ Rate * TTL <= Rate * (t - bucket.last)
          /\ Rate * (t - bucket.last) \in Int
      BY <1>1, <2>1, Parameters, RefillSteps
    <2>3. Rate * TTL = TTL * Rate /\ Rate * TTL \in Int
      BY <1>1, Parameters
    <2>4. bucket.tokens + Rate * (t - bucket.last) >= Capacity
      BY <1>1, <2>2, <2>3, Parameters
    <2>5. Level(bucket, t) = Capped(bucket.tokens + Rate * (t - bucket.last))
      BY <2>1 DEF Level
    <2>6. QED
      BY <1>1, <2>2, <2>4, <2>5, Parameters DEF Capped
  <1>5. QED
    BY <1>4

(* A request that is granted is paid for.                                    *)
LEMMA GrantKeeps ==
  ASSUME LimiterInv, Grant(now), now' = now
  PROVE  Lasting' /\ Untouched' /\ Balanced' /\ PromiseFunded'
  <1> DEFINE b == Refilled(now)
  <1>1. /\ now \in 0..MaxTime /\ given \in [0..MaxTime -> Nat]
        /\ MaxTime \in Nat
    BY RateLimiterAssumption DEF LimiterInv, TypeOK
  <1>2. b \in Bucket /\ b.last = now /\ b.tokens = Have(now)
    BY RefilledBucket DEF LimiterInv, Lasting
  <1>3. /\ Affords(b) /\ stored' = TRUE /\ bucket' = Spend(b)
        /\ expires' = now + TTL /\ promised' = None
        /\ given' = [s \in 0..MaxTime |->
                       IF s <= now THEN given[s] + 1 ELSE given[s]]
    BY DEF Grant, Store
  <1> HIDE DEF b
  <1>4. /\ bucket' \in Bucket /\ bucket'.last = now
        /\ bucket'.tokens = b.tokens - Cost
    BY <1>2, <1>3, Spending
  <1>5. Have(now)' = b.tokens - Cost
    <2>1. \A x \in Bucket : x.last = now => Level(x, now) = x.tokens
      BY <1>1, Levels
    <2>2. Level(bucket', now) = b.tokens - Cost
      BY <1>4, <2>1
    <2>3. QED
      BY <1>3, <2>2 DEF Have
  <1>6. Lasting'
    BY <1>1, <1>3, <1>4 DEF Lasting
  <1>7. Untouched'
    BY <1>1, <1>3 DEF Untouched, LimiterInv
  <1>8. Balanced'
    <2>1. ASSUME NEW s \in 0..now
          PROVE  given'[s] * Cost + (b.tokens - Cost)
                   <= Capacity + Rate * (now - s)
      <3>1. given'[s] = given[s] + 1 /\ given[s] \in Nat
        BY <1>1, <1>3, <2>1
      <3>2. Capacity + Rate * (now - s) \in Int
        BY <1>1, <2>1, Parameters
      <3>3. given[s] * Cost + b.tokens <= Capacity + Rate * (now - s)
        BY <1>2, <2>1 DEF LimiterInv, Balanced
      <3>4. b.tokens \in Nat
        BY <1>2 DEF Bucket
      <3>5. QED
        BY <3>1, <3>2, <3>3, <3>4, Parameters, Account
    <2>2. QED
      BY <1>5, <2>1 DEF Balanced
  <1>9. PromiseFunded'
    BY <1>3 DEF PromiseFunded
  <1>10. QED
    BY <1>6, <1>7, <1>8, <1>9

(* A request that is denied takes nothing, and is promised what it lacks.    *)
LEMMA DenyKeeps ==
  ASSUME LimiterInv, Deny(now), now' = now
  PROVE  Lasting' /\ Untouched' /\ Balanced' /\ PromiseFunded'
  <1> DEFINE b == Refilled(now)
  <1>1. /\ now \in 0..MaxTime /\ given \in [0..MaxTime -> Nat]
        /\ MaxTime \in Nat
    BY RateLimiterAssumption DEF LimiterInv, TypeOK
  <1>2. b \in Bucket /\ b.last = now /\ b.tokens = Have(now)
    BY RefilledBucket DEF LimiterInv, Lasting
  <1>3. /\ ~Affords(b) /\ stored' = TRUE /\ bucket' = b
        /\ expires' = now + TTL /\ promised' = now + RetryAfter(b)
        /\ given' = given
    BY DEF Deny, Store
  <1> HIDE DEF b
  <1>4. Have(now)' = b.tokens
    <2>1. \A x \in Bucket : x.last = now => Level(x, now) = x.tokens
      BY <1>1, Levels
    <2>2. Level(bucket', now) = b.tokens
      BY <1>2, <1>3, <2>1
    <2>3. QED
      BY <1>3, <2>2 DEF Have
  <1>5. Lasting'
    BY <1>1, <1>2, <1>3 DEF Lasting
  <1>6. Untouched'
    BY <1>3 DEF Untouched, LimiterInv
  <1>7. Balanced'
    BY <1>2, <1>3, <1>4 DEF Balanced, LimiterInv
  <1>8. PromiseFunded'
    <2>1. Level(b, now + RetryAfter(b)) >= Cost
      BY <1>2, <1>3, Waiting
    <2>2. QED
      BY <1>3, <2>1 DEF PromiseFunded, Have
  <1>9. QED
    BY <1>5, <1>6, <1>7, <1>8

LEMMA LimiterStep == OneClock /\ LimiterInv /\ [Next]_vars => LimiterInv'
  <1> SUFFICES ASSUME OneClock, LimiterInv, [Next]_vars PROVE LimiterInv'
    OBVIOUS
  <1>1. TypeOK'
    BY TypeStep DEF LimiterInv
  <1>2. /\ TypeOK /\ now \in 0..MaxTime /\ MaxTime \in Nat /\ promised \in Int
        /\ given \in [0..MaxTime -> Nat] /\ stamp \in [Handlers -> Int]
        /\ bucket \in Bucket /\ bucket.last \in Int
    BY RateLimiterAssumption DEF LimiterInv, TypeOK, Bucket
  <1>3. ASSUME NEW h \in Handlers, Allow(h) PROVE LimiterInv'
    <2>1. Grant(now) \/ Deny(now)
      <3>1. (IF Shared THEN stamp[h] ELSE now) = now
        BY <1>3 DEF Allow, LimiterInv, Prompt
      <3>2. QED
        BY <1>3, <3>1 DEF Allow
    <2>2. now' = now /\ stamp' = [stamp EXCEPT ![h] = None]
      BY <1>3 DEF Allow
    <2>3. Prompt'
      BY <1>2, <2>2 DEF Prompt, LimiterInv
    <2>4. QED
      BY <1>1, <2>1, <2>2, <2>3, GrantKeeps, DenyKeeps DEF LimiterInv
  <1>4. ASSUME NEW h \in Handlers, ReadClock(h) \/ FailOpen(h) PROVE LimiterInv'
    <2>1. /\ UNCHANGED <<now, stored, bucket, expires, given, promised>>
          /\ Shared
          /\ \/ stamp' = [stamp EXCEPT ![h] = now + Skew[h]]
             \/ stamp' = [stamp EXCEPT ![h] = None]
      BY <1>4 DEF ReadClock, FailOpen
    <2>2. now + Skew[h] = now
      BY <1>2, <2>1 DEF OneClock
    <2>3. Prompt'
      BY <1>2, <2>1, <2>2 DEF Prompt, LimiterInv
    <2>4. QED
      BY <1>1, <2>1, <2>3
      DEF LimiterInv, Lasting, Untouched, Balanced, PromiseFunded, Have
  <1>5. CASE Expire
    <2>1. /\ stored /\ stored' = FALSE /\ now >= expires
          /\ UNCHANGED <<now, bucket, expires, stamp, given, promised>>
      BY <1>5 DEF Expire
    <2>2. Have(now)' = Have(now)
      <3>1. Level(bucket, now) = Capacity
        BY <1>2, <2>1, ExpiredIsFull DEF LimiterInv
      <3>2. QED
        BY <2>1, <3>1 DEF Have
    <2>3. Balanced'
      BY <2>1, <2>2 DEF LimiterInv, Balanced
    <2>4. PromiseFunded'
      BY <2>1, Parameters DEF PromiseFunded, Have
    <2>5. Prompt' /\ Lasting' /\ Untouched'
      BY <2>1 DEF LimiterInv, Prompt, Lasting, Untouched
    <2>6. QED
      BY <1>1, <2>3, <2>4, <2>5 DEF LimiterInv
  <1>6. CASE Tick
    <2>1. /\ now' = now + 1 /\ now < MaxTime
          /\ UNCHANGED <<stored, bucket, expires, stamp, given, promised>>
      BY <1>6 DEF Tick
    <2>2. \A x : Have(x)' = Have(x)
      BY <2>1 DEF Have
    <2>3. /\ Have(now) \in 0..Capacity /\ Have(now + 1) \in 0..Capacity
          /\ Have(now + 1) <= Have(now) + Rate
      <3>1. now \in Int /\ now + 1 \in Int /\ now <= now /\ now + 1 <= now + 1
        BY <1>2
      <3>2. Have(now) \in 0..Capacity /\ Have(now + 1) <= Have(now) + Rate
        BY <1>2, <3>1, HaveLevels
      <3>3. Have(now + 1) \in 0..Capacity
        BY <1>2, <3>1, HaveLevels
      <3>4. QED
        BY <3>2, <3>3
    <2>4. Balanced'
      <3>1. ASSUME NEW s \in 0..(now + 1)
            PROVE  given[s] * Cost + Have(now + 1)
                     <= Capacity + Rate * (now + 1 - s)
        <4>1. CASE s <= now
          <5>1. given[s] * Cost + Have(now) <= Capacity + Rate * (now - s)
            BY <1>2, <3>1, <4>1 DEF LimiterInv, Balanced
          <5>2. Rate * (now + 1 - s) = Rate * (now - s) + Rate
            BY <1>2, <3>1, Parameters
          <5>3. given[s] * Cost \in Int /\ Rate * (now - s) \in Int
            BY <1>2, <2>1, <3>1, Parameters
          <5>4. QED
            BY <2>3, <5>1, <5>2, <5>3, Parameters
        <4>2. CASE s = now + 1
          <5>1. given[s] = 0 /\ now + 1 - s = 0
            BY <1>2, <2>1, <4>2 DEF LimiterInv, Untouched
          <5>2. given[s] * Cost = 0 /\ Rate * (now + 1 - s) = 0
            BY <5>1, Parameters
          <5>3. QED
            BY <2>3, <5>2, Parameters
        <4>3. QED
          BY <1>2, <3>1, <4>1, <4>2
      <3>2. Have(now)' = Have(now + 1)
        BY <2>1 DEF Have
      <3>3. QED
        BY <1>2, <2>1, <3>1, <3>2 DEF Balanced
    <2>5. Prompt'
      <3>1. ASSUME Shared, NEW h \in Handlers PROVE stamp[h] = None
        <4>1. stamp[h] # None => now < stamp[h] - Skew[h] + Delay
          BY <1>6 DEF Tick
        <4>2. stamp[h] # None => stamp[h] = now
          BY <3>1 DEF LimiterInv, Prompt
        <4>3. Skew[h] = 0 /\ Delay = 0
          BY <3>1 DEF OneClock
        <4>4. QED
          BY <1>2, <4>1, <4>2, <4>3
      <3>2. QED
        BY <2>1, <3>1 DEF Prompt
    <2>6. Untouched' /\ Lasting'
      BY <1>2, <2>1 DEF Untouched, Lasting, LimiterInv
    <2>7. PromiseFunded'
      BY <2>1, <2>2 DEF PromiseFunded, LimiterInv
    <2>8. QED
      BY <1>1, <2>4, <2>5, <2>6, <2>7 DEF LimiterInv
  <1>7. CASE UNCHANGED vars
    BY <1>1, <1>7
    DEF vars, LimiterInv, Prompt, Lasting, Untouched, Balanced, PromiseFunded, Have
  <1>8. QED
    BY <1>3, <1>4, <1>5, <1>6, <1>7 DEF Next

(* A client that waits out the promise finds the token it was promised.      *)
LEMMA LimiterSafe == LimiterInv => GrantsBounded /\ PromiseKept
  <1> SUFFICES ASSUME LimiterInv PROVE GrantsBounded /\ PromiseKept
    OBVIOUS
  <1>1. /\ TypeOK /\ now \in 0..MaxTime /\ MaxTime \in Nat /\ promised \in Int
        /\ given \in [0..MaxTime -> Nat]
    BY RateLimiterAssumption DEF LimiterInv, TypeOK
  <1>2. Have(now) \in 0..Capacity
    <2>1. now \in Int /\ now <= now
      BY <1>1
    <2>2. QED
      BY <1>1, <2>1, HaveLevels
  <1>3. GrantsBounded
    <2>1. ASSUME NEW s \in 0..now
          PROVE  given[s] * Cost <= Capacity + Rate * (now - s)
      <3>1. given[s] * Cost \in Int /\ Rate * (now - s) \in Int
        BY <1>1, <2>1, Parameters
      <3>2. QED
        BY <1>2, <2>1, <3>1, Parameters DEF LimiterInv, Balanced
    <2>2. QED
      BY <2>1 DEF GrantsBounded
  <1>4. PromiseKept
    <2>1. SUFFICES ASSUME promised # None, now >= promised, stored
                   PROVE  Level(bucket, now) >= Cost
      BY DEF PromiseKept
    <2>2. Have(promised) >= Cost
      BY <2>1 DEF LimiterInv, PromiseFunded
    <2>3. Have(promised) <= Have(now) /\ Have(promised) \in 0..Capacity
      BY <1>1, <2>1, HaveLevels
    <2>4. Have(now) = Level(bucket, now)
      BY <2>1 DEF Have
    <2>5. QED
      BY <1>2, <2>2, <2>3, <2>4, Parameters
  <1>5. QED
    BY <1>3, <1>4

(* With one clock, no limiter grants more over any interval than a burst and *)
(* what the interval refills, for every limit, however its requests are      *)
(* interleaved and whenever Redis drops an idle bucket (ratelimit.go:81-127, *)
(* redis_limiter.go:31-70).                                                  *)
THEOREM LimitIsTheLimit ==
  ASSUME OneClock
  PROVE  Spec => []GrantsBounded
  <1>1. LimiterInv /\ [Next]_vars => LimiterInv'
    BY LimiterStep
  <1>2. QED
    BY <1>1, LimiterInit, LimiterSafe, PTL DEF Spec

(* With one clock, a client that waits out its Retry-After is granted its    *)
(* request unless another one was granted meanwhile (ratelimit.go:18, 29,    *)
(* 115-123, redis_limiter.go:58-70).                                         *)
THEOREM RetryAfterSuffices ==
  ASSUME OneClock
  PROVE  Spec => []PromiseKept
  <1>1. LimiterInv /\ [Next]_vars => LimiterInv'
    BY LimiterStep
  <1>2. QED
    BY <1>1, LimiterInit, LimiterSafe, PTL DEF Spec
=============================================================================
