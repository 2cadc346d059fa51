\* The script, with one clock and prompt calls, and idle buckets expiring.
SPECIFICATION Spec
CONSTANTS
  h1 = h1  h2 = h2
  Handlers = {h1, h2}
  Skew <- NoSkew
  Shared = TRUE
  Rate = 2
  Cost = 3
  Burst = 3
  TTL = 5
  Delay = 0
  MaxTime = 9
INVARIANTS TypeOK GrantsBounded PromiseKept
