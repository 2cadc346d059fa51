\* Two calls that reach the script in the other order.
SPECIFICATION Spec
CONSTANTS
  h1 = h1  h2 = h2
  Handlers = {h1, h2}
  Skew <- NoSkew
  Shared = TRUE
  Rate = 2
  Cost = 3
  Burst = 3
  TTL = 5
  Delay = 1
  MaxTime = 9
INVARIANT GrantsBounded
