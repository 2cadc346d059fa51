\* Unary and streaming requests with retries against one provider that fails
\* until its circuit has cooled down once: the in-memory breaker's counters, its
\* cooldown and its probes, and what must eventually happen.
SPECIFICATION FairSpec
CONSTANTS
  r1 = r1  r2 = r2  p1 = p1  p2 = p2
  Requests = {r1, r2}
  Providers = {p1}
  TargetLists <- OneTarget
  UpstreamErrors = {"unavailable"}
  MaxAttempts = 2
  Shared = FALSE
  ClockSkew = 0
  KeyTTL = 0
  StoreFails = FALSE
  FailureThreshold = 2
  OpenDuration = 1
  HalfOpenProbes = 2
  MaxFailures = 3
  LastFault = 1
  MaxTime = 2
  MaxOvershoot = 0
INVARIANTS TypeOK CircuitsConsistent ClosedCountsFaults
PROPERTIES EveryRequestEnds Recovers
