\* Two concurrent requests over two providers, at one instant: retries,
\* failover, streaming and cancellation against circuits opened by the other.
SPECIFICATION Spec
CONSTANTS
  r1 = r1  r2 = r2  p1 = p1  p2 = p2
  Requests = {r1, r2}
  Providers = {p1, p2}
  TargetLists <- Fallback
  UpstreamErrors = {"rate_limit", "invalid_request"}
  MaxAttempts = 2
  Shared = FALSE
  ClockSkew = 0
  KeyTTL = 0
  StoreFails = FALSE
  FailureThreshold = 1
  OpenDuration = 1
  HalfOpenProbes = 1
  MaxFailures = 2
  LastFault = 0
  MaxTime = 0
  MaxOvershoot = 4
SYMMETRY Symmetry
INVARIANTS WithinBudget DisconnectCostsOneCall BestErrorReported
  OvershootBounded
PROPERTIES FailoverContract RequestsAdvance
