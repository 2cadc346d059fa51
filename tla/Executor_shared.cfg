\* One provider with its circuit in Redis: the script cools a circuit down
\* before every event, by the clock of the replica that sent it; any event may
\* be lost, and the circuit's key expires.
SPECIFICATION Spec
CONSTANTS
  r1 = r1  r2 = r2  p1 = p1  p2 = p2
  Requests = {r1, r2}
  Providers = {p1}
  TargetLists <- OneTarget
  UpstreamErrors = {"unavailable"}
  MaxAttempts = 1
  Shared = TRUE
  ClockSkew = 1
  KeyTTL = 3
  StoreFails = TRUE
  FailureThreshold = 2
  OpenDuration = 1
  HalfOpenProbes = 2
  MaxFailures = 3
  LastFault = 1
  MaxTime = 3
  MaxOvershoot = 0
SYMMETRY Symmetry
INVARIANTS CircuitsConsistent
PROPERTY CooledCircuitNeedsProbes
