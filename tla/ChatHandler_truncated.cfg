\* Streams of an alias with a Gemini target.
SPECIFICATION Spec
CONSTANTS
  Requests = {r1, r2}
  MaxAttempts = 1
  Aliases <- MCAliases
  DefaultAlias = ""
  Family <- MCFamily
  Replies <- MCReplies
  Lengths <- MCLengths
  Normal <- MCNormal
  Questions <- MCStreams
  Score <- MCScore
  Threshold = 2
  MaxTemperature = 2
  MaxTempDelta = 1
INVARIANT OnlyFinishedCached
CHECK_DEADLOCK FALSE
