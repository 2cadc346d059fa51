\* A client that spells an alias in another case, with a default alias.
SPECIFICATION Spec
CONSTANTS
  Requests = {r1, r2}
  MaxAttempts = 1
  Aliases <- MCAliases
  DefaultAlias = "mix"
  Family <- MCFamily
  Replies <- MCReplies
  Lengths <- MCLengths
  Normal <- MCNormal
  Questions <- MCSpellings
  Score <- MCScore
  Threshold = 2
  MaxTemperature = 2
  MaxTempDelta = 1
INVARIANT HitsAnswerTheQuestion
CHECK_DEADLOCK FALSE
