\* Two requests and the stores they leave behind: nine questions over a
\* priority alias of OpenAI providers and a weighted one with a Gemini target.
SPECIFICATION Spec
CONSTANTS
  Requests = {r1, r2}
  MaxAttempts = 1
  Aliases <- MCAliases
  DefaultAlias = ""
  Family <- MCFamily
  Replies <- MCReplies
  Lengths <- MCLengths
  Normal <- MCNormal
  Questions <- MCQuestions
  Score <- MCScore
  Threshold = 2
  MaxTemperature = 2
  MaxTempDelta = 1
SYMMETRY MCSymmetry
INVARIANTS
  TypeOK
  HitsAnswerTheQuestion
  OnlyFinishedCached
  OptOutHonored
  BookedAsAnswered
  GivesUpOnlyAfterAll
CHECK_DEADLOCK FALSE
