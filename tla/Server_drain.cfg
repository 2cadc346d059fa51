\* A completion in progress when the signal comes.
SPECIFICATION ServerSpec
CONSTANTS
  r1 = r1  r2 = r2  r3 = r3  c1 = c1  p1 = p1  p2 = p2
  Requests = {r1, r2}
  RequestID <- Distinct
  BufferSize = 1
  BatchSize = 2
  SinkFails = FALSE
  Files <- Metered
  Clients = {}
  EmbeddingLists <- Lists
  NoEmbeddings = {p2}
  UpstreamErrors = {"unavailable"}
INVARIANT InFlightDrained
CHECK_DEADLOCK FALSE
