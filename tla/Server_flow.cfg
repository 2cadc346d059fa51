\* Three completions, two of them with one id, and an embeddings request,
\* against a buffer of one and batches of two, with a database that may fail,
\* from any configuration file to the end of the process.
SPECIFICATION MCSpec
CONSTANTS
  r1 = r1  r2 = r2  r3 = r3  c1 = c1  p1 = p1  p2 = p2
  Requests = {r1, r2, r3}
  RequestID <- OneTwice
  BufferSize = 1
  BatchSize = 2
  SinkFails = TRUE
  Files <- AllFiles
  Clients = {c1}
  EmbeddingLists <- Lists
  NoEmbeddings = {p2}
  UpstreamErrors = {"unavailable", "invalid_request"}
INVARIANTS WrittenArePersisted LossesCounted RowsAccounted TypeOK
  RecordNeverWaits ServerTypeOK BuildAgrees LayersAsAssumed DrainedIsBooked
  PoolOutlivesRows
PROPERTIES LedgerContract DrainAdvances RowsSettled ProcessEnds
  EmbeddingsFailOver
\* A process that has exited does nothing any more.
CHECK_DEADLOCK FALSE
