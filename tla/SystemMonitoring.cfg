CONSTANTS
  e1 = e1
  e2 = e2
  u1 = u1
  u2 = u2
  u3 = u3
  EventIds = {e1, e2, u1, u2, u3}
  Keys = {1, 2}
  NoRow = NoRow
  ChunkSize = 2
  MaxErrorRows = 2
  MaxSummaryRows = 2
  InfraFaults = FALSE
  MaxPollRecords = 2
  ProducerStarts = TRUE
  MaxRebalances = 0
  Logs <- MixedTopic
  Deliveries <- MixedFile
  Names = {1}
  Uuids = {u1, u2, u3}
  AtomicDrops = TRUE
  MaxMoveFaults = 0
  PageSize = 1
  Flagged = {13}
  Endpoints = {"runs", "run", "metrics", "summaries"}
  ApiFaults = TRUE
  MaxRestarts = 0
SPECIFICATION Spec
CHECK_DEADLOCK FALSE
INVARIANTS
  MetricsAgree
  DetailAddsUp
  AnswersStand
