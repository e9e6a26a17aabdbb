CONSTANTS
  e1 = e1
  e2 = e2
  k1 = k1
  k2 = k2
  EventIds = {e1, e2}
  Keys = {k1, k2}
  NoRow = NoRow
  ChunkSize = 2
  MaxErrorRows = 3
  MaxSummaryRows = 2
  InfraFaults = FALSE
  MaxPollRecords = 3
  ProducerStarts = TRUE
  MaxRestarts = 0
  MaxRebalances = 0
  Logs <- Untimed
SPECIFICATION Spec
CHECK_DEADLOCK FALSE
INVARIANTS
  CommitsOnlyProcessed
