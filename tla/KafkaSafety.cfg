CONSTANTS
  e1 = e1
  e2 = e2
  k1 = k1
  k2 = k2
  EventIds = {e1, e2}
  Keys = {k1, k2}
  NoRow = NoRow
  ChunkSize = 1
  MaxErrorRows = 2
  MaxSummaryRows = 2
  InfraFaults = TRUE
  MaxPollRecords = 2
  ProducerStarts = TRUE
  MaxRestarts = 1
  MaxRebalances = 1
  Logs <- Topics
SPECIFICATION Spec
CHECK_DEADLOCK FALSE
INVARIANTS
  TypeOK
  NoSilentLoss
  RunRowsMatchTables
  ErrorsReachDlt
  SummariesMatchMarket
  ReplayIsBounded
PROPERTIES
  RowsAreStable
  RunRowsSettle
  ImplementsDelivery
  TopicIsDrained
