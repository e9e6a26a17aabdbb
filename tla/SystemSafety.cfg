CONSTANTS
  e1 = e1
  e2 = e2
  u1 = u1
  u2 = u2
  u3 = u3
  EventIds = {e1, e2, u1, u2}
  Keys = {1, 2}
  NoRow = NoRow
  ChunkSize = 2
  MaxErrorRows = 2
  MaxSummaryRows = 2
  InfraFaults = TRUE
  MaxPollRecords = 2
  ProducerStarts = TRUE
  MaxRebalances = 0
  Logs <- TwoDays
  Deliveries <- OneFile
  Names = {1}
  Uuids = {u1, u2}
  AtomicDrops = TRUE
  MaxMoveFaults = 0
  PageSize = 1
  Flagged = {}
  Endpoints = {}
  ApiFaults = FALSE
  MaxRestarts = 1
SPECIFICATION Spec
CONSTRAINT FewRuns
CHECK_DEADLOCK FALSE
INVARIANTS
  TypeOK
  NoWaitCycle
  SummariesAreBacked
PROPERTIES
  OpenPricesStand
  DeliversBesideFiles
