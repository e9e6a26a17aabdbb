CONSTANTS
  e1 = e1
  e2 = e2
  e3 = e3
  e4 = e4
  k1 = k1
  k2 = k2
  EventIds = {e1, e2, e3, e4}
  Keys = {k1, k2}
  NoRow = NoRow
  ChunkSize = 1
  MaxErrorRows = 1
  MaxSummaryRows = 1
  InfraFaults = TRUE
  Names = {1, 2}
  Uuids = {e1, e2, e3, e4}
  AtomicDrops = FALSE
  MaxRestarts = 1
  MaxMoveFaults = 2
  Deliveries <- SomeDrops
SPECIFICATION Spec
CHECK_DEADLOCK FALSE
INVARIANTS
  TypeOK
  FilesAreAccounted
  LoadedFilesAreGone
  LoadedOncePerDrop
  RunRowsTellOutcome
  SummariesAreBacked
PROPERTIES
  FilesAreTakenUp
