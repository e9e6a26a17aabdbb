CONSTANTS
  e1 = e1
  e2 = e2
  e3 = e3
  e4 = e4
  k1 = k1
  k2 = k2
  EventIds = {e1, e2, e3, e4}
  Keys = {k1, k2}
  NoRow = NoRow
  ChunkSize = 2
  MaxErrorRows = 2
  MaxSummaryRows = 2
  InfraFaults = FALSE
  Names = {1, 2}
  Uuids = {e1, e2, e3, e4}
  AtomicDrops = TRUE
  MaxRestarts = 0
  MaxMoveFaults = 0
  Deliveries <- BenignDrops
SPECIFICATION Spec
CHECK_DEADLOCK FALSE
PROPERTIES
  FilesAreLoaded
