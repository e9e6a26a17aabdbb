CONSTANTS
  Batches <- SmallBatches
  Rates <- SmallRates
  Unit = 2
  Places = 2
  PriceStep = 20
  ValueStep = 50
  DoubleMax = 400000
  PriceMax = 1000
  ValueMax = 10000
  VolumeMax = 8
  Threshold = 3
SPECIFICATION Spec
CHECK_DEADLOCK FALSE
INVARIANTS
  TypeOK
  FatesDecide
  PricesAreRead
  OutliersAreMinority
  FiguresFit
  SpikesStandOut
