SPECIFICATION TopKSpec
CONSTANTS
  Tables <- Loaded
  VectorColumns = {"x", "y"}
  DIMENSION = 2
  Component <- Small
  Specs <- Indexes
  MaxAttachments = 2
  Plans <- Asked
  Null = Null
  NonFinite = NonFinite
  Grain = 2
  Narrow <- HalfPrecision
  MetricDistance <- Apart
INVARIANTS IndexAnswersTheQuery OrderHolds
CHECK_DEADLOCK FALSE
