SPECIFICATION Spec
CONSTANTS
  Args <- CommandLines
  Flags <- Dashed
  BaseFile <- Bases
  QueryFile <- Asked
  TruthFiles <- Truths
  DIMENSIONS = 1
  GROUND_TRUTH_WIDTH = 3
  SMOKE_BASE_ROWS = 3
  SMOKE_QUERY_ROWS = 2
  INDEX_NAMES <- Names
  WARM_QUERY_COUNT = 3
  Lossy = {2}
  RANKS <- Ranks
  Clocks <- Times
  NonFinite = NonFinite
  Vector <- Points
  Distance <- Euclidean
INVARIANTS FailsOnlyByFault RoundsBalanced ReportIsSound
PROPERTIES MilestonesHonest
