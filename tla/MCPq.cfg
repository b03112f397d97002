SPECIFICATION PqSpec
CONSTANTS
  N = 4
  Partitions = 2
  Iterations = 2
  Subs = 2
  SliceSize = 1
  CodebookSize = 2
  Vector <- Plane
  Stored <- Points
  Queries <- Asks
  Ks = {0, 2, 4}
  ProbeCounts = {1, 2}
  Reranks = {1, 4}
  MaxFloat = 160
  Spherical = FALSE
  Distance <- Euclidean
INVARIANTS PqTypeOK ShortlistIsNearestDecoded FullEffortIsExact NeverSilentlyShort EmptyOnlyIfCovered
PROPERTIES CostNeverGrows DistortionNeverGrows
