SPECIFICATION Spec
CONSTANTS
  N = 4
  Partitions = 3
  Iterations = 2
  Vector <- Plane
  Stored <- Compass
  Queries <- Asks
  Ks = {2, 5}
  ProbeCounts = {1, 3}
  Spherical = TRUE
  Distance <- Cosine
INVARIANTS TypeOK ListsFollowCentroids AnswerIsNearestProbed SelfQueryFindsRow
