SPECIFICATION Spec
CONSTANTS
  N = 5
  M = 2
  EfConstruction = 3
  EfSearches = {1, 5}
  Ks = {0, 3}
  Vector <- Points
  Distance <- Euclidean
INVARIANTS Reciprocal DegreeBound
PROPERTIES LossIsJustified BuildsBoundedGraph AnswerIsHonest CallsReturn
