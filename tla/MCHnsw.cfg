SPECIFICATION Spec
CONSTANTS
  N = 4
  M = 1
  EfConstruction = 2
  MaxLevel = 2
  EfSearches = {1, 3}
  Ks = {1, 2}
  Vector <- Pair
  Distance <- Dot
INVARIANTS TypeOK LayersSound
PROPERTIES LayersBounded DescentOnlyImproves AnswerIsHonest CallsReturn
