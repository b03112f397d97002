SPECIFICATION CallsSpec
CONSTANTS
  N = 4
  Vector <- Line
  Distance <- Euclidean
  Queries <- Origin
  Widths = {0, 2, 4}
  Entries <- Starts
INVARIANTS BeamClosed BeamIsNearestSeen WideBeamIsExhaustive
PROPERTIES SearchReturns
