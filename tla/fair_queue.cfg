SPECIFICATION Spec
CONSTANTS
  Lanes = {a, b, c}
  MaxJobs = 6
  MaxHeld = 1
  MaxQueueDepth = 5
  MaxJobRetries = 1
SYMMETRY Symmetry
CHECK_DEADLOCK FALSE
INVARIANTS
  TypeOK
  OneOfEachAhead
  PlaceKept
PROPERTIES
  PositionTruthful
  OnlySplices
  NextStaysNext
  InsertKeepsRounds
