SPECIFICATION ChunksSpec
CONSTANTS
  Size = 6
  Overlap = 3
  RuneMax = 4
  MaxText = 11
  MaxPages = 3
INVARIANT
  CitesItsSlide
CHECK_DEADLOCK FALSE
