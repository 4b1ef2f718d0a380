SPECIFICATION Spec
CONSTANTS
  c1 = c1
  NoId = NoId
  None = None
  Blocks <- MCBlocks
  MaxBlocks = 3
  MaxEdits = 2
INVARIANT SavedIsReadable
CHECK_DEADLOCK FALSE
