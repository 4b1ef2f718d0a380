SPECIFICATION Spec
CONSTANTS
  c1 = c1
  NoId = NoId
  None = None
  Blocks <- MCBlocks
  MaxBlocks = 4
  MaxEdits = 3
INVARIANTS TypeOK Canonical MarksMeanParts TurnsByDefinition NoGuessedPairing
PROPERTY RefsKeep
CHECK_DEADLOCK FALSE
