SPECIFICATION Spec
CONSTANTS
  Absent = Absent
  Partial = Partial
  MaxBlock = 2
  MaxOsc = 2
  PtyBuffer = 11
  MaxLines = 2
  MaxFaults = 1
  Outputs <- MCOutputs
INVARIANTS TypeOK RecordedOnce OwnBlock
CHECK_DEADLOCK FALSE
