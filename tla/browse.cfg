SPECIFICATION FairSpec
CONSTANTS
  a = a
  b = b
  None = None
  N = 2
  Sessions = {a}
  Cap = 1
  Page = 3
  NeedEnd = 2
  MaxGen = 2
  MaxFaults = 1
  MaxInputs = 2
INVARIANTS TypeOK WaitsHaveJobs BodiesOfThisSelection
PROPERTIES NeverBlanks BodySettles
CHECK_DEADLOCK FALSE
