SPECIFICATION Spec
CONSTANTS
  q1 = q1
  q2 = q2
  f1 = f1
  f2 = f2
  s1 = s1
  s2 = s2
  c1 = c1
  None = None
  Readers <- MCReaders
  FullSyncs = {q2}
  ProcessOf <- TwoProcesses
  Files <- MCFiles
  Captures = {}
  Ids = {s1, s2}
  OldArchive = FALSE
  MaxClock = 2
SYMMETRY MCSymmetry
INVARIANTS TypeOK OneRowPerFile 
 
