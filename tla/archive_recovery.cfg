SPECIFICATION FairSpec
CONSTANTS
  q1 = q1
  q2 = q2
  f1 = f1
  f2 = f2
  s1 = s1
  s2 = s2
  c1 = c1
  None = None
  Readers <- MCReaders
  FullSyncs = {}
  ProcessOf <- OneProcess
  Files = {f1}
  Captures = {c1}
  Ids = {s1, s2}
  OldArchive = TRUE
  MaxClock = 3
PROPERTIES  NoRegress 
