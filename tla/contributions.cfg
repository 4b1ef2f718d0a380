SPECIFICATION FairSpec
CONSTANTS
  Peers = {o, a}
  Owner = o
  Slots = {s1, s2}
  MaxEpoch = 3
  MaxMsgs = 2
INVARIANTS
  NoOrphanContribution
  
PROPERTY ExpelledLeaves
