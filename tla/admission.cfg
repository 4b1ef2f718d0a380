SPECIFICATION TaskFairSpec
CONSTANTS
  Peers = {o, a, b}
  Owner = o
  Slots = {s1}
  MaxEpoch = 3
  MaxMsgs = 2
  MaxTasks = 2
INVARIANT OneRosterPerEpoch
PROPERTY ExpelledLeaves
