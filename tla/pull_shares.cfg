SPECIFICATION Spec
CONSTANTS
  Peers = {o, a, b}
  Owner = o
  Slots = {s1, s2}
  MaxEpoch = 4
  MaxMsgs = 3
SYMMETRY Symmetry
PROPERTY PullConverges
