SPECIFICATION Spec
CONSTANTS
  Peers = {o, a, b, c}
  Owner = o
  Slots = {s1}
  MaxEpoch = 4
  MaxMsgs = 3
SYMMETRY MemberSymmetry
INVARIANTS
  TypeOK
  EpochsAreOwners
  
  OwnerAndSelfListed
  
 
