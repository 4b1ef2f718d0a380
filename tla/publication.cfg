SPECIFICATION FairSpec
CONSTANTS
  Ids = {i}
  Clients = {c}
  Nobody = nobody
  MaxRequests = 2
  MaxCrashes = 1
INVARIANTS
  TypeOK
  ServedIsCurrent
  ReadableIsRevocable
PROPERTY ExpiredIsErased
CHECK_DEADLOCK FALSE
