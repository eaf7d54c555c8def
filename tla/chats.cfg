SPECIFICATION MCSpec
CONSTANTS
  ann = ann
  bob = bob
  cy = cy
  dee = dee
  a1 = a1
  b1 = b1
  b2 = b2
  Users <- MCUsers
  Pages = {a1, b1, b2}
  Peers <- MCPeers
  Joiners <- MCJoiners
  Owner <- MCOwner
  MaxChats = 2
  MaxMembers = 3
  Timers = {0, 5}
  MaxRequests = 3
  MaxLoads = 2
  MaxFaults = 1
ACTION_CONSTRAINT Steady
CONSTRAINT OneLoad
SYMMETRY Strangers
INVARIANTS ListTypeOK OnePair  OneSecret GroupFits  
PROPERTIES EncryptionKept
CHECK_DEADLOCK FALSE
