\* Two devices of one user on two replicas, with fair goroutines.
CONSTANTS
  alice = alice bob = bob a1 = a1 b1 = b1 b2 = b2 r1 = r1 r2 = r2 m1 = m1
  Users <- MCUsers
  Muted = {}
  Conns = {b1, b2}
  Owner <- MCOwner
  Replicas = {r1, r2}
  Home <- TwoReplicas
  Msgs = {m1}
  Viewers = {}
  KeySets <- Everyone
  UseRedis = TRUE
  IncomingCap = 1
  SendBuffer = 2
  MaxLag = 1
  MaxFaults = 0
  Encrypted = TRUE
SPECIFICATION FairScreenSpec
PROPERTY StoredIsShown
CHECK_DEADLOCK FALSE
 
