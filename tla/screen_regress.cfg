\* A stale history reply overwrites a newer receipt.
CONSTANTS
  alice = alice bob = bob a1 = a1 b1 = b1 b2 = b2 r1 = r1 r2 = r2 m1 = m1
  Users <- MCUsers
  Muted = {}
  Conns = {a1, b1}
  Owner <- MCOwner
  Replicas = {r1}
  Home <- OneReplica
  Msgs = {m1}
  Viewers = {a1, b1}
  KeySets <- Everyone
  UseRedis = FALSE
  IncomingCap = 1
  SendBuffer = 2
  MaxLag = 1
  MaxFaults = 0
  Encrypted = FALSE
SPECIFICATION ScreenSpec
PROPERTY ScreenForward
