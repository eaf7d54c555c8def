\* A message arrives while its recipient's connection is being torn down.
CONSTANTS
  alice = alice bob = bob a1 = a1 b1 = b1 b2 = b2 r1 = r1 r2 = r2 m1 = m1 m2 = m2
  Users <- MCUsers
  Muted = {}
  Conns = {a1, b2}
  Owner <- MCOwner
  Replicas = {r1, r2}
  Home <- TwoReplicas
  Msgs = {m1}
  Viewers = {}
  KeySets <- Everyone
  UseRedis = TRUE
  IncomingCap = 1
  SendBuffer = 1
  MaxLag = 1
  MaxFaults = 0
SPECIFICATION PushSpec
INVARIANT NeverSilent
CHECK_DEADLOCK FALSE
