\* Two replicas sharing Redis, with one failed call or killed replica.
CONSTANTS
  alice = alice bob = bob a1 = a1 b1 = b1 b2 = b2 r1 = r1 r2 = r2 m1 = m1 m2 = m2
  Users <- MCUsers
  Muted = {}
  Conns = {a1, b2}
  Owner <- MCOwner
  Replicas = {r1, r2}
  Home <- TwoReplicas
  Msgs = {m1}
  Viewers = {}
  KeySets <- Everyone
  UseRedis = TRUE
  IncomingCap = 1
  SendBuffer = 1
  MaxLag = 1
  MaxFaults = 1
SPECIFICATION Spec
INVARIANTS NoFalseReceipt NoStuckSent
CHECK_DEADLOCK FALSE
