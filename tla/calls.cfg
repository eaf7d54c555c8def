CONSTANTS
  a1 = a1 b1 = b1 b2 = b2
  Devices = {a1, b1, b2}
  Owner <- MCOwner
  MaxCalls = 2
  MaxPcs = 4
  MaxDrops = 1
  MaxToggles = 1
SPECIFICATION FairSpec
INVARIANTS CallTypeOK NothingLeftOpen Consent TalkTogether 
PROPERTIES EndsByItsOwn 
CONSTRAINT Scope
CHECK_DEADLOCK FALSE
ACTION_CONSTRAINT Steady
