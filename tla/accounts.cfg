\* Accounts, requests to administrators and the library, each with two to four requests.
SPECIFICATION MCSpec
CONSTANTS
  root = root
  ann = ann
  eve = eve
  w1 = w1
  w2 = w2
  p1 = p1
  p2 = p2
  d1 = d1
  d2 = d2
  s1 = s1
  s2 = s2
  s3 = s3
  Names = {root, ann, eve}
  Passwords = {w1, w2}
  Devices = {d1, d2}
  Slots = {s1, s2, s3}
  Device <- MCDevice
  MaxRequests = 4
  MaxFaults = 1
  Phones = {p1, p2}
  PageSize = 1
  MaxActs = 4
ACTION_CONSTRAINT Steady Prompt
SYMMETRY Slots1
INVARIANTS OfficeTypeOK VerifiedWasSeen PagesFit UnlockedOpens AdminRemains TokensAreCurrent SessionsAreLive KeysUnlock IdentityIsPublished
 
CHECK_DEADLOCK FALSE
