CONSTANTS
  u1 = u1
  u2 = u2
  r1 = r1
  r2 = r2
  k1 = k1
  Users = {u1}
  Owners = {}
  Blocked = {}
  EnableVip = TRUE
  FreeBandwidth = 3
  MbPerCredit = 2
  InitFree = 1
  InitPaid = 1
  Requests = {r1, r2}
  UserOf <- MCUserOf
  Keys = {k1}
  KeyOf <- MCNoKey
  NoKey = NoKey
  Plans <- MCPlans
  AlbumLimit = 2
  ArchiveOn = TRUE
  DbMayFail = FALSE

SPECIFICATION Spec

INVARIANTS
  DeliveredIsCharged
