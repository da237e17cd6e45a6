CONSTANTS
  u1 = u1
  u2 = u2
  r1 = r1
  r2 = r2
  k1 = k1
  Users = {u1, u2}
  Owners = {u1}
  Blocked = {}
  EnableVip = TRUE
  FreeBandwidth = 3
  MbPerCredit = 2
  InitFree = 3
  InitPaid = 0
  Requests = {r1, r2}
  UserOf <- MCOwnerAndGuest
  Keys = {k1}
  KeyOf <- MCSameKey
  NoKey = NoKey
  Plans <- MCFew
  AlbumLimit = 2
  ArchiveOn = TRUE
  DbMayFail = TRUE

SPECIFICATION Spec

INVARIANTS
  OneExactCharge
  NothingLeftUncharged
  UnrecordedOnlyInAlbum
