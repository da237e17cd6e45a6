CONSTANTS
  u1 = u1
  u2 = u2
  j1 = j1
  j2 = j2
  j3 = j3
  j4 = j4
  Jobs = {j1, j2, j3, j4}
  Users = {u1, u2}
  Global = Global
  Owner <- MCOwner
  GlobalLimit = 2
  PerUserLimit = 2

SPECIFICATION FairSpec

INVARIANTS
  SlotsAccounted
  NoLostWakeUp

PROPERTIES
  SlotsSpec
  EveryWaiterLeavesTheQueue
