CONSTANTS
  j1 = j1
  j2 = j2
  j3 = j3
  j4 = j4
  m1 = m1
  m2 = m2
  m3 = m3
  Handlers = {j1, j2, j3, j4}
  Messages = {m1, m2, m3}
  None = None

SPECIFICATION Spec

SYMMETRY MCSymmetry

CHECK_DEADLOCK FALSE

INVARIANTS
  RegistryIsLive
  OneRunPerOffer
  RunningIsRun
  IndexesAgree
  CancelFindsTheRun
  RetryButtonIsAlive
