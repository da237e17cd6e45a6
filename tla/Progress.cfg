CONSTANTS
  MaxUpdates = 3
  MaxTerminal = 2
  MaxRetries = 1
  MaxFaults = 6
  Gone = Gone
  Failed = Failed

SPECIFICATION FairSpec

INVARIANTS
  TypeOK
  ToldOnce
  NoFalseProgress
  FailureSurvivesTwoFaults

PROPERTIES
  NeverBackwards
  EveryUpdateEnds
