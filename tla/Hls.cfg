CONSTANTS
  LastSegment = 7
  PlaylistLength = 4
  Wanted = 3
  Workers = 2
  MaxSize = 9
  MaxDepth = 1
  MaxGaps = 1
  MaxGapPercent = 18
  Breaks = {5}

SPECIFICATION FairSpec

INVARIANTS
  TypeOK
  WindowIsDelivered
  LimitsAreKept
  NothingLeftBehind

PROPERTIES
  DownloadEnds
