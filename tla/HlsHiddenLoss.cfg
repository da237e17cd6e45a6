CONSTANTS
  LastSegment = 5
  PlaylistLength = 2
  Wanted = 0
  Workers = 2
  MaxSize = 8
  MaxDepth = 1
  MaxGaps = 1
  MaxGapPercent = 34
  Breaks = {}

SPECIFICATION FairSpec

INVARIANTS
  LossIsCounted
