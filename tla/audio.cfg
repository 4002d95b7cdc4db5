SPECIFICATION FairSpec
CONSTANTS
  Formats = {f16, f24}
  Generations = {g1, g2, g3}
  None = None
  RingChunks = 2
INVARIANT Recoverable
PROPERTY SegmentEnds
