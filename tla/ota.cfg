SPECIFICATION FairSpec
CONSTANTS
  None = None
  Torn = Torn
  MaxVersion = 3
  MaxRequests = 2
  MaxCuts = 2
  MaxFaults = 1
  SoakTicks = 1
  MaxBootAge = 2
CHECK_DEADLOCK FALSE
INVARIANT FallbackKept
INVARIANT OutcomeTrue
PROPERTY NeverRewound
PROPERTY TrialEnds
PROPERTY RequestEnds
