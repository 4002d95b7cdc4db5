SPECIFICATION FairSpec
CONSTANTS
  MaxGeneration = 5
  MaxFaults = 2
  Absent = Absent
  Corrupt = Corrupt
INVARIANT ActivationCoherent
PROPERTY NoTokenRotation
PROPERTY DurableSpec
PROPERTY DeviceKeepsAsking
