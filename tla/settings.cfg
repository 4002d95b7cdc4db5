CONSTANTS
  fresh = fresh
  other = other
  portal = portal
  calibration = calibration
  MainValues = {fresh, other}
  FreshMain = fresh
  Steps = {20}
  DefaultSteps = 20
  MaxGeneration = 3
  MaxSequence = 4
  DevelopmentImages = TRUE
  Absent = absent
  Corrupt = corrupt
  Unknown = unknown
  MaxFaults = 1
  MaxTroubles = 1
  Sources = {portal, calibration}
  SourceValues <- MCSourceValues
  LedMaps = {calibration}
  HistoricalMain <- MCHistoricalMain
SPECIFICATION MSpec
INVARIANTS PartsOldOrRequested AnswersTrue RefusedOnlyIfDisturbed NoSaveLost PhaseTells
