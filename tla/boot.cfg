CONSTANTS
  Documents = {empty, d1, d2}
  Empty = empty
  Absent = absent
  Torn = torn
  MaxFaults = 2
SPECIFICATION BSpec
INVARIANT OnlyOperatorSelects
PROPERTY BootDocumentSpec
PROPERTY DeviceStartsAgain
