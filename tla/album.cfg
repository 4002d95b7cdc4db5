CONSTANTS
  ServerTask = {dt}
  LocalTask = {up}
  Content = {c1, c2}
  Strategy = {s1, s2}
  EntryLimit = 2
  NoAsset = noasset
  Absent = absent
  Torn = torn
  MaxFaults = 1
SPECIFICATION Spec
SYMMETRY Interchangeable
INVARIANTS NoDanglingEntry
PROPERTY NoOrphans
