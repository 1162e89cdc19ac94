\* Three ids, any number of changes, crashes, failed writes and restarts.
CONSTANTS
  MaxId = 3
  Absent = Absent
  Torn = Torn
  Requests <- MCWrites
  DiskFails = TRUE
SPECIFICATION Spec
INVARIANTS
  TypeOK
  SettledFilesAreWhole
  IdsUnique
  RefusedOnlyForCut
PROPERTIES
  RestartFindsOnlyKnown
  RestartKeepsOthers
CHECK_DEADLOCK FALSE
