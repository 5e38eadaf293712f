SPECIFICATION Spec
CONSTANTS
  f1 = f1
  f2 = f2
  Absent = Absent
  Files <- TwoFiles
  NSlots = 2
  MaxVersion = 2
  MaxCrashes = 1
  MaxWriteErrors = 0
  MaxRenameErrors = 0
INVARIANTS
  RestartLoadsSaved
CHECK_DEADLOCK FALSE
