SPECIFICATION Spec
CONSTANTS
  f1 = f1
  f2 = f2
  Absent = Absent
  Files <- TwoFiles
  NSlots = 2
  MaxVersion = 3
  MaxCrashes = 2
  MaxWriteErrors = 2
  MaxRenameErrors = 2
INVARIANTS
  MetNeverPartial
  SavedVersionSurvives
  InstalledCopySurvives
  OwnPartIfSaved
CHECK_DEADLOCK FALSE
