SPECIFICATION Spec
CONSTANTS
  NParts = 2
  NBlocks = 3
  PartOf <- MCPartOf
  ICH = TRUE
  MaxReceives = 4
  MaxBad = 2
  MaxErrors = 0
  UserActs = {"pause", "resume"}
  Quits = TRUE
INVARIANTS
  SingleCompletion
  HandleOpenUnlessLate
  CorruptionTrackedUnlessCleared
  VerifiedUnlessLate
  ShutdownVerifies
CHECK_DEADLOCK FALSE
