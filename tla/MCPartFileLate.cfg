SPECIFICATION Spec
CONSTANTS
  NParts = 2
  NBlocks = 3
  PartOf <- MCPartOf
  ICH = TRUE
  MaxReceives = 3
  MaxBad = 1
  MaxErrors = 0
  UserActs = {}
  Quits = FALSE
INVARIANTS
  CompleteMeansVerified
CHECK_DEADLOCK FALSE
