SPECIFICATION Spec
CONSTANTS
  NParts = 2
  NBlocks = 3
  PartOf <- MCPartOf
  ICH = TRUE
  MaxReceives = 3
  MaxBad = 1
  MaxErrors = 1
  UserActs = {"pause", "stop", "resume", "delete"}
  Quits = TRUE
INVARIANTS
  CountersExact
  BytesAccounted
  CompletionHasAllBytes
  DeletedIsForgotten
CHECK_DEADLOCK FALSE
