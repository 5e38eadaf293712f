SPECIFICATION FairSpec
CONSTANTS
  NParts = 2
  NBlocks = 3
  PartOf <- MCPartOf
  ICH = TRUE
  MaxReceives = 3
  MaxBad = 1
  MaxErrors = 0
  UserActs = {}
  Quits = TRUE
PROPERTIES
  CompletionResolves
  ShutdownEnds
CHECK_DEADLOCK FALSE
