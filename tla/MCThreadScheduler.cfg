SPECIFICATION FairSpec
CONSTANTS
  h1 = h1
  h1b = h1b
  h2 = h2
  c1 = c1
  a1 = a1
  NoTask = NoTask
  Tasks <- MCTasks
  Keys <- MCKeys
  Types <- MCTypes
  KeyOf <- MCKeyOf
  TypeOf <- MCTypeOf
  Priority <- MCPriority
  FollowUp <- MCFollowUp
  MaxCreateErrors = 2
INVARIANTS
  DescsTrackTasks
  DirtyImpliesNonEmpty
  NothingRunsAfterTerminate
  PendingCountIsExact
PROPERTIES
  TaskSeenByWorkerRuns
  TerminateReturns
CHECK_DEADLOCK FALSE
