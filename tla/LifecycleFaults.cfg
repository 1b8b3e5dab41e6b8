SPECIFICATION FairSpec
CONSTANTS
  p1 = p1
  p2 = p2
  a1 = a1
  a2 = a2
  None = None
  Procs <- TwoProcs
  Ids <- TwoAgents
  Bases <- OneBase
  MaxSuffix = 2
  Data <- OneDatum
  MaxRuns = 3
  HookStates <- Hooks
  Operations <- AllOps
  Budget <- Troubled
INVARIANTS UniqueRunningNames NoLostUpdate FailedCreateLeavesNothing
CONSTRAINT InOrder
CHECK_DEADLOCK FALSE
PROPERTIES OperationsFinish StopEndsTheProgram
