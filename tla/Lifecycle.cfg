SPECIFICATION Spec
CONSTANTS
  p1 = p1
  p2 = p2
  a1 = a1
  a2 = a2
  None = None
  Procs <- TwoProcs
  Ids <- TwoAgents
  Bases <- OneBase
  MaxSuffix = 2
  Data <- OneDatum
  MaxRuns = 3
  HookStates <- Hooks
  Operations <- AllOps
  Budget <- Calm
SYMMETRY Symmetry
INVARIANTS SessionsAsRecorded EndedMeansGone OneProgramPerAgent HookReachesItsOwnRun
PROPERTY RegistrySpec
CHECK_DEADLOCK FALSE
