SPECIFICATION MCFairSpec
CONSTANTS
  None = None
  p1 = p1
  p2 = p2
  c1 = c1
  c2 = c2
  Procs <- TwoProcs
  FirstConv = c1
  Lines <- TwoLines
  MaxLen = 2
  Window = 1
  Convs <- TwoConvs
  MaxOps = 4
  Disturbances <- Everything
  MaxDisturbed = 1
INVARIANTS ArchiveHolds
CHECK_DEADLOCK FALSE
PROPERTIES TranscriptsOnlyGrow OperationsReturn
