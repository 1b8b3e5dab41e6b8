INIT MCInit
NEXT MCNext
CONSTANTS
  None = None
  p1 = p1
  p2 = p2
  c1 = c1
  c2 = c2
  Procs <- TwoProcs
  FirstConv = c1
  Lines <- TwoLines
  MaxLen = 2
  Window = 1
  Convs <- OneConv
  MaxOps = 3
  Disturbances <- Nothing
  MaxDisturbed = 0
SYMMETRY Symmetry
INVARIANT ArchivedWhenOver
CHECK_DEADLOCK FALSE
