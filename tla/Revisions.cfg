SPECIFICATION FairSpec
CONSTANTS
  None = None
  Procs = {p1, p2}
  Contents = {x, y}
  Labels = {plain, marked}
  MaxOps = 3
  MaxBreaks = 1
INVARIANTS HistoryHolds
PROPERTIES ConflictsComeFromBreaks RevisionsSpec OperationsReturn
CHECK_DEADLOCK FALSE
