INIT ArtifactViewsInit
NEXT ArtifactViewsNext
CONSTANTS
  None = None
  p1 = p1
  p2 = p2
  title = title
  titleAndId = titleAndId
  Procs = {p1, p2}
  Names = {title, titleAndId}
  Title = title
  TitleAndId = titleAndId
  MaxTrees = 2
  MaxOps = 3
  Troubles = {}
PROPERTY LiveWorktreeStays
CHECK_DEADLOCK FALSE
