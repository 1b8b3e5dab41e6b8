INIT ScreensInit
NEXT ScreensNext
CONSTANTS
  HomeAgents = {1, 2, 3, 4}
  HomeViews = {21, 22}
  NameOf <- NameOfC
  CheckoutOf <- CheckoutOfC
  ParentOf <- ParentOfC
  ViewProject <- ViewProjectC
  HomeAssistant = 4
  Found <- FoundC
  NoAgent = 99
  EndedShown = 1
  FirstWorlds <- FirstWorldsC
  MaxHomeKeys = 2
  MaxHomeSteps = 1
  Records <- RecordsC
  Available = {0, 3, 4}
  Bytes = {"esc", "[", "O", "3", "A", "~", "2", "c"}
  MaxEditorKeys = 3
  MaxBytes = 4
  MaxOthers = 1
  LineKinds = {"user", "end_turn"}
  LineTimes = {1,3}
  HoldCap = 1
  MaxTokens = 6
  MaxWrites = 3
  Assistant = "tx-assistant"
  SavedOrder <- SavedOrderC
  DayLength = 16
  Days = 16
  SegGap = 5
  NoParent = "none"
  NoGroup = ""
  NoPath = "nowhere"
  StartsAt = 31
  FirstScenes <- FirstScenesC
  NextScenes <- NextScenesC
  Window = 16
  ZoomLevels <- ZoomLevelsC
  FineTierMax = 1
  Canvases <- CanvasesC
  MaxScreenKeys = 2
  MaxScenes = 1

PROPERTY CursorStaysOnItsAgent
CHECK_DEADLOCK FALSE
