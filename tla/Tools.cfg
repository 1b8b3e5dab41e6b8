INIT ToolsInit
NEXT ToolsNext
CONSTANTS
  Rooms = {"h","m","a","b","v"}
  HostingRooms = {"h"}
  TermPanes = {1,2,3}
  RoomOf <- RoomOfC
  Screens = {11,12}
  NoRoom = "none"
  StartShows <- StartShowsC
  StartScreens <- StartScreensC
  StartRooms = {"h","m","a","b"}
  MaxWorldTurns = 3
  MaxIds = 3
  Keyed = {1}
  MenuAgents = {"a","b"}
  MenuParent <- MenuParentC
  Papers = {"x"}
  PaperView <- PaperViewC
  Touchers <- TouchersC
  MaxMenuKeys = 4
  RoleOf <- RoleOfC
  Unlisted = {"h","m"}
  MaxPickerKeys = 4
  MaxReloads = 1
  Packs <- PacksC
  ChecksOf <- ChecksOfC
  Learners = {1,2}
  MaxTutorVerbs = 3
  MaxLearned = 2
  MaxTutorUpsets = 1
  WallStarts <- WallStartsC
  MaxLeaves = 75
  Clocks <- ClocksC
  Zones <- ZonesC
  LocalOffset = 60
  Unread = Unread
  Lines <- LinesC
  RowTextCap = 5
  MaxLines = 3
  Untimed = Untimed
  Nobody = Nobody
  Retired <- RetiredC
  Targets <- TargetsC
  HookEvents = {"stop"}
  TxCommand <- TxCommandC
  OwnBlocks <- OwnBlocksC
  MaxEdits = 2
  MaxCleanups = 2
  EndedLines = {"p","q"}
  Unended = "u"
  PopularFrom = 4
  PopularShare = 4
  Context = 1
  Breakers = {"cr","lf","vt"}
  CR = "cr"
  LF = "lf"
  OtherChar = "x"
  MaxDiffLines = 5
  MaxRawChars = 4
  Kin = {"s","t","hub"}
  Hubs = {"hub"}
  Gone = "gone"
  Groups = {"g"}
  NoGroup = "no group"
  Junk = "junk"
  TagsAtFirst <- TagsAtFirstC
  FirstAuthors <- FirstAuthorsC
  LaterAuthors = {"s","user"}
  ViewParents = {"t","gone"}
  Ungrouped = "ungrouped"
  MaxRegroups = 2
  PaperIds = {"i1","i2"}
  Beginnings <- BeginningsC
  PaperTexts = {"c","d"}
  Binary = "d"
  PaperGroups = {"g"}
  NotThere = NotThere
  MaxPaperVerbs = 3
  MaxHarms = 2
  FileNames = {"f","n","x"}
  Ignored = {"x"}
  Versions = {"1","2","bin"}
  BinaryData = "bin"
  NoFile = NoFile
  NoRef = NoRef
  MaxGitTurns = 3
  Shells <- ShellsC
  Workplace <- WorkplaceC
  Flagged <- FlaggedC
  BadNames = {"a/b"}
  MaxSocketParts = 6
  NoSession = NoSession
  SessionIds = {"one","two"}
  MaxStops = 1
  MaxConfigEdits = 1
  FileDefaults <- FileDefaultsC
  Pairs <- PairsC
  EngineNames <- EngineNamesC
  OptionKeys = {"model","effort","args"}
  NotSet = NotSet
  MaxPairs = 3
  Manifests <- ManifestsC
  EntryIds = {"p","q","menu","nope"}
  RetiredPlugins = {"menu"}
  BuiltIn = {"ls","check"}
  Reserved = {"ls"}
  NoTable = NoTable
  FormAgents = {"d","e"}
  EngineModels <- EngineModelsC
  DefaultAgent = "d"
  NoReply = NoReply
  MaxForms = 2
  LinkSets <- LinkSetsC
  SpelledParts = {"a","b",".."}
  MaxHops = 4
  MaxSpelled = 5
  TreeRoot <- TreeRootC
  Checkouts = {"r","q"}
  SlugOf <- SlugOfC
  NamesTried <- NamesTriedC
  MaxTreeTurns = 4
  Titles = {"n","m"}
  MaxAgents = 2
  MaxRooms = 3
  TagSets = {{},{"t"}}
  NoTask = NoTask
  MaxNameTurns = 4
  TutorWords = {"start","reset","goto","--lang","--dir","--detach","--hard","w"}
  MaxTutorWords = 4
  DirsTyped <- DirsTypedC
  UserHomes <- HomesC
  CwdsOf <- CwdsC
  LessonIds <- LessonIdsC
  PatternChars = {"a","b","A","*"}
  HeaderChars = {"a","b"}
  MaxPattern = 4
  MaxHeader = 4
  ServerReplies <- RepliesC
  HttpChecks <- HttpChecksC
  Attendees <- AttendeesC
  TxFilters <- TxFiltersC
  ReadyTimeout = 10
  FirstDelay = 1
  LongestDelay = 4
  TextChars <- TextCharsC
  MaxText = 3
  Guides = {"p","q"}
  GuideActor <- GuideActorC
  RecordTags <- RecordTagsC
  Scripts = {"list","broken"}
  Places = {"p"}
  OldPapers <- OldPapersC
  TourIds = {"new"}
  TourTitles = {"T"}
  MaxTourTurns = 4
  TourSubs = {"create","open","tour"}
  TourTyped = {"--title","--cwd","--tag","w","","--other"}
  MaxTourTyped = 6
  HomeAgents = {"a","b"}
  AtFirst = {"a"}
  MaxUnlucky = 2
  Backdrops = 2
  FrameTime = 1
  SpinTime = 2
  MaxClock = 3
  HomeTrees = {"w"}
  Repositories = {"r","q"}
  LastRetry = 4
  MaxRetries = 8
  MaxTreeNews = 3
INVARIANTS PanesHold VerbsHold
CHECK_DEADLOCK FALSE
