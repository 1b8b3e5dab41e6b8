INIT ServicesInit
NEXT ServicesNext
CONSTANTS
  agent1 = agent1
  skill1 = skill1
  server1 = server1
  role1 = role1
  p1 = p1
  p2 = p2
  title = title
  titleAndId = titleAndId
  Agents = {agent1}
  Skills = {skill1}
  Servers = {server1}
  Roles = {role1}
  AgentFiles <- AgentFilesC
  Absent = Absent
  Broken = Broken
  Failed = Failed
  SkillFiles <- SkillFilesC
  ServerFiles <- ServerFilesC
  RoleSkills <- RoleSkillsC
  MaxFiles = 4
  Ids = {agent1, skill1}
  NoData = NoData
  Options <- OptionsC
  MaxConvs = 2
  Synced = {}
  OperatorSettings = {"hooks", "theme", "disableBundledSkills", "enabledPlugins"}
  MaxClears = 2
  MaxTurns = 1
  MaxHooks = 2
  NoFile = NoFile
  OtherBuild = OtherBuild
  Garbled = Garbled
  Writers = {1, 2}
  RecordIds = {1, 2}
  Attempts = 2
  MaxUpdates = 2
  MaxRemovals = 1
  MaxLosses = 1
  FloorActors = {1, 2, 3}
  FloorSessions = {"s"}
  MaxChoices = 2
  MaxDeaths = 2
  MaxAttaches = 2
  MaxFloorFaults = 1
  Installers = {1, 2}
  Fragments = {"ide", "chat"}
  Ships <- ShipsC
  MaxInstalls = 3
  MaxFaults = 1
  MaxServers = 2
  Missing = Missing
  Link = Link
  ViewActors = {1, 2}
  SessionNames = {"x", "y"}
  ViewAgents = {agent1}
  ViewClients = {1, 2, 3}
  Nobody = Nobody
  Hops = 4
  MaxVerbs = 2
  MaxViewTurns = 3
  MaxUids = 3
  None = None
  Procs = {p1, p2}
  Names <- TwoNames
  Title = title
  TitleAndId = titleAndId
  MaxTrees = 2
  MaxOps = 3
  Troubles = {"break"}
  Drafts <- DraftsC
  MockFiles = {"f1", "f2"}
  MockClients = {"c1", "c2"}
  Places = {"agent", "h1"}
  HostedIn <- HostedInC
  AgentPlace = "agent"
  Nowhere = "nowhere"
  MaxMtime = 2
  MaxMockTurns = 4
  Warmers = {1, 2}
  AssistantIds = {1, 2}
  Lines = {"x", "y"}
  NoOne = 0
  Blank = ""
  MaxWarms = 2
  MaxUpsets = 2
  SkillLists <- SkillListsC
  LoosePaths <- LoosePathsC
  MaxPuts = 1
INVARIANTS LaunchesAsChecked WorkspaceHolds DataStaysItsOwn RecordFollows FilesHold FloorServes KeysAreTheRecorded ViewsHold MockupHolds AssistantHolds
PROPERTY TreesStay
CHECK_DEADLOCK FALSE
