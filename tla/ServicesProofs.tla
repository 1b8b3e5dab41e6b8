---------------------------- MODULE ServicesProofs ----------------------------
(***************************************************************************)
(* The proofs about what an agent runs on, for any number of agents, hooks,*)
(* turns, processes and lines.                                             *)
(*                                                                         *)
(* Definitions (EngineLaunch): what `tx check` passes resolves whatever is *)
(* asked of it, and both engines resolve it alike.                         *)
(*                                                                         *)
(* Engine data (EngineLaunch): a conversation an agent names is its own or *)
(* one its CLI opened, and nobody else's.                                  *)
(*                                                                         *)
(* Hooks (EngineHooks): the last hook still to say a state, or else the    *)
(* record, tells the truth, or something excuses it.                       *)
(*                                                                         *)
(* The assistant (Assistant): who holds warm.lock knows who runs, a line   *)
(* travels in one hand, and an outcome that is not recorded yet is the last*)
(* one there was.                                                          *)
(***************************************************************************)
EXTENDS Assistant, EngineHooks, EngineLaunch, FiniteSetTheorems, TLAPS

----------------------------------------------------------------------------
(* Definitions (EngineLaunch): what is where                               *)

CutForms == [tool : STRING] \cup [server : Servers, tool : STRING]
AnAgentFile ==
  [ tools : SUBSET STRING, mcpTools : SUBSET STRING, cuts : SUBSET CutForms,
    skills : SUBSET Skills, servers : SUBSET Servers, roles : SUBSET Roles ]
ARoleFile == {Absent, Broken} \cup SUBSET Skills

DefsTypeOK ==
  /\ agentFile \in [Roots -> [Agents -> AgentFiles \cup {Absent, Broken}]]
  /\ skillFile \in [Roots -> [Skills -> {Absent, Broken, "own"} \cup Providers]]
  /\ serverFile \in [Roots -> {Broken} \cup [Servers -> ServerFiles]]
  /\ roleFile \in [Roots -> [Roles -> [base : ARoleFile, local : ARoleFile]]]

LEMMA FilesTyped ==
  /\ AgentFiles \subseteq AnAgentFile /\ RoleSkills \subseteq ARoleFile
  /\ SkillFiles \subseteq {Absent, Broken, "own"} \cup Providers
BY DefinitionsAssumption DEF AnAgentFile, CutForms, ARoleFile

(* Definitions are files of the types they are read with, however the      *)
(* operator edits them.                                                    *)
THEOREM DefinitionsTyped == DefsSpec => []DefsTypeOK
<1>1. DefsInit => DefsTypeOK
  <2>1. [m \in Servers |-> Absent] \in [Servers -> ServerFiles]
    BY DefinitionsAssumption
  <2> QED
    BY <2>1 DEF DefsInit, DefsTypeOK, ARoleFile
<1>2. DefsTypeOK /\ [DefsNext]_defsVars => DefsTypeOK'
  <2> SUFFICES ASSUME DefsTypeOK, [DefsNext]_defsVars PROVE DefsTypeOK'
    OBVIOUS
  <2> USE FilesTyped DEF DefsTypeOK
  <2>1. ASSUME NEW r \in Roots, NEW a \in Agents, EditAgent(r, a) PROVE DefsTypeOK'
    <3>1. PICK file \in AgentFiles \cup {Absent, Broken} : agentFile' = [agentFile EXCEPT ![r][a] = file]
      BY <2>1 DEF EditAgent
    <3>2. [agentFile[r] EXCEPT ![a] = file] \in [Agents -> AgentFiles \cup {Absent, Broken}]
      OBVIOUS
    <3> QED
      BY <2>1, <3>1, <3>2 DEF EditAgent
  <2>2. ASSUME NEW r \in Roots, NEW s \in Skills, EditSkill(r, s) PROVE DefsTypeOK'
    BY <2>2 DEF EditSkill
  <2>3. ASSUME NEW r \in Roots, EditServers(r) PROVE DefsTypeOK'
    BY <2>3 DEF EditServers
  <2>4. ASSUME NEW r \in Roots, NEW role \in Roles, EditRole(r, role) PROVE DefsTypeOK'
    <3>1. PICK f \in {"base", "local"}, skills \in RoleSkills :
            roleFile' = [roleFile EXCEPT ![r][role][f] = skills]
      BY <2>4 DEF EditRole
    <3>2. [roleFile[r][role] EXCEPT ![f] = skills] \in [base : ARoleFile, local : ARoleFile]
      <4>1. roleFile[r][role] \in [base : ARoleFile, local : ARoleFile] /\ skills \in ARoleFile
        OBVIOUS
      <4>2. CASE f = "base"
        BY <4>1, <4>2
      <4>3. CASE f = "local"
        BY <4>1, <4>3
      <4> QED
        BY <4>2, <4>3
    <3>3. [roleFile[r] EXCEPT ![role] = [roleFile[r][role] EXCEPT ![f] = skills]]
            \in [Roles -> [base : ARoleFile, local : ARoleFile]]
      BY <3>2
    <3> QED
      BY <2>4, <3>1, <3>3 DEF EditRole
  <2>5. CASE UNCHANGED defsVars
    BY <2>5 DEF defsVars
  <2> QED
    BY <2>1, <2>2, <2>3, <2>4, <2>5 DEF DefsNext
<1> QED
  BY <1>1, <1>2, PTL DEF DefsSpec

----------------------------------------------------------------------------
(* Reading                                                                 *)

LEMMA LastRoot ==
  ASSUME NEW S \in SUBSET Roots, S # {}
  PROVE  Max(S) \in S
<1>1. \E x \in S : \A y \in S : x >= y
  <2>1. CASE 2 \in S
    BY <2>1 DEF Roots
  <2>2. CASE 2 \notin S
    <3>1. \A x \in S : x = 1
      BY <2>2 DEF Roots
    <3> QED
      BY <3>1
  <2> QED
    BY <2>1, <2>2
<1> QED
  BY <1>1 DEF Max

LEMMA AgentsRead ==
  ASSUME DefsTypeOK, NEW a \in Agents
  PROVE  AgentFile(a) \in AgentFiles \cup {Absent, Broken}
<1>1. CASE Holding(agentFile, a) = {}
  BY <1>1 DEF AgentFile
<1>2. CASE Holding(agentFile, a) # {}
  <2>1. Max(Holding(agentFile, a)) \in Holding(agentFile, a)
    BY <1>2, LastRoot DEF Holding
  <2> QED
    BY <1>2, <2>1 DEF DefsTypeOK, AgentFile, WinningRoot, Holding
<1> QED
  BY <1>1, <1>2

LEMMA SkillsRead ==
  ASSUME DefsTypeOK, NEW s \in Skills
  PROVE  SkillDirectory(s) \in {Absent, Broken, "own"} \cup Providers
<1>1. CASE Holding(skillFile, s) = {}
  BY <1>1 DEF SkillDirectory
<1>2. CASE Holding(skillFile, s) # {}
  <2>1. Max(Holding(skillFile, s)) \in Holding(skillFile, s)
    BY <1>2, LastRoot DEF Holding
  <2> QED
    BY <1>2, <2>1 DEF DefsTypeOK, SkillDirectory, WinningRoot, Holding
<1> QED
  BY <1>1, <1>2

LEMMA RolesRead ==
  ASSUME DefsTypeOK, NEW role \in Roles, RoleFiles(role) # Failed
  PROVE  \A skills \in RoleFiles(role) : skills \in {Broken} \cup SUBSET Skills
<1> DEFINE bases == {r \in Roots : roleFile[r][role].base # Absent}
<1>1. bases # {}
  BY DEF RoleFiles
<1>2. Max(bases) \in bases
  BY <1>1, LastRoot
<1>3. RoleFiles(role) = {roleFile[Max(bases)][role].base}
                          \cup ({roleFile[r][role].local : r \in Roots} \ {Absent})
  BY <1>1 DEF RoleFiles
<1>4. \A r \in Roots : roleFile[r][role].base \in ARoleFile /\ roleFile[r][role].local \in ARoleFile
  BY DEF DefsTypeOK
<1>5. roleFile[Max(bases)][role].base \in {Broken} \cup SUBSET Skills
  BY <1>2, <1>4 DEF ARoleFile
<1> HIDE DEF bases
<1> QED
  BY <1>3, <1>4, <1>5 DEF ARoleFile

(* Every mcp.json that parses: what they hold, for launch and check alike. *)
LEMMA ServersRead ==
  ASSUME DefsTypeOK, McpServers # Failed
  PROVE  /\ McpServers \in UNION {[servers -> ServerFiles] : servers \in SUBSET Servers}
         /\ \A r \in Roots : serverFile[r] \in [Servers -> ServerFiles]
<1>1. \A r \in Roots : ReadMcp(r) # Failed
  BY DEF McpServers
<1>2. \A r \in Roots : serverFile[r] \in [Servers -> ServerFiles]
  BY <1>1 DEF DefsTypeOK, ReadMcp
<1> DEFINE there == {m \in Servers : Holding(serverFile, m) # {}}
<1>3. McpServers = [m \in there |-> serverFile[WinningRoot(serverFile, m)][m]]
  BY <1>1 DEF McpServers
<1>4. \A m \in there : serverFile[WinningRoot(serverFile, m)][m] \in ServerFiles
  BY <1>2, LastRoot DEF WinningRoot, Holding
<1>5. there \in SUBSET Servers
  OBVIOUS
<1> HIDE DEF there
<1> QED
  BY <1>2, <1>3, <1>4, <1>5

LEMMA ServersChecked ==
  ASSUME DefsTypeOK, \A r \in Roots : ReadMcp(r) # Failed
  PROVE  McpServers # Failed /\ DOMAIN ReadableServers = DOMAIN McpServers
<1>1. \A r \in Roots : serverFile[r] \in [Servers -> ServerFiles] /\ ReadMcp(r) = serverFile[r]
  BY DEF DefsTypeOK, ReadMcp
<1> DEFINE there == {m \in Servers : Holding(serverFile, m) # {}}
<1>2. McpServers = [m \in there |-> serverFile[WinningRoot(serverFile, m)][m]]
  BY DEF McpServers
<1>3. \A m \in there : serverFile[WinningRoot(serverFile, m)][m] \in ServerFiles
  BY <1>1, LastRoot DEF WinningRoot, Holding
<1>4. McpServers \in [there -> ServerFiles] /\ there \in SUBSET Servers
  BY <1>2, <1>3
<1>5. McpServers # Failed
  BY <1>4, DefinitionsAssumption
<1>6. \A m \in Servers : {r \in Roots : ReadMcp(r) # Failed /\ ReadMcp(r)[m] # Absent} = Holding(serverFile, m)
  BY <1>1 DEF Holding
<1>7. DOMAIN ReadableServers = there
  BY <1>6 DEF ReadableServers
<1> QED
  BY <1>2, <1>5, <1>7

----------------------------------------------------------------------------
(* Resolving                                                               *)

LEMMA SkillsGranted ==
  ASSUME DefsTypeOK, NEW roles \in SUBSET Roles, Resolve(roles) # Failed
  PROVE  Resolve(roles) \in SUBSET Skills
<1>1. \A role \in roles : RoleFiles(role) # Failed /\ Broken \notin RoleFiles(role)
  BY DEF Resolve
<1>2. \A role \in roles : \A skills \in RoleFiles(role) : skills \in SUBSET Skills
  BY <1>1, RolesRead
<1>3. Resolve(roles) = UNION UNION {RoleFiles(role) : role \in roles}
  BY <1>1 DEF Resolve
<1> QED
  BY <1>2, <1>3

AProfile ==
  [ tools : SUBSET STRING, cuts : SUBSET CutForms,
    servers : UNION {[servers -> ServerFiles] : servers \in SUBSET Servers},
    linked : SUBSET Skills, provided : UNION {[skills -> Providers] : skills \in SUBSET Skills} ]

(* What a profile is: the file, its roles' skills and the servers it names.*)
LEMMA ProfilesResolved ==
  ASSUME DefsTypeOK, NEW a \in Agents, AgentFile(a) \notin {Absent, Broken},
         Resolve(AgentFile(a).roles) # Failed,
         \A s \in AgentFile(a).skills : ReadSkill(s) # Failed,
         McpServers # Failed, AgentFile(a).servers \subseteq DOMAIN McpServers
  PROVE  ResolveProfile({}, NoExtras(a)) \in AProfile
<1>1. PICK agent \in AnAgentFile : agent = AgentFile(a)
  BY AgentsRead, FilesTyped
<1>2. PICK grants \in SUBSET Skills : grants = Resolve(agent.roles)
  BY <1>1, SkillsGranted DEF AnAgentFile
<1>3. /\ agent.tools \in SUBSET STRING /\ agent.cuts \in SUBSET CutForms /\ agent.skills \in SUBSET Skills
      /\ agent.servers \in SUBSET Servers
  BY DEF AnAgentFile
<1> DEFINE provided == {s \in agent.skills : ReadSkill(s) \in Providers}
           p == [ tools    |-> agent.tools,
                  cuts     |-> agent.cuts,
                  servers  |-> [m \in agent.servers |-> McpServers[m]],
                  linked   |-> grants \cup (agent.skills \ provided),
                  provided |-> [s \in provided |-> ReadSkill(s)] ]
<1>4. ResolveProfile({}, NoExtras(a)) = p
  <2>1. Resolve(agent.roles) # Failed /\ agent \notin {Absent, Broken}
    BY <1>1
  <2>2. ResolveProfile({}, NoExtras(a)) = Apply(grants, NoExtras(a))
    BY <1>1, <1>2, <2>1 DEF ResolveProfile, NoExtras
  <2>3. NoExtras(a).agent = a /\ NoExtras(a).skills = {} /\ NoExtras(a).servers = {} /\ NoExtras(a).tools = {}
    BY DEF NoExtras
  <2>4. /\ agent.skills \cup NoExtras(a).skills = agent.skills
        /\ agent.servers \cup NoExtras(a).servers = agent.servers
        /\ agent.tools \cup NoExtras(a).tools = agent.tools
    BY <2>3
  <2> QED
    BY <1>1, <2>1, <2>2, <2>3, <2>4 DEF Apply
<1>5. [m \in agent.servers |-> McpServers[m]] \in UNION {[servers -> ServerFiles] : servers \in SUBSET Servers}
  BY <1>1, <1>3, ServersRead
<1>6. [s \in provided |-> ReadSkill(s)] \in UNION {[skills -> Providers] : skills \in SUBSET Skills}
  <2>1. provided \in SUBSET Skills /\ \A s \in provided : ReadSkill(s) \in Providers
    BY <1>3
  <2> HIDE DEF provided
  <2> QED
    BY <2>1
<1>7. grants \cup (agent.skills \ provided) \in SUBSET Skills
  BY <1>3
<1> HIDE DEF provided
<1> QED
  BY <1>3, <1>4, <1>5, <1>6, <1>7 DEF AProfile

(* What tx check passes is resolved.                                       *)
LEMMA CheckedIsResolved ==
  ASSUME DefsTypeOK
  PROVE  CheckedMeansResolved
<1> SUFFICES ASSUME Check({}) = {}, NEW a \in Agents, AgentFile(a) # Absent,
                    \A role \in AgentFile(a).roles : \A skills \in RoleFiles(role) :
                      skills # Broken /\ \A s \in skills : SkillDirectory(s) # Absent
             PROVE  ResolveProfile({}, NoExtras(a)) # Failed
  BY DEF CheckedMeansResolved
<1>1. /\ \A r \in Roots : ReadMcp(r) # Failed
      /\ AgentFile(a) # Broken /\ CheckAgent(a) = {}
      /\ \A s \in Skills : SkillDirectory(s) # Absent => ReadSkill(s) # Failed
  <2>1. \A r \in Roots : ReadMcp(r) = Failed => <<"mcp.json", r>> \in Check({})
    BY DEF Check
  <2>2. AgentFile(a) = Broken => <<"agent", a>> \in Check({})
    BY DEF Check
  <2>3. AgentFile(a) # Broken => CheckAgent(a) \subseteq Check({})
    BY DEF Check
  <2>4. \A s \in Skills : SkillDirectory(s) # Absent /\ ReadSkill(s) = Failed => <<"skill", s>> \in Check({})
    BY DEF Check
  <2> QED
    BY <2>1, <2>2, <2>3, <2>4
<1>2. PICK agent \in AnAgentFile : agent = AgentFile(a)
  BY <1>1, AgentsRead, FilesTyped
<1>3. agent.roles \in SUBSET Roles /\ agent.skills \in SUBSET Skills /\ agent.servers \in SUBSET Servers
  BY DEF AnAgentFile
<1>4. /\ \A s \in agent.skills : SkillDirectory(s) # Absent
      /\ \A role \in agent.roles : RoleFiles(role) # Failed
      /\ agent.servers \subseteq DOMAIN ReadableServers
  BY <1>1, <1>2 DEF CheckAgent, HasRole
<1>5. \A s \in agent.skills : ReadSkill(s) # Failed
  BY <1>1, <1>3, <1>4
<1>6. McpServers # Failed /\ agent.servers \subseteq DOMAIN McpServers
  BY <1>1, <1>4, ServersChecked
<1>7. Resolve(agent.roles) # Failed
  <2>1. \A role \in agent.roles : RoleFiles(role) # Failed /\ Broken \notin RoleFiles(role)
    BY <1>2, <1>4
  <2> DEFINE grants == UNION UNION {RoleFiles(role) : role \in agent.roles}
  <2>2. \A s \in grants : SkillDirectory(s) # Absent
    BY <1>2
  <2>3. grants \in SUBSET Skills
    BY <1>3, <2>1, RolesRead
  <2>4. Failed \notin {RoleSkill(s) : s \in grants}
    BY <2>2, <2>3, DefinitionsAssumption DEF RoleSkill
  <2>5. Resolve(agent.roles) = grants
    BY <2>1, <2>4 DEF Resolve
  <2> QED
    BY <2>3, <2>5, DefinitionsAssumption
<1>8. ResolveProfile({}, NoExtras(a)) \in AProfile
  BY <1>1, <1>2, <1>5, <1>6, <1>7, ProfilesResolved
<1> QED
  BY <1>8, DefinitionsAssumption DEF AProfile, CutForms

----------------------------------------------------------------------------
(* The plans of the two adapters on one profile                            *)

LEMMA ProfileKnown ==
  ASSUME DefsTypeOK, NEW a \in Agents, AgentFile(a) \notin {Absent, Broken},
         ResolveProfile({}, NoExtras(a)) # Failed
  PROVE  /\ ResolveProfile({}, NoExtras(a)) \in AProfile
         /\ ResolveProfile({}, NoExtras(a)).tools # NoData
<1>1. PICK agent \in AgentFiles : agent = AgentFile(a)
  BY AgentsRead
<1>2. agent \in AnAgentFile
  BY <1>1, FilesTyped
<1>3. NoExtras(a).agent = a /\ NoExtras(a).skills = {} /\ NoExtras(a).servers = {} /\ NoExtras(a).tools = {}
  BY DEF NoExtras
<1>4. Resolve(agent.roles) # Failed
  BY <1>1, <1>3 DEF ResolveProfile
<1>5. ResolveProfile({}, NoExtras(a)) = Apply(Resolve(agent.roles), NoExtras(a))
  BY <1>1, <1>3, <1>4 DEF ResolveProfile
<1>6. /\ agent.skills \cup NoExtras(a).skills = agent.skills
      /\ agent.servers \cup NoExtras(a).servers = agent.servers
      /\ agent.tools \cup NoExtras(a).tools = agent.tools
  BY <1>2, <1>3 DEF AnAgentFile
<1>7. /\ \A s \in agent.skills : ReadSkill(s) # Failed
      /\ McpServers # Failed /\ agent.servers \subseteq DOMAIN McpServers
  BY <1>1, <1>3, <1>5, <1>6 DEF Apply
<1>8. ResolveProfile({}, NoExtras(a)).tools = agent.tools
  BY <1>1, <1>3, <1>5, <1>6, <1>7 DEF Apply
<1>9. ResolveProfile({}, NoExtras(a)) \in AProfile
  BY <1>1, <1>4, <1>7, ProfilesResolved
<1> QED
  BY <1>1, <1>8, <1>9, LaunchAssumption

LEMMA RefusedIs == IsRefused(Refused)
BY DEF IsRefused, Refused

(* On Claude.                                                              *)
LEMMA ClaudeAgrees ==
  ASSUME NEW p \in AProfile, p.tools # NoData, NEW a
  PROVE  LET kept == DOMAIN p.servers \ CutServers(p)
             offers == {t \in p.tools : Offered(p, t)}
             claude == ClaudeStart(a, <<>>, p, "go")
         IN  IF IsRefused(claude) THEN \E s \in DOMAIN p.provided : p.provided[s] = "claude-synced"
             ELSE /\ ClaudeServers(claude) = kept
                  /\ offers \subseteq ClaudeTools(claude)
                  /\ ClaudeTools(claude) \subseteq offers \cup BaselineTools
                  /\ claude.manifest = (claude.links # {})
                  /\ claude.settings["hooks"] = <<"tx">>
                  /\ claude.settings["disableBundledSkills"] =
                       <<"tx", \A s \in DOMAIN p.provided : p.provided[s] # "claude-bundled">>
<1> DEFINE kept == DOMAIN p.servers \ CutServers(p)
           offers == {t \in p.tools : Offered(p, t)}
<1>1. PICK claude : claude = ClaudeStart(a, <<>>, p, "go")
  OBVIOUS
<1>2. p.tools \in SUBSET STRING /\ p.cuts \in SUBSET CutForms
  BY DEF AProfile
<1>3. CASE ~(SyncedSkills(p) \subseteq Synced)
  <2>1. claude = Refused
    BY <1>1, <1>3 DEF ClaudeStart, ClaudePlan
  <2>2. \E s \in DOMAIN p.provided : p.provided[s] = "claude-synced"
    BY <1>3 DEF SyncedSkills
  <2> QED
    BY <1>1, <2>1, <2>2, RefusedIs
<1>4. CASE SyncedSkills(p) \subseteq Synced
  <2>1. /\ ~IsRefused(claude)
        /\ claude.tools = ToolsOf(p) /\ claude.cuts = p.cuts /\ claude.servers = DOMAIN p.servers
        /\ claude.settings = LaunchSettings(OperatorSettings, TRUE, Bundled(p))
        /\ claude.links = p.linked \cup SyncedSkills(p)
        /\ claude.manifest = (p.linked \cup SyncedSkills(p) # {})
    BY <1>1, <1>4 DEF ClaudeStart, ClaudePlan, IsRefused
  <2>2. ClaudeServers(claude) = kept
    BY <2>1 DEF ClaudeServers, CutServers
  <2>3. \A c \in p.cuts : "server" \notin DOMAIN c => c = [tool |-> c.tool]
    BY <1>2 DEF CutForms
  <2>4. ClaudeTools(claude) = (p.tools \cup BaselineTools) \ {c.tool : c \in {x \in p.cuts : "server" \notin DOMAIN x}}
    BY <2>1 DEF ClaudeTools, ToolsOf
  <2>5. offers \subseteq ClaudeTools(claude)
    BY <2>3, <2>4 DEF Offered
  <2>6. \A t \in STRING : [tool |-> t] \in p.cuts => t \in {c.tool : c \in {x \in p.cuts : "server" \notin DOMAIN x}}
    OBVIOUS
  <2>7. ClaudeTools(claude) \subseteq offers \cup BaselineTools
    BY <1>2, <2>4, <2>6 DEF Offered
  <2>8. claude.settings["hooks"] = <<"tx">>
    BY <2>1 DEF LaunchSettings
  <2>9. claude.settings["disableBundledSkills"] = <<"tx", Bundled(p) = {}>>
    BY <2>1 DEF LaunchSettings
  <2>10. (Bundled(p) = {}) = \A s \in DOMAIN p.provided : p.provided[s] # "claude-bundled"
    BY DEF Bundled
  <2>11. <<"tx", Bundled(p) = {}>> = <<"tx", \A s \in DOMAIN p.provided : p.provided[s] # "claude-bundled">>
    BY <2>10
  <2> HIDE DEF kept, offers
  <2> QED
    BY <1>1, <2>1, <2>2, <2>5, <2>7, <2>8, <2>9, <2>11 DEF kept, offers
<1> QED
  BY <1>3, <1>4

(* On Codex, whatever its own configuration has.                           *)
LEMMA CodexAgrees ==
  ASSUME NEW p \in AProfile, p.tools # NoData, NEW configured \in SUBSET (Servers \cup {Worktrees})
  PROVE  LET kept == DOMAIN p.servers \ CutServers(p)
             offers == {t \in p.tools : Offered(p, t)}
             codex == CodexStart(<<>>, p, "go", configured)
         IN  IF IsRefused(codex)
               THEN DOMAIN p.provided # {} \/ \E m \in kept : p.servers[m] = "renamed"
               ELSE /\ CodexServers(codex, configured) = kept
                    /\ offers \cap UNION SwitchGroups \subseteq CodexTools(codex)
                    /\ \A t \in CodexTools(codex) :
                         \E g \in SwitchGroups : t \in g /\ g \cap offers # {}
<1> DEFINE kept == DOMAIN p.servers \ CutServers(p)
           offers == {t \in p.tools : Offered(p, t)}
           tui == IF Worktrees \in configured THEN {} ELSE {Worktrees}
           off == {m \in configured : m \notin DOMAIN p.servers \/ m \in CutServers(p)} \cup tui
<1>1. PICK codex : codex = CodexStart(<<>>, p, "go", configured)
  OBVIOUS
<1>2. configured # NoData
  BY LaunchAssumption DEF Worktrees
<1>3. p.tools \in SUBSET STRING /\ Worktrees \notin DOMAIN p.servers
  BY DefinitionsAssumption DEF AProfile, Worktrees
<1>4. CASE DOMAIN p.provided # {}
  BY <1>1, <1>4, RefusedIs DEF CodexStart, CodexPlan
<1>5. CASE \E m \in kept : p.servers[m] = "renamed"
  BY <1>1, <1>2, <1>5, RefusedIs DEF CodexStart, CodexPlan, McpOverrides, ServerRefused
<1>6. CASE DOMAIN p.provided = {} /\ ~\E m \in kept : p.servers[m] = "renamed"
  <2>1. PICK servers : servers = McpOverrides(p, configured)
    OBVIOUS
  <2>2. servers = [defined |-> kept \cup tui, off |-> off, cut |-> [m \in kept |-> CutTools(p, m)]]
    BY <1>6, <2>1 DEF McpOverrides, ServerRefused
  <2>3. ~IsRefused(servers) /\ servers.defined = kept \cup tui /\ servers.off = off
    BY <2>2 DEF IsRefused
  <2>4. ~IsRefused(codex) /\ codex.servers = servers /\ codex.switched = ToolSwitches(p)
    BY <1>1, <1>2, <1>6, <2>1, <2>3 DEF CodexStart, CodexPlan, IsRefused
  <2>5. CodexServers(codex, configured) = kept
    <3>1. CodexServers(codex, configured) = (configured \cup kept \cup tui \cup {Worktrees}) \ off
      BY <2>3, <2>4 DEF CodexServers
    <3>2. \A m \in configured : m \in off \/ m \in kept
      OBVIOUS
    <3>3. Worktrees \in off
      BY <1>3
    <3>4. \A m \in kept : m \notin off
      BY <1>3
    <3> QED
      BY <3>1, <3>2, <3>3, <3>4
  <2>6. codex.switched = {g \in SwitchGroups : \A t \in g : ~Offered(p, t)} \cup {{f} : f \in CodexOnly}
    BY <2>4 DEF ToolSwitches
  <2>7. \A g \in SwitchGroups : \A f \in CodexOnly : g # {f}
    BY DEF SwitchGroups, CodexOnly
  <2>8. \A g \in SwitchGroups : g \in codex.switched <=> \A t \in g : ~Offered(p, t)
    BY <2>6, <2>7
  <2>9. CodexTools(codex) = UNION {g \in SwitchGroups : g \notin codex.switched}
    BY DEF CodexTools
  <2>10. offers \cap UNION SwitchGroups \subseteq CodexTools(codex)
    BY <2>8, <2>9
  <2>11. \A t \in CodexTools(codex) : \E g \in SwitchGroups : t \in g /\ g \cap offers # {}
    <3> SUFFICES ASSUME NEW t \in CodexTools(codex)
                 PROVE  \E g \in SwitchGroups : t \in g /\ g \cap offers # {}
      OBVIOUS
    <3>1. PICK g \in SwitchGroups : t \in g /\ g \notin codex.switched
      BY <2>9
    <3>2. PICK u \in g : Offered(p, u)
      BY <2>8, <3>1
    <3>3. u \in offers
      BY <3>2 DEF Offered
    <3> QED
      BY <3>1, <3>2, <3>3
  <2> HIDE DEF kept, offers
  <2> QED
    BY <1>1, <2>4, <2>5, <2>10, <2>11 DEF kept, offers
<1> QED
  BY <1>4, <1>5, <1>6

(* What tx check passes is resolved, and whatever is resolved is launched  *)
(* alike by both engines, for any agents, skills, servers and roles        *)
(* (definitions.rs check and apply, profile.rs resolve, the adapters' plan)*)
THEOREM ChecksAreKept == DefsSpec => []LaunchesAsChecked
<1>1. DefsTypeOK => EnginesAgree
  <2> SUFFICES ASSUME DefsTypeOK, NEW a \in Agents, AgentFile(a) \notin {Absent, Broken},
                      ResolveProfile({}, NoExtras(a)) # Failed
               PROVE  LET p == ResolveProfile({}, NoExtras(a))
                          kept == DOMAIN p.servers \ CutServers(p)
                          offers == {t \in p.tools : Offered(p, t)}
                          claude == ClaudeStart(a, <<>>, p, "go")
                      IN
                      /\ IF IsRefused(claude) THEN \E s \in DOMAIN p.provided : p.provided[s] = "claude-synced"
                         ELSE /\ ClaudeServers(claude) = kept
                              /\ offers \subseteq ClaudeTools(claude)
                              /\ ClaudeTools(claude) \subseteq offers \cup BaselineTools
                              /\ claude.manifest = (claude.links # {})
                              /\ claude.settings["hooks"] = <<"tx">>
                              /\ claude.settings["disableBundledSkills"] =
                                   <<"tx", \A s \in DOMAIN p.provided : p.provided[s] # "claude-bundled">>
                      /\ \A configured \in SUBSET (Servers \cup {Worktrees}) :
                           LET codex == CodexStart(<<>>, p, "go", configured) IN
                           IF IsRefused(codex)
                             THEN DOMAIN p.provided # {} \/ \E m \in kept : p.servers[m] = "renamed"
                             ELSE /\ CodexServers(codex, configured) = kept
                                  /\ offers \cap UNION SwitchGroups \subseteq CodexTools(codex)
                                  /\ \A t \in CodexTools(codex) :
                                       \E g \in SwitchGroups : t \in g /\ g \cap offers # {}
    BY DEF EnginesAgree
  <2>1. PICK p \in AProfile : p = ResolveProfile({}, NoExtras(a)) /\ p.tools # NoData
    BY ProfileKnown
  <2> QED
    BY <2>1, ClaudeAgrees, CodexAgrees
<1>2. DefsTypeOK => LaunchesAsChecked
  BY <1>1, CheckedIsResolved DEF LaunchesAsChecked
<1> QED
  BY <1>2, DefinitionsTyped, PTL

----------------------------------------------------------------------------
(* Engine data (EngineLaunch)                                              *)

OptionKeys == {"model", "effort", "command", "engine_args"}
OptionValues == STRING \cup Seq(STRING)
DataValues == OptionValues \cup Ids \cup (1 .. MaxConvs)
EngineDatas == UNION {[keys -> DataValues] : keys \in SUBSET DataKeys}

(* The data d is a's own: a conversation it names is one a CLI opened, or  *)
(* a's own; a path comes with its conversation; Claude always names one.   *)
OwnData(a, d) ==
  /\ "conversation_id" \in DOMAIN d => d["conversation_id"] \in opened \cup {a}
  /\ "transcript_path" \in DOMAIN d =>
       "conversation_id" \in DOMAIN d /\ d["conversation_id"] = d["transcript_path"]
  /\ adapter = "claude" => "conversation_id" \in DOMAIN d

Remembers(d, options) ==
  DOMAIN options \subseteq OptionKeys /\ \A k \in DOMAIN options : k \in DOMAIN d /\ d[k] = options[k]

Apart(d, e) ==
  ("conversation_id" \in DOMAIN d /\ "conversation_id" \in DOMAIN e)
    => d["conversation_id"] # e["conversation_id"]

LaunchInv ==
  /\ adapter \in {"claude", "codex"}
  /\ opened \subseteq 1 .. MaxConvs
  /\ given \in [Ids -> UNION {[keys -> OptionValues] : keys \in SUBSET OptionKeys}]
  /\ engineData \in [Ids -> {NoData} \cup EngineDatas]
  /\ \A a \in Ids : engineData[a] # NoData =>
       /\ OwnData(a, engineData[a])
       /\ Remembers(engineData[a], given[a])
       /\ \A b \in Ids \ {a} : engineData[b] # NoData => Apart(engineData[a], engineData[b])

LEMMA NoDataIsNone == NoData \notin EngineDatas
BY LaunchAssumption DEF EngineDatas, DataValues, OptionValues

LEMMA ADataSet ==
  ASSUME NEW d \in EngineDatas, NEW k \in DataKeys, NEW v \in DataValues
  PROVE  /\ Set(d, k, v) \in EngineDatas
         /\ DOMAIN Set(d, k, v) = DOMAIN d \cup {k}
         /\ Set(d, k, v)[k] = v
         /\ \A x \in DOMAIN d \ {k} : Set(d, k, v)[x] = d[x]
<1>1. PICK keys \in SUBSET DataKeys : d \in [keys -> DataValues]
  BY DEF EngineDatas
<1>2. Set(d, k, v) \in [keys \cup {k} -> DataValues]
  BY <1>1 DEF Set
<1>3. keys \cup {k} \in SUBSET DataKeys
  BY <1>1
<1> QED
  BY <1>1, <1>2, <1>3 DEF Set, EngineDatas

LEMMA AConversationSet ==
  ASSUME NEW d \in EngineDatas, NEW c \in Ids \cup (1 .. MaxConvs)
  PROVE  /\ NamedAfter(d, c) \in EngineDatas
         /\ DOMAIN NamedAfter(d, c) = DOMAIN d \cup {"conversation_id", "transcript_path"}
         /\ NamedAfter(d, c)["conversation_id"] = c
         /\ NamedAfter(d, c)["transcript_path"] = c
         /\ \A x \in DOMAIN d \cap OptionKeys : NamedAfter(d, c)[x] = d[x]
<1>k. PICK k : k = "conversation_id"
  OBVIOUS
<1>p. PICK p : p = "transcript_path"
  OBVIOUS
<1>0. PICK e : e = Set(d, k, c)
  OBVIOUS
<1>1. c \in DataValues /\ k \in DataKeys /\ p \in DataKeys
  BY <1>k, <1>p DEF DataValues, DataKeys
<1>2. /\ e \in EngineDatas /\ DOMAIN e = DOMAIN d \cup {k} /\ e[k] = c
      /\ \A x \in DOMAIN d \ {k} : e[x] = d[x]
  BY <1>0, <1>1, ADataSet DEF Set
<1>3. PICK f : f = Set(e, p, c)
  OBVIOUS
<1>4. /\ f \in EngineDatas /\ DOMAIN f = DOMAIN e \cup {p} /\ f[p] = c
      /\ \A x \in DOMAIN e \ {p} : f[x] = e[x]
  BY <1>1, <1>2, <1>3, ADataSet DEF Set
<1>5. NamedAfter(d, c) = f
  BY <1>0, <1>3, <1>k, <1>p DEF NamedAfter
<1> QED
  BY <1>2, <1>4, <1>5, <1>k, <1>p DEF OptionKeys

(* What conversation_started leaves: the data named after c.               *)
LEMMA AConversationStarted ==
  ASSUME NEW d \in EngineDatas, NEW c \in Ids \cup (1 .. MaxConvs)
  PROVE  /\ ConversationStarted(d, c) \in EngineDatas
         /\ DOMAIN ConversationStarted(d, c) = DOMAIN d \cup {"conversation_id", "transcript_path"}
         /\ ConversationStarted(d, c)["conversation_id"] = c
         /\ ConversationStarted(d, c)["transcript_path"] = c
         /\ \A x \in DOMAIN d \cap OptionKeys : ConversationStarted(d, c)[x] = d[x]
<1>1. CASE Get(d, "conversation_id", NoData) = c /\ Get(d, "transcript_path", NoData) = c
  <2>1. /\ "conversation_id" \in DOMAIN d /\ d["conversation_id"] = c
        /\ "transcript_path" \in DOMAIN d /\ d["transcript_path"] = c
    BY <1>1, LaunchAssumption DEF Get
  <2> QED
    BY <1>1, <2>1 DEF ConversationStarted
<1>2. CASE ~(Get(d, "conversation_id", NoData) = c /\ Get(d, "transcript_path", NoData) = c)
  BY <1>2, AConversationSet DEF ConversationStarted, NamedAfter
<1> QED
  BY <1>1, <1>2

LEMMA AConfigured ==
  ASSUME NEW d \in EngineDatas, NEW options \in Options, ~IsRefused(Configure(d, options))
  PROVE  /\ Configure(d, options) \in EngineDatas
         /\ DOMAIN options \subseteq OptionKeys
         /\ DOMAIN Configure(d, options) = DOMAIN d \cup DOMAIN options
         /\ \A k \in DOMAIN options : Configure(d, options)[k] = options[k]
         /\ \A k \in DOMAIN d \ DOMAIN options : Configure(d, options)[k] = d[k]
<1> DEFINE e == [k \in DOMAIN d \cup DOMAIN options |-> Get(options, k, Get(d, k, ""))]
<1>1. DOMAIN options \subseteq OptionKeys /\ Configure(d, options) = e
  <2>1. IsRefused(Refused)
    BY DEF IsRefused, Refused
  <2> QED
    BY <2>1 DEF Configure, OptionKeys
<1>2. PICK keys \in SUBSET DataKeys : d \in [keys -> DataValues]
  BY DEF EngineDatas
<1>3. \A k \in DOMAIN options : e[k] = options[k] /\ options[k] \in DataValues
  BY LaunchAssumption DEF Get, DataValues, OptionValues
<1>4. \A k \in DOMAIN d \ DOMAIN options : e[k] = d[k] /\ d[k] \in DataValues
  BY <1>2 DEF Get
<1>5. DOMAIN e = DOMAIN d \cup DOMAIN options
  OBVIOUS
<1>6. keys \cup DOMAIN options \in SUBSET DataKeys /\ DOMAIN d = keys
  BY <1>1, <1>2 DEF OptionKeys, DataKeys
<1>7. e \in [keys \cup DOMAIN options -> DataValues]
  <2>1. \A k \in keys \cup DOMAIN options : e[k] \in DataValues
    BY <1>3, <1>4, <1>6
  <2> QED
    BY <2>1, <1>5, <1>6
<1>8. e \in EngineDatas
  BY <1>6, <1>7 DEF EngineDatas
<1> HIDE DEF e
<1> QED
  BY <1>1, <1>3, <1>4, <1>5, <1>8

LEMMA AClaudePlan ==
  ASSUME NEW opens, NEW stored, NEW d, NEW p, NEW prompt,
         ~IsRefused(ClaudePlan(opens, stored, d, p, prompt))
  PROVE  /\ ClaudePlan(opens, stored, d, p, prompt).opens = opens
         /\ ClaudePlan(opens, stored, d, p, prompt).stored = stored
<1>1. IsRefused(Refused)
  BY DEF IsRefused, Refused
<1> QED
  BY <1>1 DEF ClaudePlan

LEMMA ACodexPlan ==
  ASSUME NEW opens, NEW stored, NEW d, NEW p, NEW prompt, NEW configured,
         ~IsRefused(CodexPlan(opens, stored, d, p, prompt, configured))
  PROVE  /\ CodexPlan(opens, stored, d, p, prompt, configured).opens = opens
         /\ CodexPlan(opens, stored, d, p, prompt, configured).stored = stored
<1>1. IsRefused(Refused)
  BY DEF IsRefused, Refused
<1> QED
  BY <1>1 DEF CodexPlan

(* What a step must keep of the agents, when a's data becomes e: e is a's  *)
(* own and names a conversation that was a's already or is nobody's.       *)
LEMMA Replaced ==
  ASSUME LaunchInv, NEW a \in Ids, NEW e \in EngineDatas,
         engineData' = [engineData EXCEPT ![a] = e], adapter' = adapter,
         opened \subseteq opened', opened' \subseteq 1 .. MaxConvs,
         OwnData(a, e)', NEW options, options = given[a]', Remembers(e, options),
         given' = [given EXCEPT ![a] = options],
         options \in UNION {[keys -> OptionValues] : keys \in SUBSET OptionKeys},
         "conversation_id" \in DOMAIN e =>
           \/ e["conversation_id"] = a
           \/ e["conversation_id"] \notin opened \cup Ids
           \/ /\ engineData[a] # NoData /\ "conversation_id" \in DOMAIN engineData[a]
              /\ e["conversation_id"] = engineData[a]["conversation_id"]
  PROVE  LaunchInv'
<1>1. engineData' \in [Ids -> {NoData} \cup EngineDatas] /\ engineData'[a] = e
  BY DEF LaunchInv
<1>2. given' \in [Ids -> UNION {[keys -> OptionValues] : keys \in SUBSET OptionKeys}]
  BY DEF LaunchInv
<1>3. \A b \in Ids \ {a} : engineData'[b] = engineData[b] /\ given'[b] = given[b]
  BY DEF LaunchInv
<1>4. \A b \in Ids \ {a} : engineData[b] # NoData => Apart(e, engineData[b])
  <2> SUFFICES ASSUME NEW b \in Ids \ {a}, engineData[b] # NoData,
                      "conversation_id" \in DOMAIN e, "conversation_id" \in DOMAIN engineData[b]
               PROVE  e["conversation_id"] # engineData[b]["conversation_id"]
    BY DEF Apart
  <2>1. engineData[b]["conversation_id"] \in opened \cup {b}
    BY DEF LaunchInv, OwnData
  <2>2. opened \subseteq 1 .. MaxConvs
    BY DEF LaunchInv
  <2>3. CASE e["conversation_id"] = a
    BY <2>1, <2>2, <2>3, LaunchAssumption
  <2>4. CASE e["conversation_id"] \notin opened \cup Ids
    BY <2>1, <2>4
  <2>5. CASE /\ engineData[a] # NoData /\ "conversation_id" \in DOMAIN engineData[a]
             /\ e["conversation_id"] = engineData[a]["conversation_id"]
    BY <2>5 DEF LaunchInv, Apart
  <2> QED
    BY <2>3, <2>4, <2>5
<1>5. ASSUME NEW b \in Ids \ {a}, engineData[b] # NoData
      PROVE  OwnData(b, engineData[b])' /\ Remembers(engineData[b], given[b])
  BY <1>3, <1>5 DEF LaunchInv, OwnData
<1>6. ASSUME NEW b \in Ids, engineData'[b] # NoData
      PROVE  /\ OwnData(b, engineData[b])'
             /\ Remembers(engineData[b], given[b])'
             /\ \A c \in Ids \ {b} : engineData'[c] # NoData => Apart(engineData[b], engineData[c])'
  <2>1. CASE b = a
    <3>1. OwnData(a, engineData[a])' /\ Remembers(engineData[a], given[a])'
      BY <1>1, <1>2 DEF OwnData, Remembers
    <3>2. \A c \in Ids \ {a} : engineData'[c] # NoData => Apart(engineData[a], engineData[c])'
      BY <1>1, <1>3, <1>4 DEF Apart
    <3> QED
      BY <2>1, <3>1, <3>2
  <2>2. CASE b # a
    <3>1. \A c \in Ids \ {b} : engineData'[c] # NoData => Apart(engineData[b], engineData[c])'
      <4> TAKE c \in Ids \ {b}
      <4>1. CASE c = a
        BY <4>1, <2>2, <1>6, <1>1, <1>3, <1>4 DEF Apart
      <4>2. CASE c # a
        BY <4>2, <2>2, <1>6, <1>3 DEF LaunchInv, Apart
      <4> QED
        BY <4>1, <4>2
    <3>2. OwnData(b, engineData[b])'
      BY <2>2, <1>3, <1>5, <1>6 DEF OwnData
    <3>3. Remembers(engineData[b], given[b])'
      BY <2>2, <1>3, <1>5, <1>6 DEF Remembers
    <3> QED
      BY <3>1, <3>2, <3>3
  <2> QED
    BY <2>1, <2>2
<1>7. adapter' \in {"claude", "codex"} /\ opened' \subseteq 1 .. MaxConvs
  BY DEF LaunchInv
<1> QED
  BY <1>1, <1>2, <1>6, <1>7 DEF LaunchInv

LEMMA OpensKeeps ==
  ASSUME LaunchInv, NEW a \in Ids, Opens(a)
  PROVE  LaunchInv'
<1>0. PICK d : d = engineData[a]
  OBVIOUS
<1>1. d \in EngineDatas /\ OwnData(a, d) /\ Remembers(d, given[a])
  BY <1>0 DEF LaunchInv, Opens
<1>2. PICK c \in (1 .. MaxConvs) \ opened :
        engineData' = [engineData EXCEPT ![a] = ConversationStarted(@, c)] /\ opened' = opened \cup {c}
  BY DEF Opens
<1>e. PICK e : e = ConversationStarted(d, c)
  OBVIOUS
<1>d. c \in Ids \cup (1 .. MaxConvs)
  OBVIOUS
<1>3. /\ e \in EngineDatas
      /\ DOMAIN e = DOMAIN d \cup {"conversation_id", "transcript_path"}
      /\ e["conversation_id"] = c /\ e["transcript_path"] = c
      /\ \A x \in DOMAIN d \cap OptionKeys : e[x] = d[x]
  BY <1>1, <1>d, <1>e, AConversationStarted
<1>4. engineData' = [engineData EXCEPT ![a] = e]
  BY <1>0, <1>2, <1>e DEF LaunchInv
<1>5. OwnData(a, e)'
  BY <1>2, <1>3 DEF OwnData
<1>6. Remembers(e, given[a])
  BY <1>1, <1>3 DEF Remembers
<1>7. /\ given' = given /\ adapter' = adapter /\ given' = [given EXCEPT ![a] = given[a]]
      /\ given[a] \in UNION {[keys -> OptionValues] : keys \in SUBSET OptionKeys}
  BY DEF Opens, LaunchInv
<1>8. opened' \subseteq 1 .. MaxConvs /\ opened \subseteq opened' /\ c \notin opened \cup Ids
  BY <1>2, LaunchAssumption DEF LaunchInv
<1> QED
  BY <1>3, <1>4, <1>5, <1>6, <1>7, <1>8, Replaced

LEMMA ResumesKeeps ==
  ASSUME LaunchInv, NEW a \in Ids, Resumes(a)
  PROVE  LaunchInv'
<1>0. PICK d : d = engineData[a]
  OBVIOUS
<1> DEFINE plan == IF adapter = "claude" THEN ClaudeResume(a, d, PlainProfile)
                   ELSE CodexResume(d, PlainProfile, {})
<1>c. PICK c : c = d["conversation_id"]
  OBVIOUS
<1>e. PICK e : e = ConversationStarted(d, c)
  OBVIOUS
<1>1. d \in EngineDatas /\ OwnData(a, d) /\ Remembers(d, given[a]) /\ d # NoData
  BY <1>0 DEF LaunchInv, Resumes
<1>2. /\ ~IsRefused(plan) /\ engineData' = [engineData EXCEPT ![a] = ConversationStarted(d, plan.opens.resume)]
      /\ UNCHANGED <<adapter, opened, given>>
  BY <1>0 DEF Resumes
<1>3. "conversation_id" \in DOMAIN d /\ plan.opens.resume = c
  <2>1. CASE adapter = "claude"
    <3>1. "conversation_id" \in DOMAIN d
      BY <2>1, <1>1 DEF OwnData
    <3>2. plan.opens = [resume |-> c]
      <4>1. plan = ClaudePlan([resume |-> c], NoData, d, PlainProfile, "")
        BY <2>1, <3>1, <1>c DEF ClaudeResume, ConversationOf, Get
      <4>2. ~IsRefused(ClaudePlan([resume |-> c], NoData, d, PlainProfile, ""))
        BY <4>1, <1>2
      <4>3. ClaudePlan([resume |-> c], NoData, d, PlainProfile, "").opens = [resume |-> c]
        BY <4>2, RefusedIs DEF ClaudePlan
      <4> QED
        BY <4>1, <4>3
    <3> QED
      BY <3>1, <3>2
  <2>2. CASE adapter # "claude"
    <3>1. IsRefused(Refused)
      BY DEF IsRefused, Refused
    <3>2. CodexConversationOf(d) # NoData
      BY <2>2, <1>2, <3>1 DEF CodexResume
    <3>3. "conversation_id" \in DOMAIN d /\ CodexConversationOf(d) = c
      BY <3>2, <1>c DEF CodexConversationOf, Get
    <3>4. plan.opens = [resume |-> c]
      <4>1. plan = CodexPlan([resume |-> c], NoData, d, PlainProfile, "", {})
        BY <2>2, <3>2, <3>3 DEF CodexResume
      <4>2. ~IsRefused(CodexPlan([resume |-> c], NoData, d, PlainProfile, "", {}))
        BY <4>1, <1>2
      <4>3. CodexPlan([resume |-> c], NoData, d, PlainProfile, "", {}).opens = [resume |-> c]
        BY <4>2, RefusedIs DEF CodexPlan
      <4> QED
        BY <4>1, <4>3
    <3> QED
      BY <3>3, <3>4
  <2> QED
    BY <2>1, <2>2
<1>4. c \in opened \cup {a} /\ opened \subseteq 1 .. MaxConvs
  BY <1>1, <1>3, <1>c DEF OwnData, LaunchInv
<1>5. engineData' = [engineData EXCEPT ![a] = e]
  BY <1>2, <1>3, <1>e
<1>6. /\ e \in EngineDatas
      /\ DOMAIN e = DOMAIN d \cup {"conversation_id", "transcript_path"}
      /\ e["conversation_id"] = c /\ e["transcript_path"] = c
      /\ \A x \in DOMAIN d \cap OptionKeys : e[x] = d[x]
  BY <1>1, <1>4, <1>e, AConversationStarted
<1> HIDE DEF plan
<1>7. OwnData(a, e)'
  BY <1>2, <1>4, <1>6 DEF OwnData
<1>8. Remembers(e, given[a])
  BY <1>1, <1>6 DEF Remembers
<1>9. /\ given' = [given EXCEPT ![a] = given[a]]
      /\ given[a] \in UNION {[keys -> OptionValues] : keys \in SUBSET OptionKeys}
  BY <1>2 DEF LaunchInv
<1>10. /\ adapter' = adapter /\ opened \subseteq opened' /\ opened' \subseteq 1 .. MaxConvs
       /\ given'[a] = given[a]
  BY <1>2, <1>4
<1>11. /\ engineData[a] # NoData /\ "conversation_id" \in DOMAIN engineData[a]
       /\ e["conversation_id"] = engineData[a]["conversation_id"]
  BY <1>0, <1>1, <1>3, <1>6, <1>c
<1> QED
  BY <1>5, <1>6, <1>7, <1>8, <1>9, <1>10, <1>11, Replaced

(* A launch's source, and what the agent has been given after it.          *)
Base(source) == IF source = NoData THEN <<>> ELSE engineData[source]

GivenTo(source, options) ==
  [k \in DOMAIN options \cup (IF source = NoData THEN {} ELSE DOMAIN given[source]) |->
     IF k \in DOMAIN options THEN options[k] ELSE given[source][k]]

(* The data a launch starts from: the caller's options over the source's.  *)
LEMMA LaunchesFrom ==
  ASSUME LaunchInv, NEW source \in Ids \cup {NoData}, NEW base, NEW from, NEW options \in Options, NEW data,
         source # NoData => engineData[source] # NoData,
         base = Base(source), data = Configure(base, options), ~IsRefused(data),
         from = GivenTo(source, options)
  PROVE  /\ base \in EngineDatas /\ data \in EngineDatas
         /\ Remembers(data, from)
         /\ from \in UNION {[keys -> OptionValues] : keys \in SUBSET OptionKeys}
         /\ source = NoData => DOMAIN data \subseteq OptionKeys
<1> DEFINE told == IF source = NoData THEN {} ELSE DOMAIN given[source]
<1>1. base \in EngineDatas
  <2>1. CASE source = NoData
    <3>1. <<>> \in [{} -> DataValues] /\ {} \in SUBSET DataKeys
      OBVIOUS
    <3> QED
      BY <2>1, <3>1 DEF EngineDatas, Base
  <2>2. CASE source # NoData
    BY <2>2 DEF LaunchInv, Base
  <2> QED
    BY <2>1, <2>2
<1>2. /\ data \in EngineDatas /\ DOMAIN options \subseteq OptionKeys
      /\ DOMAIN data = DOMAIN base \cup DOMAIN options
      /\ \A k \in DOMAIN options : data[k] = options[k]
      /\ \A k \in DOMAIN base \ DOMAIN options : data[k] = base[k]
  BY <1>1, AConfigured
<1>3. /\ told \subseteq OptionKeys
      /\ source # NoData => Remembers(base, given[source]) /\ told = DOMAIN given[source]
      /\ source # NoData => \A k \in told : given[source][k] \in OptionValues
  <2>1. CASE source = NoData
    BY <2>1
  <2>2. CASE source # NoData
    <3>1. PICK keys \in SUBSET OptionKeys : given[source] \in [keys -> OptionValues]
      BY <2>2 DEF LaunchInv
    <3>2. Remembers(base, given[source])
      BY <2>2 DEF LaunchInv, Base
    <3> QED
      BY <2>2, <3>1, <3>2
  <2> QED
    BY <2>1, <2>2
<1>4. /\ DOMAIN from = DOMAIN options \cup told
      /\ \A k \in DOMAIN options : from[k] = options[k] /\ options[k] \in OptionValues
      /\ \A k \in told \ DOMAIN options : from[k] = given[source][k]
  BY LaunchAssumption DEF GivenTo, OptionValues
<1>5. Remembers(data, from)
  <2>1. DOMAIN from \subseteq OptionKeys
    BY <1>2, <1>3, <1>4
  <2>2. ASSUME NEW k \in DOMAIN from
        PROVE  k \in DOMAIN data /\ data[k] = from[k]
    <3>1. CASE k \in DOMAIN options
      BY <3>1, <1>2, <1>4
    <3>2. CASE k \in told \ DOMAIN options
      <4>1. source # NoData
        BY <3>2
      <4>2. k \in DOMAIN base /\ base[k] = given[source][k]
        BY <3>2, <4>1, <1>3 DEF Remembers
      <4> QED
        BY <3>2, <4>2, <1>2, <1>4
    <3> QED
      BY <3>1, <3>2, <1>4
  <2> QED
    BY <2>1, <2>2 DEF Remembers
<1>6. from \in [DOMAIN options \cup told -> OptionValues]
  <2>1. \A k \in DOMAIN options \cup told : from[k] \in OptionValues
    <3> TAKE k \in DOMAIN options \cup told
    <3>1. CASE k \in DOMAIN options
      BY <3>1, <1>4
    <3>2. CASE k \in told \ DOMAIN options
      <4>1. source # NoData
        BY <3>2
      <4> QED
        BY <3>2, <4>1, <1>3, <1>4
    <3> QED
      BY <3>1, <3>2
  <2>2. from = [k \in DOMAIN options \cup told |-> from[k]]
    BY DEF GivenTo
  <2> QED
    BY <2>1, <2>2
<1>7. DOMAIN options \cup told \in SUBSET OptionKeys
  BY <1>2, <1>3
<1>8. source = NoData => DOMAIN data \subseteq OptionKeys
  BY <1>2 DEF Base
<1>9. from \in UNION {[keys -> OptionValues] : keys \in SUBSET OptionKeys}
  BY <1>6, <1>7
<1> QED
  BY <1>1, <1>2, <1>5, <1>8, <1>9

LEMMA LaunchKeeps ==
  ASSUME LaunchInv, NEW a \in Ids, NEW source \in (Ids \ {a}) \cup {NoData}, NEW options \in Options,
         Launch(a, source, options)
  PROVE  LaunchInv'
<1>1. PICK base : base = Base(source)
  OBVIOUS
<1>2. PICK data : data = Configure(base, options)
  OBVIOUS
<1>3. PICK from : from = GivenTo(source, options)
  OBVIOUS
<1>4. PICK plan : plan = IF IsRefused(data) THEN Refused
                         ELSE IF adapter = "claude"
                           THEN IF source = NoData THEN ClaudeStart(a, data, PlainProfile, "go")
                                ELSE ClaudeFork(a, data, source, base, PlainProfile, "go")
                           ELSE IF source = NoData THEN CodexStart(data, PlainProfile, "go", {})
                                ELSE CodexFork(data, base, PlainProfile, "go", {})
  OBVIOUS
<1>5. /\ source # NoData => engineData[source] # NoData
      /\ ~IsRefused(plan) /\ Stores(a, data, plan) /\ given' = [given EXCEPT ![a] = from]
      /\ adapter' = adapter /\ opened' = opened
  BY <1>1, <1>2, <1>3, <1>4 DEF Launch, CodexConfigure, Base, GivenTo
<1>6. ~IsRefused(data)
  BY <1>4, <1>5, RefusedIs
<1>7. /\ base \in EngineDatas /\ data \in EngineDatas /\ Remembers(data, from)
      /\ from \in UNION {[keys -> OptionValues] : keys \in SUBSET OptionKeys}
      /\ source = NoData => DOMAIN data \subseteq OptionKeys
  <2>1. source \in Ids \cup {NoData}
    OBVIOUS
  <2> QED
    BY <2>1, <1>1, <1>2, <1>3, <1>5, <1>6, LaunchesFrom
<1>8. given'[a] = from
  BY <1>5 DEF LaunchInv
<1>9. PICK e : e = IF plan.stored = NoData THEN data ELSE plan.stored
  OBVIOUS
<1>10. engineData' = [engineData EXCEPT ![a] = e]
  BY <1>5, <1>9 DEF Stores
<1>11. CASE adapter = "claude"
  <2>1. plan.stored = NamedAfter(data, a)
    <3>1. CASE source = NoData
      BY <3>1, <1>4, <1>5, <1>6, <1>11, RefusedIs DEF ClaudeStart, ClaudePlan
    <3>2. CASE source # NoData
      BY <3>2, <1>4, <1>5, <1>6, <1>11, RefusedIs DEF ClaudeFork, ClaudePlan
    <3> QED
      BY <3>1, <3>2
  <2>2. /\ NamedAfter(data, a) \in EngineDatas
        /\ DOMAIN NamedAfter(data, a) = DOMAIN data \cup {"conversation_id", "transcript_path"}
        /\ NamedAfter(data, a)["conversation_id"] = a
        /\ NamedAfter(data, a)["transcript_path"] = a
        /\ \A x \in DOMAIN data \cap OptionKeys : NamedAfter(data, a)[x] = data[x]
    <3>1. a \in Ids \cup (1 .. MaxConvs)
      OBVIOUS
    <3> QED
      BY <1>7, <3>1, AConversationSet, Zenon
  <2>3. e = NamedAfter(data, a)
    BY <1>9, <2>1, <2>2, NoDataIsNone
  <2>4. OwnData(a, e)'
    BY <2>2, <2>3 DEF OwnData
  <2>5. Remembers(e, from)
    BY <1>7, <2>2, <2>3 DEF Remembers
  <2>6. e \in EngineDatas /\ e["conversation_id"] = a
    BY <2>2, <2>3
  <2>7. opened \subseteq opened' /\ opened' \subseteq 1 .. MaxConvs
    BY <1>5 DEF LaunchInv
  <2> QED
    BY <1>5, <1>7, <1>8, <1>10, <2>4, <2>5, <2>6, <2>7, Replaced
<1>12. CASE adapter # "claude"
  <2>1. /\ e \in EngineDatas /\ "conversation_id" \notin DOMAIN e /\ "transcript_path" \notin DOMAIN e
        /\ \A k \in DOMAIN data \cap OptionKeys : k \in DOMAIN e /\ e[k] = data[k]
    <3>1. CASE source = NoData
      <4>1. plan.stored = NoData
        BY <3>1, <1>4, <1>5, <1>6, <1>12, RefusedIs DEF CodexStart, CodexPlan
      <4> QED
        BY <4>1, <3>1, <1>7, <1>9 DEF OptionKeys
    <3>2. CASE source # NoData
      <4>1. plan.stored = WithoutConversation(data)
        BY <3>2, <1>4, <1>5, <1>6, <1>12, RefusedIs DEF CodexFork, CodexPlan
      <4>2. PICK keys \in SUBSET DataKeys : data \in [keys -> DataValues]
        BY <1>7 DEF EngineDatas
      <4>3. PICK left : left = keys \ {"conversation_id", "transcript_path"}
        OBVIOUS
      <4>4. WithoutConversation(data) = [k \in left |-> data[k]]
        BY <4>2, <4>3 DEF WithoutConversation, Restrict
      <4>5. [k \in left |-> data[k]] \in [left -> DataValues] /\ left \in SUBSET DataKeys
        BY <4>2, <4>3
      <4>6. WithoutConversation(data) \in EngineDatas
        BY <4>4, <4>5 DEF EngineDatas
      <4>7. e = WithoutConversation(data)
        BY <1>9, <4>1, <4>6, NoDataIsNone
      <4> QED
        BY <4>2, <4>3, <4>4, <4>6, <4>7 DEF OptionKeys
    <3> QED
      BY <3>1, <3>2
  <2>2. OwnData(a, e)'
    BY <1>5, <1>12, <2>1 DEF OwnData
  <2>3. Remembers(e, from)
    BY <1>7, <2>1 DEF Remembers
  <2>4. opened \subseteq opened' /\ opened' \subseteq 1 .. MaxConvs
    BY <1>5 DEF LaunchInv
  <2> QED
    BY <1>5, <1>7, <1>8, <1>10, <2>1, <2>2, <2>3, <2>4, Replaced
<1> QED
  BY <1>11, <1>12

(* The engine data of two agents stays apart, whatever is launched, forked,*)
(* cleared and resumed.                                                    *)
THEOREM LaunchInvariance == LaunchSpec => []LaunchInv
<1>1. LaunchInit => LaunchInv
  <2> SUFFICES ASSUME LaunchInit PROVE LaunchInv
    OBVIOUS
  <2>1. <<>> \in [{} -> OptionValues] /\ {} \in SUBSET OptionKeys
    OBVIOUS
  <2>2. <<>> \in UNION {[keys -> OptionValues] : keys \in SUBSET OptionKeys}
    BY <2>1
  <2> QED
    BY <2>2 DEF LaunchInit, LaunchInv
<1>2. LaunchInv /\ [LaunchNext]_launchVars => LaunchInv'
  <2> SUFFICES ASSUME LaunchInv, [LaunchNext]_launchVars PROVE LaunchInv'
    OBVIOUS
  <2>1. ASSUME NEW a \in Ids, NEW options \in Options, Launch(a, NoData, options)
        PROVE  LaunchInv'
    BY <2>1, LaunchKeeps
  <2>2. ASSUME NEW a \in Ids, NEW options \in Options, NEW source \in Ids \ {a}, Launch(a, source, options)
        PROVE  LaunchInv'
    BY <2>2, LaunchKeeps
  <2>3. CASE UNCHANGED launchVars
    BY <2>3 DEF launchVars, LaunchInv, OwnData, Remembers, Apart
  <2> QED
    BY <2>1, <2>2, <2>3, OpensKeeps, ResumesKeeps DEF LaunchNext
<1> QED
  BY <1>1, <1>2, PTL DEF LaunchSpec

(* No two agents are ever recorded in one conversation, whatever is        *)
(* launched, forked from whichever, cleared and resumed, and what the      *)
(* caller gave is never lost (configure, named_after, without_conversation *)
(* and conversation_started of both adapters).                             *)
THEOREM DataIsItsOwn == LaunchSpec => []DataStaysItsOwn
<1>1. LaunchInv => DataStaysItsOwn
  <2> SUFFICES ASSUME LaunchInv, NEW a \in Ids, engineData[a] # NoData
               PROVE  LET d == engineData[a] IN
                      /\ \A b \in Ids \ {a} : engineData[b] # NoData =>
                           \A k \in {"conversation_id", "transcript_path"} :
                             (k \in DOMAIN d /\ k \in DOMAIN engineData[b]) => d[k] # engineData[b][k]
                      /\ "transcript_path" \in DOMAIN d =>
                           "conversation_id" \in DOMAIN d /\ d["conversation_id"] = d["transcript_path"]
                      /\ \A k \in DOMAIN given[a] : k \in DOMAIN d /\ d[k] = given[a][k]
    BY DEF DataStaysItsOwn
  <2>1. OwnData(a, engineData[a]) /\ Remembers(engineData[a], given[a])
    BY DEF LaunchInv
  <2>2. ASSUME NEW b \in Ids \ {a}, engineData[b] # NoData
        PROVE  Apart(engineData[a], engineData[b]) /\ OwnData(b, engineData[b])
    BY <2>2 DEF LaunchInv
  <2> QED
    BY <2>1, <2>2 DEF OwnData, Remembers, Apart
<1> QED
  BY <1>1, LaunchInvariance, PTL

----------------------------------------------------------------------------
(* Hooks (EngineHooks)                                                     *)

HookNames ==
  {"SessionStart", "UserPromptSubmit", "PreToolUse", "PostToolUse", "Notification",
   "PermissionRequest", "Stop", "idle_prompt", "SessionEnd", "Interrupt"}
ACli == [mode : Modes, conv : Nat, named : BOOLEAN, turn : Nat, waits : BOOLEAN]
AHook == [name : HookNames, conv : Nat, turn : Nat, late : BOOLEAN]

HooksTypeOK ==
  /\ engine \in {"claude", "codex"}
  /\ cli \in ACli
  /\ escape \in BOOLEAN /\ locked \in BOOLEAN
  /\ hooks \in Seq(AHook)
  /\ record \in [state : {"none", "starting", "idle", "working", "ended"}, conv : Nat]
  /\ excused \subseteq {"state", "conv"}

(* A hook that says a state, and one that names the conversation; the last *)
(* of either that is pending.                                              *)
SaysState(i) == StateOf(hooks[i].name) # "same"
SaysConv(i) == hooks[i].name = "SessionStart"
StatePending == \E i \in DOMAIN hooks : SaysState(i)
ConvPending == \E i \in DOMAIN hooks : SaysConv(i)
LastState(i) == SaysState(i) /\ \A j \in DOMAIN hooks : j > i => ~SaysState(j)
LastConv(i) == SaysConv(i) /\ \A j \in DOMAIN hooks : j > i => ~SaysConv(j)

HooksKnown ==
  /\ \A i \in DOMAIN hooks : hooks[i].turn <= cli.turn
  /\ engine = "claude" => \A i \in DOMAIN hooks :
       hooks[i].name = "SessionEnd" => i = Len(hooks) /\ cli.mode = "off"

(* What the last hook to tell will leave is true, or it is known not to be.*)
LastTells ==
  /\ \A i \in DOMAIN hooks : LastState(i) =>
       hooks[i].late \/ hooks[i].turn # cli.turn \/ StateOf(hooks[i].name) \in Truthful[cli.mode]
  /\ \A i \in DOMAIN hooks : LastConv(i) => hooks[i].late \/ ~cli.named \/ hooks[i].conv = cli.conv

(* Nothing more will be told of the state.                                 *)
StateTold ==
  ~StatePending /\ "state" \notin excused =>
    /\ record.state = "none" => ~escape /\ "starting" \in Truthful[cli.mode]
    /\ record.state # "none" /\ ~escape /\ ~locked => record.state \in Truthful[cli.mode]
    /\ record.state # "none" /\ escape /\ ~locked => record.state = "idle"
    /\ escape \/ locked => ~(cli.mode = "off" /\ engine = "claude")
    /\ locked /\ ~escape => "idle" \in Truthful[cli.mode]

ConvTold ==
  ~ConvPending /\ "conv" \notin excused /\ cli.named =>
    record.state # "none" /\ record.conv = cli.conv

EndedIsOver ==
  /\ locked => record.state \notin {"none", "ended"}
  /\ record.state = "ended" =>
       engine = "claude" /\ cli.mode = "off" /\ \A i \in DOMAIN hooks : hooks[i].late

HooksInv == HooksTypeOK /\ HooksKnown /\ LastTells /\ StateTold /\ ConvTold /\ EndedIsOver

-----------------------------------------------------------------------------
(* What the adapters say, and what is true in which mode                   *)

LEMMA Truths ==
  /\ Truthful["booting"] = {"starting", "idle"}
  /\ Truthful["prompt"] = IF engine = "codex" THEN {"starting", "idle"} ELSE {"idle"}
  /\ Truthful["turn"] = {"working"} /\ Truthful["answered"] = {"idle", "working"}
  /\ Truthful["submitting"] = {"idle"} /\ Truthful["question"] = {"idle"}
  /\ Truthful["off"] = IF engine = "claude" THEN {"ended"} ELSE {"starting", "idle", "working"}
BY DEF Truthful, Modes

LEMMA TruthStays ==
  ASSUME UNCHANGED engine
  PROVE  Truthful' = Truthful /\ \A name \in HookNames : StateOf(name)' = StateOf(name)
BY DEF Truthful, StateOf

LEMMA StatesSaid ==
  ASSUME engine \in {"claude", "codex"}, NEW name \in HookNames
  PROVE  /\ StateOf(name) \in {"idle", "working", "ended", "same"}
         /\ StateOf(name) = "ended" <=> engine = "claude" /\ name = "SessionEnd"
         /\ name \in {"SessionStart", "Stop"} => StateOf(name) = "idle"
         /\ name \in {"UserPromptSubmit", "PostToolUse"} => StateOf(name) = "working"
         /\ name = "PreToolUse" /\ engine = "claude" => StateOf(name) = "working"
         /\ name = "Notification" /\ engine = "claude" => StateOf(name) = "idle"
         /\ name \in {"PermissionRequest", "Interrupt"} /\ engine = "codex" => StateOf(name) = "idle"
         /\ name = "idle_prompt" => StateOf(name) = "same"
         /\ name = "SessionEnd" /\ engine = "codex" => StateOf(name) = "same"
BY DEF HookNames, StateOf, ClaudeState, CodexState

-----------------------------------------------------------------------------
(* The hooks that are pending, after one is fired and after one is through *)

LEMMA Appended ==
  ASSUME HooksTypeOK, NEW h \in AHook, hooks' = Append(hooks, h)
  PROVE  /\ hooks' \in Seq(AHook) /\ Len(hooks') = Len(hooks) + 1
         /\ DOMAIN hooks' = DOMAIN hooks \cup {Len(hooks) + 1}
         /\ DOMAIN hooks = 1 .. Len(hooks) /\ Len(hooks) \in Nat
         /\ hooks'[Len(hooks) + 1] = h
         /\ \A i \in DOMAIN hooks : hooks'[i] = hooks[i] /\ hooks[i] \in AHook
BY DEF HooksTypeOK, ACli

LEMMA Through ==
  ASSUME HooksTypeOK, NEW i \in DOMAIN hooks, hooks' = Overtaken(i)
  PROVE  /\ hooks' \in Seq(AHook) /\ Len(hooks') = Len(hooks) - 1
         /\ DOMAIN hooks' = 1 .. Len(hooks) - 1
         /\ DOMAIN hooks = 1 .. Len(hooks) /\ Len(hooks) \in Nat
         /\ \A j \in DOMAIN hooks : hooks[j] \in AHook
         /\ \A j \in DOMAIN hooks' : j < i =>
              /\ hooks'[j].late /\ hooks'[j].name = hooks[j].name
              /\ hooks'[j].conv = hooks[j].conv /\ hooks'[j].turn = hooks[j].turn
         /\ \A j \in DOMAIN hooks' : j >= i => hooks'[j] = hooks[j + 1]
<1>1. /\ DOMAIN hooks = 1 .. Len(hooks) /\ Len(hooks) \in Nat
      /\ \A j \in DOMAIN hooks : hooks[j] \in AHook
  BY DEF HooksTypeOK, ACli
<1>2. \A j \in 1 .. Len(hooks) - 1 :
        hooks'[j] = IF j < i THEN [hooks[j] EXCEPT !.late = TRUE] ELSE hooks[j + 1]
  BY DEF Overtaken
<1>3. \A j \in 1 .. Len(hooks) - 1 : hooks'[j] \in AHook
  <2> SUFFICES ASSUME NEW j \in 1 .. Len(hooks) - 1 PROVE hooks'[j] \in AHook
    OBVIOUS
  <2>1. hooks[j] \in AHook /\ hooks[j + 1] \in AHook
    BY <1>1
  <2>2. [hooks[j] EXCEPT !.late = TRUE] \in AHook
    BY <2>1 DEF AHook
  <2> QED BY <1>2, <2>1, <2>2
<1>4. /\ hooks' \in Seq(AHook) /\ Len(hooks') = Len(hooks) - 1
      /\ DOMAIN hooks' = 1 .. Len(hooks) - 1
  <2>1. hooks' = [j \in 1 .. Len(hooks) - 1 |-> hooks'[j]]
    BY DEF Overtaken
  <2>2. Len(hooks) - 1 \in Nat
    BY <1>1
  <2> QED BY <1>3, <2>1, <2>2
<1>5. ASSUME NEW j \in DOMAIN hooks', j < i
      PROVE  /\ hooks'[j].late /\ hooks'[j].name = hooks[j].name
             /\ hooks'[j].conv = hooks[j].conv /\ hooks'[j].turn = hooks[j].turn
  <2>1. hooks'[j] = [hooks[j] EXCEPT !.late = TRUE] /\ hooks[j] \in AHook
    BY <1>1, <1>2, <1>4, <1>5
  <2> QED BY <2>1 DEF AHook
<1> QED BY <1>1, <1>2, <1>4, <1>5

LEMMA PendingStays ==
  ASSUME UNCHANGED <<engine, hooks>>
  PROVE  /\ StatePending' = StatePending /\ ConvPending' = ConvPending
         /\ \A i : LastState(i)' = LastState(i) /\ LastConv(i)' = LastConv(i)
BY DEF StatePending, ConvPending, LastState, LastConv, SaysState, SaysConv, StateOf

(* The hook that is through was the last to tell, or the last to tell is   *)
(* still pending, or it is late now.                                       *)
LEMMA PendingThrough ==
  ASSUME HooksTypeOK, UNCHANGED engine, NEW i \in DOMAIN hooks, hooks' = Overtaken(i)
  PROVE  /\ \A j \in DOMAIN hooks' : LastState(j)' =>
              hooks'[j].late \/ (j >= i /\ LastState(j + 1))
         /\ \A j \in DOMAIN hooks' : LastConv(j)' =>
              hooks'[j].late \/ (j >= i /\ LastConv(j + 1))
         /\ ~StatePending' => \A k \in DOMAIN hooks : k # i => ~SaysState(k)
         /\ ~ConvPending' => \A k \in DOMAIN hooks : k # i => ~SaysConv(k)
         /\ StatePending' => \E k \in DOMAIN hooks : k # i /\ SaysState(k)
<1>1. \A j \in DOMAIN hooks' :
        /\ j < i => hooks'[j].late /\ hooks'[j].name = hooks[j].name
        /\ j >= i => hooks'[j] = hooks[j + 1]
  BY Through
<1>2. /\ DOMAIN hooks = 1 .. Len(hooks) /\ Len(hooks) \in Nat
      /\ DOMAIN hooks' = 1 .. Len(hooks) - 1
  BY Through
<1>3. \A name : StateOf(name)' = StateOf(name)
  BY DEF StateOf
<1>4. \A j \in DOMAIN hooks' :
        /\ j < i => SaysState(j)' = SaysState(j) /\ SaysConv(j)' = SaysConv(j)
        /\ j >= i => SaysState(j)' = SaysState(j + 1) /\ SaysConv(j)' = SaysConv(j + 1)
  BY <1>1 DEF SaysState, SaysConv, StateOf
<1>5. \A k \in DOMAIN hooks : k # i =>
        \E j \in DOMAIN hooks' : k = IF j < i THEN j ELSE j + 1
  <2> SUFFICES ASSUME NEW k \in DOMAIN hooks, k # i
               PROVE  \E j \in DOMAIN hooks' : k = IF j < i THEN j ELSE j + 1
    OBVIOUS
  <2>1. CASE k < i
    BY <1>2, <2>1
  <2>2. CASE k > i
    <3>1. k - 1 \in DOMAIN hooks' /\ ~(k - 1 < i) /\ k = (k - 1) + 1
      BY <1>2, <2>2
    <3> QED BY <3>1
  <2> QED BY <1>2, <2>1, <2>2
<1>6. ASSUME NEW j \in DOMAIN hooks', LastState(j)', j >= i PROVE LastState(j + 1)
  <2>1. \A k \in DOMAIN hooks' : k > j => ~SaysState(k)'
    BY <1>6 DEF LastState
  <2>2. SaysState(j)'
    BY <1>6 DEF LastState
  <2>3. ASSUME NEW k \in DOMAIN hooks, k > j + 1 PROVE ~SaysState(k)
    <3>1. k - 1 \in DOMAIN hooks' /\ k - 1 > j /\ k - 1 >= i /\ (k - 1) + 1 = k
      BY <1>2, <1>6, <2>3
    <3> QED BY <1>4, <2>1, <3>1
  <2> QED BY <1>4, <1>6, <2>2, <2>3 DEF LastState
<1>7. ASSUME NEW j \in DOMAIN hooks', LastConv(j)', j >= i PROVE LastConv(j + 1)
  <2>1. \A k \in DOMAIN hooks' : k > j => ~SaysConv(k)'
    BY <1>7 DEF LastConv
  <2>2. SaysConv(j)'
    BY <1>7 DEF LastConv
  <2>3. ASSUME NEW k \in DOMAIN hooks, k > j + 1 PROVE ~SaysConv(k)
    <3>1. k - 1 \in DOMAIN hooks' /\ k - 1 > j /\ k - 1 >= i /\ (k - 1) + 1 = k
      BY <1>2, <1>7, <2>3
    <3> QED BY <1>4, <2>1, <3>1
  <2> QED BY <1>4, <1>7, <2>2, <2>3 DEF LastConv
<1>8. /\ ~StatePending' => \A k \in DOMAIN hooks : k # i => ~SaysState(k)
      /\ ~ConvPending' => \A k \in DOMAIN hooks : k # i => ~SaysConv(k)
  <2> SUFFICES ASSUME NEW k \in DOMAIN hooks, k # i
               PROVE  (SaysState(k) => StatePending') /\ (SaysConv(k) => ConvPending')
    OBVIOUS
  <2>1. PICK j \in DOMAIN hooks' : k = IF j < i THEN j ELSE j + 1
    BY <1>5
  <2>2. SaysState(j)' = SaysState(k) /\ SaysConv(j)' = SaysConv(k)
    BY <1>2, <1>4, <2>1
  <2> QED BY <2>2 DEF StatePending, ConvPending
<1>9. StatePending' => \E k \in DOMAIN hooks : k # i /\ SaysState(k)
  <2> SUFFICES ASSUME NEW j \in DOMAIN hooks', SaysState(j)'
               PROVE  \E k \in DOMAIN hooks : k # i /\ SaysState(k)
    BY DEF StatePending
  <2>1. CASE j < i
    BY <1>2, <1>4, <2>1
  <2>2. CASE j >= i
    <3>1. j + 1 \in DOMAIN hooks /\ j + 1 # i
      BY <1>2, <2>2
    <3> QED BY <1>4, <2>2, <3>1
  <2> QED BY <1>2, <2>1, <2>2
<1> QED BY <1>1, <1>2, <1>6, <1>7, <1>8, <1>9

-----------------------------------------------------------------------------
(* The steps of the CLI                                                    *)

LEMMA MovesKeep ==
  ASSUME HooksInv, NEW mode \in Modes, NEW name \in HookNames, Moves(mode, name), cli.mode # "off",
         engine = "claude" => (name = "SessionEnd" <=> mode = "off"),
         StateOf(name) = "same" => Truthful[cli.mode] \subseteq Truthful[mode],
         StateOf(name) # "same" => StateOf(name) \in Truthful[mode]
  PROVE  HooksInv'
<1> DEFINE h == [name |-> name, conv |-> cli.conv, turn |-> cli.turn, late |-> FALSE]
<1> USE DEF HooksInv
<1>0. PICK last : last = Len(hooks) + 1
  OBVIOUS
<1>1. /\ cli'.mode = mode /\ cli'.conv = cli.conv /\ cli'.turn = cli.turn
      /\ cli'.named = (cli.named \/ name = "SessionStart")
      /\ cli' \in ACli
  BY DEF Moves, HooksTypeOK, ACli
<1>2. hooks' = Append(hooks, h) /\ UNCHANGED <<engine, escape, record, locked, excused>>
  BY DEF Moves
<1>3. h \in AHook /\ h.name = name /\ h.conv = cli.conv /\ h.turn = cli.turn /\ ~h.late
  BY DEF AHook, HooksTypeOK, ACli
<1> HIDE DEF h
<1>4. /\ hooks' \in Seq(AHook) /\ Len(hooks') = last /\ DOMAIN hooks' = DOMAIN hooks \cup {last}
      /\ DOMAIN hooks = 1 .. Len(hooks) /\ Len(hooks) \in Nat /\ hooks'[last] = h
      /\ \A i \in DOMAIN hooks : hooks'[i] = hooks[i] /\ hooks[i] \in AHook /\ i < last
  BY <1>0, <1>2, <1>3, Appended
<1>5. Truthful' = Truthful /\ \A n \in HookNames : StateOf(n)' = StateOf(n)
  BY <1>2, TruthStays
<1>6. /\ SaysState(last)' <=> StateOf(name) # "same"
      /\ SaysConv(last)' <=> name = "SessionStart"
      /\ \A i \in DOMAIN hooks : SaysState(i)' = SaysState(i) /\ SaysConv(i)' = SaysConv(i)
  BY <1>2, <1>3, <1>4 DEF SaysState, SaysConv, StateOf
<1>7. HooksTypeOK'
  BY <1>1, <1>2, <1>4 DEF HooksTypeOK, ACli
<1>8. HooksKnown'
  <2>1. cli.turn \in Nat
    BY DEF HooksTypeOK, ACli
  <2> QED BY <1>1, <1>2, <1>3, <1>4, <2>1 DEF HooksKnown
<1>9. LastTells'
  <2>1. ASSUME NEW i \in DOMAIN hooks', LastState(i)'
        PROVE  hooks'[i].late \/ hooks'[i].turn # cli'.turn \/ StateOf(hooks[i].name)' \in Truthful'[cli'.mode]
    <3>1. CASE i = last
      <4>1. StateOf(name) \in Truthful[mode]
        BY <1>6, <2>1, <3>1 DEF LastState
      <4>2. StateOf(hooks[i].name)' = StateOf(name)
        BY <1>2, <1>3, <1>4, <3>1 DEF StateOf
      <4> QED BY <1>1, <1>5, <4>1, <4>2
    <3>2. CASE i \in DOMAIN hooks
      <4>1. LastState(i) /\ StateOf(name) = "same"
        BY <1>4, <1>6, <2>1, <3>2 DEF LastState
      <4>2. hooks[i].late \/ hooks[i].turn # cli.turn \/ StateOf(hooks[i].name) \in Truthful[cli.mode]
        BY <3>2, <4>1 DEF LastTells
      <4>3. StateOf(hooks[i].name)' = StateOf(hooks[i].name)
        BY <1>2, <1>4, <3>2 DEF StateOf
      <4> QED BY <1>1, <1>4, <1>5, <3>2, <4>1, <4>2, <4>3
    <3> QED BY <1>4, <3>1, <3>2
  <2>2. ASSUME NEW i \in DOMAIN hooks', LastConv(i)'
        PROVE  hooks'[i].late \/ ~cli'.named \/ hooks'[i].conv = cli'.conv
    <3>1. CASE i = last
      BY <1>1, <1>3, <1>4, <3>1
    <3>2. CASE i \in DOMAIN hooks
      <4>1. LastConv(i) /\ name # "SessionStart"
        BY <1>4, <1>6, <2>2, <3>2 DEF LastConv
      <4> QED BY <1>1, <1>4, <3>2, <4>1 DEF LastTells
    <3> QED BY <1>4, <3>1, <3>2
  <2> QED BY <2>1, <2>2 DEF LastTells
<1>10. StateTold'
  <2>1. ~StatePending' => ~StatePending /\ StateOf(name) = "same"
    BY <1>4, <1>6 DEF StatePending
  <2>2. ASSUME StateOf(name) = "same" PROVE ~(mode = "off" /\ engine = "claude")
    BY <2>2, StatesSaid DEF HooksTypeOK, ACli
  <2> QED BY <1>1, <1>2, <1>5, <2>1, <2>2 DEF StateTold
<1>11. ConvTold'
  <2>1. ~ConvPending' => ~ConvPending /\ name # "SessionStart"
    BY <1>4, <1>6 DEF ConvPending
  <2> QED BY <1>1, <1>2, <2>1 DEF ConvTold
<1>12. EndedIsOver'
  BY <1>2 DEF EndedIsOver
<1> QED BY <1>7, <1>8, <1>9, <1>10, <1>11, <1>12

(* A step without a hook.                                                  *)
LEMMA QuietKeeps ==
  ASSUME HooksInv, UNCHANGED <<engine, hooks>>, HooksTypeOK', EndedIsOver', HooksKnown', StateTold', ConvTold',
         cli'.turn = cli.turn => Truthful[cli.mode] \subseteq Truthful[cli'.mode],
         cli'.turn # cli.turn => cli'.turn = cli.turn + 1,
         (cli'.conv = cli.conv /\ (cli'.named => cli.named)) \/ ~cli'.named
  PROVE  HooksInv'
<1> USE DEF HooksInv
<1>1. /\ Truthful' = Truthful /\ \A n \in HookNames : StateOf(n)' = StateOf(n)
      /\ \A i : LastState(i)' = LastState(i) /\ LastConv(i)' = LastConv(i)
  BY TruthStays, PendingStays
<1>2. \A i \in DOMAIN hooks : hooks[i] \in AHook
  BY DEF HooksTypeOK, ACli
<1>3. ASSUME NEW i \in DOMAIN hooks, LastState(i)
      PROVE  hooks[i].late \/ hooks[i].turn # cli'.turn \/ StateOf(hooks[i].name) \in Truthful[cli'.mode]
  <2>1. hooks[i].turn <= cli.turn /\ hooks[i].turn \in Nat /\ cli.turn \in Nat
    BY <1>2 DEF HooksKnown, HooksTypeOK, ACli, AHook
  <2>2. hooks[i].late \/ hooks[i].turn # cli.turn \/ StateOf(hooks[i].name) \in Truthful[cli.mode]
    BY <1>3 DEF LastTells
  <2>3. CASE cli'.turn = cli.turn
    BY <2>2, <2>3
  <2>4. CASE cli'.turn # cli.turn
    BY <2>1, <2>4
  <2> QED BY <2>3, <2>4
<1>4. ASSUME NEW i \in DOMAIN hooks, LastConv(i)
      PROVE  hooks[i].late \/ ~cli'.named \/ hooks[i].conv = cli'.conv
  BY <1>4 DEF LastTells
<1>5. \A i \in DOMAIN hooks : StateOf(hooks[i].name)' = StateOf(hooks[i].name)
  BY <1>1, <1>2 DEF AHook, StateOf
<1>6. LastTells'
  BY <1>1, <1>3, <1>4, <1>5 DEF LastTells
<1> QED BY <1>6

(* Nothing is told by a step of this kind, and what is true stays true.    *)
LEMMA QuietMoves ==
  ASSUME HooksInv, NEW mode \in Modes, UNCHANGED <<engine, escape, hooks, record, locked, excused>>,
         cli' \in ACli,
         cli'.mode = mode, cli'.turn = cli.turn, cli.mode # "off", mode # "off",
         Truthful[cli.mode] \subseteq Truthful[mode],
         (cli'.conv = cli.conv /\ cli'.named = cli.named) \/ ~cli'.named
  PROVE  HooksInv'
<1> USE DEF HooksInv
<1>1. Truthful' = Truthful /\ StatePending' = StatePending /\ ConvPending' = ConvPending
  BY TruthStays, PendingStays
<1>2. HooksTypeOK' /\ EndedIsOver'
  BY DEF HooksTypeOK, ACli, EndedIsOver
<1>3. HooksKnown'
  BY DEF HooksKnown
<1>4. StateTold'
  BY <1>1 DEF StateTold
<1>5. ConvTold'
  BY <1>1 DEF ConvTold
<1> QED BY <1>2, <1>3, <1>4, <1>5, QuietKeeps

LEMMA CliKeeps ==
  ASSUME HooksInv,
         \/ Boot \/ Submit \/ Tool \/ Ask \/ Answer \/ Finish \/ StaysIdle \/ Exit
  PROVE  HooksInv'
<1>0. engine \in {"claude", "codex"} /\ cli.mode \in Modes
  BY DEF HooksInv, HooksTypeOK, ACli
<1> USE <1>0, Truths DEF Modes, HookNames
<1>1. CASE Boot
  <2>1. CASE engine = "claude"
    BY <1>1, <2>1, MovesKeep, StatesSaid DEF Boot
  <2>2. CASE engine = "codex"
    BY <1>1, <2>2, QuietMoves DEF Boot, MovesQuietly, HooksInv, HooksTypeOK, ACli
  <2> QED BY <2>1, <2>2
<1>2. CASE Submit
  <2>1. Moves("turn", "UserPromptSubmit") \/ Moves("submitting", "SessionStart")
    BY <1>2 DEF Submit
  <2>2. cli.mode \in {"prompt", "submitting"}
    BY <1>2 DEF Submit
  <2> QED BY <2>1, <2>2, MovesKeep, StatesSaid
<1>3. CASE Tool
  <2>1. PICK name \in {"PreToolUse", "PostToolUse"} :
          (name = "PreToolUse" => engine = "claude") /\ Moves("turn", name)
    BY <1>3 DEF Tool
  <2>2. cli.mode \in {"turn", "answered"}
    BY <1>3 DEF Tool
  <2>3. StateOf(name) = "working"
    BY <2>1, StatesSaid
  <2> QED BY <2>1, <2>2, <2>3, MovesKeep
<1>4. CASE Ask
  BY <1>4, MovesKeep, StatesSaid DEF Ask
<1>5. CASE Answer
  BY <1>5, QuietMoves DEF Answer, MovesQuietly, HooksInv, HooksTypeOK, ACli
<1>6. CASE Finish
  BY <1>6, MovesKeep, StatesSaid DEF Finish
<1>7. CASE StaysIdle
  BY <1>7, MovesKeep, StatesSaid DEF StaysIdle
<1>8. CASE Exit
  <2>1. Moves("off", "SessionEnd") /\ cli.mode \in {"prompt", "turn"}
    BY <1>8 DEF Exit
  <2>2. StateOf("SessionEnd") = IF engine = "claude" THEN "ended" ELSE "same"
    BY StatesSaid
  <2> QED BY <2>1, <2>2, MovesKeep
<1> QED BY <1>1, <1>2, <1>3, <1>4, <1>5, <1>6, <1>7, <1>8

(* A hook fired by a step that changes the conversation or ends a turn:    *)
(* it tells the state, and nothing is true of the earlier ones.            *)
LEMMA FiresAnew ==
  ASSUME HooksInv, NEW h \in AHook, hooks' = Append(hooks, h), UNCHANGED engine,
         cli' \in ACli,
         UNCHANGED <<record, locked, excused>>, escape' \in BOOLEAN,
         cli.mode # "off", cli'.mode # "off", h.name # "SessionEnd",
         h.turn = cli'.turn, cli'.turn >= cli.turn,
         StateOf(h.name) # "same", StateOf(h.name) \in Truthful[cli'.mode],
         \/ h.name = "SessionStart" /\ h.conv = cli'.conv
         \/ h.name # "SessionStart" /\ cli'.conv = cli.conv /\ cli'.named = cli.named
  PROVE  HooksInv'
<1> USE DEF HooksInv
<1>0. PICK last : last = Len(hooks) + 1
  OBVIOUS
<1>1. /\ hooks' \in Seq(AHook) /\ Len(hooks') = last /\ DOMAIN hooks' = DOMAIN hooks \cup {last}
      /\ DOMAIN hooks = 1 .. Len(hooks) /\ Len(hooks) \in Nat /\ hooks'[last] = h
      /\ \A i \in DOMAIN hooks : hooks'[i] = hooks[i] /\ hooks[i] \in AHook /\ i < last
  BY <1>0, Appended
<1>2. Truthful' = Truthful /\ \A n \in HookNames : StateOf(n)' = StateOf(n)
  BY TruthStays
<1>3. /\ SaysState(last)'
      /\ SaysConv(last)' <=> h.name = "SessionStart"
      /\ \A i \in DOMAIN hooks : SaysConv(i)' = SaysConv(i)
  BY <1>1 DEF SaysState, SaysConv, StateOf
<1>4. HooksTypeOK'
  BY <1>1 DEF HooksTypeOK, ACli
<1>5. HooksKnown'
  <2>1. cli.turn \in Nat /\ cli'.turn \in Nat /\ \A i \in DOMAIN hooks : hooks[i].turn \in Nat
    BY <1>1 DEF HooksTypeOK, ACli, AHook
  <2> QED BY <1>1, <2>1 DEF HooksKnown
<1>6. LastTells'
  <2>1. ASSUME NEW i \in DOMAIN hooks', LastState(i)'
        PROVE  StateOf(hooks[i].name)' \in Truthful'[cli'.mode]
    <3>1. i = last
      BY <1>1, <1>3, <2>1 DEF LastState
    <3>2. StateOf(hooks[i].name)' = StateOf(h.name)
      BY <1>1, <3>1 DEF StateOf
    <3> QED BY <1>2, <3>2
  <2>2. ASSUME NEW i \in DOMAIN hooks', LastConv(i)'
        PROVE  hooks'[i].late \/ ~cli'.named \/ hooks'[i].conv = cli'.conv
    <3>1. CASE i = last
      BY <1>1, <1>3, <2>2, <3>1 DEF LastConv
    <3>2. CASE i \in DOMAIN hooks
      <4>1. LastConv(i) /\ h.name # "SessionStart"
        BY <1>1, <1>3, <2>2, <3>2 DEF LastConv
      <4> QED BY <1>1, <3>2, <4>1 DEF LastTells
    <3> QED BY <1>1, <3>1, <3>2
  <2> QED BY <2>1, <2>2 DEF LastTells
<1>7. StateTold'
  BY <1>1, <1>3 DEF StateTold, StatePending
<1>8. ConvTold'
  <2>1. ~ConvPending' => ~ConvPending /\ h.name # "SessionStart"
    BY <1>1, <1>3 DEF ConvPending
  <2> QED BY <2>1 DEF ConvTold
<1>9. EndedIsOver'
  BY DEF EndedIsOver
<1> QED BY <1>4, <1>5, <1>6, <1>7, <1>8, <1>9

LEMMA ClearKeeps ==
  ASSUME HooksInv, Clear
  PROVE  HooksInv'
<1>0. /\ engine \in {"claude", "codex"} /\ cli.mode = "prompt" /\ cli.conv \in Nat
      /\ cli' = [cli EXCEPT !.conv = @ + 1, !.named = engine = "claude", !.waits = engine = "claude"]
      /\ cli \in ACli
      /\ UNCHANGED <<engine, escape, record, locked, excused>>
  BY DEF HooksInv, HooksTypeOK, ACli, Clear
<1>1. /\ cli'.mode = "prompt" /\ cli'.turn = cli.turn /\ cli'.conv = cli.conv + 1
      /\ cli'.named = (engine = "claude")
      /\ cli' \in ACli
  <2>1. PICK b \in BOOLEAN : b = (engine = "claude")
    OBVIOUS
  <2> DEFINE c == [cli EXCEPT !.conv = @ + 1]  d == [c EXCEPT !.named = b]
  <2>2. c \in ACli /\ c.conv = cli.conv + 1 /\ c.mode = cli.mode /\ c.turn = cli.turn
    BY <1>0 DEF ACli
  <2>3. d \in ACli /\ d.conv = c.conv /\ d.mode = c.mode /\ d.turn = c.turn /\ d.named = b
    <3> HIDE DEF c
    <3> QED BY <2>1, <2>2 DEF ACli
  <2>4. cli' = [d EXCEPT !.waits = b]
    BY <1>0, <2>1
  <2> HIDE DEF d
  <2> QED BY <1>0, <2>1, <2>2, <2>3, <2>4 DEF ACli
<1>2. CASE engine = "codex"
  <2>1. UNCHANGED hooks /\ ~cli'.named
    BY <1>1, <1>2 DEF Clear
  <2> QED BY <1>0, <1>1, <2>1, QuietMoves DEF Modes
<1>3. CASE engine = "claude"
  <2> DEFINE h == [name |-> "SessionStart", conv |-> cli.conv + 1, turn |-> cli.turn, late |-> FALSE]
  <2>1. hooks' = Append(hooks, h)
    BY <1>3 DEF Clear
  <2>2. h \in AHook /\ h.name = "SessionStart" /\ h.conv = cli'.conv /\ h.turn = cli'.turn
    BY <1>0, <1>1 DEF AHook, HookNames, ACli
  <2>3. StateOf("SessionStart") = "idle" /\ "idle" \in Truthful["prompt"]
    BY <1>3, StatesSaid, Truths DEF HookNames
  <2> HIDE DEF h
  <2>4. cli'.turn >= cli.turn
    BY <1>0, <1>1 DEF ACli
  <2> QED BY <1>0, <1>1, <2>1, <2>2, <2>3, <2>4, FiresAnew DEF HooksInv, HooksTypeOK, ACli
<1> QED BY <1>0, <1>2, <1>3

LEMMA ReadEscapeKeeps ==
  ASSUME HooksInv, ReadEscape
  PROVE  HooksInv'
<1> DEFINE aborts == cli.mode \in {"turn", "answered", "question"}
<1>0. /\ engine \in {"claude", "codex"} /\ cli.mode \in Modes /\ escape /\ escape' = FALSE
      /\ cli \in ACli
      /\ UNCHANGED <<engine, record, locked, excused>>
  BY DEF HooksInv, HooksTypeOK, ACli, ReadEscape
<1>1. aborts => /\ cli'.mode = "prompt" /\ cli'.turn = cli.turn + 1 /\ cli'.conv = cli.conv
                /\ cli'.named = cli.named
                /\ cli' \in ACli
  <2> SUFFICES ASSUME aborts
               PROVE  /\ cli'.mode = "prompt" /\ cli'.turn = cli.turn + 1 /\ cli'.conv = cli.conv
                      /\ cli'.named = cli.named /\ cli' \in ACli
    OBVIOUS
  <2> DEFINE c == [cli EXCEPT !.mode = "prompt", !.waits = FALSE]
  <2>1. c \in ACli /\ c.mode = "prompt" /\ c.turn = cli.turn /\ c.conv = cli.conv /\ c.named = cli.named
    BY <1>0 DEF ACli, Modes
  <2>2. cli' = [c EXCEPT !.turn = @ + 1]
    BY <1>0 DEF ReadEscape, ACli
  <2> HIDE DEF c
  <2> QED BY <2>1, <2>2 DEF ACli
<1>2. ~aborts => UNCHANGED <<cli, hooks>>
  BY DEF ReadEscape
<1>3. CASE aborts /\ engine = "codex"
  <2> DEFINE h == [name |-> "Interrupt", conv |-> cli.conv, turn |-> cli.turn + 1, late |-> FALSE]
  <2>1. hooks' = Append(hooks, h)
    BY <1>3 DEF ReadEscape
  <2>2. h \in AHook /\ h.name = "Interrupt" /\ h.turn = cli'.turn
    BY <1>0, <1>1, <1>3 DEF AHook, HookNames, ACli
  <2>3. StateOf("Interrupt") = "idle" /\ "idle" \in Truthful["prompt"]
    BY <1>3, StatesSaid, Truths DEF HookNames
  <2> HIDE DEF h
  <2>4. cli'.turn >= cli.turn
    BY <1>0, <1>1, <1>3 DEF ACli
  <2> QED BY <1>0, <1>1, <1>3, <2>1, <2>2, <2>3, <2>4, FiresAnew
<1>4. CASE ~(aborts /\ engine = "codex")
  <2>1. UNCHANGED hooks
    BY <1>4 DEF ReadEscape
  <2>2. /\ Truthful' = Truthful /\ StatePending' = StatePending /\ ConvPending' = ConvPending
    BY <1>0, <2>1, TruthStays, PendingStays
  <2>3. /\ cli' \in ACli
        /\ cli'.conv = cli.conv /\ cli'.named = cli.named
        /\ cli'.turn = cli.turn => cli'.mode = cli.mode
        /\ cli'.turn # cli.turn => cli'.turn = cli.turn + 1
        /\ cli'.turn \in Nat /\ cli'.turn >= cli.turn
    BY <1>0, <1>1, <1>2 DEF ACli
  <2>4. HooksTypeOK' /\ EndedIsOver'
    BY <1>0, <1>1, <1>2, <2>1, <2>3 DEF HooksInv, HooksTypeOK, ACli, EndedIsOver
  <2>5. HooksKnown'
    <3>0. \A i \in DOMAIN hooks : hooks[i] \in AHook
      BY DEF HooksInv, HooksTypeOK, ACli
    <3>1. \A i \in DOMAIN hooks : hooks[i].turn \in Nat
      BY <3>0 DEF AHook
    <3>2. (cli.mode = "off" => cli'.mode = "off") /\ cli.turn \in Nat
      BY <1>0, <1>2 DEF ACli
    <3> QED BY <1>0, <2>1, <2>3, <3>1, <3>2 DEF HooksInv, HooksKnown
  <2>6. StateTold'
    <3> SUFFICES ASSUME ~StatePending, "state" \notin excused
                 PROVE  /\ record.state = "none" => "starting" \in Truthful[cli'.mode]
                        /\ record.state # "none" /\ ~locked => record.state \in Truthful[cli'.mode]
                        /\ locked => "idle" \in Truthful[cli'.mode] /\ ~(cli'.mode = "off" /\ engine = "claude")
      BY <1>0, <2>2 DEF StateTold
    <3>1. record.state # "none" /\ ~(cli.mode = "off" /\ engine = "claude")
      BY <1>0 DEF HooksInv, StateTold
    <3>2. ~locked => record.state = "idle"
      BY <1>0, <3>1 DEF HooksInv, StateTold
    <3>3. "idle" \in Truthful[cli'.mode]
      BY <1>0, <1>1, <1>2, <3>1, Truths DEF Modes
    <3>4. ~(cli'.mode = "off" /\ engine = "claude")
      BY <1>1, <1>2, <3>1
    <3> QED BY <3>1, <3>2, <3>3, <3>4
  <2>7. ConvTold'
    BY <1>0, <2>2, <2>3 DEF HooksInv, ConvTold
  <2> QED BY <1>0, <2>1, <2>3, <2>4, <2>5, <2>6, <2>7, QuietKeeps
<1> QED BY <1>3, <1>4

(* Interrupts, an operator's Escape, the record's first save.              *)
LEMMA TxKeeps ==
  ASSUME HooksInv, EscapeByHand \/ SaveNew \/ Interrupt \/ InterruptSaves
  PROVE  HooksInv'
<1>0. /\ UNCHANGED <<engine, cli, hooks>> /\ engine \in {"claude", "codex"} /\ cli.mode \in Modes
  BY DEF HooksInv, HooksTypeOK, ACli, EscapeByHand, SaveNew, Interrupt, InterruptSaves
<1>1. /\ Truthful' = Truthful /\ StatePending' = StatePending /\ ConvPending' = ConvPending
  BY <1>0, TruthStays, PendingStays
<1>2. HooksKnown'
  BY <1>0 DEF HooksInv, HooksKnown
<1>3. HooksTypeOK' /\ EndedIsOver' /\ StateTold' /\ ConvTold'
  <2>1. CASE EscapeByHand
    BY <1>0, <1>1, <2>1 DEF EscapeByHand, HooksInv, HooksTypeOK, ACli, EndedIsOver, StateTold, ConvTold
  <2>2. CASE SaveNew
    <3>1. /\ record'.state = "starting" /\ record.state = "none" /\ LaunchData \in Nat
          /\ record' = [state |-> "starting", conv |-> LaunchData]
          /\ UNCHANGED <<escape, locked, excused>>
      BY <2>2 DEF SaveNew, LaunchData
    <3>4. record' \in [state : {"none", "starting", "idle", "working", "ended"}, conv : Nat]
      BY <3>1
    <3>2. HooksTypeOK' /\ EndedIsOver'
      <4>1. ~locked
        BY <3>1 DEF HooksInv, EndedIsOver
      <4>2. HooksTypeOK'
        BY <1>0, <3>1, <3>4 DEF HooksInv, HooksTypeOK, ACli
      <4> QED BY <1>0, <3>1, <4>1, <4>2 DEF EndedIsOver
    <3>3. StateTold' /\ ConvTold'
      BY <1>0, <1>1, <3>1 DEF HooksInv, StateTold, ConvTold, EndedIsOver
    <3> QED BY <3>2, <3>3
  <2>3. CASE Interrupt
    BY <1>0, <1>1, <2>3 DEF Interrupt, HooksInv, HooksTypeOK, ACli, EndedIsOver, StateTold, ConvTold
  <2>4. CASE InterruptSaves
    <3>1. /\ record'.state = "idle" /\ record'.conv = record.conv /\ locked /\ ~locked'
          /\ record' = [record EXCEPT !.state = "idle"]
          /\ locked' = FALSE /\ UNCHANGED <<escape, excused>>
      BY <2>4 DEF InterruptSaves, HooksInv, HooksTypeOK, ACli
    <3>4. record' \in [state : {"none", "starting", "idle", "working", "ended"}, conv : Nat]
      BY <3>1 DEF HooksInv, HooksTypeOK
    <3>2. HooksTypeOK' /\ EndedIsOver'
      <4>1. HooksTypeOK'
        BY <1>0, <3>1, <3>4 DEF HooksInv, HooksTypeOK
      <4> QED BY <1>0, <3>1, <4>1 DEF EndedIsOver
    <3>3. StateTold' /\ ConvTold'
      BY <1>0, <1>1, <3>1 DEF HooksInv, HooksTypeOK, ACli, StateTold, ConvTold, EndedIsOver
    <3> QED BY <3>2, <3>3
  <2> QED BY <2>1, <2>2, <2>3, <2>4
<1> QED BY <1>0, <1>1, <1>2, <1>3, QuietKeeps DEF HooksInv, HooksTypeOK, ACli

-----------------------------------------------------------------------------
(* A hook that is through                                                  *)

LEMMA ThroughKnown ==
  ASSUME HooksInv, NEW i \in DOMAIN hooks, hooks' = Overtaken(i), UNCHANGED engine,
         cli'.mode = cli.mode, cli'.conv = cli.conv, cli'.named = cli.named, cli'.turn = cli.turn
  PROVE  HooksKnown' /\ LastTells'
<1>1. /\ DOMAIN hooks' = 1 .. Len(hooks) - 1 /\ Len(hooks') = Len(hooks) - 1
      /\ DOMAIN hooks = 1 .. Len(hooks) /\ Len(hooks) \in Nat
      /\ \A j \in DOMAIN hooks : hooks[j] \in AHook
      /\ \A j \in DOMAIN hooks' : j < i =>
           hooks'[j].late /\ hooks'[j].name = hooks[j].name /\ hooks'[j].turn = hooks[j].turn
      /\ \A j \in DOMAIN hooks' : j >= i => hooks'[j] = hooks[j + 1]
  BY Through DEF HooksInv
<1>2. HooksKnown'
  <2>1. \A j \in DOMAIN hooks' : \E k \in DOMAIN hooks :
          /\ hooks'[j].turn = hooks[k].turn /\ hooks'[j].name = hooks[k].name
          /\ k = Len(hooks) => j = Len(hooks) - 1 \/ j < i
          /\ j < i => k = j
    <3> SUFFICES ASSUME NEW j \in DOMAIN hooks'
                 PROVE  \E k \in DOMAIN hooks :
                          /\ hooks'[j].turn = hooks[k].turn /\ hooks'[j].name = hooks[k].name
                          /\ k = Len(hooks) => j = Len(hooks) - 1 \/ j < i
                          /\ j < i => k = j
      OBVIOUS
    <3>1. CASE j < i
      BY <1>1, <3>1
    <3>2. CASE j >= i
      <4>1. j + 1 \in DOMAIN hooks /\ ~(j < i) /\ (j + 1 = Len(hooks) => j = Len(hooks) - 1)
        BY <1>1, <3>2
      <4> QED BY <1>1, <3>2, <4>1
    <3> QED BY <1>1, <3>1, <3>2
  <2>2. ASSUME NEW j \in DOMAIN hooks', engine = "claude", hooks'[j].name = "SessionEnd"
        PROVE  j = Len(hooks') /\ cli'.mode = "off"
    BY <1>1, <2>1, <2>2 DEF HooksInv, HooksKnown
  <2> QED BY <2>1, <2>2 DEF HooksInv, HooksKnown
<1>3. ASSUME NEW j \in DOMAIN hooks', LastState(j)'
      PROVE  hooks'[j].late \/ hooks'[j].turn # cli'.turn \/ StateOf(hooks[j].name)' \in Truthful'[cli'.mode]
  <2>1. CASE hooks'[j].late
    BY <2>1
  <2>2. CASE ~hooks'[j].late
    <3>1. j >= i /\ LastState(j + 1) /\ j + 1 \in DOMAIN hooks
      BY <1>1, <1>3, <2>2, PendingThrough DEF HooksInv
    <3>2. hooks'[j] = hooks[j + 1] /\ Truthful' = Truthful
      BY <1>1, <3>1, TruthStays
    <3>3. StateOf(hooks[j].name)' = StateOf(hooks[j + 1].name)
      BY <3>2 DEF StateOf
    <3> QED BY <3>1, <3>2, <3>3 DEF HooksInv, LastTells
  <2> QED BY <2>1, <2>2
<1>4. ASSUME NEW j \in DOMAIN hooks', LastConv(j)'
      PROVE  hooks'[j].late \/ ~cli'.named \/ hooks'[j].conv = cli'.conv
  <2>1. CASE hooks'[j].late
    BY <2>1
  <2>2. CASE ~hooks'[j].late
    <3>1. j >= i /\ LastConv(j + 1) /\ j + 1 \in DOMAIN hooks
      BY <1>1, <1>4, <2>2, PendingThrough DEF HooksInv
    <3> QED BY <1>1, <3>1 DEF HooksInv, LastTells
  <2> QED BY <2>1, <2>2
<1> QED BY <1>2, <1>3, <1>4 DEF LastTells

LEMMA SlowKeeps ==
  ASSUME HooksInv, Slow
  PROVE  HooksInv'
<1>0. /\ cli'.mode = cli.mode /\ cli'.conv = cli.conv /\ cli'.named = cli.named /\ cli'.turn = cli.turn
      /\ cli' \in ACli /\ UNCHANGED <<engine, escape, record, locked>>
  BY DEF HooksInv, HooksTypeOK, ACli, Slow
<1>1. CASE UNCHANGED <<hooks, excused>>
  <2>1. /\ Truthful' = Truthful /\ StatePending' = StatePending /\ ConvPending' = ConvPending
    BY <1>0, <1>1, TruthStays, PendingStays
  <2>2. HooksTypeOK' /\ EndedIsOver' /\ HooksKnown'
    BY <1>0, <1>1 DEF HooksInv, HooksTypeOK, EndedIsOver, HooksKnown
  <2>3. StateTold' /\ ConvTold'
    BY <1>0, <1>1, <2>1 DEF HooksInv, StateTold, ConvTold
  <2> QED BY <1>0, <1>1, <2>2, <2>3, QuietKeeps
<1>2. CASE hooks' = Overtaken(Len(hooks)) /\ excused' = {"state", "conv"}
  <2>1. StateTold' /\ ConvTold'
    BY <1>2 DEF StateTold, ConvTold
  <2>2. CASE hooks = <<>>
    <3>1. DOMAIN hooks' = {} /\ hooks' \in Seq(AHook)
      <4>1. hooks' = [j \in {} |-> hooks'[j]]
        BY <1>2, <2>2 DEF Overtaken
      <4> QED BY <4>1
    <3> QED BY <1>0, <1>2, <2>1, <3>1 DEF HooksInv, HooksTypeOK, EndedIsOver, HooksKnown, LastTells
  <2>3. CASE hooks # <<>>
    <3>1. Len(hooks) \in DOMAIN hooks
      BY <2>3 DEF HooksInv, HooksTypeOK
    <3>2. HooksKnown' /\ LastTells'
      BY <1>0, <1>2, <3>1, ThroughKnown
    <3>3. hooks' \in Seq(AHook) /\ \A j \in DOMAIN hooks' : hooks'[j].late
      BY <1>2, <3>1, Through DEF HooksInv
    <3>4. HooksTypeOK' /\ EndedIsOver'
      BY <1>0, <1>2, <3>3 DEF HooksInv, HooksTypeOK, EndedIsOver
    <3> QED BY <2>1, <3>2, <3>4 DEF HooksInv
  <2> QED BY <2>2, <2>3
<1> QED BY <1>1, <1>2 DEF Slow

LEMMA HookKeeps ==
  ASSUME HooksInv, NEW i \in DOMAIN hooks, HookRuns(i)
  PROVE  HooksInv'
<1> DEFINE h == hooks[i]
           says == IF StateOf(h.name) # "same" THEN {"state"} ELSE {}
           names == IF h.name = "SessionStart" THEN {"conv"} ELSE {}
           lost == record.state = "none" \/ i > 1 \/ h.late
<1>0. /\ cli'.mode = cli.mode /\ cli'.conv = cli.conv /\ cli'.named = cli.named /\ cli'.turn = cli.turn
      /\ cli' \in ACli /\ UNCHANGED <<engine, escape, locked>> /\ hooks' = Overtaken(i) /\ ~locked
  <2>1. PICK b \in BOOLEAN : cli' = [cli EXCEPT !.waits = b]
    BY DEF HookRuns
  <2> QED BY <2>1 DEF HooksInv, HooksTypeOK, ACli, HookRuns
<1>1. h \in AHook /\ i \in Nat /\ i >= 1
  BY DEF HooksInv, HooksTypeOK
<1>2. /\ "state" \notin excused' => /\ StateOf(h.name) # "same" => ~lost
                                    /\ ~lost => h.turn = cli.turn /\ ~escape
                                    /\ StateOf(h.name) = "same" => "state" \notin excused
      /\ "conv" \notin excused' => /\ h.name = "SessionStart" => ~lost
                                   /\ h.name # "SessionStart" => "conv" \notin excused
      /\ excused' \subseteq {"state", "conv"}
  BY DEF HookRuns, Excuses, HooksInv, HooksTypeOK
<1>3. /\ Truthful' = Truthful
      /\ ~StatePending' => \A k \in DOMAIN hooks : k # i => ~SaysState(k)
      /\ ~ConvPending' => \A k \in DOMAIN hooks : k # i => ~SaysConv(k)
  BY <1>0, TruthStays, PendingThrough DEF HooksInv
<1>4. HooksKnown' /\ LastTells'
  BY <1>0, ThroughKnown
<1>5. hooks' \in Seq(AHook)
  BY <1>0, Through DEF HooksInv
<1>6. /\ record.state \in {"none", "ended"} => record' = record
      /\ record.state \notin {"none", "ended"} =>
           /\ record'.state = IF StateOf(h.name) = "same" THEN record.state ELSE StateOf(h.name)
           /\ record'.conv = IF h.name = "SessionStart" THEN h.conv ELSE record.conv
      /\ record' \in [state : {"none", "starting", "idle", "working", "ended"}, conv : Nat]
  <2>1. StateOf(h.name) \in {"idle", "working", "ended", "same"} /\ h.conv \in Nat
    BY <1>1, StatesSaid DEF AHook, HooksInv, HooksTypeOK
  <2> QED BY <2>1 DEF HookRuns, StartedConversation, HooksInv, HooksTypeOK
<1>7. record'.state = "none" => record.state = "none"
  BY <1>1, <1>6, StatesSaid DEF AHook, HooksInv, HooksTypeOK
<1>8. record.state = "ended" => lost
  BY DEF HooksInv, EndedIsOver
<1>9. HooksTypeOK'
  BY <1>0, <1>2, <1>5, <1>6 DEF HooksInv, HooksTypeOK
<1>10. EndedIsOver'
  <2>1. ASSUME record'.state = "ended"
        PROVE  engine = "claude" /\ cli.mode = "off" /\ \A j \in DOMAIN hooks' : hooks'[j].late
    <3>1. /\ DOMAIN hooks' = 1 .. Len(hooks) - 1 /\ DOMAIN hooks = 1 .. Len(hooks) /\ Len(hooks) \in Nat
          /\ \A j \in DOMAIN hooks' : j < i => hooks'[j].late
          /\ \A j \in DOMAIN hooks' : j >= i => hooks'[j] = hooks[j + 1]
      BY <1>0, Through DEF HooksInv
    <3>2. CASE record.state = "ended"
      <4>1. \A j \in DOMAIN hooks' : j >= i => j + 1 \in DOMAIN hooks
        BY <3>1
      <4> QED BY <3>1, <3>2, <4>1 DEF HooksInv, EndedIsOver
    <3>3. CASE record.state # "ended"
      <4>1. StateOf(h.name) = "ended"
        BY <1>6, <2>1, <3>3
      <4>2. engine = "claude" /\ h.name = "SessionEnd"
        BY <1>1, <4>1, StatesSaid DEF AHook, HooksInv, HooksTypeOK
      <4>3. i = Len(hooks) /\ cli.mode = "off"
        BY <4>2 DEF HooksInv, HooksKnown
      <4> QED BY <3>1, <4>2, <4>3
    <3> QED BY <3>2, <3>3
  <2> QED BY <1>0, <2>1 DEF EndedIsOver
<1>11. StateTold'
  <2> SUFFICES ASSUME ~StatePending', "state" \notin excused'
               PROVE  /\ record'.state = "none" => ~escape /\ "starting" \in Truthful[cli.mode]
                      /\ record'.state # "none" /\ ~escape => record'.state \in Truthful[cli.mode]
                      /\ record'.state # "none" /\ escape => record'.state = "idle"
                      /\ escape => ~(cli.mode = "off" /\ engine = "claude")
    BY <1>0, <1>3 DEF StateTold
  <2>1. CASE StateOf(h.name) = "same"
    <3>1. ~StatePending /\ "state" \notin excused
      BY <1>2, <1>3, <2>1 DEF StatePending, SaysState
    <3>2. record'.state = record.state
      BY <1>6, <2>1 DEF HooksInv, HooksTypeOK
    <3> QED BY <1>0, <3>1, <3>2 DEF HooksInv, StateTold
  <2>2. CASE StateOf(h.name) # "same"
    <3>1. ~lost /\ h.turn = cli.turn /\ ~escape
      BY <1>2, <2>2
    <3>2. record'.state = StateOf(h.name) /\ record.state # "none"
      BY <1>6, <1>8, <2>2, <3>1
    <3>3. LastState(i)
      BY <1>1, <1>3, <2>2 DEF LastState, SaysState
    <3>4. StateOf(h.name) \in Truthful[cli.mode]
      BY <3>1, <3>3 DEF HooksInv, LastTells
    <3> QED BY <1>7, <3>1, <3>2, <3>4
  <2> QED BY <2>1, <2>2
<1>12. ConvTold'
  <2> SUFFICES ASSUME ~ConvPending', "conv" \notin excused', cli.named
               PROVE  record'.state # "none" /\ record'.conv = cli.conv
    BY <1>0 DEF ConvTold
  <2>1. CASE h.name # "SessionStart"
    <3>1. ~ConvPending /\ "conv" \notin excused
      BY <1>2, <1>3, <2>1 DEF ConvPending, SaysConv
    <3>2. record'.conv = record.conv
      BY <1>6, <2>1 DEF HooksInv, HooksTypeOK
    <3> QED BY <1>7, <3>1, <3>2 DEF HooksInv, ConvTold
  <2>2. CASE h.name = "SessionStart"
    <3>1. ~lost
      BY <1>2, <2>2
    <3>2. record'.conv = h.conv /\ record.state # "none"
      BY <1>6, <1>8, <2>2, <3>1
    <3>3. LastConv(i)
      BY <1>1, <1>3, <2>2 DEF LastConv, SaysConv
    <3>4. h.conv = cli.conv
      BY <3>1, <3>3 DEF HooksInv, LastTells
    <3> QED BY <1>7, <3>2, <3>4
  <2> QED BY <2>1, <2>2
<1> QED BY <1>4, <1>9, <1>10, <1>11, <1>12 DEF HooksInv

-----------------------------------------------------------------------------
(* What the last hook to tell will leave is true unless there is an excuse *)
(* for it, and what is left once none is pending: the inductive invariant  *)
(* of the hooks (core.rs hook, both on_hook).                              *)
THEOREM HooksInvariance == HooksSpec => []HooksInv
<1>1. HooksInit => HooksInv
  <2> SUFFICES ASSUME HooksInit PROVE HooksInv
    OBVIOUS
  <2>1. /\ engine \in {"claude", "codex"} /\ escape = FALSE /\ hooks = <<>> /\ locked = FALSE /\ excused = {}
        /\ cli = [mode |-> "booting", conv |-> 1, named |-> FALSE, turn |-> 0, waits |-> FALSE]
        /\ record = [state |-> "none", conv |-> 0]
    BY DEF HooksInit
  <2>2. HooksTypeOK
    <3>1. cli \in ACli
      BY <2>1 DEF ACli, Modes
    <3>2. record \in [state : {"none", "starting", "idle", "working", "ended"}, conv : Nat]
      BY <2>1
    <3>3. hooks \in Seq(AHook)
      <4>1. hooks = <<>>
        BY <2>1
      <4> QED BY <4>1
    <3>4. engine \in {"claude", "codex"} /\ escape \in BOOLEAN /\ locked \in BOOLEAN /\ excused = {}
      BY <2>1
    <3> QED BY <3>1, <3>2, <3>3, <3>4 DEF HooksTypeOK
  <2>3. DOMAIN hooks = {}
    BY <2>1
  <2>4. "starting" \in Truthful[cli.mode]
    BY <2>1, Truths
  <2> QED BY <2>1, <2>2, <2>3, <2>4 DEF HooksInv, HooksKnown, LastTells, StateTold, ConvTold, EndedIsOver
<1>2. HooksInv /\ [HooksNext]_hookVars => HooksInv'
  <2> SUFFICES ASSUME HooksInv, [HooksNext]_hookVars PROVE HooksInv'
    OBVIOUS
  <2>1. CASE HooksNext
    BY <2>1, CliKeeps, ClearKeeps, ReadEscapeKeeps, SlowKeeps, TxKeeps, HookKeeps DEF HooksNext
  <2>2. CASE UNCHANGED hookVars
    <3>1. UNCHANGED <<engine, cli, escape, hooks, record, locked, excused>>
      BY <2>2 DEF hookVars
    <3>2. /\ Truthful' = Truthful /\ StatePending' = StatePending /\ ConvPending' = ConvPending
      BY <3>1, TruthStays, PendingStays
    <3>3. HooksTypeOK' /\ EndedIsOver' /\ HooksKnown' /\ StateTold' /\ ConvTold'
      BY <3>1, <3>2 DEF HooksInv, HooksTypeOK, EndedIsOver, HooksKnown, StateTold, ConvTold
    <3> QED BY <3>1, <3>3, QuietKeeps
  <2> QED BY <2>1, <2>2
<1> QED BY <1>1, <1>2, PTL DEF HooksSpec

(* Once the hooks are through and no Escape is on its way, the record says *)
(* what the CLI is doing and names its conversation, unless the history    *)
(* excuses it, for any number of hooks, turns and conversations (core.rs   *)
(* hook, interrupt_agent; both on_hook).                                   *)
THEOREM RecordsFollow == HooksSpec => []RecordFollows
<1>1. HooksInv => RecordFollows
  <2> SUFFICES ASSUME HooksInv, record.state # "none", hooks = <<>>, ~escape, ~locked
               PROVE  /\ "state" \in excused \/ record.state \in Truthful[cli.mode]
                      /\ ("conv" \in excused \/ ~cli.named) \/ record.conv = cli.conv
    BY DEF RecordFollows
  <2>1. DOMAIN hooks = {}
    OBVIOUS
  <2> QED BY <2>1 DEF HooksInv, StatePending, ConvPending, StateTold, ConvTold
<1> QED BY <1>1, HooksInvariance, PTL

----------------------------------------------------------------------------
(* The assistant (Assistant)                                               *)

CallPlaces ==
  {"idle", "take", "delete", "lock", "home", "commit", "running", "respawn", "create", "record",
   "wait", "send"}
UnderLock == {"home", "commit", "running", "respawn", "create"}

AssistantCall ==
  [at : CallPlaces, asks : BOOLEAN, line : Lines \cup {Blank}, id : AssistantIds \cup {NoOne},
   left : SUBSET AssistantIds, worked : BOOLEAN]
HelperRecord ==
  [state : {"none", "starting", "working", "ended"}, age : Nat, lives : BOOLEAN, named : BOOLEAN]

AssistantTypeOK ==
  /\ repo \in {"absent", "directory", "initialised", "committed"}
  /\ helper \in [AssistantIds -> HelperRecord] /\ ages \in Nat
  /\ call \in [Warmers -> AssistantCall]
  /\ \A p \in Warmers : CallAt(p, "respawn") => call[p].id \in AssistantIds
  /\ warmLock \in Warmers \cup {NoOne} /\ unrecorded \in SUBSET Warmers
  /\ parked \in Lines \cup {Blank} /\ delivered \in Seq(Lines)
  /\ failure \in BOOLEAN /\ lastWarm \in BOOLEAN /\ crossed \in BOOLEAN /\ hurried \in BOOLEAN
  /\ faulty \in BOOLEAN /\ byHand \in BOOLEAN

(* A warm past the lock holds it, and has seen the home made.              *)
HoldsWarmLock(p) == call[p].at \in UnderLock => warmLock = p
HomeMade ==
  /\ \A p \in Warmers : call[p].at \in {"running", "respawn", "create"} => repo \in {"initialised", "committed"}
  /\ repo = "initialised" => faulty \/ \E p \in Warmers : CallAt(p, "commit")

(* Whoever runs while a warm looks is one it still has to refresh; from    *)
(* then on nobody runs, and the one to respawn is ended.                   *)
KnowsRunning(p) ==
  /\ CallAt(p, "running") => \A a \in AssistantIds : Running(a) => a \in call[p].left
  /\ CallAt(p, "respawn") \/ CallAt(p, "create") => \A a \in AssistantIds : ~Running(a)
  /\ CallAt(p, "respawn") => call[p].id \in Ended
OneAssistant ==
  /\ \A a \in AssistantIds : helper[a].lives => Running(a)
  /\ ~byHand => \A p \in Warmers : KnowsRunning(p)
  /\ ~byHand => \A a, b \in AssistantIds : helper[a].lives /\ helper[b].lives => a = b
  /\ ~lastWarm => faulty \/ byHand

(* The outcomes that are still to be recorded.                             *)
Outcomes ==
  /\ \A p \in Warmers : p \in unrecorded <=> CallAt(p, "record")
  /\ ~crossed => \A p, q \in unrecorded : p = q
  /\ ~crossed => \A p \in unrecorded : call[p].worked = lastWarm
  /\ ~crossed /\ unrecorded = {} => failure = ~lastWarm

(* A line is in the buffer, in one call's hand, or delivered.              *)
Asks(p) ==
  /\ call[p].at \in {"take", "delete", "wait", "send"} => call[p].asks
  /\ call[p].asks /\ call[p].at # "take" => call[p].line # Blank
  /\ call[p].at = "take" => call[p].line = Blank
  /\ call[p].at = "idle" => ~call[p].asks
OneHand ==
  ~hurried =>
    /\ \A i, j \in 1..Len(delivered) : delivered[i] = delivered[j] => i = j
    /\ \A i \in 1..Len(delivered) : delivered[i] # parked
    /\ \A p \in Warmers, i \in 1..Len(delivered) : delivered[i] # call[p].line
    /\ \A p, q \in Warmers : call[p].line # Blank /\ call[p].line = call[q].line => p = q
    /\ \A p \in Warmers : call[p].line # Blank /\ call[p].line = parked => CallAt(p, "delete")
    /\ \A p, q \in Warmers :
         call[p].at \in {"take", "delete"} /\ call[q].at \in {"take", "delete"} => p = q

AssistantInv ==
  /\ AssistantTypeOK
  /\ \A p \in Warmers : HoldsWarmLock(p)
  /\ HomeMade
  /\ OneAssistant
  /\ Outcomes
  /\ \A p \in Warmers : Asks(p)
  /\ OneHand


LEMMA CallSet ==
  ASSUME AssistantTypeOK, NEW p \in Warmers, NEW c \in AssistantCall, call' = [call EXCEPT ![p] = c]
  PROVE  /\ call' \in [Warmers -> AssistantCall] /\ call'[p] = c
         /\ \A q \in Warmers : q # p => call'[q] = call[q]
BY DEF AssistantTypeOK

(* p's call goes from one place to another, the others stay where they are. *)
Walks(p, from, to) ==
  /\ call' \in [Warmers -> AssistantCall]
  /\ call[p].at = from /\ call'[p].at = to
  /\ \A q \in Warmers : q # p => call'[q] = call[q]
SameLine(p) == call'[p].asks = call[p].asks /\ call'[p].line = call[p].line

LEMMA Goes ==
  ASSUME AssistantTypeOK, NEW p \in Warmers, NEW from \in CallPlaces, NEW place \in CallPlaces,
         CallAt(p, from), CallTo(p, place)
  PROVE  Walks(p, from, place) /\ SameLine(p)
BY DEF AssistantTypeOK, CallTo, CallAt, AssistantCall, Walks, SameLine

LEMMA Over ==
  ASSUME AssistantTypeOK, NEW p \in Warmers, NEW from \in CallPlaces, CallAt(p, from),
         call' = [call EXCEPT ![p] = NoCall]
  PROVE  Walks(p, from, "idle") /\ call'[p].asks = FALSE /\ call'[p].line = Blank
BY DEF AssistantTypeOK, AssistantCall, NoCall, CallAt, CallPlaces, Walks

LEMMA Beginnings ==
  /\ [NoCall EXCEPT !.at = "lock"] \in AssistantCall
  /\ [NoCall EXCEPT !.at = "lock"].at = "lock" /\ [NoCall EXCEPT !.at = "lock"].line = Blank
  /\ [NoCall EXCEPT !.at = "lock"].asks = FALSE
  /\ [NoCall EXCEPT !.at = "take", !.asks = TRUE] \in AssistantCall
  /\ [NoCall EXCEPT !.at = "take", !.asks = TRUE].at = "take"
  /\ [NoCall EXCEPT !.at = "take", !.asks = TRUE].line = Blank
  /\ [NoCall EXCEPT !.at = "take", !.asks = TRUE].asks = TRUE
BY DEF AssistantCall, NoCall, CallPlaces

LEMMA Leaving ==
  ASSUME AssistantTypeOK, NEW p \in Warmers, NEW from \in CallPlaces, CallAt(p, from),
         NEW t \in BOOLEAN, NEW a \in AssistantIds \cup {NoOne}, Leaves(p, t, a)
  PROVE  /\ Walks(p, from, "record") /\ SameLine(p) /\ call'[p].worked = t
         /\ warmLock' = IF warmLock = p THEN NoOne ELSE warmLock
         /\ lastWarm' = t /\ unrecorded' = unrecorded \cup {p}
         /\ crossed' = (unrecorded # {}) /\ crossed' \in BOOLEAN
<1>1. /\ call' \in [Warmers -> AssistantCall]
      /\ call'[p].at = "record" /\ call'[p].asks = call[p].asks /\ call'[p].line = call[p].line
      /\ call'[p].worked = t
      /\ \A q \in Warmers : q # p => call'[q] = call[q]
  <2>1. PICK c : c = [call[p] EXCEPT !.at = "record", !.worked = t, !.id = a]
    OBVIOUS
  <2>2. call[p] \in AssistantCall
    BY DEF AssistantTypeOK
  <2>3. /\ c \in AssistantCall
        /\ c.at = "record" /\ c.asks = call[p].asks /\ c.line = call[p].line /\ c.worked = t
    BY <2>1, <2>2 DEF AssistantCall, CallPlaces
  <2>4. call' = [call EXCEPT ![p] = c]
    BY <2>1 DEF Leaves
  <2> QED
    BY <2>3, <2>4, CallSet
<1>2. /\ warmLock' = IF warmLock = p THEN NoOne ELSE warmLock
      /\ lastWarm' = t /\ unrecorded' = unrecorded \cup {p}
      /\ crossed' = (unrecorded # {}) /\ crossed' \in BOOLEAN
  BY DEF Leaves
<1> QED
  BY <1>1, <1>2 DEF Walks, SameLine, CallAt

LEMMA HelperChanges ==
  ASSUME AssistantTypeOK, NEW a \in AssistantIds, NEW state \in {"starting", "ended"}, NEW t \in BOOLEAN,
         Changes(a, state, t)
  PROVE  /\ helper' \in [AssistantIds -> HelperRecord] /\ ages' \in Nat
         /\ helper'[a].state = state /\ helper'[a].lives = t /\ helper'[a].named = helper[a].named
         /\ \A b \in AssistantIds : b # a => helper'[b] = helper[b]
<1> DEFINE h == [helper[a] EXCEPT !.state = state, !.age = ages + 1, !.lives = t]
<1>1. helper[a] \in HelperRecord /\ ages + 1 \in Nat
  BY DEF AssistantTypeOK
<1>3. h \in HelperRecord
  BY <1>1, ZenonT(60) DEF HelperRecord
<1>4. h.state = state /\ h.lives = t /\ h.named = helper[a].named
  BY <1>1 DEF HelperRecord
<1>5. helper' = [helper EXCEPT ![a] = h] /\ ages' = ages + 1
  BY DEF Changes
<1> HIDE DEF h
<1> QED
  BY <1>3, <1>4, <1>5 DEF AssistantTypeOK

(* What the warm's last steps do, each by its outcome.                     *)
LEMMA Refreshes ==
  ASSUME AssistantTypeOK, NEW p \in Warmers, RefreshNext(p)
  PROVE  \E a \in AssistantIds \cap call[p].left :
           \/ Running(a) /\ helper[a].lives /\ Leaves(p, TRUE, a) /\ UNCHANGED theRecords
           \/ /\ Running(a) /\ ~helper[a].lives /\ Changes(a, "ended", FALSE)
              /\ call' = [call EXCEPT ![p].left = @ \ {a}]
              /\ UNCHANGED <<warmLock, lastWarm, unrecorded, crossed>>
           \/ /\ ~Running(a) /\ UNCHANGED theRecords
              /\ call' = [call EXCEPT ![p].left = @ \ {a}]
              /\ UNCHANGED <<warmLock, lastWarm, unrecorded, crossed>>
<1>1. PICK a \in call[p].left :
       IF Running(a) /\ helper[a].lives
         THEN Leaves(p, TRUE, a) /\ UNCHANGED theRecords
         ELSE /\ (IF Running(a) THEN Changes(a, "ended", FALSE) ELSE UNCHANGED theRecords)
              /\ call' = [call EXCEPT ![p].left = @ \ {a}]
              /\ UNCHANGED <<warmLock, lastWarm, unrecorded, crossed>>
  BY DEF RefreshNext
<1>2. a \in AssistantIds
  BY DEF AssistantTypeOK, AssistantCall
<1> QED
  BY <1>1, <1>2

LEMMA Respawns ==
  ASSUME AssistantTypeOK, NEW p \in Warmers, Respawn(p)
  PROVE  \E a \in AssistantIds :
           /\ a = call[p].id
           /\ \/ /\ helper[a].state = "ended" /\ NameFree(a)
                 /\ Changes(a, "starting", TRUE) /\ Leaves(p, TRUE, a)
              \/ /\ ~(helper[a].state = "ended" /\ NameFree(a))
                 /\ UNCHANGED theRecords /\ Leaves(p, FALSE, NoOne)
BY DEF AssistantTypeOK, Respawn

LEMMA Creates ==
  ASSUME AssistantTypeOK, NEW p \in Warmers, Create(p)
  PROVE  \E a \in AssistantIds :
           \/ repo = "committed" /\ Changes(a, "starting", TRUE) /\ Leaves(p, TRUE, a)
           \/ repo # "committed" /\ UNCHANGED theRecords /\ Leaves(p, FALSE, NoOne)
BY DEF Create


(* Where each step takes the call of its process.                          *)
LEMMA Begun ==
  ASSUME AssistantTypeOK, NEW p \in Warmers, BeginWarm(p)
  PROVE  Walks(p, "idle", "lock") /\ call'[p].line = Blank /\ call'[p].asks = FALSE
<1>1. call' = [call EXCEPT ![p] = [NoCall EXCEPT !.at = "lock"]] /\ CallAt(p, "idle")
  BY DEF BeginWarm, Begins
<1> QED
  BY <1>1, Beginnings, CallSet DEF Walks, CallAt

LEMMA Typing ==
  ASSUME AssistantTypeOK, NEW line \in Lines, Type(line)
  PROVE  \E p \in Warmers :
           /\ Walks(p, "idle", "take") /\ call'[p].line = Blank /\ call'[p].asks = TRUE
<1>1. PICK p \in Warmers : Begins(p, [NoCall EXCEPT !.at = "take", !.asks = TRUE])
  BY DEF Type
<1>2. call' = [call EXCEPT ![p] = [NoCall EXCEPT !.at = "take", !.asks = TRUE]] /\ CallAt(p, "idle")
  BY <1>1 DEF Begins
<1>3. Walks(p, "idle", "take") /\ call'[p].line = Blank /\ call'[p].asks = TRUE
  BY <1>2, Beginnings, CallSet DEF Walks, CallAt
<1> QED
  BY <1>3

LEMMA Showing ==
  ASSUME AssistantTypeOK, NEW p \in Warmers, ShowBuffer(p)
  PROVE  \/ parked = Blank /\ Walks(p, "take", "idle") /\ call'[p].line = Blank /\ call'[p].asks = FALSE
         \/ /\ parked # Blank /\ Walks(p, "take", "delete")
            /\ call'[p].line = parked /\ call'[p].asks = call[p].asks
<1>1. CASE parked = Blank
  BY <1>1, Over DEF ShowBuffer, CallPlaces
<1>2. CASE parked # Blank
  <2>1. call' = [call EXCEPT ![p] = [@ EXCEPT !.at = "delete", !.line = parked]] /\ CallAt(p, "take")
    BY <1>2 DEF ShowBuffer
  <2>2. /\ call' \in [Warmers -> AssistantCall]
        /\ call'[p].at = "delete" /\ call'[p].line = parked /\ call'[p].asks = call[p].asks
        /\ \A q \in Warmers : q # p => call'[q] = call[q]
    <3>1. PICK c : c = [call[p] EXCEPT !.at = "delete", !.line = parked]
      OBVIOUS
    <3>2. call[p] \in AssistantCall /\ parked \in Lines \cup {Blank}
      BY DEF AssistantTypeOK
    <3>3. /\ c \in AssistantCall
          /\ c.at = "delete" /\ c.line = parked /\ c.asks = call[p].asks
      BY <3>1, <3>2 DEF AssistantCall, CallPlaces
    <3>4. call' = [call EXCEPT ![p] = c]
      BY <2>1, <3>1
    <3> QED
      BY <3>3, <3>4, CallSet
  <2> QED
    BY <1>2, <2>1, <2>2 DEF Walks, CallAt
<1> QED
  BY <1>1, <1>2

LEMMA Making ==
  ASSUME AssistantTypeOK, NEW p \in Warmers, MakeHome(p)
  PROVE  /\ SameLine(p) /\ repo \in {"absent", "directory"}
         /\ \/ repo' = "initialised" /\ Walks(p, "home", "commit")
            \/ repo' = "directory" /\ Walks(p, "home", "home")
<1>1. PICK place \in {"home", "commit"} :
        /\ CallTo(p, place) /\ CallAt(p, "home")
        /\ place = IF repo' = "initialised" THEN "commit" ELSE "home"
  BY DEF MakeHome, CallTo
<1>2. Walks(p, "home", place) /\ SameLine(p)
  BY <1>1, Goes DEF CallPlaces
<1> QED
  BY <1>1, <1>2 DEF MakeHome, Further

LEMMA Listing ==
  ASSUME AssistantTypeOK, NEW p \in Warmers, ListRunning(p)
  PROVE  /\ Walks(p, "home", "running") /\ SameLine(p)
         /\ call'[p].left = {a \in AssistantIds : Running(a)}
<1> DEFINE run == {a \in AssistantIds : Running(a)}
<1>1. call' = [call EXCEPT ![p] = [@ EXCEPT !.at = "running", !.left = run]] /\ CallAt(p, "home")
  BY DEF ListRunning
<1>2. run \in SUBSET AssistantIds
  OBVIOUS
<1> HIDE DEF run
<1>3. PICK c : c = [call[p] EXCEPT !.at = "running", !.left = run]
  OBVIOUS
<1>4. /\ c \in AssistantCall /\ c.at = "running" /\ c.left = run
      /\ c.line = call[p].line /\ c.asks = call[p].asks /\ call' = [call EXCEPT ![p] = c]
  BY <1>1, <1>2, <1>3 DEF AssistantTypeOK, AssistantCall, CallPlaces
<1>5. Walks(p, "home", "running") /\ SameLine(p) /\ call'[p].left = run
  BY <1>1, <1>4, CallSet DEF Walks, CallAt, SameLine
<1> QED
  BY <1>5 DEF run

LEMMA Passing ==
  ASSUME AssistantTypeOK, NEW p \in Warmers, CallAt(p, "running"), NEW a,
         call' = [call EXCEPT ![p].left = @ \ {a}]
  PROVE  Walks(p, "running", "running") /\ SameLine(p) /\ call'[p].left = call[p].left \ {a}
BY DEF AssistantTypeOK, AssistantCall, CallAt, Walks, SameLine

LEMMA Choosing ==
  ASSUME AssistantTypeOK, NEW p \in Warmers, LatestEnded(p)
  PROVE  /\ call[p].left = {} /\ SameLine(p)
         /\ \/ Ended = {} /\ Walks(p, "running", "create")
            \/ Walks(p, "running", "respawn") /\ call'[p].id \in Ended
<1>1. CASE Ended = {} /\ CallTo(p, "create")
  BY <1>1, Goes DEF LatestEnded, CallPlaces
<1>2. CASE \E a \in Ended : call' = [call EXCEPT ![p] = [@ EXCEPT !.at = "respawn", !.id = a]]
  <2>1. PICK a \in Ended : call' = [call EXCEPT ![p] = [@ EXCEPT !.at = "respawn", !.id = a]]
    BY <1>2
  <2>2. a \in AssistantIds /\ CallAt(p, "running")
    BY DEF Ended, LatestEnded
  <2>3. PICK c : c = [call[p] EXCEPT !.at = "respawn", !.id = a]
    OBVIOUS
  <2>4. /\ c \in AssistantCall /\ c.at = "respawn" /\ c.id = a
        /\ c.line = call[p].line /\ c.asks = call[p].asks /\ call' = [call EXCEPT ![p] = c]
    BY <2>1, <2>2, <2>3 DEF AssistantTypeOK, AssistantCall, CallPlaces
  <2>5. Walks(p, "running", "respawn") /\ SameLine(p) /\ call'[p].id = a
    BY <2>2, <2>4, CallSet DEF Walks, CallAt, SameLine
  <2> QED
    BY <2>5 DEF LatestEnded
<1> QED
  BY <1>1, <1>2 DEF LatestEnded

LEMMA Recording ==
  ASSUME AssistantTypeOK, NEW p \in Warmers, RecordOutcome(p)
  PROVE  \/ Walks(p, "record", "idle") /\ call'[p].asks = FALSE /\ call'[p].line = Blank
         \/ Walks(p, "record", "wait") /\ SameLine(p) /\ call[p].asks
<1>1. CASE call[p].worked /\ call[p].asks
  <2>1. CallTo(p, "wait") /\ CallAt(p, "record")
    BY <1>1 DEF RecordOutcome, CallTo
  <2> QED
    BY <1>1, <2>1, Goes DEF CallPlaces
<1>2. CASE ~(call[p].worked /\ call[p].asks)
  BY <1>2, Over DEF RecordOutcome, CallPlaces
<1> QED
  BY <1>1, <1>2

LEMMA Simple ==
  ASSUME AssistantTypeOK, NEW p \in Warmers
  PROVE  /\ DeleteBuffer(p) => Walks(p, "delete", "lock") /\ SameLine(p)
         /\ TakeWarmLock(p) => Walks(p, "lock", "home") /\ SameLine(p)
         /\ CommitHome(p) => Walks(p, "commit", "home") /\ SameLine(p)
         /\ Waited(p) => Walks(p, "wait", "send") /\ SameLine(p)
<1> USE Goes DEF CallPlaces
<1>1. DeleteBuffer(p) => Walks(p, "delete", "lock") /\ SameLine(p)
  BY DEF DeleteBuffer
<1>2. TakeWarmLock(p) => Walks(p, "lock", "home") /\ SameLine(p)
  BY DEF TakeWarmLock
<1>3. CommitHome(p) => Walks(p, "commit", "home") /\ SameLine(p)
  BY DEF CommitHome
<1>4. Waited(p) => Walks(p, "wait", "send") /\ SameLine(p)
  BY DEF Waited
<1> QED
  BY <1>1, <1>2, <1>3, <1>4

LEMMA Ending ==
  ASSUME AssistantTypeOK, NEW p \in Warmers, Send(p) \/ Killed(p)
  PROVE  Walks(p, call[p].at, "idle") /\ call'[p].asks = FALSE /\ call'[p].line = Blank
<1>1. call[p].at \in CallPlaces /\ CallAt(p, call[p].at)
  BY DEF AssistantTypeOK, AssistantCall, CallAt
<1>2. call' = [call EXCEPT ![p] = NoCall]
  BY DEF Send, Killed
<1> QED
  BY <1>1, <1>2, Over

(* How a warm leaves the lock: its call is at its record, with its outcome. *)
LeftWith(p, from, t) ==
  /\ Walks(p, from, "record") /\ SameLine(p) /\ call'[p].worked = t
  /\ warmLock' = IF warmLock = p THEN NoOne ELSE warmLock
  /\ lastWarm' = t /\ unrecorded' = unrecorded \cup {p}
  /\ crossed' = (unrecorded # {}) /\ crossed' \in BOOLEAN
Stays == UNCHANGED <<warmLock, lastWarm, unrecorded, crossed>>
HelperBecomes(a, state, t) ==
  /\ helper' \in [AssistantIds -> HelperRecord] /\ ages' \in Nat
  /\ helper'[a].state = state /\ helper'[a].lives = t /\ helper'[a].named = helper[a].named
  /\ \A b \in AssistantIds : b # a => helper'[b] = helper[b]

LEMMA Failing ==
  ASSUME AssistantTypeOK, NEW p \in Warmers, HomeFails(p)
  PROVE  (LeftWith(p, "home", FALSE) \/ LeftWith(p, "commit", FALSE)) /\ faulty' = TRUE
<1> USE Leaving DEF CallPlaces, LeftWith
<1>1. CASE CallAt(p, "home")
  BY <1>1 DEF HomeFails
<1>2. CASE CallAt(p, "commit")
  BY <1>2 DEF HomeFails
<1> QED
  BY <1>1, <1>2 DEF HomeFails

LEMMA Refreshing ==
  ASSUME AssistantTypeOK, NEW p \in Warmers, RefreshNext(p)
  PROVE  \E a \in AssistantIds \cap call[p].left :
           \/ Running(a) /\ helper[a].lives /\ LeftWith(p, "running", TRUE) /\ UNCHANGED theRecords
           \/ /\ Walks(p, "running", "running") /\ SameLine(p) /\ call'[p].left = call[p].left \ {a}
              /\ Stays
              /\ \/ Running(a) /\ ~helper[a].lives /\ HelperBecomes(a, "ended", FALSE)
                 \/ ~Running(a) /\ UNCHANGED theRecords
<1>1. PICK a \in AssistantIds \cap call[p].left :
           \/ Running(a) /\ helper[a].lives /\ Leaves(p, TRUE, a) /\ UNCHANGED theRecords
           \/ /\ Running(a) /\ ~helper[a].lives /\ Changes(a, "ended", FALSE)
              /\ call' = [call EXCEPT ![p].left = @ \ {a}]
              /\ UNCHANGED <<warmLock, lastWarm, unrecorded, crossed>>
           \/ /\ ~Running(a) /\ UNCHANGED theRecords
              /\ call' = [call EXCEPT ![p].left = @ \ {a}]
              /\ UNCHANGED <<warmLock, lastWarm, unrecorded, crossed>>
  BY Refreshes
<1>2. CallAt(p, "running")
  BY DEF RefreshNext
<1>3. Leaves(p, TRUE, a) => LeftWith(p, "running", TRUE)
  BY <1>2, Leaving DEF LeftWith, CallPlaces
<1>4. Changes(a, "ended", FALSE) => HelperBecomes(a, "ended", FALSE)
  BY HelperChanges DEF HelperBecomes
<1>5. call' = [call EXCEPT ![p].left = @ \ {a}] =>
        Walks(p, "running", "running") /\ SameLine(p) /\ call'[p].left = call[p].left \ {a}
  BY <1>2, Passing
<1> QED
  BY <1>1, <1>3, <1>4, <1>5 DEF Stays

LEMMA Respawning ==
  ASSUME AssistantTypeOK, NEW p \in Warmers, Respawn(p)
  PROVE  \E a \in AssistantIds :
           /\ a = call[p].id
           /\ \/ /\ helper[a].state = "ended" /\ HelperBecomes(a, "starting", TRUE)
                 /\ LeftWith(p, "respawn", TRUE)
              \/ /\ ~(helper[a].state = "ended" /\ NameFree(a))
                 /\ UNCHANGED theRecords /\ LeftWith(p, "respawn", FALSE)
<1>1. PICK a \in AssistantIds :
           /\ a = call[p].id
           /\ \/ /\ helper[a].state = "ended" /\ NameFree(a)
                 /\ Changes(a, "starting", TRUE) /\ Leaves(p, TRUE, a)
              \/ /\ ~(helper[a].state = "ended" /\ NameFree(a))
                 /\ UNCHANGED theRecords /\ Leaves(p, FALSE, NoOne)
  BY Respawns
<1>2. CallAt(p, "respawn")
  BY DEF Respawn
<1>3. Leaves(p, TRUE, a) => LeftWith(p, "respawn", TRUE)
  BY <1>2, Leaving DEF LeftWith, CallPlaces
<1>4. Leaves(p, FALSE, NoOne) => LeftWith(p, "respawn", FALSE)
  BY <1>2, Leaving DEF LeftWith, CallPlaces
<1>5. Changes(a, "starting", TRUE) => HelperBecomes(a, "starting", TRUE)
  BY HelperChanges DEF HelperBecomes
<1> QED
  BY <1>1, <1>3, <1>4, <1>5

LEMMA Creating ==
  ASSUME AssistantTypeOK, NEW p \in Warmers, Create(p)
  PROVE  \E a \in AssistantIds :
           \/ repo = "committed" /\ HelperBecomes(a, "starting", TRUE) /\ LeftWith(p, "create", TRUE)
           \/ repo # "committed" /\ UNCHANGED theRecords /\ LeftWith(p, "create", FALSE)
<1>1. PICK a \in AssistantIds :
           \/ repo = "committed" /\ Changes(a, "starting", TRUE) /\ Leaves(p, TRUE, a)
           \/ repo # "committed" /\ UNCHANGED theRecords /\ Leaves(p, FALSE, NoOne)
  BY Creates
<1>2. CallAt(p, "create")
  BY DEF Create
<1>3. Leaves(p, TRUE, a) => LeftWith(p, "create", TRUE)
  BY <1>2, Leaving DEF LeftWith, CallPlaces
<1>4. Leaves(p, FALSE, NoOne) => LeftWith(p, "create", FALSE)
  BY <1>2, Leaving DEF LeftWith, CallPlaces
<1>5. Changes(a, "starting", TRUE) => HelperBecomes(a, "starting", TRUE)
  BY HelperChanges DEF HelperBecomes
<1> QED
  BY <1>1, <1>3, <1>4, <1>5


LEMMA Milder ==
  ASSUME AssistantTypeOK, NEW a \in AssistantIds, Started(a) \/ ProgramEnds(a) \/ Renamed(a)
  PROVE  /\ helper' \in [AssistantIds -> HelperRecord] /\ ages' \in Nat /\ WorldStays /\ byHand' = byHand
         /\ \A b \in AssistantIds : b # a => helper'[b] = helper[b]
         /\ helper'[a].state = helper[a].state \/ (helper[a].state = "starting" /\ helper'[a].state = "working")
         /\ helper'[a].lives => helper[a].lives
<1>1. ages' \in Nat /\ WorldStays /\ byHand' = byHand
  BY DEF Started, ProgramEnds, Renamed, AssistantTypeOK
<1>2. /\ helper' \in [AssistantIds -> HelperRecord]
      /\ \A b \in AssistantIds : b # a => helper'[b] = helper[b]
      /\ helper'[a].lives => helper[a].lives
  <2>1. CASE Started(a)
    BY <2>1 DEF Started, AssistantTypeOK, HelperRecord
  <2>2. CASE ProgramEnds(a)
    BY <2>2 DEF ProgramEnds, AssistantTypeOK, HelperRecord
  <2>3. CASE Renamed(a)
    BY <2>3 DEF Renamed, AssistantTypeOK, HelperRecord
  <2> QED
    BY <2>1, <2>2, <2>3
<1>3. helper'[a].state = helper[a].state \/ (helper[a].state = "starting" /\ helper'[a].state = "working")
  BY DEF Started, ProgramEnds, Renamed, AssistantTypeOK, HelperRecord
<1> QED
  BY <1>1, <1>2, <1>3

LEMMA Harsher ==
  ASSUME AssistantTypeOK, NEW a \in AssistantIds, Stopped(a) \/ RespawnedByHand(a)
  PROVE  /\ WorldStays
         /\ \/ HelperBecomes(a, "ended", FALSE) /\ byHand' = byHand
            \/ HelperBecomes(a, "starting", TRUE) /\ byHand' = TRUE
<1>1. CASE Stopped(a)
  BY <1>1, HelperChanges DEF Stopped, HelperBecomes
<1>2. CASE RespawnedByHand(a)
  BY <1>2, HelperChanges DEF RespawnedByHand, HelperBecomes
<1> QED
  BY <1>1, <1>2

LEMMA SameAsks ==
  ASSUME \A q \in Warmers : Asks(q), NEW p \in Warmers, NEW from \in CallPlaces, NEW place \in CallPlaces,
         Walks(p, from, place), SameLine(p), from # "take", place \notin {"take", "idle"},
         place \in {"delete", "wait", "send"} => call[p].asks
  PROVE  (\A q \in Warmers : Asks(q))'
BY DEF Asks, Walks, SameLine

LEMMA LocksKept ==
  ASSUME AssistantInv, [AssistantNext]_helperVars
  PROVE  (\A q \in Warmers : HoldsWarmLock(q))'
<1>0. AssistantTypeOK
  BY DEF AssistantInv
<1> USE AssistantAssumption DEF HoldsWarmLock, UnderLock, Walks, AssistantInv
<1>1. ASSUME NEW line \in Lines, Type(line)
      PROVE  (\A q \in Warmers : HoldsWarmLock(q))'
  BY <1>0, <1>1, Typing DEF Type, theRecords
<1>2. ASSUME NEW p \in Warmers, BeginWarm(p)
      PROVE  (\A q \in Warmers : HoldsWarmLock(q))'
  BY <1>0, <1>2, Begun DEF BeginWarm, theRecords
<1>3. ASSUME NEW p \in Warmers, ShowBuffer(p)
      PROVE  (\A q \in Warmers : HoldsWarmLock(q))'
  BY <1>0, <1>3, Showing DEF ShowBuffer, theRecords
<1>4. ASSUME NEW p \in Warmers, DeleteBuffer(p)
      PROVE  (\A q \in Warmers : HoldsWarmLock(q))'
  BY <1>0, <1>4, Simple DEF DeleteBuffer, theRecords
<1>5. ASSUME NEW p \in Warmers, TakeWarmLock(p)
      PROVE  (\A q \in Warmers : HoldsWarmLock(q))'
  BY <1>0, <1>5, Simple DEF TakeWarmLock, WarmStays, theRecords
<1>6. ASSUME NEW p \in Warmers, MakeHome(p)
      PROVE  (\A q \in Warmers : HoldsWarmLock(q))'
  BY <1>0, <1>6, Making DEF MakeHome, WarmStays, theRecords
<1>7. ASSUME NEW p \in Warmers, CommitHome(p)
      PROVE  (\A q \in Warmers : HoldsWarmLock(q))'
  BY <1>0, <1>7, Simple DEF CommitHome, WarmStays, theRecords
<1>8. ASSUME NEW p \in Warmers, HomeFails(p)
      PROVE  (\A q \in Warmers : HoldsWarmLock(q))'
  BY <1>0, <1>8, Failing DEF HomeFails, WarmStays, theRecords, LeftWith
<1>9. ASSUME NEW p \in Warmers, ListRunning(p)
      PROVE  (\A q \in Warmers : HoldsWarmLock(q))'
  BY <1>0, <1>9, Listing DEF ListRunning, WarmStays, theRecords
<1>10. ASSUME NEW p \in Warmers, RefreshNext(p)
      PROVE  (\A q \in Warmers : HoldsWarmLock(q))'
  BY <1>0, <1>10, Refreshing DEF RefreshNext, WarmStays, theRecords, LeftWith, Stays, HelperBecomes
<1>11. ASSUME NEW p \in Warmers, LatestEnded(p)
      PROVE  (\A q \in Warmers : HoldsWarmLock(q))'
  BY <1>0, <1>11, Choosing DEF LatestEnded, WarmStays, theRecords
<1>12. ASSUME NEW p \in Warmers, Respawn(p)
      PROVE  (\A q \in Warmers : HoldsWarmLock(q))'
  BY <1>0, <1>12, Respawning DEF Respawn, WarmStays, theRecords, LeftWith, HelperBecomes
<1>13. ASSUME NEW p \in Warmers, Create(p)
      PROVE  (\A q \in Warmers : HoldsWarmLock(q))'
  BY <1>0, <1>13, Creating DEF Create, WarmStays, theRecords, LeftWith, HelperBecomes
<1>14. ASSUME NEW p \in Warmers, RecordOutcome(p)
      PROVE  (\A q \in Warmers : HoldsWarmLock(q))'
  BY <1>0, <1>14, Recording DEF RecordOutcome, theRecords
<1>15. ASSUME NEW p \in Warmers, Waited(p)
      PROVE  (\A q \in Warmers : HoldsWarmLock(q))'
  BY <1>0, <1>15, Simple DEF Waited, theRecords
<1>16. ASSUME NEW p \in Warmers, Send(p)
      PROVE  (\A q \in Warmers : HoldsWarmLock(q))'
  BY <1>0, <1>16, Ending DEF Send, theRecords
<1>17. ASSUME NEW p \in Warmers, Killed(p)
      PROVE  (\A q \in Warmers : HoldsWarmLock(q))'
  BY <1>0, <1>17, Ending DEF Killed, theRecords
<1>18. ASSUME NEW a \in AssistantIds, Started(a) \/ ProgramEnds(a) \/ Renamed(a)
      PROVE  (\A q \in Warmers : HoldsWarmLock(q))'
  BY <1>0, <1>18, Milder DEF WorldStays
<1>19. ASSUME NEW a \in AssistantIds, Stopped(a) \/ RespawnedByHand(a)
      PROVE  (\A q \in Warmers : HoldsWarmLock(q))'
  BY <1>0, <1>19, Harsher DEF WorldStays, HelperBecomes
<1>20. CASE UNCHANGED helperVars
  BY <1>20 DEF helperVars, theRecords
<1> QED
  BY <1>1, <1>2, <1>3, <1>4, <1>5, <1>6, <1>7, <1>8, <1>9, <1>10, <1>11, <1>12, <1>13, <1>14, <1>15, <1>16, <1>17, <1>18, <1>19, <1>20 DEF AssistantNext

LEMMA HomeKept ==
  ASSUME AssistantInv, [AssistantNext]_helperVars
  PROVE  HomeMade'
<1>0. AssistantTypeOK
  BY DEF AssistantInv
<1> USE AssistantAssumption DEF HomeMade, HoldsWarmLock, UnderLock, Walks, CallAt, AssistantInv
<1>1. ASSUME NEW line \in Lines, Type(line)
      PROVE  HomeMade'
  BY <1>0, <1>1, Typing DEF Type, theRecords
<1>2. ASSUME NEW p \in Warmers, BeginWarm(p)
      PROVE  HomeMade'
  BY <1>0, <1>2, Begun DEF BeginWarm, theRecords
<1>3. ASSUME NEW p \in Warmers, ShowBuffer(p)
      PROVE  HomeMade'
  BY <1>0, <1>3, Showing DEF ShowBuffer, theRecords
<1>4. ASSUME NEW p \in Warmers, DeleteBuffer(p)
      PROVE  HomeMade'
  BY <1>0, <1>4, Simple DEF DeleteBuffer, theRecords
<1>5. ASSUME NEW p \in Warmers, TakeWarmLock(p)
      PROVE  HomeMade'
  BY <1>0, <1>5, Simple DEF TakeWarmLock, WarmStays, theRecords
<1>6. ASSUME NEW p \in Warmers, MakeHome(p)
      PROVE  HomeMade'
  BY <1>0, <1>6, Making DEF MakeHome, WarmStays, theRecords
<1>7. ASSUME NEW p \in Warmers, CommitHome(p)
      PROVE  HomeMade'
  BY <1>0, <1>7, Simple DEF CommitHome, WarmStays, theRecords
<1>8. ASSUME NEW p \in Warmers, HomeFails(p)
      PROVE  HomeMade'
  BY <1>0, <1>8, Failing DEF HomeFails, WarmStays, theRecords, LeftWith
<1>9. ASSUME NEW p \in Warmers, ListRunning(p)
      PROVE  HomeMade'
  BY <1>0, <1>9, Listing DEF ListRunning, WarmStays, theRecords
<1>10. ASSUME NEW p \in Warmers, RefreshNext(p)
      PROVE  HomeMade'
  BY <1>0, <1>10, Refreshing DEF RefreshNext, WarmStays, theRecords, LeftWith, Stays, HelperBecomes
<1>11. ASSUME NEW p \in Warmers, LatestEnded(p)
      PROVE  HomeMade'
  BY <1>0, <1>11, Choosing DEF LatestEnded, WarmStays, theRecords
<1>12. ASSUME NEW p \in Warmers, Respawn(p)
      PROVE  HomeMade'
  BY <1>0, <1>12, Respawning DEF Respawn, WarmStays, theRecords, LeftWith, HelperBecomes
<1>13. ASSUME NEW p \in Warmers, Create(p)
      PROVE  HomeMade'
  BY <1>0, <1>13, Creating DEF Create, WarmStays, theRecords, LeftWith, HelperBecomes
<1>14. ASSUME NEW p \in Warmers, RecordOutcome(p)
      PROVE  HomeMade'
  BY <1>0, <1>14, Recording DEF RecordOutcome, theRecords
<1>15. ASSUME NEW p \in Warmers, Waited(p)
      PROVE  HomeMade'
  BY <1>0, <1>15, Simple DEF Waited, theRecords
<1>16. ASSUME NEW p \in Warmers, Send(p)
      PROVE  HomeMade'
  BY <1>0, <1>16, Ending DEF Send, theRecords
<1>17. ASSUME NEW p \in Warmers, Killed(p)
      PROVE  HomeMade'
  BY <1>0, <1>17, Ending DEF Killed, theRecords
<1>18. ASSUME NEW a \in AssistantIds, Started(a) \/ ProgramEnds(a) \/ Renamed(a)
      PROVE  HomeMade'
  BY <1>0, <1>18, Milder DEF WorldStays
<1>19. ASSUME NEW a \in AssistantIds, Stopped(a) \/ RespawnedByHand(a)
      PROVE  HomeMade'
  BY <1>0, <1>19, Harsher DEF WorldStays, HelperBecomes
<1>20. CASE UNCHANGED helperVars
  BY <1>20 DEF helperVars, theRecords
<1> QED
  BY <1>1, <1>2, <1>3, <1>4, <1>5, <1>6, <1>7, <1>8, <1>9, <1>10, <1>11, <1>12, <1>13, <1>14, <1>15, <1>16, <1>17, <1>18, <1>19, <1>20 DEF AssistantNext

LEMMA AsksKept ==
  ASSUME AssistantInv, [AssistantNext]_helperVars
  PROVE  (\A q \in Warmers : Asks(q))'
<1>0. AssistantTypeOK
  BY DEF AssistantInv
<1>1. ASSUME NEW line \in Lines, Type(line)
      PROVE  (\A q \in Warmers : Asks(q))'
  BY <1>0, <1>1, Typing DEF Asks, Walks, AssistantInv
<1>2. ASSUME NEW p \in Warmers, BeginWarm(p)
      PROVE  (\A q \in Warmers : Asks(q))'
  BY <1>0, <1>2, Begun DEF Asks, Walks, AssistantInv
<1>3. ASSUME NEW p \in Warmers, ShowBuffer(p)
      PROVE  (\A q \in Warmers : Asks(q))'
  <2>1. CASE parked = Blank /\ Walks(p, "take", "idle") /\ call'[p].line = Blank /\ call'[p].asks = FALSE
    BY <2>1 DEF Asks, Walks, AssistantInv
  <2>2. CASE /\ parked # Blank /\ Walks(p, "take", "delete")
             /\ call'[p].line = parked /\ call'[p].asks = call[p].asks
    BY <2>2 DEF Asks, Walks, AssistantInv
  <2> QED
    BY <1>0, <1>3, <2>1, <2>2, Showing
<1>4. ASSUME NEW p \in Warmers, DeleteBuffer(p)
      PROVE  (\A q \in Warmers : Asks(q))'
  BY <1>0, <1>4, Simple, SameAsks DEF AssistantInv, CallPlaces, Asks, Walks
<1>5. ASSUME NEW p \in Warmers, TakeWarmLock(p)
      PROVE  (\A q \in Warmers : Asks(q))'
  BY <1>0, <1>5, Simple, SameAsks DEF AssistantInv, CallPlaces
<1>6. ASSUME NEW p \in Warmers, MakeHome(p)
      PROVE  (\A q \in Warmers : Asks(q))'
  BY <1>0, <1>6, Making, SameAsks DEF AssistantInv, CallPlaces
<1>7. ASSUME NEW p \in Warmers, CommitHome(p)
      PROVE  (\A q \in Warmers : Asks(q))'
  BY <1>0, <1>7, Simple, SameAsks DEF AssistantInv, CallPlaces
<1>8. ASSUME NEW p \in Warmers, HomeFails(p)
      PROVE  (\A q \in Warmers : Asks(q))'
  BY <1>0, <1>8, Failing, SameAsks DEF AssistantInv, CallPlaces, LeftWith
<1>9. ASSUME NEW p \in Warmers, ListRunning(p)
      PROVE  (\A q \in Warmers : Asks(q))'
  BY <1>0, <1>9, Listing, SameAsks DEF AssistantInv, CallPlaces
<1>10. ASSUME NEW p \in Warmers, RefreshNext(p)
      PROVE  (\A q \in Warmers : Asks(q))'
  BY <1>0, <1>10, Refreshing, SameAsks DEF AssistantInv, CallPlaces, LeftWith
<1>11. ASSUME NEW p \in Warmers, LatestEnded(p)
      PROVE  (\A q \in Warmers : Asks(q))'
  BY <1>0, <1>11, Choosing, SameAsks DEF AssistantInv, CallPlaces
<1>12. ASSUME NEW p \in Warmers, Respawn(p)
      PROVE  (\A q \in Warmers : Asks(q))'
  BY <1>0, <1>12, Respawning, SameAsks DEF AssistantInv, CallPlaces, LeftWith
<1>13. ASSUME NEW p \in Warmers, Create(p)
      PROVE  (\A q \in Warmers : Asks(q))'
  BY <1>0, <1>13, Creating, SameAsks DEF AssistantInv, CallPlaces, LeftWith
<1>14. ASSUME NEW p \in Warmers, RecordOutcome(p)
      PROVE  (\A q \in Warmers : Asks(q))'
  <2>1. CASE Walks(p, "record", "wait") /\ SameLine(p) /\ call[p].asks
    BY <1>0, <2>1, SameAsks DEF AssistantInv, CallPlaces
  <2>2. CASE Walks(p, "record", "idle") /\ call'[p].asks = FALSE /\ call'[p].line = Blank
    BY <2>2 DEF Asks, Walks, AssistantInv
  <2> QED
    BY <1>0, <1>14, <2>1, <2>2, Recording
<1>15. ASSUME NEW p \in Warmers, Waited(p)
      PROVE  (\A q \in Warmers : Asks(q))'
  BY <1>0, <1>15, Simple, SameAsks DEF AssistantInv, CallPlaces, Asks, Walks
<1>16. ASSUME NEW p \in Warmers, Send(p)
      PROVE  (\A q \in Warmers : Asks(q))'
  BY <1>0, <1>16, Ending DEF Asks, Walks, AssistantInv
<1>17. ASSUME NEW p \in Warmers, Killed(p)
      PROVE  (\A q \in Warmers : Asks(q))'
  BY <1>0, <1>17, Ending DEF Asks, Walks, AssistantInv
<1>18. ASSUME NEW a \in AssistantIds, Started(a) \/ ProgramEnds(a) \/ Renamed(a)
      PROVE  (\A q \in Warmers : Asks(q))'
  BY <1>0, <1>18, Milder DEF WorldStays, Asks, AssistantInv
<1>19. ASSUME NEW a \in AssistantIds, Stopped(a) \/ RespawnedByHand(a)
      PROVE  (\A q \in Warmers : Asks(q))'
  <2>1. call' = call
    BY <1>0, <1>19, Harsher DEF WorldStays
  <2> QED
    BY <2>1 DEF Asks, AssistantInv
<1>20. CASE UNCHANGED helperVars
  BY <1>20 DEF helperVars, theRecords, Asks, AssistantInv
<1> QED
  BY <1>1, <1>2, <1>3, <1>4, <1>5, <1>6, <1>7, <1>8, <1>9, <1>10, <1>11, <1>12, <1>13, <1>14, <1>15, <1>16, <1>17, <1>18, <1>19, <1>20 DEF AssistantNext

LEMMA CallTyped ==
  ASSUME AssistantInv, [AssistantNext]_helperVars
  PROVE  call' \in [Warmers -> AssistantCall]
<1>0. AssistantTypeOK
  BY DEF AssistantInv
<1>00. call \in [Warmers -> AssistantCall]
  BY <1>0 DEF AssistantTypeOK
<1> USE DEF Walks
<1>1. ASSUME NEW line \in Lines, Type(line)
      PROVE  call' \in [Warmers -> AssistantCall]
  BY <1>0, <1>1, Typing, <1>00 DEF Type, theRecords
<1>2. ASSUME NEW p \in Warmers, BeginWarm(p)
      PROVE  call' \in [Warmers -> AssistantCall]
  BY <1>0, <1>2, Begun, <1>00 DEF BeginWarm, theRecords
<1>3. ASSUME NEW p \in Warmers, ShowBuffer(p)
      PROVE  call' \in [Warmers -> AssistantCall]
  BY <1>0, <1>3, Showing, <1>00 DEF ShowBuffer, theRecords
<1>4. ASSUME NEW p \in Warmers, DeleteBuffer(p)
      PROVE  call' \in [Warmers -> AssistantCall]
  BY <1>0, <1>4, Simple, <1>00 DEF DeleteBuffer, theRecords
<1>5. ASSUME NEW p \in Warmers, TakeWarmLock(p)
      PROVE  call' \in [Warmers -> AssistantCall]
  BY <1>0, <1>5, Simple, <1>00 DEF TakeWarmLock, WarmStays, theRecords
<1>6. ASSUME NEW p \in Warmers, MakeHome(p)
      PROVE  call' \in [Warmers -> AssistantCall]
  BY <1>0, <1>6, Making, <1>00 DEF MakeHome, WarmStays, theRecords
<1>7. ASSUME NEW p \in Warmers, CommitHome(p)
      PROVE  call' \in [Warmers -> AssistantCall]
  BY <1>0, <1>7, Simple, <1>00 DEF CommitHome, WarmStays, theRecords
<1>8. ASSUME NEW p \in Warmers, HomeFails(p)
      PROVE  call' \in [Warmers -> AssistantCall]
  BY <1>0, <1>8, Failing, <1>00 DEF HomeFails, WarmStays, theRecords, LeftWith
<1>9. ASSUME NEW p \in Warmers, ListRunning(p)
      PROVE  call' \in [Warmers -> AssistantCall]
  BY <1>0, <1>9, Listing, <1>00 DEF ListRunning, WarmStays, theRecords
<1>10. ASSUME NEW p \in Warmers, RefreshNext(p)
      PROVE  call' \in [Warmers -> AssistantCall]
  BY <1>0, <1>10, Refreshing, <1>00 DEF RefreshNext, WarmStays, theRecords, LeftWith, Stays, HelperBecomes
<1>11. ASSUME NEW p \in Warmers, LatestEnded(p)
      PROVE  call' \in [Warmers -> AssistantCall]
  BY <1>0, <1>11, Choosing, <1>00 DEF LatestEnded, WarmStays, theRecords
<1>12. ASSUME NEW p \in Warmers, Respawn(p)
      PROVE  call' \in [Warmers -> AssistantCall]
  BY <1>0, <1>12, Respawning, <1>00 DEF Respawn, WarmStays, theRecords, LeftWith, HelperBecomes
<1>13. ASSUME NEW p \in Warmers, Create(p)
      PROVE  call' \in [Warmers -> AssistantCall]
  BY <1>0, <1>13, Creating, <1>00 DEF Create, WarmStays, theRecords, LeftWith, HelperBecomes
<1>14. ASSUME NEW p \in Warmers, RecordOutcome(p)
      PROVE  call' \in [Warmers -> AssistantCall]
  BY <1>0, <1>14, Recording, <1>00 DEF RecordOutcome, theRecords
<1>15. ASSUME NEW p \in Warmers, Waited(p)
      PROVE  call' \in [Warmers -> AssistantCall]
  BY <1>0, <1>15, Simple, <1>00 DEF Waited, theRecords
<1>16. ASSUME NEW p \in Warmers, Send(p)
      PROVE  call' \in [Warmers -> AssistantCall]
  BY <1>0, <1>16, Ending, <1>00 DEF Send, theRecords
<1>17. ASSUME NEW p \in Warmers, Killed(p)
      PROVE  call' \in [Warmers -> AssistantCall]
  BY <1>0, <1>17, Ending, <1>00 DEF Killed, theRecords
<1>18. ASSUME NEW a \in AssistantIds, Started(a) \/ ProgramEnds(a) \/ Renamed(a)
      PROVE  call' \in [Warmers -> AssistantCall]
  BY <1>0, <1>18, Milder, <1>00 DEF WorldStays
<1>19. ASSUME NEW a \in AssistantIds, Stopped(a) \/ RespawnedByHand(a)
      PROVE  call' \in [Warmers -> AssistantCall]
  BY <1>0, <1>19, Harsher, <1>00 DEF WorldStays, HelperBecomes
<1>20. CASE UNCHANGED helperVars
  BY <1>20, <1>00 DEF helperVars, theRecords
<1> QED
  BY <1>1, <1>2, <1>3, <1>4, <1>5, <1>6, <1>7, <1>8, <1>9, <1>10, <1>11, <1>12, <1>13, <1>14, <1>15, <1>16, <1>17, <1>18, <1>19, <1>20 DEF AssistantNext

LEMMA IdsTyped ==
  ASSUME AssistantInv, [AssistantNext]_helperVars
  PROVE  (\A q \in Warmers : CallAt(q, "respawn") => call[q].id \in AssistantIds)'
<1>0. AssistantTypeOK
  BY DEF AssistantInv
<1>00. \A q \in Warmers : CallAt(q, "respawn") => call[q].id \in AssistantIds
  BY <1>0 DEF AssistantTypeOK
<1> USE DEF Walks, CallAt, Ended
<1>1. ASSUME NEW line \in Lines, Type(line)
      PROVE  (\A q \in Warmers : CallAt(q, "respawn") => call[q].id \in AssistantIds)'
  BY <1>0, <1>1, Typing, <1>00 DEF Type, theRecords
<1>2. ASSUME NEW p \in Warmers, BeginWarm(p)
      PROVE  (\A q \in Warmers : CallAt(q, "respawn") => call[q].id \in AssistantIds)'
  BY <1>0, <1>2, Begun, <1>00 DEF BeginWarm, theRecords
<1>3. ASSUME NEW p \in Warmers, ShowBuffer(p)
      PROVE  (\A q \in Warmers : CallAt(q, "respawn") => call[q].id \in AssistantIds)'
  BY <1>0, <1>3, Showing, <1>00 DEF ShowBuffer, theRecords
<1>4. ASSUME NEW p \in Warmers, DeleteBuffer(p)
      PROVE  (\A q \in Warmers : CallAt(q, "respawn") => call[q].id \in AssistantIds)'
  BY <1>0, <1>4, Simple, <1>00 DEF DeleteBuffer, theRecords
<1>5. ASSUME NEW p \in Warmers, TakeWarmLock(p)
      PROVE  (\A q \in Warmers : CallAt(q, "respawn") => call[q].id \in AssistantIds)'
  BY <1>0, <1>5, Simple, <1>00 DEF TakeWarmLock, WarmStays, theRecords
<1>6. ASSUME NEW p \in Warmers, MakeHome(p)
      PROVE  (\A q \in Warmers : CallAt(q, "respawn") => call[q].id \in AssistantIds)'
  BY <1>0, <1>6, Making, <1>00 DEF MakeHome, WarmStays, theRecords
<1>7. ASSUME NEW p \in Warmers, CommitHome(p)
      PROVE  (\A q \in Warmers : CallAt(q, "respawn") => call[q].id \in AssistantIds)'
  BY <1>0, <1>7, Simple, <1>00 DEF CommitHome, WarmStays, theRecords
<1>8. ASSUME NEW p \in Warmers, HomeFails(p)
      PROVE  (\A q \in Warmers : CallAt(q, "respawn") => call[q].id \in AssistantIds)'
  BY <1>0, <1>8, Failing, <1>00 DEF HomeFails, WarmStays, theRecords, LeftWith
<1>9. ASSUME NEW p \in Warmers, ListRunning(p)
      PROVE  (\A q \in Warmers : CallAt(q, "respawn") => call[q].id \in AssistantIds)'
  BY <1>0, <1>9, Listing, <1>00 DEF ListRunning, WarmStays, theRecords
<1>10. ASSUME NEW p \in Warmers, RefreshNext(p)
      PROVE  (\A q \in Warmers : CallAt(q, "respawn") => call[q].id \in AssistantIds)'
  BY <1>0, <1>10, Refreshing, <1>00 DEF RefreshNext, WarmStays, theRecords, LeftWith, Stays, HelperBecomes
<1>11. ASSUME NEW p \in Warmers, LatestEnded(p)
      PROVE  (\A q \in Warmers : CallAt(q, "respawn") => call[q].id \in AssistantIds)'
  BY <1>0, <1>11, Choosing, <1>00 DEF LatestEnded, WarmStays, theRecords
<1>12. ASSUME NEW p \in Warmers, Respawn(p)
      PROVE  (\A q \in Warmers : CallAt(q, "respawn") => call[q].id \in AssistantIds)'
  BY <1>0, <1>12, Respawning, <1>00 DEF Respawn, WarmStays, theRecords, LeftWith, HelperBecomes
<1>13. ASSUME NEW p \in Warmers, Create(p)
      PROVE  (\A q \in Warmers : CallAt(q, "respawn") => call[q].id \in AssistantIds)'
  BY <1>0, <1>13, Creating, <1>00 DEF Create, WarmStays, theRecords, LeftWith, HelperBecomes
<1>14. ASSUME NEW p \in Warmers, RecordOutcome(p)
      PROVE  (\A q \in Warmers : CallAt(q, "respawn") => call[q].id \in AssistantIds)'
  BY <1>0, <1>14, Recording, <1>00 DEF RecordOutcome, theRecords
<1>15. ASSUME NEW p \in Warmers, Waited(p)
      PROVE  (\A q \in Warmers : CallAt(q, "respawn") => call[q].id \in AssistantIds)'
  BY <1>0, <1>15, Simple, <1>00 DEF Waited, theRecords
<1>16. ASSUME NEW p \in Warmers, Send(p)
      PROVE  (\A q \in Warmers : CallAt(q, "respawn") => call[q].id \in AssistantIds)'
  BY <1>0, <1>16, Ending, <1>00 DEF Send, theRecords
<1>17. ASSUME NEW p \in Warmers, Killed(p)
      PROVE  (\A q \in Warmers : CallAt(q, "respawn") => call[q].id \in AssistantIds)'
  BY <1>0, <1>17, Ending, <1>00 DEF Killed, theRecords
<1>18. ASSUME NEW a \in AssistantIds, Started(a) \/ ProgramEnds(a) \/ Renamed(a)
      PROVE  (\A q \in Warmers : CallAt(q, "respawn") => call[q].id \in AssistantIds)'
  BY <1>0, <1>18, Milder, <1>00 DEF WorldStays
<1>19. ASSUME NEW a \in AssistantIds, Stopped(a) \/ RespawnedByHand(a)
      PROVE  (\A q \in Warmers : CallAt(q, "respawn") => call[q].id \in AssistantIds)'
  BY <1>0, <1>19, Harsher, <1>00 DEF WorldStays, HelperBecomes
<1>20. CASE UNCHANGED helperVars
  BY <1>20, <1>00 DEF helperVars, theRecords
<1> QED
  BY <1>1, <1>2, <1>3, <1>4, <1>5, <1>6, <1>7, <1>8, <1>9, <1>10, <1>11, <1>12, <1>13, <1>14, <1>15, <1>16, <1>17, <1>18, <1>19, <1>20 DEF AssistantNext

LEMMA HelpersTyped ==
  ASSUME AssistantInv, [AssistantNext]_helperVars
  PROVE  helper' \in [AssistantIds -> HelperRecord] /\ ages' \in Nat
<1>0. AssistantTypeOK
  BY DEF AssistantInv
<1>00. helper \in [AssistantIds -> HelperRecord] /\ ages \in Nat
  BY <1>0 DEF AssistantTypeOK
<1>1. ASSUME NEW line \in Lines, Type(line)
      PROVE  helper' \in [AssistantIds -> HelperRecord] /\ ages' \in Nat
  BY <1>0, <1>1, Typing, <1>00 DEF Type, theRecords
<1>2. ASSUME NEW p \in Warmers, BeginWarm(p)
      PROVE  helper' \in [AssistantIds -> HelperRecord] /\ ages' \in Nat
  BY <1>0, <1>2, Begun, <1>00 DEF BeginWarm, theRecords
<1>3. ASSUME NEW p \in Warmers, ShowBuffer(p)
      PROVE  helper' \in [AssistantIds -> HelperRecord] /\ ages' \in Nat
  BY <1>0, <1>3, Showing, <1>00 DEF ShowBuffer, theRecords
<1>4. ASSUME NEW p \in Warmers, DeleteBuffer(p)
      PROVE  helper' \in [AssistantIds -> HelperRecord] /\ ages' \in Nat
  BY <1>0, <1>4, Simple, <1>00 DEF DeleteBuffer, theRecords
<1>5. ASSUME NEW p \in Warmers, TakeWarmLock(p)
      PROVE  helper' \in [AssistantIds -> HelperRecord] /\ ages' \in Nat
  BY <1>0, <1>5, Simple, <1>00 DEF TakeWarmLock, WarmStays, theRecords
<1>6. ASSUME NEW p \in Warmers, MakeHome(p)
      PROVE  helper' \in [AssistantIds -> HelperRecord] /\ ages' \in Nat
  BY <1>0, <1>6, Making, <1>00 DEF MakeHome, WarmStays, theRecords
<1>7. ASSUME NEW p \in Warmers, CommitHome(p)
      PROVE  helper' \in [AssistantIds -> HelperRecord] /\ ages' \in Nat
  BY <1>0, <1>7, Simple, <1>00 DEF CommitHome, WarmStays, theRecords
<1>8. ASSUME NEW p \in Warmers, HomeFails(p)
      PROVE  helper' \in [AssistantIds -> HelperRecord] /\ ages' \in Nat
  BY <1>0, <1>8, Failing, <1>00 DEF HomeFails, WarmStays, theRecords, LeftWith
<1>9. ASSUME NEW p \in Warmers, ListRunning(p)
      PROVE  helper' \in [AssistantIds -> HelperRecord] /\ ages' \in Nat
  BY <1>0, <1>9, Listing, <1>00 DEF ListRunning, WarmStays, theRecords
<1>10. ASSUME NEW p \in Warmers, RefreshNext(p)
      PROVE  helper' \in [AssistantIds -> HelperRecord] /\ ages' \in Nat
  BY <1>0, <1>10, Refreshing, <1>00 DEF RefreshNext, WarmStays, theRecords, LeftWith, Stays, HelperBecomes
<1>11. ASSUME NEW p \in Warmers, LatestEnded(p)
      PROVE  helper' \in [AssistantIds -> HelperRecord] /\ ages' \in Nat
  BY <1>0, <1>11, Choosing, <1>00 DEF LatestEnded, WarmStays, theRecords
<1>12. ASSUME NEW p \in Warmers, Respawn(p)
      PROVE  helper' \in [AssistantIds -> HelperRecord] /\ ages' \in Nat
  BY <1>0, <1>12, Respawning, <1>00 DEF Respawn, WarmStays, theRecords, LeftWith, HelperBecomes
<1>13. ASSUME NEW p \in Warmers, Create(p)
      PROVE  helper' \in [AssistantIds -> HelperRecord] /\ ages' \in Nat
  BY <1>0, <1>13, Creating, <1>00 DEF Create, WarmStays, theRecords, LeftWith, HelperBecomes
<1>14. ASSUME NEW p \in Warmers, RecordOutcome(p)
      PROVE  helper' \in [AssistantIds -> HelperRecord] /\ ages' \in Nat
  BY <1>0, <1>14, Recording, <1>00 DEF RecordOutcome, theRecords
<1>15. ASSUME NEW p \in Warmers, Waited(p)
      PROVE  helper' \in [AssistantIds -> HelperRecord] /\ ages' \in Nat
  BY <1>0, <1>15, Simple, <1>00 DEF Waited, theRecords
<1>16. ASSUME NEW p \in Warmers, Send(p)
      PROVE  helper' \in [AssistantIds -> HelperRecord] /\ ages' \in Nat
  BY <1>0, <1>16, Ending, <1>00 DEF Send, theRecords
<1>17. ASSUME NEW p \in Warmers, Killed(p)
      PROVE  helper' \in [AssistantIds -> HelperRecord] /\ ages' \in Nat
  BY <1>0, <1>17, Ending, <1>00 DEF Killed, theRecords
<1>18. ASSUME NEW a \in AssistantIds, Started(a) \/ ProgramEnds(a) \/ Renamed(a)
      PROVE  helper' \in [AssistantIds -> HelperRecord] /\ ages' \in Nat
  BY <1>0, <1>18, Milder, <1>00 DEF WorldStays
<1>19. ASSUME NEW a \in AssistantIds, Stopped(a) \/ RespawnedByHand(a)
      PROVE  helper' \in [AssistantIds -> HelperRecord] /\ ages' \in Nat
  BY <1>0, <1>19, Harsher, <1>00 DEF WorldStays, HelperBecomes
<1>20. CASE UNCHANGED helperVars
  BY <1>20, <1>00 DEF helperVars, theRecords
<1> QED
  BY <1>1, <1>2, <1>3, <1>4, <1>5, <1>6, <1>7, <1>8, <1>9, <1>10, <1>11, <1>12, <1>13, <1>14, <1>15, <1>16, <1>17, <1>18, <1>19, <1>20 DEF AssistantNext

LEMMA PlacesTyped ==
  ASSUME AssistantInv, [AssistantNext]_helperVars
  PROVE  /\ repo' \in {"absent", "directory", "initialised", "committed"}
         /\ warmLock' \in Warmers \cup {NoOne} /\ unrecorded' \in SUBSET Warmers /\ parked' \in Lines \cup {Blank}
<1>0. AssistantTypeOK
  BY DEF AssistantInv
<1>00. repo \in {"absent", "directory", "initialised", "committed"} /\ warmLock \in Warmers \cup {NoOne}
      /\ unrecorded \in SUBSET Warmers /\ parked \in Lines \cup {Blank}
  BY <1>0 DEF AssistantTypeOK
<1>1. ASSUME NEW line \in Lines, Type(line)
      PROVE  /\ repo' \in {"absent", "directory", "initialised", "committed"}
         /\ warmLock' \in Warmers \cup {NoOne} /\ unrecorded' \in SUBSET Warmers /\ parked' \in Lines \cup {Blank}
  BY <1>0, <1>1, Typing, <1>00 DEF Type, theRecords
<1>2. ASSUME NEW p \in Warmers, BeginWarm(p)
      PROVE  /\ repo' \in {"absent", "directory", "initialised", "committed"}
         /\ warmLock' \in Warmers \cup {NoOne} /\ unrecorded' \in SUBSET Warmers /\ parked' \in Lines \cup {Blank}
  BY <1>0, <1>2, Begun, <1>00 DEF BeginWarm, theRecords
<1>3. ASSUME NEW p \in Warmers, ShowBuffer(p)
      PROVE  /\ repo' \in {"absent", "directory", "initialised", "committed"}
         /\ warmLock' \in Warmers \cup {NoOne} /\ unrecorded' \in SUBSET Warmers /\ parked' \in Lines \cup {Blank}
  BY <1>0, <1>3, Showing, <1>00 DEF ShowBuffer, theRecords
<1>4. ASSUME NEW p \in Warmers, DeleteBuffer(p)
      PROVE  /\ repo' \in {"absent", "directory", "initialised", "committed"}
         /\ warmLock' \in Warmers \cup {NoOne} /\ unrecorded' \in SUBSET Warmers /\ parked' \in Lines \cup {Blank}
  BY <1>0, <1>4, Simple, <1>00 DEF DeleteBuffer, theRecords
<1>5. ASSUME NEW p \in Warmers, TakeWarmLock(p)
      PROVE  /\ repo' \in {"absent", "directory", "initialised", "committed"}
         /\ warmLock' \in Warmers \cup {NoOne} /\ unrecorded' \in SUBSET Warmers /\ parked' \in Lines \cup {Blank}
  BY <1>0, <1>5, Simple, <1>00 DEF TakeWarmLock, WarmStays, theRecords
<1>6. ASSUME NEW p \in Warmers, MakeHome(p)
      PROVE  /\ repo' \in {"absent", "directory", "initialised", "committed"}
         /\ warmLock' \in Warmers \cup {NoOne} /\ unrecorded' \in SUBSET Warmers /\ parked' \in Lines \cup {Blank}
  BY <1>0, <1>6, Making, <1>00 DEF MakeHome, WarmStays, theRecords
<1>7. ASSUME NEW p \in Warmers, CommitHome(p)
      PROVE  /\ repo' \in {"absent", "directory", "initialised", "committed"}
         /\ warmLock' \in Warmers \cup {NoOne} /\ unrecorded' \in SUBSET Warmers /\ parked' \in Lines \cup {Blank}
  BY <1>0, <1>7, Simple, <1>00 DEF CommitHome, WarmStays, theRecords
<1>8. ASSUME NEW p \in Warmers, HomeFails(p)
      PROVE  /\ repo' \in {"absent", "directory", "initialised", "committed"}
         /\ warmLock' \in Warmers \cup {NoOne} /\ unrecorded' \in SUBSET Warmers /\ parked' \in Lines \cup {Blank}
  BY <1>0, <1>8, Failing, <1>00 DEF HomeFails, WarmStays, theRecords, LeftWith
<1>9. ASSUME NEW p \in Warmers, ListRunning(p)
      PROVE  /\ repo' \in {"absent", "directory", "initialised", "committed"}
         /\ warmLock' \in Warmers \cup {NoOne} /\ unrecorded' \in SUBSET Warmers /\ parked' \in Lines \cup {Blank}
  BY <1>0, <1>9, Listing, <1>00 DEF ListRunning, WarmStays, theRecords
<1>10. ASSUME NEW p \in Warmers, RefreshNext(p)
      PROVE  /\ repo' \in {"absent", "directory", "initialised", "committed"}
         /\ warmLock' \in Warmers \cup {NoOne} /\ unrecorded' \in SUBSET Warmers /\ parked' \in Lines \cup {Blank}
  BY <1>0, <1>10, Refreshing, <1>00 DEF RefreshNext, WarmStays, theRecords, LeftWith, Stays, HelperBecomes
<1>11. ASSUME NEW p \in Warmers, LatestEnded(p)
      PROVE  /\ repo' \in {"absent", "directory", "initialised", "committed"}
         /\ warmLock' \in Warmers \cup {NoOne} /\ unrecorded' \in SUBSET Warmers /\ parked' \in Lines \cup {Blank}
  BY <1>0, <1>11, Choosing, <1>00 DEF LatestEnded, WarmStays, theRecords
<1>12. ASSUME NEW p \in Warmers, Respawn(p)
      PROVE  /\ repo' \in {"absent", "directory", "initialised", "committed"}
         /\ warmLock' \in Warmers \cup {NoOne} /\ unrecorded' \in SUBSET Warmers /\ parked' \in Lines \cup {Blank}
  BY <1>0, <1>12, Respawning, <1>00 DEF Respawn, WarmStays, theRecords, LeftWith, HelperBecomes
<1>13. ASSUME NEW p \in Warmers, Create(p)
      PROVE  /\ repo' \in {"absent", "directory", "initialised", "committed"}
         /\ warmLock' \in Warmers \cup {NoOne} /\ unrecorded' \in SUBSET Warmers /\ parked' \in Lines \cup {Blank}
  <2>1. LeftWith(p, "create", TRUE) \/ LeftWith(p, "create", FALSE)
    BY <1>0, <1>13, Creating
  <2>2. repo' = repo /\ parked' = parked
    BY <1>13 DEF Create, WarmStays
  <2> QED
    BY <1>00, <2>1, <2>2 DEF LeftWith
<1>14. ASSUME NEW p \in Warmers, RecordOutcome(p)
      PROVE  /\ repo' \in {"absent", "directory", "initialised", "committed"}
         /\ warmLock' \in Warmers \cup {NoOne} /\ unrecorded' \in SUBSET Warmers /\ parked' \in Lines \cup {Blank}
  BY <1>0, <1>14, Recording, <1>00 DEF RecordOutcome, theRecords
<1>15. ASSUME NEW p \in Warmers, Waited(p)
      PROVE  /\ repo' \in {"absent", "directory", "initialised", "committed"}
         /\ warmLock' \in Warmers \cup {NoOne} /\ unrecorded' \in SUBSET Warmers /\ parked' \in Lines \cup {Blank}
  BY <1>0, <1>15, Simple, <1>00 DEF Waited, theRecords
<1>16. ASSUME NEW p \in Warmers, Send(p)
      PROVE  /\ repo' \in {"absent", "directory", "initialised", "committed"}
         /\ warmLock' \in Warmers \cup {NoOne} /\ unrecorded' \in SUBSET Warmers /\ parked' \in Lines \cup {Blank}
  BY <1>0, <1>16, Ending, <1>00 DEF Send, theRecords
<1>17. ASSUME NEW p \in Warmers, Killed(p)
      PROVE  /\ repo' \in {"absent", "directory", "initialised", "committed"}
         /\ warmLock' \in Warmers \cup {NoOne} /\ unrecorded' \in SUBSET Warmers /\ parked' \in Lines \cup {Blank}
  BY <1>0, <1>17, Ending, <1>00 DEF Killed, theRecords
<1>18. ASSUME NEW a \in AssistantIds, Started(a) \/ ProgramEnds(a) \/ Renamed(a)
      PROVE  /\ repo' \in {"absent", "directory", "initialised", "committed"}
         /\ warmLock' \in Warmers \cup {NoOne} /\ unrecorded' \in SUBSET Warmers /\ parked' \in Lines \cup {Blank}
  BY <1>0, <1>18, Milder, <1>00 DEF WorldStays
<1>19. ASSUME NEW a \in AssistantIds, Stopped(a) \/ RespawnedByHand(a)
      PROVE  /\ repo' \in {"absent", "directory", "initialised", "committed"}
         /\ warmLock' \in Warmers \cup {NoOne} /\ unrecorded' \in SUBSET Warmers /\ parked' \in Lines \cup {Blank}
  BY <1>0, <1>19, Harsher, <1>00 DEF WorldStays, HelperBecomes
<1>20. CASE UNCHANGED helperVars
  BY <1>20, <1>00 DEF helperVars, theRecords
<1> QED
  BY <1>1, <1>2, <1>3, <1>4, <1>5, <1>6, <1>7, <1>8, <1>9, <1>10, <1>11, <1>12, <1>13, <1>14, <1>15, <1>16, <1>17, <1>18, <1>19, <1>20 DEF AssistantNext

LEMMA PastTyped ==
  ASSUME AssistantInv, [AssistantNext]_helperVars
  PROVE  lastWarm' \in BOOLEAN /\ crossed' \in BOOLEAN /\ faulty' \in BOOLEAN /\ byHand' \in BOOLEAN
<1>0. AssistantTypeOK
  BY DEF AssistantInv
<1>00. lastWarm \in BOOLEAN /\ crossed \in BOOLEAN /\ faulty \in BOOLEAN /\ byHand \in BOOLEAN
  BY <1>0 DEF AssistantTypeOK
<1>1. ASSUME NEW line \in Lines, Type(line)
      PROVE  lastWarm' \in BOOLEAN /\ crossed' \in BOOLEAN /\ faulty' \in BOOLEAN /\ byHand' \in BOOLEAN
  BY <1>0, <1>1, Typing, <1>00 DEF Type, theRecords
<1>2. ASSUME NEW p \in Warmers, BeginWarm(p)
      PROVE  lastWarm' \in BOOLEAN /\ crossed' \in BOOLEAN /\ faulty' \in BOOLEAN /\ byHand' \in BOOLEAN
  BY <1>0, <1>2, Begun, <1>00 DEF BeginWarm, theRecords
<1>3. ASSUME NEW p \in Warmers, ShowBuffer(p)
      PROVE  lastWarm' \in BOOLEAN /\ crossed' \in BOOLEAN /\ faulty' \in BOOLEAN /\ byHand' \in BOOLEAN
  BY <1>0, <1>3, Showing, <1>00 DEF ShowBuffer, theRecords
<1>4. ASSUME NEW p \in Warmers, DeleteBuffer(p)
      PROVE  lastWarm' \in BOOLEAN /\ crossed' \in BOOLEAN /\ faulty' \in BOOLEAN /\ byHand' \in BOOLEAN
  BY <1>0, <1>4, Simple, <1>00 DEF DeleteBuffer, theRecords
<1>5. ASSUME NEW p \in Warmers, TakeWarmLock(p)
      PROVE  lastWarm' \in BOOLEAN /\ crossed' \in BOOLEAN /\ faulty' \in BOOLEAN /\ byHand' \in BOOLEAN
  BY <1>0, <1>5, Simple, <1>00 DEF TakeWarmLock, WarmStays, theRecords
<1>6. ASSUME NEW p \in Warmers, MakeHome(p)
      PROVE  lastWarm' \in BOOLEAN /\ crossed' \in BOOLEAN /\ faulty' \in BOOLEAN /\ byHand' \in BOOLEAN
  BY <1>0, <1>6, Making, <1>00 DEF MakeHome, WarmStays, theRecords
<1>7. ASSUME NEW p \in Warmers, CommitHome(p)
      PROVE  lastWarm' \in BOOLEAN /\ crossed' \in BOOLEAN /\ faulty' \in BOOLEAN /\ byHand' \in BOOLEAN
  BY <1>0, <1>7, Simple, <1>00 DEF CommitHome, WarmStays, theRecords
<1>8. ASSUME NEW p \in Warmers, HomeFails(p)
      PROVE  lastWarm' \in BOOLEAN /\ crossed' \in BOOLEAN /\ faulty' \in BOOLEAN /\ byHand' \in BOOLEAN
  BY <1>0, <1>8, Failing, <1>00 DEF HomeFails, WarmStays, theRecords, LeftWith
<1>9. ASSUME NEW p \in Warmers, ListRunning(p)
      PROVE  lastWarm' \in BOOLEAN /\ crossed' \in BOOLEAN /\ faulty' \in BOOLEAN /\ byHand' \in BOOLEAN
  BY <1>0, <1>9, Listing, <1>00 DEF ListRunning, WarmStays, theRecords
<1>10. ASSUME NEW p \in Warmers, RefreshNext(p)
      PROVE  lastWarm' \in BOOLEAN /\ crossed' \in BOOLEAN /\ faulty' \in BOOLEAN /\ byHand' \in BOOLEAN
  BY <1>0, <1>10, Refreshing, <1>00 DEF RefreshNext, WarmStays, theRecords, LeftWith, Stays, HelperBecomes
<1>11. ASSUME NEW p \in Warmers, LatestEnded(p)
      PROVE  lastWarm' \in BOOLEAN /\ crossed' \in BOOLEAN /\ faulty' \in BOOLEAN /\ byHand' \in BOOLEAN
  BY <1>0, <1>11, Choosing, <1>00 DEF LatestEnded, WarmStays, theRecords
<1>12. ASSUME NEW p \in Warmers, Respawn(p)
      PROVE  lastWarm' \in BOOLEAN /\ crossed' \in BOOLEAN /\ faulty' \in BOOLEAN /\ byHand' \in BOOLEAN
  BY <1>0, <1>12, Respawning, <1>00 DEF Respawn, WarmStays, theRecords, LeftWith, HelperBecomes
<1>13. ASSUME NEW p \in Warmers, Create(p)
      PROVE  lastWarm' \in BOOLEAN /\ crossed' \in BOOLEAN /\ faulty' \in BOOLEAN /\ byHand' \in BOOLEAN
  BY <1>0, <1>13, Creating, <1>00 DEF Create, WarmStays, theRecords, LeftWith, HelperBecomes
<1>14. ASSUME NEW p \in Warmers, RecordOutcome(p)
      PROVE  lastWarm' \in BOOLEAN /\ crossed' \in BOOLEAN /\ faulty' \in BOOLEAN /\ byHand' \in BOOLEAN
  BY <1>0, <1>14, Recording, <1>00 DEF RecordOutcome, theRecords
<1>15. ASSUME NEW p \in Warmers, Waited(p)
      PROVE  lastWarm' \in BOOLEAN /\ crossed' \in BOOLEAN /\ faulty' \in BOOLEAN /\ byHand' \in BOOLEAN
  BY <1>0, <1>15, Simple, <1>00 DEF Waited, theRecords
<1>16. ASSUME NEW p \in Warmers, Send(p)
      PROVE  lastWarm' \in BOOLEAN /\ crossed' \in BOOLEAN /\ faulty' \in BOOLEAN /\ byHand' \in BOOLEAN
  BY <1>0, <1>16, Ending, <1>00 DEF Send, theRecords
<1>17. ASSUME NEW p \in Warmers, Killed(p)
      PROVE  lastWarm' \in BOOLEAN /\ crossed' \in BOOLEAN /\ faulty' \in BOOLEAN /\ byHand' \in BOOLEAN
  <2>1. PICK t \in BOOLEAN : t = (crossed \/ p \in unrecorded)
    OBVIOUS
  <2>2. crossed' = t /\ faulty' = TRUE /\ lastWarm' = lastWarm /\ byHand' = byHand
    BY <1>17, <2>1 DEF Killed
  <2> QED
    BY <1>00, <2>2
<1>18. ASSUME NEW a \in AssistantIds, Started(a) \/ ProgramEnds(a) \/ Renamed(a)
      PROVE  lastWarm' \in BOOLEAN /\ crossed' \in BOOLEAN /\ faulty' \in BOOLEAN /\ byHand' \in BOOLEAN
  BY <1>0, <1>18, Milder, <1>00 DEF WorldStays
<1>19. ASSUME NEW a \in AssistantIds, Stopped(a) \/ RespawnedByHand(a)
      PROVE  lastWarm' \in BOOLEAN /\ crossed' \in BOOLEAN /\ faulty' \in BOOLEAN /\ byHand' \in BOOLEAN
  BY <1>00, <1>19, <1>0, Harsher DEF Stopped, RespawnedByHand, WorldStays
<1>20. CASE UNCHANGED helperVars
  BY <1>20, <1>00 DEF helperVars, theRecords
<1> QED
  BY <1>1, <1>2, <1>3, <1>4, <1>5, <1>6, <1>7, <1>8, <1>9, <1>10, <1>11, <1>12, <1>13, <1>14, <1>15, <1>16, <1>17, <1>18, <1>19, <1>20 DEF AssistantNext

LEMMA LinesTyped ==
  ASSUME AssistantInv, [AssistantNext]_helperVars
  PROVE  failure' \in BOOLEAN /\ hurried' \in BOOLEAN /\ delivered' \in Seq(Lines)
<1>0. AssistantTypeOK
  BY DEF AssistantInv
<1>00. failure \in BOOLEAN /\ hurried \in BOOLEAN /\ delivered \in Seq(Lines)
  BY <1>0 DEF AssistantTypeOK
<1>1. ASSUME NEW line \in Lines, Type(line)
      PROVE  failure' \in BOOLEAN /\ hurried' \in BOOLEAN /\ delivered' \in Seq(Lines)
  <2>1. PICK t \in BOOLEAN : t = (hurried \/ parked # Blank \/ \E p \in Warmers : CallAt(p, "take") \/ CallAt(p, "delete"))
    OBVIOUS
  <2>2. hurried' = t /\ failure' = failure /\ delivered' = delivered
    BY <1>1, <2>1 DEF Type
  <2> QED
    BY <1>00, <2>2
<1>2. ASSUME NEW p \in Warmers, BeginWarm(p)
      PROVE  failure' \in BOOLEAN /\ hurried' \in BOOLEAN /\ delivered' \in Seq(Lines)
  BY <1>0, <1>2, Begun, <1>00 DEF BeginWarm, theRecords
<1>3. ASSUME NEW p \in Warmers, ShowBuffer(p)
      PROVE  failure' \in BOOLEAN /\ hurried' \in BOOLEAN /\ delivered' \in Seq(Lines)
  BY <1>0, <1>3, Showing, <1>00 DEF ShowBuffer, theRecords
<1>4. ASSUME NEW p \in Warmers, DeleteBuffer(p)
      PROVE  failure' \in BOOLEAN /\ hurried' \in BOOLEAN /\ delivered' \in Seq(Lines)
  BY <1>0, <1>4, Simple, <1>00 DEF DeleteBuffer, theRecords
<1>5. ASSUME NEW p \in Warmers, TakeWarmLock(p)
      PROVE  failure' \in BOOLEAN /\ hurried' \in BOOLEAN /\ delivered' \in Seq(Lines)
  BY <1>0, <1>5, Simple, <1>00 DEF TakeWarmLock, WarmStays, theRecords
<1>6. ASSUME NEW p \in Warmers, MakeHome(p)
      PROVE  failure' \in BOOLEAN /\ hurried' \in BOOLEAN /\ delivered' \in Seq(Lines)
  BY <1>0, <1>6, Making, <1>00 DEF MakeHome, WarmStays, theRecords
<1>7. ASSUME NEW p \in Warmers, CommitHome(p)
      PROVE  failure' \in BOOLEAN /\ hurried' \in BOOLEAN /\ delivered' \in Seq(Lines)
  BY <1>0, <1>7, Simple, <1>00 DEF CommitHome, WarmStays, theRecords
<1>8. ASSUME NEW p \in Warmers, HomeFails(p)
      PROVE  failure' \in BOOLEAN /\ hurried' \in BOOLEAN /\ delivered' \in Seq(Lines)
  BY <1>0, <1>8, Failing, <1>00 DEF HomeFails, WarmStays, theRecords, LeftWith
<1>9. ASSUME NEW p \in Warmers, ListRunning(p)
      PROVE  failure' \in BOOLEAN /\ hurried' \in BOOLEAN /\ delivered' \in Seq(Lines)
  BY <1>0, <1>9, Listing, <1>00 DEF ListRunning, WarmStays, theRecords
<1>10. ASSUME NEW p \in Warmers, RefreshNext(p)
      PROVE  failure' \in BOOLEAN /\ hurried' \in BOOLEAN /\ delivered' \in Seq(Lines)
  BY <1>0, <1>10, Refreshing, <1>00 DEF RefreshNext, WarmStays, theRecords, LeftWith, Stays, HelperBecomes
<1>11. ASSUME NEW p \in Warmers, LatestEnded(p)
      PROVE  failure' \in BOOLEAN /\ hurried' \in BOOLEAN /\ delivered' \in Seq(Lines)
  BY <1>0, <1>11, Choosing, <1>00 DEF LatestEnded, WarmStays, theRecords
<1>12. ASSUME NEW p \in Warmers, Respawn(p)
      PROVE  failure' \in BOOLEAN /\ hurried' \in BOOLEAN /\ delivered' \in Seq(Lines)
  BY <1>0, <1>12, Respawning, <1>00 DEF Respawn, WarmStays, theRecords, LeftWith, HelperBecomes
<1>13. ASSUME NEW p \in Warmers, Create(p)
      PROVE  failure' \in BOOLEAN /\ hurried' \in BOOLEAN /\ delivered' \in Seq(Lines)
  BY <1>0, <1>13, Creating, <1>00 DEF Create, WarmStays, theRecords, LeftWith, HelperBecomes
<1>14. ASSUME NEW p \in Warmers, RecordOutcome(p)
      PROVE  failure' \in BOOLEAN /\ hurried' \in BOOLEAN /\ delivered' \in Seq(Lines)
  <2>1. call[p].worked \in BOOLEAN
    BY <1>0 DEF AssistantTypeOK, AssistantCall
  <2>2. PICK t \in BOOLEAN : t = ~call[p].worked
    BY <2>1
  <2>3. failure' = t /\ hurried' = hurried /\ delivered' = delivered
    BY <1>14, <2>2 DEF RecordOutcome
  <2> QED
    BY <1>00, <2>3
<1>15. ASSUME NEW p \in Warmers, Waited(p)
      PROVE  failure' \in BOOLEAN /\ hurried' \in BOOLEAN /\ delivered' \in Seq(Lines)
  BY <1>0, <1>15, Simple, <1>00 DEF Waited, theRecords
<1>16. ASSUME NEW p \in Warmers, Send(p)
      PROVE  failure' \in BOOLEAN /\ hurried' \in BOOLEAN /\ delivered' \in Seq(Lines)
  <2>1. call[p].at = "send" /\ call[p].line \in Lines
    BY <1>0, <1>16 DEF Send, CallAt, Asks, AssistantInv, AssistantTypeOK, AssistantCall
  <2> QED
    BY <1>00, <1>16, <2>1 DEF Send
<1>17. ASSUME NEW p \in Warmers, Killed(p)
      PROVE  failure' \in BOOLEAN /\ hurried' \in BOOLEAN /\ delivered' \in Seq(Lines)
  BY <1>0, <1>17, Ending, <1>00 DEF Killed, theRecords
<1>18. ASSUME NEW a \in AssistantIds, Started(a) \/ ProgramEnds(a) \/ Renamed(a)
      PROVE  failure' \in BOOLEAN /\ hurried' \in BOOLEAN /\ delivered' \in Seq(Lines)
  BY <1>0, <1>18, Milder, <1>00 DEF WorldStays
<1>19. ASSUME NEW a \in AssistantIds, Stopped(a) \/ RespawnedByHand(a)
      PROVE  failure' \in BOOLEAN /\ hurried' \in BOOLEAN /\ delivered' \in Seq(Lines)
  BY <1>00, <1>19, <1>0, Harsher DEF WorldStays
<1>20. CASE UNCHANGED helperVars
  BY <1>20, <1>00 DEF helperVars, theRecords
<1> QED
  BY <1>1, <1>2, <1>3, <1>4, <1>5, <1>6, <1>7, <1>8, <1>9, <1>10, <1>11, <1>12, <1>13, <1>14, <1>15, <1>16, <1>17, <1>18, <1>19, <1>20 DEF AssistantNext

LEMMA Typed ==
  ASSUME AssistantInv, [AssistantNext]_helperVars
  PROVE  AssistantTypeOK'
BY CallTyped, IdsTyped, HelpersTyped, PlacesTyped, PastTyped, LinesTyped DEF AssistantTypeOK

LEMMA LivesRun ==
  ASSUME AssistantInv, [AssistantNext]_helperVars
  PROVE  (\A b \in AssistantIds : helper[b].lives => Running(b))'
<1>0. AssistantTypeOK
  BY DEF AssistantInv
<1> USE DEF Running, OneAssistant, AssistantInv
<1>1. ASSUME NEW line \in Lines, Type(line)
      PROVE  (\A b \in AssistantIds : helper[b].lives => Running(b))'
  BY <1>0, <1>1, Typing DEF Type, theRecords
<1>2. ASSUME NEW p \in Warmers, BeginWarm(p)
      PROVE  (\A b \in AssistantIds : helper[b].lives => Running(b))'
  BY <1>0, <1>2, Begun DEF BeginWarm, theRecords
<1>3. ASSUME NEW p \in Warmers, ShowBuffer(p)
      PROVE  (\A b \in AssistantIds : helper[b].lives => Running(b))'
  BY <1>0, <1>3, Showing DEF ShowBuffer, theRecords
<1>4. ASSUME NEW p \in Warmers, DeleteBuffer(p)
      PROVE  (\A b \in AssistantIds : helper[b].lives => Running(b))'
  BY <1>0, <1>4, Simple DEF DeleteBuffer, theRecords
<1>5. ASSUME NEW p \in Warmers, TakeWarmLock(p)
      PROVE  (\A b \in AssistantIds : helper[b].lives => Running(b))'
  BY <1>0, <1>5, Simple DEF TakeWarmLock, WarmStays, theRecords
<1>6. ASSUME NEW p \in Warmers, MakeHome(p)
      PROVE  (\A b \in AssistantIds : helper[b].lives => Running(b))'
  BY <1>0, <1>6, Making DEF MakeHome, WarmStays, theRecords
<1>7. ASSUME NEW p \in Warmers, CommitHome(p)
      PROVE  (\A b \in AssistantIds : helper[b].lives => Running(b))'
  BY <1>0, <1>7, Simple DEF CommitHome, WarmStays, theRecords
<1>8. ASSUME NEW p \in Warmers, HomeFails(p)
      PROVE  (\A b \in AssistantIds : helper[b].lives => Running(b))'
  BY <1>0, <1>8, Failing DEF HomeFails, WarmStays, theRecords, LeftWith
<1>9. ASSUME NEW p \in Warmers, ListRunning(p)
      PROVE  (\A b \in AssistantIds : helper[b].lives => Running(b))'
  BY <1>0, <1>9, Listing DEF ListRunning, WarmStays, theRecords
<1>10. ASSUME NEW p \in Warmers, RefreshNext(p)
      PROVE  (\A b \in AssistantIds : helper[b].lives => Running(b))'
  BY <1>0, <1>10, Refreshing DEF RefreshNext, WarmStays, theRecords, LeftWith, Stays, HelperBecomes
<1>11. ASSUME NEW p \in Warmers, LatestEnded(p)
      PROVE  (\A b \in AssistantIds : helper[b].lives => Running(b))'
  BY <1>0, <1>11, Choosing DEF LatestEnded, WarmStays, theRecords
<1>12. ASSUME NEW p \in Warmers, Respawn(p)
      PROVE  (\A b \in AssistantIds : helper[b].lives => Running(b))'
  <2>1. \/ UNCHANGED theRecords
        \/ \E a \in AssistantIds : HelperBecomes(a, "starting", TRUE)
    BY <1>0, <1>12, Respawning
  <2>2. CASE UNCHANGED theRecords
    BY <1>0, <2>2 DEF theRecords, Running
  <2>3. ASSUME NEW a \in AssistantIds, HelperBecomes(a, "starting", TRUE)
        PROVE  (\A b \in AssistantIds : helper[b].lives => Running(b))'
    BY <1>0, <2>3 DEF HelperBecomes, Running
  <2> QED
    BY <2>1, <2>2, <2>3
<1>13. ASSUME NEW p \in Warmers, Create(p)
      PROVE  (\A b \in AssistantIds : helper[b].lives => Running(b))'
  BY <1>0, <1>13, Creating DEF Create, WarmStays, theRecords, LeftWith, HelperBecomes
<1>14. ASSUME NEW p \in Warmers, RecordOutcome(p)
      PROVE  (\A b \in AssistantIds : helper[b].lives => Running(b))'
  BY <1>0, <1>14, Recording DEF RecordOutcome, theRecords
<1>15. ASSUME NEW p \in Warmers, Waited(p)
      PROVE  (\A b \in AssistantIds : helper[b].lives => Running(b))'
  BY <1>0, <1>15, Simple DEF Waited, theRecords
<1>16. ASSUME NEW p \in Warmers, Send(p)
      PROVE  (\A b \in AssistantIds : helper[b].lives => Running(b))'
  BY <1>0, <1>16, Ending DEF Send, theRecords
<1>17. ASSUME NEW p \in Warmers, Killed(p)
      PROVE  (\A b \in AssistantIds : helper[b].lives => Running(b))'
  BY <1>0, <1>17, Ending DEF Killed, theRecords
<1>18. ASSUME NEW a \in AssistantIds, Started(a) \/ ProgramEnds(a) \/ Renamed(a)
      PROVE  (\A b \in AssistantIds : helper[b].lives => Running(b))'
  BY <1>0, <1>18, Milder DEF WorldStays
<1>19. ASSUME NEW a \in AssistantIds, Stopped(a) \/ RespawnedByHand(a)
      PROVE  (\A b \in AssistantIds : helper[b].lives => Running(b))'
  BY <1>0, <1>19, Harsher DEF WorldStays, HelperBecomes
<1>20. CASE UNCHANGED helperVars
  BY <1>20 DEF helperVars, theRecords
<1> QED
  BY <1>1, <1>2, <1>3, <1>4, <1>5, <1>6, <1>7, <1>8, <1>9, <1>10, <1>11, <1>12, <1>13, <1>14, <1>15, <1>16, <1>17, <1>18, <1>19, <1>20 DEF AssistantNext

(* A warm past the lock is the only one there.                             *)
LEMMA Alone ==
  ASSUME AssistantInv, NEW p \in Warmers, call[p].at \in UnderLock, NEW q \in Warmers, q # p
  PROVE  call[q].at \notin UnderLock
BY DEF AssistantInv, HoldsWarmLock

LEMMA KnowsKept ==
  ASSUME AssistantInv, [AssistantNext]_helperVars
  PROVE  (~byHand => \A q \in Warmers : KnowsRunning(q))'
<1>0. AssistantTypeOK
  BY DEF AssistantInv
<1>1. ASSUME NEW line \in Lines, Type(line)
      PROVE  (~byHand => \A q \in Warmers : KnowsRunning(q))'
  <2>1. UNCHANGED <<byHand, theRecords>>
    BY <1>1 DEF Type, theRecords
  <2>2. PICK p \in Warmers : Walks(p, "idle", "take")
    BY <1>0, <1>1, Typing
  <2> QED
    BY <2>1, <2>2 DEF theRecords, KnowsRunning, Walks, CallAt, Running, Ended, OneAssistant, AssistantInv
<1>2. ASSUME NEW p \in Warmers, BeginWarm(p)
      PROVE  (~byHand => \A q \in Warmers : KnowsRunning(q))'
  BY <1>0, <1>2, Begun, AssistantAssumption DEF BeginWarm, theRecords, KnowsRunning, HoldsWarmLock, UnderLock, Walks, CallAt, Running, Ended, OneAssistant, AssistantInv
<1>3. ASSUME NEW p \in Warmers, ShowBuffer(p)
      PROVE  (~byHand => \A q \in Warmers : KnowsRunning(q))'
  BY <1>0, <1>3, Showing, AssistantAssumption DEF ShowBuffer, theRecords, KnowsRunning, HoldsWarmLock, UnderLock, Walks, CallAt, Running, Ended, OneAssistant, AssistantInv
<1>4. ASSUME NEW p \in Warmers, DeleteBuffer(p)
      PROVE  (~byHand => \A q \in Warmers : KnowsRunning(q))'
  BY <1>0, <1>4, Simple, AssistantAssumption DEF DeleteBuffer, theRecords, KnowsRunning, HoldsWarmLock, UnderLock, Walks, CallAt, Running, Ended, OneAssistant, AssistantInv
<1>5. ASSUME NEW p \in Warmers, TakeWarmLock(p)
      PROVE  (~byHand => \A q \in Warmers : KnowsRunning(q))'
  BY <1>0, <1>5, Simple, AssistantAssumption DEF TakeWarmLock, WarmStays, theRecords, KnowsRunning, HoldsWarmLock, UnderLock, Walks, CallAt, Running, Ended, OneAssistant, AssistantInv
<1>6. ASSUME NEW p \in Warmers, MakeHome(p)
      PROVE  (~byHand => \A q \in Warmers : KnowsRunning(q))'
  BY <1>0, <1>6, Making, AssistantAssumption DEF MakeHome, WarmStays, theRecords, KnowsRunning, HoldsWarmLock, UnderLock, Walks, CallAt, Running, Ended, OneAssistant, AssistantInv
<1>7. ASSUME NEW p \in Warmers, CommitHome(p)
      PROVE  (~byHand => \A q \in Warmers : KnowsRunning(q))'
  BY <1>0, <1>7, Simple, AssistantAssumption DEF CommitHome, WarmStays, theRecords, KnowsRunning, HoldsWarmLock, UnderLock, Walks, CallAt, Running, Ended, OneAssistant, AssistantInv
<1>8. ASSUME NEW p \in Warmers, HomeFails(p)
      PROVE  (~byHand => \A q \in Warmers : KnowsRunning(q))'
  BY <1>0, <1>8, Failing, AssistantAssumption DEF HomeFails, WarmStays, theRecords, LeftWith, KnowsRunning, HoldsWarmLock, UnderLock, Walks, CallAt, Running, Ended, OneAssistant, AssistantInv
<1>9. ASSUME NEW p \in Warmers, ListRunning(p)
      PROVE  (~byHand => \A q \in Warmers : KnowsRunning(q))'
  BY <1>0, <1>9, Listing, AssistantAssumption DEF ListRunning, WarmStays, theRecords, KnowsRunning, HoldsWarmLock, UnderLock, Walks, CallAt, Running, Ended, OneAssistant, AssistantInv
<1>10. ASSUME NEW p \in Warmers, RefreshNext(p)
      PROVE  (~byHand => \A q \in Warmers : KnowsRunning(q))'
  <2> SUFFICES ASSUME ~byHand', NEW q \in Warmers
               PROVE  KnowsRunning(q)'
    OBVIOUS
  <2>1. PICK a \in AssistantIds \cap call[p].left :
           \/ Running(a) /\ helper[a].lives /\ LeftWith(p, "running", TRUE) /\ UNCHANGED theRecords
           \/ /\ Walks(p, "running", "running") /\ SameLine(p) /\ call'[p].left = call[p].left \ {a}
              /\ Stays
              /\ \/ Running(a) /\ ~helper[a].lives /\ HelperBecomes(a, "ended", FALSE)
                 \/ ~Running(a) /\ UNCHANGED theRecords
    BY <1>0, <1>10, Refreshing
  <2>2. CASE q # p
    <3>1. call'[q] = call[q] /\ call[q].at \notin UnderLock
      BY <2>1, <2>2, Alone DEF LeftWith, Walks, UnderLock
    <3> QED
      BY <3>1 DEF KnowsRunning, CallAt, UnderLock
  <2>3. CASE q = p
    <3>1. \A b \in AssistantIds : Running(b) => b \in call[p].left
      BY <1>10, <2>1 DEF AssistantInv, OneAssistant, KnowsRunning, CallAt, Walks, LeftWith, RefreshNext, WarmStays
    <3>2. CASE LeftWith(p, "running", TRUE)
      BY <2>3, <3>2 DEF LeftWith, Walks, KnowsRunning, CallAt
    <3>3. CASE /\ Walks(p, "running", "running") /\ call'[p].left = call[p].left \ {a}
               /\ HelperBecomes(a, "ended", FALSE)
      BY <2>3, <3>1, <3>3 DEF Walks, KnowsRunning, CallAt, HelperBecomes, Running
    <3>4. CASE /\ Walks(p, "running", "running") /\ call'[p].left = call[p].left \ {a}
               /\ ~Running(a) /\ UNCHANGED theRecords
      BY <2>3, <3>1, <3>4 DEF Walks, KnowsRunning, CallAt, theRecords, Running
    <3> QED
      BY <2>1, <3>2, <3>3, <3>4
  <2> QED
    BY <2>2, <2>3
<1>11. ASSUME NEW p \in Warmers, LatestEnded(p)
      PROVE  (~byHand => \A q \in Warmers : KnowsRunning(q))'
  BY <1>0, <1>11, Choosing, AssistantAssumption DEF LatestEnded, WarmStays, theRecords, KnowsRunning, HoldsWarmLock, UnderLock, Walks, CallAt, Running, Ended, OneAssistant, AssistantInv
<1>12. ASSUME NEW p \in Warmers, Respawn(p)
      PROVE  (~byHand => \A q \in Warmers : KnowsRunning(q))'
  <2> SUFFICES ASSUME ~byHand', NEW q \in Warmers
               PROVE  KnowsRunning(q)'
    OBVIOUS
  <2>1. LeftWith(p, "respawn", TRUE) \/ LeftWith(p, "respawn", FALSE)
    BY <1>0, <1>12, Respawning
  <2>2. CASE q # p
    <3>1. call'[q] = call[q] /\ call[q].at \notin UnderLock
      BY <2>1, <2>2, Alone DEF LeftWith, Walks, UnderLock
    <3> QED
      BY <3>1 DEF KnowsRunning, CallAt, UnderLock
  <2>3. CASE q = p
    BY <2>1, <2>3 DEF LeftWith, Walks, KnowsRunning, CallAt
  <2> QED
    BY <2>2, <2>3
<1>13. ASSUME NEW p \in Warmers, Create(p)
      PROVE  (~byHand => \A q \in Warmers : KnowsRunning(q))'
  <2> SUFFICES ASSUME ~byHand', NEW q \in Warmers
               PROVE  KnowsRunning(q)'
    OBVIOUS
  <2>1. LeftWith(p, "create", TRUE) \/ LeftWith(p, "create", FALSE)
    BY <1>0, <1>13, Creating
  <2>2. CASE q # p
    <3>1. call'[q] = call[q] /\ call[q].at \notin UnderLock
      BY <2>1, <2>2, Alone DEF LeftWith, Walks, UnderLock
    <3> QED
      BY <3>1 DEF KnowsRunning, CallAt, UnderLock
  <2>3. CASE q = p
    BY <2>1, <2>3 DEF LeftWith, Walks, KnowsRunning, CallAt
  <2> QED
    BY <2>2, <2>3
<1>14. ASSUME NEW p \in Warmers, RecordOutcome(p)
      PROVE  (~byHand => \A q \in Warmers : KnowsRunning(q))'
  BY <1>0, <1>14, Recording, AssistantAssumption DEF RecordOutcome, theRecords, KnowsRunning, HoldsWarmLock, UnderLock, Walks, CallAt, Running, Ended, OneAssistant, AssistantInv
<1>15. ASSUME NEW p \in Warmers, Waited(p)
      PROVE  (~byHand => \A q \in Warmers : KnowsRunning(q))'
  BY <1>0, <1>15, Simple, AssistantAssumption DEF Waited, theRecords, KnowsRunning, HoldsWarmLock, UnderLock, Walks, CallAt, Running, Ended, OneAssistant, AssistantInv
<1>16. ASSUME NEW p \in Warmers, Send(p)
      PROVE  (~byHand => \A q \in Warmers : KnowsRunning(q))'
  BY <1>0, <1>16, Ending, AssistantAssumption DEF Send, theRecords, KnowsRunning, HoldsWarmLock, UnderLock, Walks, CallAt, Running, Ended, OneAssistant, AssistantInv
<1>17. ASSUME NEW p \in Warmers, Killed(p)
      PROVE  (~byHand => \A q \in Warmers : KnowsRunning(q))'
  BY <1>0, <1>17, Ending, AssistantAssumption DEF Killed, theRecords, KnowsRunning, HoldsWarmLock, UnderLock, Walks, CallAt, Running, Ended, OneAssistant, AssistantInv
<1>18. ASSUME NEW a \in AssistantIds, Started(a) \/ ProgramEnds(a) \/ Renamed(a)
      PROVE  (~byHand => \A q \in Warmers : KnowsRunning(q))'
  BY <1>0, <1>18, Milder, AssistantAssumption DEF WorldStays, KnowsRunning, HoldsWarmLock, UnderLock, Walks, CallAt, Running, Ended, OneAssistant, AssistantInv
<1>19. ASSUME NEW a \in AssistantIds, Stopped(a) \/ RespawnedByHand(a)
      PROVE  (~byHand => \A q \in Warmers : KnowsRunning(q))'
  <2>1. CASE byHand' = TRUE
    BY <2>1
  <2>2. CASE HelperBecomes(a, "ended", FALSE) /\ byHand' = byHand
    <3>1. call' = call
      BY <1>0, <1>19, Harsher DEF WorldStays
    <3>2. \A b \in AssistantIds : Running(b)' => Running(b)
      BY <2>2 DEF HelperBecomes, Running
    <3>3. \A b \in AssistantIds : b \in Ended => b \in Ended'
      BY <2>2 DEF HelperBecomes, Ended
    <3> QED
      BY <2>2, <3>1, <3>2, <3>3 DEF AssistantInv, OneAssistant, KnowsRunning, CallAt, Ended
  <2> QED
    BY <1>0, <1>19, <2>1, <2>2, Harsher
<1>20. CASE UNCHANGED helperVars
  BY <1>20 DEF helperVars, theRecords, KnowsRunning, HoldsWarmLock, UnderLock, Walks, CallAt, Running, Ended, OneAssistant, AssistantInv
<1> QED
  BY <1>1, <1>2, <1>3, <1>4, <1>5, <1>6, <1>7, <1>8, <1>9, <1>10, <1>11, <1>12, <1>13, <1>14, <1>15, <1>16, <1>17, <1>18, <1>19, <1>20 DEF AssistantNext

LEMMA OneKept ==
  ASSUME AssistantInv, [AssistantNext]_helperVars
  PROVE  (~byHand => \A b, c \in AssistantIds : helper[b].lives /\ helper[c].lives => b = c)'
<1>0. AssistantTypeOK
  BY DEF AssistantInv
<1>1. ASSUME NEW line \in Lines, Type(line)
      PROVE  (~byHand => \A b, c \in AssistantIds : helper[b].lives /\ helper[c].lives => b = c)'
  BY <1>0, <1>1, Typing DEF Type, theRecords, KnowsRunning, CallAt, Running, OneAssistant, AssistantInv
<1>2. ASSUME NEW p \in Warmers, BeginWarm(p)
      PROVE  (~byHand => \A b, c \in AssistantIds : helper[b].lives /\ helper[c].lives => b = c)'
  BY <1>0, <1>2, Begun DEF BeginWarm, theRecords, KnowsRunning, CallAt, Running, OneAssistant, AssistantInv
<1>3. ASSUME NEW p \in Warmers, ShowBuffer(p)
      PROVE  (~byHand => \A b, c \in AssistantIds : helper[b].lives /\ helper[c].lives => b = c)'
  BY <1>0, <1>3, Showing DEF ShowBuffer, theRecords, KnowsRunning, CallAt, Running, OneAssistant, AssistantInv
<1>4. ASSUME NEW p \in Warmers, DeleteBuffer(p)
      PROVE  (~byHand => \A b, c \in AssistantIds : helper[b].lives /\ helper[c].lives => b = c)'
  BY <1>0, <1>4, Simple DEF DeleteBuffer, theRecords, KnowsRunning, CallAt, Running, OneAssistant, AssistantInv
<1>5. ASSUME NEW p \in Warmers, TakeWarmLock(p)
      PROVE  (~byHand => \A b, c \in AssistantIds : helper[b].lives /\ helper[c].lives => b = c)'
  BY <1>0, <1>5, Simple DEF TakeWarmLock, WarmStays, theRecords, KnowsRunning, CallAt, Running, OneAssistant, AssistantInv
<1>6. ASSUME NEW p \in Warmers, MakeHome(p)
      PROVE  (~byHand => \A b, c \in AssistantIds : helper[b].lives /\ helper[c].lives => b = c)'
  BY <1>0, <1>6, Making DEF MakeHome, WarmStays, theRecords, KnowsRunning, CallAt, Running, OneAssistant, AssistantInv
<1>7. ASSUME NEW p \in Warmers, CommitHome(p)
      PROVE  (~byHand => \A b, c \in AssistantIds : helper[b].lives /\ helper[c].lives => b = c)'
  BY <1>0, <1>7, Simple DEF CommitHome, WarmStays, theRecords, KnowsRunning, CallAt, Running, OneAssistant, AssistantInv
<1>8. ASSUME NEW p \in Warmers, HomeFails(p)
      PROVE  (~byHand => \A b, c \in AssistantIds : helper[b].lives /\ helper[c].lives => b = c)'
  BY <1>0, <1>8, Failing DEF HomeFails, WarmStays, theRecords, LeftWith, KnowsRunning, CallAt, Running, OneAssistant, AssistantInv
<1>9. ASSUME NEW p \in Warmers, ListRunning(p)
      PROVE  (~byHand => \A b, c \in AssistantIds : helper[b].lives /\ helper[c].lives => b = c)'
  BY <1>0, <1>9, Listing DEF ListRunning, WarmStays, theRecords, KnowsRunning, CallAt, Running, OneAssistant, AssistantInv
<1>10. ASSUME NEW p \in Warmers, RefreshNext(p)
      PROVE  (~byHand => \A b, c \in AssistantIds : helper[b].lives /\ helper[c].lives => b = c)'
  <2>1. \A b \in AssistantIds : helper'[b].lives => helper[b].lives
    BY <1>0, <1>10, Refreshing DEF HelperBecomes, theRecords
  <2> QED
    BY <1>10, <2>1 DEF AssistantInv, OneAssistant, RefreshNext, WarmStays
<1>11. ASSUME NEW p \in Warmers, LatestEnded(p)
      PROVE  (~byHand => \A b, c \in AssistantIds : helper[b].lives /\ helper[c].lives => b = c)'
  BY <1>0, <1>11, Choosing DEF LatestEnded, WarmStays, theRecords, KnowsRunning, CallAt, Running, OneAssistant, AssistantInv
<1>12. ASSUME NEW p \in Warmers, Respawn(p)
      PROVE  (~byHand => \A b, c \in AssistantIds : helper[b].lives /\ helper[c].lives => b = c)'
  <2>1. PICK a \in AssistantIds : HelperBecomes(a, "starting", TRUE) \/ UNCHANGED theRecords
    BY <1>0, <1>12, Respawning
  <2>2. CallAt(p, "respawn") /\ byHand' = byHand
    BY <1>12 DEF Respawn, WarmStays
  <2>3. CASE UNCHANGED theRecords
    BY <2>2, <2>3 DEF theRecords, AssistantInv, OneAssistant
  <2>4. CASE HelperBecomes(a, "starting", TRUE)
    <3>1. ~byHand => \A b \in AssistantIds : ~helper[b].lives
      BY <2>2 DEF AssistantInv, OneAssistant, KnowsRunning
    <3> QED
      BY <2>2, <2>4, <3>1 DEF HelperBecomes
  <2> QED
    BY <2>1, <2>3, <2>4
<1>13. ASSUME NEW p \in Warmers, Create(p)
      PROVE  (~byHand => \A b, c \in AssistantIds : helper[b].lives /\ helper[c].lives => b = c)'
  <2>1. PICK a \in AssistantIds : HelperBecomes(a, "starting", TRUE) \/ UNCHANGED theRecords
    BY <1>0, <1>13, Creating
  <2>2. CallAt(p, "create") /\ byHand' = byHand
    BY <1>13 DEF Create, WarmStays
  <2>3. CASE UNCHANGED theRecords
    BY <2>2, <2>3 DEF theRecords, AssistantInv, OneAssistant
  <2>4. CASE HelperBecomes(a, "starting", TRUE)
    <3>1. ~byHand => \A b \in AssistantIds : ~helper[b].lives
      BY <2>2 DEF AssistantInv, OneAssistant, KnowsRunning
    <3> QED
      BY <2>2, <2>4, <3>1 DEF HelperBecomes
  <2> QED
    BY <2>1, <2>3, <2>4
<1>14. ASSUME NEW p \in Warmers, RecordOutcome(p)
      PROVE  (~byHand => \A b, c \in AssistantIds : helper[b].lives /\ helper[c].lives => b = c)'
  BY <1>0, <1>14, Recording DEF RecordOutcome, theRecords, KnowsRunning, CallAt, Running, OneAssistant, AssistantInv
<1>15. ASSUME NEW p \in Warmers, Waited(p)
      PROVE  (~byHand => \A b, c \in AssistantIds : helper[b].lives /\ helper[c].lives => b = c)'
  BY <1>0, <1>15, Simple DEF Waited, theRecords, KnowsRunning, CallAt, Running, OneAssistant, AssistantInv
<1>16. ASSUME NEW p \in Warmers, Send(p)
      PROVE  (~byHand => \A b, c \in AssistantIds : helper[b].lives /\ helper[c].lives => b = c)'
  BY <1>0, <1>16, Ending DEF Send, theRecords, KnowsRunning, CallAt, Running, OneAssistant, AssistantInv
<1>17. ASSUME NEW p \in Warmers, Killed(p)
      PROVE  (~byHand => \A b, c \in AssistantIds : helper[b].lives /\ helper[c].lives => b = c)'
  BY <1>0, <1>17, Ending DEF Killed, theRecords, KnowsRunning, CallAt, Running, OneAssistant, AssistantInv
<1>18. ASSUME NEW a \in AssistantIds, Started(a) \/ ProgramEnds(a) \/ Renamed(a)
      PROVE  (~byHand => \A b, c \in AssistantIds : helper[b].lives /\ helper[c].lives => b = c)'
  BY <1>0, <1>18, Milder DEF WorldStays, KnowsRunning, CallAt, Running, OneAssistant, AssistantInv
<1>19. ASSUME NEW a \in AssistantIds, Stopped(a) \/ RespawnedByHand(a)
      PROVE  (~byHand => \A b, c \in AssistantIds : helper[b].lives /\ helper[c].lives => b = c)'
  BY <1>0, <1>19, Harsher DEF WorldStays, HelperBecomes, KnowsRunning, CallAt, Running, OneAssistant, AssistantInv
<1>20. CASE UNCHANGED helperVars
  BY <1>20 DEF helperVars, theRecords, KnowsRunning, CallAt, Running, OneAssistant, AssistantInv
<1> QED
  BY <1>1, <1>2, <1>3, <1>4, <1>5, <1>6, <1>7, <1>8, <1>9, <1>10, <1>11, <1>12, <1>13, <1>14, <1>15, <1>16, <1>17, <1>18, <1>19, <1>20 DEF AssistantNext

LEMMA OutcomeExplained ==
  ASSUME AssistantInv, [AssistantNext]_helperVars
  PROVE  (~lastWarm => faulty \/ byHand)'
<1>0. AssistantTypeOK
  BY DEF AssistantInv
<1> USE AssistantAssumption DEF KnowsRunning, HoldsWarmLock, UnderLock, HomeMade, CallAt, Running, NameFree, Ended, OneAssistant, AssistantInv
<1>1. ASSUME NEW line \in Lines, Type(line)
      PROVE  (~lastWarm => faulty \/ byHand)'
  BY <1>0, <1>1, Typing DEF Type, theRecords
<1>2. ASSUME NEW p \in Warmers, BeginWarm(p)
      PROVE  (~lastWarm => faulty \/ byHand)'
  BY <1>0, <1>2, Begun DEF BeginWarm, theRecords
<1>3. ASSUME NEW p \in Warmers, ShowBuffer(p)
      PROVE  (~lastWarm => faulty \/ byHand)'
  BY <1>0, <1>3, Showing DEF ShowBuffer, theRecords
<1>4. ASSUME NEW p \in Warmers, DeleteBuffer(p)
      PROVE  (~lastWarm => faulty \/ byHand)'
  BY <1>0, <1>4, Simple DEF DeleteBuffer, theRecords
<1>5. ASSUME NEW p \in Warmers, TakeWarmLock(p)
      PROVE  (~lastWarm => faulty \/ byHand)'
  BY <1>0, <1>5, Simple DEF TakeWarmLock, WarmStays, theRecords
<1>6. ASSUME NEW p \in Warmers, MakeHome(p)
      PROVE  (~lastWarm => faulty \/ byHand)'
  BY <1>0, <1>6, Making DEF MakeHome, WarmStays, theRecords
<1>7. ASSUME NEW p \in Warmers, CommitHome(p)
      PROVE  (~lastWarm => faulty \/ byHand)'
  BY <1>0, <1>7, Simple DEF CommitHome, WarmStays, theRecords
<1>8. ASSUME NEW p \in Warmers, HomeFails(p)
      PROVE  (~lastWarm => faulty \/ byHand)'
  BY <1>0, <1>8, Failing DEF HomeFails, WarmStays, theRecords, LeftWith
<1>9. ASSUME NEW p \in Warmers, ListRunning(p)
      PROVE  (~lastWarm => faulty \/ byHand)'
  BY <1>0, <1>9, Listing DEF ListRunning, WarmStays, theRecords
<1>10. ASSUME NEW p \in Warmers, RefreshNext(p)
      PROVE  (~lastWarm => faulty \/ byHand)'
  BY <1>0, <1>10, Refreshing DEF RefreshNext, WarmStays, theRecords, LeftWith, Stays, HelperBecomes
<1>11. ASSUME NEW p \in Warmers, LatestEnded(p)
      PROVE  (~lastWarm => faulty \/ byHand)'
  BY <1>0, <1>11, Choosing DEF LatestEnded, WarmStays, theRecords
<1>12. ASSUME NEW p \in Warmers, Respawn(p)
      PROVE  (~lastWarm => faulty \/ byHand)'
  BY <1>0, <1>12, Respawning DEF Respawn, WarmStays, theRecords, LeftWith, HelperBecomes
<1>13. ASSUME NEW p \in Warmers, Create(p)
      PROVE  (~lastWarm => faulty \/ byHand)'
  BY <1>0, <1>13, Creating DEF Create, WarmStays, theRecords, LeftWith, HelperBecomes
<1>14. ASSUME NEW p \in Warmers, RecordOutcome(p)
      PROVE  (~lastWarm => faulty \/ byHand)'
  BY <1>0, <1>14, Recording DEF RecordOutcome, theRecords
<1>15. ASSUME NEW p \in Warmers, Waited(p)
      PROVE  (~lastWarm => faulty \/ byHand)'
  BY <1>0, <1>15, Simple DEF Waited, theRecords
<1>16. ASSUME NEW p \in Warmers, Send(p)
      PROVE  (~lastWarm => faulty \/ byHand)'
  BY <1>0, <1>16, Ending DEF Send, theRecords
<1>17. ASSUME NEW p \in Warmers, Killed(p)
      PROVE  (~lastWarm => faulty \/ byHand)'
  BY <1>0, <1>17, Ending DEF Killed, theRecords
<1>18. ASSUME NEW a \in AssistantIds, Started(a) \/ ProgramEnds(a) \/ Renamed(a)
      PROVE  (~lastWarm => faulty \/ byHand)'
  BY <1>0, <1>18, Milder DEF WorldStays
<1>19. ASSUME NEW a \in AssistantIds, Stopped(a) \/ RespawnedByHand(a)
      PROVE  (~lastWarm => faulty \/ byHand)'
  BY <1>0, <1>19, Harsher DEF WorldStays, HelperBecomes
<1>20. CASE UNCHANGED helperVars
  BY <1>20 DEF helperVars, theRecords
<1> QED
  BY <1>1, <1>2, <1>3, <1>4, <1>5, <1>6, <1>7, <1>8, <1>9, <1>10, <1>11, <1>12, <1>13, <1>14, <1>15, <1>16, <1>17, <1>18, <1>19, <1>20 DEF AssistantNext

(* What becomes of the outcomes when nobody leaves, records or is killed;   *)
(* when one leaves; when one records; when one is killed.                  *)
Settled == UNCHANGED <<unrecorded, crossed, lastWarm, failure>>

LEMMA OutcomesSettled ==
  ASSUME Outcomes, Settled, unrecorded \in SUBSET Warmers,
         NEW p \in Warmers, NEW from \in CallPlaces, NEW place \in CallPlaces,
         Walks(p, from, place), from # "record", place # "record"
  PROVE  Outcomes'
<1>1. \A q \in Warmers : CallAt(q, "record")' <=> CallAt(q, "record")
  BY DEF Walks, CallAt
<1>2. \A q \in unrecorded : q # p /\ call'[q] = call[q]
  BY DEF Outcomes, Walks, CallAt
<1> QED
  BY <1>1, <1>2 DEF Outcomes, Settled

LEMMA OutcomesLeft ==
  ASSUME Outcomes, unrecorded \in SUBSET Warmers, failure' = failure,
         NEW p \in Warmers, NEW from \in CallPlaces, NEW t \in BOOLEAN, LeftWith(p, from, t)
  PROVE  Outcomes'
<1>1. /\ \A q \in Warmers : CallAt(q, "record")' <=> CallAt(q, "record") \/ q = p
      /\ unrecorded' = unrecorded \cup {p} /\ call'[p].worked = t /\ lastWarm' = t
      /\ ~crossed' => unrecorded = {}
  BY DEF LeftWith, Walks, CallAt
<1>2. (\A q \in Warmers : q \in unrecorded <=> CallAt(q, "record"))'
  BY <1>1 DEF Outcomes
<1>3. ~crossed' => unrecorded' = {p}
  BY <1>1
<1> QED
  BY <1>1, <1>2, <1>3 DEF Outcomes

LEMMA OutcomesRecorded ==
  ASSUME AssistantTypeOK, Outcomes, NEW p \in Warmers, RecordOutcome(p)
  PROVE  Outcomes'
<1>1. /\ \A q \in Warmers : CallAt(q, "record")' <=> CallAt(q, "record") /\ q # p
      /\ \A q \in Warmers : q # p => call'[q] = call[q]
  BY Recording DEF Walks, CallAt
<1>2. /\ unrecorded' = unrecorded \ {p} /\ crossed' = crossed /\ lastWarm' = lastWarm
      /\ CallAt(p, "record")
  BY DEF RecordOutcome
<1>3. unrecorded \in SUBSET Warmers /\ lastWarm \in BOOLEAN /\ call[p].worked \in BOOLEAN
  BY DEF AssistantTypeOK, AssistantCall
<1>4. (\A q \in Warmers : q \in unrecorded <=> CallAt(q, "record"))'
  BY <1>1, <1>2, <1>3 DEF Outcomes
<1>5. ~crossed => unrecorded = {p} /\ call[p].worked = lastWarm
  BY <1>2, <1>3 DEF Outcomes
<1>6. ~crossed => failure' = ~lastWarm
  BY <1>5 DEF RecordOutcome
<1>7. ~crossed' => unrecorded' = {}
  BY <1>2, <1>5
<1>8. (~crossed /\ unrecorded = {} => failure = ~lastWarm)'
  BY <1>2, <1>6
<1> QED
  BY <1>4, <1>7, <1>8 DEF Outcomes

LEMMA OutcomesKilled ==
  ASSUME AssistantTypeOK, Outcomes, NEW p \in Warmers, Killed(p)
  PROVE  Outcomes'
<1>1. /\ \A q \in Warmers : CallAt(q, "record")' <=> CallAt(q, "record") /\ q # p
      /\ \A q \in Warmers : q # p => call'[q] = call[q]
  BY Ending DEF Walks, CallAt
<1>2. /\ unrecorded' = unrecorded \ {p} /\ lastWarm' = lastWarm /\ failure' = failure
      /\ ~crossed' => ~crossed /\ unrecorded' = unrecorded /\ p \notin unrecorded
  BY DEF Killed
<1>3. unrecorded \in SUBSET Warmers
  BY DEF AssistantTypeOK
<1>4. (\A q \in Warmers : q \in unrecorded <=> CallAt(q, "record"))'
  BY <1>1, <1>2, <1>3 DEF Outcomes
<1>5. (~crossed => \A p1, q \in unrecorded : p1 = q)'
  BY <1>2 DEF Outcomes
<1>6. (~crossed => \A q \in unrecorded : call[q].worked = lastWarm)'
  BY <1>1, <1>2, <1>3 DEF Outcomes
<1>7. (~crossed /\ unrecorded = {} => failure = ~lastWarm)'
  BY <1>2 DEF Outcomes
<1> QED
  BY <1>4, <1>5, <1>6, <1>7 DEF Outcomes

LEMMA OutcomesKept ==
  ASSUME AssistantInv, [AssistantNext]_helperVars
  PROVE  Outcomes'
<1>0. AssistantTypeOK
  BY DEF AssistantInv
<1>00. Outcomes /\ unrecorded \in SUBSET Warmers
  BY DEF AssistantInv, AssistantTypeOK
<1>1. ASSUME NEW line \in Lines, Type(line)
      PROVE  Outcomes'
  <2>1. PICK p \in Warmers : Walks(p, "idle", "take")
    BY <1>0, <1>1, Typing
  <2>2. Settled
    BY <1>1 DEF Type, Settled
  <2> QED
    BY <1>00, <2>1, <2>2, OutcomesSettled DEF CallPlaces
<1>2. ASSUME NEW p \in Warmers, BeginWarm(p)
      PROVE  Outcomes'
  <2>1. Walks(p, "idle", "lock") /\ Settled
    BY <1>0, <1>2, Begun DEF BeginWarm, Settled
  <2> QED
    BY <1>00, <2>1, OutcomesSettled DEF CallPlaces
<1>3. ASSUME NEW p \in Warmers, ShowBuffer(p)
      PROVE  Outcomes'
  <2>1. (Walks(p, "take", "idle") \/ Walks(p, "take", "delete")) /\ Settled
    BY <1>0, <1>3, Showing DEF ShowBuffer, Settled
  <2> QED
    BY <1>00, <2>1, OutcomesSettled DEF CallPlaces
<1>4. ASSUME NEW p \in Warmers, DeleteBuffer(p)
      PROVE  Outcomes'
  <2>1. Walks(p, "delete", "lock") /\ Settled
    BY <1>0, <1>4, Simple DEF DeleteBuffer, Settled
  <2> QED
    BY <1>00, <2>1, OutcomesSettled DEF CallPlaces
<1>5. ASSUME NEW p \in Warmers, TakeWarmLock(p)
      PROVE  Outcomes'
  <2>1. Walks(p, "lock", "home") /\ Settled
    BY <1>0, <1>5, Simple DEF TakeWarmLock, WarmStays, Settled
  <2> QED
    BY <1>00, <2>1, OutcomesSettled DEF CallPlaces
<1>6. ASSUME NEW p \in Warmers, MakeHome(p)
      PROVE  Outcomes'
  <2>1. (Walks(p, "home", "commit") \/ Walks(p, "home", "home")) /\ Settled
    BY <1>0, <1>6, Making DEF MakeHome, WarmStays, Settled
  <2> QED
    BY <1>00, <2>1, OutcomesSettled DEF CallPlaces
<1>7. ASSUME NEW p \in Warmers, CommitHome(p)
      PROVE  Outcomes'
  <2>1. Walks(p, "commit", "home") /\ Settled
    BY <1>0, <1>7, Simple DEF CommitHome, WarmStays, Settled
  <2> QED
    BY <1>00, <2>1, OutcomesSettled DEF CallPlaces
<1>8. ASSUME NEW p \in Warmers, HomeFails(p)
      PROVE  Outcomes'
  <2>1. LeftWith(p, "home", FALSE) \/ LeftWith(p, "commit", FALSE)
    BY <1>0, <1>8, Failing
  <2>2. failure' = failure
    BY <1>8 DEF HomeFails, WarmStays
  <2> QED
    BY <1>00, <2>1, <2>2, OutcomesLeft DEF CallPlaces
<1>9. ASSUME NEW p \in Warmers, ListRunning(p)
      PROVE  Outcomes'
  <2>1. Walks(p, "home", "running") /\ Settled
    BY <1>0, <1>9, Listing DEF ListRunning, WarmStays, Settled
  <2> QED
    BY <1>00, <2>1, OutcomesSettled DEF CallPlaces
<1>10. ASSUME NEW p \in Warmers, RefreshNext(p)
      PROVE  Outcomes'
  <2>1. failure' = failure
    BY <1>10 DEF RefreshNext, WarmStays
  <2>2. LeftWith(p, "running", TRUE) \/ (Walks(p, "running", "running") /\ Stays)
    BY <1>0, <1>10, Refreshing
  <2>3. CASE LeftWith(p, "running", TRUE)
    BY <1>00, <2>1, <2>3, OutcomesLeft DEF CallPlaces
  <2>4. CASE Walks(p, "running", "running") /\ Stays
    BY <1>00, <2>1, <2>4, OutcomesSettled DEF CallPlaces, Stays, Settled
  <2> QED
    BY <2>2, <2>3, <2>4
<1>11. ASSUME NEW p \in Warmers, LatestEnded(p)
      PROVE  Outcomes'
  <2>1. (Walks(p, "running", "create") \/ Walks(p, "running", "respawn")) /\ Settled
    BY <1>0, <1>11, Choosing DEF LatestEnded, WarmStays, Settled
  <2> QED
    BY <1>00, <2>1, OutcomesSettled DEF CallPlaces
<1>12. ASSUME NEW p \in Warmers, Respawn(p)
      PROVE  Outcomes'
  <2>1. LeftWith(p, "respawn", TRUE) \/ LeftWith(p, "respawn", FALSE)
    BY <1>0, <1>12, Respawning
  <2>2. failure' = failure
    BY <1>12 DEF Respawn, WarmStays
  <2> QED
    BY <1>00, <2>1, <2>2, OutcomesLeft DEF CallPlaces
<1>13. ASSUME NEW p \in Warmers, Create(p)
      PROVE  Outcomes'
  <2>1. LeftWith(p, "create", TRUE) \/ LeftWith(p, "create", FALSE)
    BY <1>0, <1>13, Creating
  <2>2. failure' = failure
    BY <1>13 DEF Create, WarmStays
  <2> QED
    BY <1>00, <2>1, <2>2, OutcomesLeft DEF CallPlaces
<1>14. ASSUME NEW p \in Warmers, RecordOutcome(p)
      PROVE  Outcomes'
  BY <1>0, <1>00, <1>14, OutcomesRecorded
<1>15. ASSUME NEW p \in Warmers, Waited(p)
      PROVE  Outcomes'
  <2>1. Walks(p, "wait", "send") /\ Settled
    BY <1>0, <1>15, Simple DEF Waited, Settled
  <2> QED
    BY <1>00, <2>1, OutcomesSettled DEF CallPlaces
<1>16. ASSUME NEW p \in Warmers, Send(p)
      PROVE  Outcomes'
  <2>1. Walks(p, "send", "idle") /\ Settled
    BY <1>0, <1>16, Ending DEF Send, Settled, CallAt
  <2> QED
    BY <1>00, <2>1, OutcomesSettled DEF CallPlaces
<1>17. ASSUME NEW p \in Warmers, Killed(p)
      PROVE  Outcomes'
  BY <1>0, <1>00, <1>17, OutcomesKilled
<1>18. ASSUME NEW a \in AssistantIds, Started(a) \/ ProgramEnds(a) \/ Renamed(a)
      PROVE  Outcomes'
  BY <1>0, <1>00, <1>18, Milder DEF WorldStays, Outcomes, CallAt
<1>19. ASSUME NEW a \in AssistantIds, Stopped(a) \/ RespawnedByHand(a)
      PROVE  Outcomes'
  <2>1. WorldStays
    BY <1>0, <1>19, Harsher
  <2> QED
    BY <1>00, <2>1 DEF WorldStays, Outcomes, CallAt
<1>20. CASE UNCHANGED helperVars
  BY <1>20, <1>00 DEF helperVars, Outcomes, CallAt
<1> QED
  BY <1>1, <1>2, <1>3, <1>4, <1>5, <1>6, <1>7, <1>8, <1>9, <1>10, <1>11, <1>12, <1>13, <1>14, <1>15, <1>16, <1>17, <1>18, <1>19, <1>20 DEF AssistantNext

(* What becomes of the lines: when a call goes on with its line; when it   *)
(* drops it; when one is typed, shown, deleted, sent.                      *)
Untouched == UNCHANGED <<parked, delivered, hurried>>
Hands == {"take", "delete"}

LEMMA HandKept ==
  ASSUME OneHand, Untouched, NEW p \in Warmers, NEW from \in CallPlaces, NEW place \in CallPlaces,
         Walks(p, from, place), SameLine(p), from \notin Hands, place \notin Hands
  PROVE  OneHand'
<1> SUFFICES ASSUME ~hurried' PROVE OneHand'
  BY DEF OneHand
<1>1. ~hurried /\ parked' = parked /\ delivered' = delivered
  BY DEF Untouched
<1>2. \A q \in Warmers : call'[q].line = call[q].line
  BY DEF Walks, SameLine
<1>3. /\ \A q \in Warmers : call'[q].at \in Hands <=> call[q].at \in Hands
      /\ \A q \in Warmers : CallAt(q, "delete")' <=> CallAt(q, "delete")
  BY DEF Walks, Hands, CallAt
<1>4. /\ (\A q, r \in Warmers : call[q].line # Blank /\ call[q].line = call[r].line => q = r)'
      /\ (\A q \in Warmers : call[q].line # Blank /\ call[q].line = parked => CallAt(q, "delete"))'
      /\ (\A q, r \in Warmers : call[q].at \in Hands /\ call[r].at \in Hands => q = r)'
  BY <1>1, <1>2, <1>3 DEF OneHand, Hands
<1>5. (/\ \A i, j \in 1..Len(delivered) : delivered[i] = delivered[j] => i = j
       /\ \A i \in 1..Len(delivered) : delivered[i] # parked
       /\ \A q \in Warmers, i \in 1..Len(delivered) : delivered[i] # call[q].line)'
  BY <1>1, <1>2 DEF OneHand
<1> QED
  BY <1>4, <1>5 DEF OneHand, Hands

LEMMA HandDropped ==
  ASSUME OneHand, Untouched, delivered \in Seq(Lines), NEW p \in Warmers,
         NEW from \in CallPlaces, NEW place \in CallPlaces,
         Walks(p, from, place), call'[p].line = Blank, place \notin Hands
  PROVE  OneHand'
<1> SUFFICES ASSUME ~hurried' PROVE OneHand'
  BY DEF OneHand
<1>1. ~hurried /\ parked' = parked /\ delivered' = delivered
  BY DEF Untouched
<1>2. \A q \in Warmers : q # p => call'[q] = call[q]
  BY DEF Walks
<1>3. call'[p].line = Blank /\ call'[p].at \notin Hands
  BY DEF Walks
<1>4. \A i \in 1..Len(delivered) : delivered[i] # Blank
  BY AssistantAssumption
<1>5. /\ (\A q, r \in Warmers : call[q].line # Blank /\ call[q].line = call[r].line => q = r)'
      /\ (\A q \in Warmers : call[q].line # Blank /\ call[q].line = parked => CallAt(q, "delete"))'
      /\ (\A q, r \in Warmers : call[q].at \in Hands /\ call[r].at \in Hands => q = r)'
  BY <1>1, <1>2, <1>3 DEF OneHand, Hands, CallAt
<1>6. (/\ \A i, j \in 1..Len(delivered) : delivered[i] = delivered[j] => i = j
       /\ \A i \in 1..Len(delivered) : delivered[i] # parked
       /\ \A q \in Warmers, i \in 1..Len(delivered) : delivered[i] # call[q].line)'
  BY <1>1, <1>2, <1>3, <1>4 DEF OneHand
<1> QED
  BY <1>5, <1>6 DEF OneHand, Hands

LEMMA HandTyped ==
  ASSUME AssistantTypeOK, OneHand, NEW line \in Lines, Type(line)
  PROVE  OneHand'
<1> SUFFICES ASSUME ~hurried' PROVE OneHand'
  BY DEF OneHand
<1>1. PICK p \in Warmers : Walks(p, "idle", "take") /\ call'[p].line = Blank /\ call'[p].asks = TRUE
  BY Typing
<1>2. /\ ~hurried /\ parked' = line /\ delivered' = delivered
      /\ \A q \in Warmers : call[q].at \notin Hands /\ call[q].line # line
  BY DEF Type, Hands, CallAt
<1>3. /\ \A q \in Warmers : q # p => call'[q] = call[q]
      /\ call'[p].line = Blank /\ line # Blank
  BY <1>1, AssistantAssumption DEF Walks
<1>4. \A i \in 1..Len(delivered) : delivered[i] # Blank /\ delivered[i] # line
  <2>1. delivered \in Seq(Lines)
    BY DEF AssistantTypeOK
  <2>2. \A other \in Range(delivered) : other # line
    BY DEF Type
  <2>3. \A i \in 1..Len(delivered) : delivered[i] \in Range(delivered)
    BY <2>1 DEF Range
  <2> QED
    BY <2>1, <2>2, <2>3, AssistantAssumption
<1>5. /\ (\A q, r \in Warmers : call[q].line # Blank /\ call[q].line = call[r].line => q = r)'
      /\ (\A q \in Warmers : call[q].line # Blank /\ call[q].line = parked => CallAt(q, "delete"))'
      /\ (\A q, r \in Warmers : call[q].at \in Hands /\ call[r].at \in Hands => q = r)'
  BY <1>2, <1>3 DEF OneHand, Hands, CallAt
<1>6. (/\ \A i, j \in 1..Len(delivered) : delivered[i] = delivered[j] => i = j
       /\ \A i \in 1..Len(delivered) : delivered[i] # parked
       /\ \A q \in Warmers, i \in 1..Len(delivered) : delivered[i] # call[q].line)'
  BY <1>2, <1>3, <1>4 DEF OneHand
<1> QED
  BY <1>5, <1>6 DEF OneHand, Hands

LEMMA HandShown ==
  ASSUME OneHand, Untouched, NEW p \in Warmers, Walks(p, "take", "delete"), parked # Blank,
         call'[p].line = parked
  PROVE  OneHand'
<1> SUFFICES ASSUME ~hurried' PROVE OneHand'
  BY DEF OneHand
<1>1. ~hurried /\ parked' = parked /\ delivered' = delivered
  BY DEF Untouched
<1>2. /\ \A q \in Warmers : q # p => call'[q] = call[q] /\ call[q].at \notin Hands
      /\ call'[p].at = "delete"
  BY <1>1 DEF Walks, OneHand, Hands
<1>3. \A q \in Warmers : q # p => call[q].line # parked
  BY <1>1, <1>2 DEF OneHand, Hands, CallAt
<1>4. /\ (\A q, r \in Warmers : call[q].line # Blank /\ call[q].line = call[r].line => q = r)'
      /\ (\A q \in Warmers : call[q].line # Blank /\ call[q].line = parked => CallAt(q, "delete"))'
      /\ (\A q, r \in Warmers : call[q].at \in Hands /\ call[r].at \in Hands => q = r)'
  BY <1>1, <1>2, <1>3 DEF OneHand, Hands, CallAt
<1>5. (/\ \A i, j \in 1..Len(delivered) : delivered[i] = delivered[j] => i = j
       /\ \A i \in 1..Len(delivered) : delivered[i] # parked
       /\ \A q \in Warmers, i \in 1..Len(delivered) : delivered[i] # call[q].line)'
  BY <1>1, <1>2 DEF OneHand
<1> QED
  BY <1>4, <1>5 DEF OneHand, Hands

LEMMA HandDeleted ==
  ASSUME AssistantTypeOK, OneHand, NEW p \in Warmers, DeleteBuffer(p)
  PROVE  OneHand'
<1> SUFFICES ASSUME ~hurried' PROVE OneHand'
  BY DEF OneHand
<1>1. ~hurried /\ parked' = Blank /\ delivered' = delivered
  BY DEF DeleteBuffer
<1>2. /\ \A q \in Warmers : q # p => call'[q] = call[q]
      /\ call'[p].at = "lock" /\ call'[p].line = call[p].line
  BY Simple DEF Walks, SameLine
<1>3. \A i \in 1..Len(delivered) : delivered[i] # Blank
  BY AssistantAssumption DEF AssistantTypeOK
<1>4. /\ (\A q, r \in Warmers : call[q].line # Blank /\ call[q].line = call[r].line => q = r)'
      /\ (\A q \in Warmers : call[q].line # Blank /\ call[q].line = parked => CallAt(q, "delete"))'
      /\ (\A q, r \in Warmers : call[q].at \in Hands /\ call[r].at \in Hands => q = r)'
  BY <1>1, <1>2 DEF OneHand, Hands, CallAt
<1>5. (/\ \A i, j \in 1..Len(delivered) : delivered[i] = delivered[j] => i = j
       /\ \A i \in 1..Len(delivered) : delivered[i] # parked
       /\ \A q \in Warmers, i \in 1..Len(delivered) : delivered[i] # call[q].line)'
  BY <1>1, <1>2, <1>3 DEF OneHand
<1> QED
  BY <1>4, <1>5 DEF OneHand, Hands

LEMMA HandSent ==
  ASSUME AssistantTypeOK, OneHand, NEW p \in Warmers, Asks(p), Send(p)
  PROVE  OneHand'
<1> SUFFICES ASSUME ~hurried' PROVE OneHand'
  BY DEF OneHand
<1> DEFINE line == call[p].line
<1>1. ~hurried /\ parked' = parked /\ call[p].at = "send"
  BY DEF Send, CallAt
<1>2. /\ \A q \in Warmers : q # p => call'[q] = call[q]
      /\ call'[p].at = "idle" /\ call'[p].line = Blank
  BY Ending DEF Walks
<1>3. delivered \in Seq(Lines) /\ line \in Lines /\ line # Blank
  BY <1>1 DEF AssistantTypeOK, AssistantCall, Asks
<1>4. /\ line # parked
      /\ \A i \in 1..Len(delivered) : delivered[i] # line /\ delivered[i] # Blank
      /\ \A q \in Warmers : q # p => call[q].line # line
  BY <1>1, <1>3, AssistantAssumption DEF OneHand, CallAt
<1>5. /\ (\A q, r \in Warmers : call[q].line # Blank /\ call[q].line = call[r].line => q = r)'
      /\ (\A q \in Warmers : call[q].line # Blank /\ call[q].line = parked => CallAt(q, "delete"))'
      /\ (\A q, r \in Warmers : call[q].at \in Hands /\ call[r].at \in Hands => q = r)'
  BY <1>1, <1>2 DEF OneHand, Hands, CallAt
<1>6. CASE delivered' = delivered
  <2>1. (/\ \A i, j \in 1..Len(delivered) : delivered[i] = delivered[j] => i = j
         /\ \A i \in 1..Len(delivered) : delivered[i] # parked
         /\ \A q \in Warmers, i \in 1..Len(delivered) : delivered[i] # call[q].line)'
    BY <1>1, <1>2, <1>4, <1>6 DEF OneHand
  <2> QED
    BY <1>5, <2>1 DEF OneHand, Hands
<1>7. CASE delivered' = Append(delivered, line)
  <2>1. /\ Len(delivered') = Len(delivered) + 1 /\ delivered'[Len(delivered) + 1] = line
        /\ Len(delivered) \in Nat
        /\ \A i \in 1..Len(delivered) : delivered'[i] = delivered[i]
    BY <1>3, <1>7
  <2>2. \A i \in 1..Len(delivered') : i \in 1..Len(delivered) \/ i = Len(delivered) + 1
    BY <2>1
  <2>3. (\A i, j \in 1..Len(delivered) : delivered[i] = delivered[j] => i = j)'
    BY <1>1, <1>4, <2>1, <2>2 DEF OneHand
  <2>4. (\A i \in 1..Len(delivered) : delivered[i] # parked)'
    BY <1>1, <1>4, <2>1, <2>2 DEF OneHand
  <2>5. (\A q \in Warmers, i \in 1..Len(delivered) : delivered[i] # call[q].line)'
    BY <1>1, <1>2, <1>3, <1>4, <2>1, <2>2 DEF OneHand
  <2> QED
    BY <1>5, <2>3, <2>4, <2>5 DEF OneHand, Hands
<1> QED
  BY <1>6, <1>7 DEF Send

LEMMA OneHandKept ==
  ASSUME AssistantInv, [AssistantNext]_helperVars
  PROVE  OneHand'
<1>0. AssistantTypeOK
  BY DEF AssistantInv
<1>00. OneHand /\ delivered \in Seq(Lines)
  BY DEF AssistantInv, AssistantTypeOK
<1>1. ASSUME NEW line \in Lines, Type(line)
      PROVE  OneHand'
  BY <1>0, <1>00, <1>1, HandTyped
<1>2. ASSUME NEW p \in Warmers, BeginWarm(p)
      PROVE  OneHand'
  <2>1. Walks(p, "idle", "lock") /\ call'[p].line = Blank /\ Untouched
    BY <1>0, <1>2, Begun DEF BeginWarm, Untouched
  <2> QED
    BY <1>00, <2>1, HandDropped DEF CallPlaces, Hands
<1>3. ASSUME NEW p \in Warmers, ShowBuffer(p)
      PROVE  OneHand'
  <2>1. Untouched
    BY <1>3 DEF ShowBuffer, Untouched
  <2>2. CASE Walks(p, "take", "idle") /\ call'[p].line = Blank
    BY <1>00, <2>1, <2>2, HandDropped DEF CallPlaces, Hands
  <2>3. CASE parked # Blank /\ Walks(p, "take", "delete") /\ call'[p].line = parked
    BY <1>00, <2>1, <2>3, HandShown
  <2> QED
    BY <1>0, <1>3, <2>2, <2>3, Showing
<1>4. ASSUME NEW p \in Warmers, DeleteBuffer(p)
      PROVE  OneHand'
  BY <1>0, <1>00, <1>4, HandDeleted
<1>5. ASSUME NEW p \in Warmers, TakeWarmLock(p)
      PROVE  OneHand'
  <2>1. (Walks(p, "lock", "home") /\ SameLine(p)) /\ Untouched
    BY <1>0, <1>5, Simple DEF TakeWarmLock, WarmStays, Untouched
  <2> QED
    BY <1>00, <2>1, HandKept DEF CallPlaces, Hands
<1>6. ASSUME NEW p \in Warmers, MakeHome(p)
      PROVE  OneHand'
  <2>1. ((Walks(p, "home", "commit") \/ Walks(p, "home", "home")) /\ SameLine(p)) /\ Untouched
    BY <1>0, <1>6, Making DEF MakeHome, WarmStays, Untouched
  <2> QED
    BY <1>00, <2>1, HandKept DEF CallPlaces, Hands
<1>7. ASSUME NEW p \in Warmers, CommitHome(p)
      PROVE  OneHand'
  <2>1. (Walks(p, "commit", "home") /\ SameLine(p)) /\ Untouched
    BY <1>0, <1>7, Simple DEF CommitHome, WarmStays, Untouched
  <2> QED
    BY <1>00, <2>1, HandKept DEF CallPlaces, Hands
<1>8. ASSUME NEW p \in Warmers, HomeFails(p)
      PROVE  OneHand'
  <2>1. ((Walks(p, "home", "record") \/ Walks(p, "commit", "record")) /\ SameLine(p)) /\ Untouched
    BY <1>0, <1>8, Failing DEF HomeFails, WarmStays, LeftWith, Untouched
  <2> QED
    BY <1>00, <2>1, HandKept DEF CallPlaces, Hands
<1>9. ASSUME NEW p \in Warmers, ListRunning(p)
      PROVE  OneHand'
  <2>1. (Walks(p, "home", "running") /\ SameLine(p)) /\ Untouched
    BY <1>0, <1>9, Listing DEF ListRunning, WarmStays, Untouched
  <2> QED
    BY <1>00, <2>1, HandKept DEF CallPlaces, Hands
<1>10. ASSUME NEW p \in Warmers, RefreshNext(p)
      PROVE  OneHand'
  <2>1. ((Walks(p, "running", "record") \/ Walks(p, "running", "running")) /\ SameLine(p)) /\ Untouched
    BY <1>0, <1>10, Refreshing DEF RefreshNext, WarmStays, LeftWith, Untouched
  <2> QED
    BY <1>00, <2>1, HandKept DEF CallPlaces, Hands
<1>11. ASSUME NEW p \in Warmers, LatestEnded(p)
      PROVE  OneHand'
  <2>1. ((Walks(p, "running", "create") \/ Walks(p, "running", "respawn")) /\ SameLine(p)) /\ Untouched
    BY <1>0, <1>11, Choosing DEF LatestEnded, WarmStays, Untouched
  <2> QED
    BY <1>00, <2>1, HandKept DEF CallPlaces, Hands
<1>12. ASSUME NEW p \in Warmers, Respawn(p)
      PROVE  OneHand'
  <2>1. (Walks(p, "respawn", "record") /\ SameLine(p)) /\ Untouched
    BY <1>0, <1>12, Respawning DEF Respawn, WarmStays, LeftWith, Untouched
  <2> QED
    BY <1>00, <2>1, HandKept DEF CallPlaces, Hands
<1>13. ASSUME NEW p \in Warmers, Create(p)
      PROVE  OneHand'
  <2>1. (Walks(p, "create", "record") /\ SameLine(p)) /\ Untouched
    BY <1>0, <1>13, Creating DEF Create, WarmStays, LeftWith, Untouched
  <2> QED
    BY <1>00, <2>1, HandKept DEF CallPlaces, Hands
<1>14. ASSUME NEW p \in Warmers, RecordOutcome(p)
      PROVE  OneHand'
  <2>1. Untouched
    BY <1>14 DEF RecordOutcome, Untouched
  <2>2. CASE Walks(p, "record", "idle") /\ call'[p].line = Blank
    BY <1>00, <2>1, <2>2, HandDropped DEF CallPlaces, Hands
  <2>3. CASE Walks(p, "record", "wait") /\ SameLine(p)
    BY <1>00, <2>1, <2>3, HandKept DEF CallPlaces, Hands
  <2> QED
    BY <1>0, <1>14, <2>2, <2>3, Recording
<1>15. ASSUME NEW p \in Warmers, Waited(p)
      PROVE  OneHand'
  <2>1. (Walks(p, "wait", "send") /\ SameLine(p)) /\ Untouched
    BY <1>0, <1>15, Simple DEF Waited, Untouched
  <2> QED
    BY <1>00, <2>1, HandKept DEF CallPlaces, Hands
<1>16. ASSUME NEW p \in Warmers, Send(p)
      PROVE  OneHand'
  BY <1>0, <1>00, <1>16, HandSent DEF AssistantInv
<1>17. ASSUME NEW p \in Warmers, Killed(p)
      PROVE  OneHand'
  <2>1. Walks(p, call[p].at, "idle") /\ call'[p].line = Blank /\ Untouched /\ call[p].at \in CallPlaces
    BY <1>0, <1>17, Ending DEF Killed, Untouched, AssistantTypeOK, AssistantCall
  <2> QED
    BY <1>00, <2>1, HandDropped DEF CallPlaces, Hands
<1>18. ASSUME NEW a \in AssistantIds, Started(a) \/ ProgramEnds(a) \/ Renamed(a)
      PROVE  OneHand'
  <2>1. WorldStays
    BY <1>0, <1>18, Milder
  <2> QED
    BY <1>00, <2>1 DEF WorldStays, OneHand, CallAt
<1>19. ASSUME NEW a \in AssistantIds, Stopped(a) \/ RespawnedByHand(a)
      PROVE  OneHand'
  <2>1. WorldStays
    BY <1>0, <1>19, Harsher
  <2> QED
    BY <1>00, <2>1 DEF WorldStays, OneHand, CallAt
<1>20. CASE UNCHANGED helperVars
  BY <1>20, <1>00 DEF helperVars, OneHand, CallAt
<1> QED
  BY <1>1, <1>2, <1>3, <1>4, <1>5, <1>6, <1>7, <1>8, <1>9, <1>10, <1>11, <1>12, <1>13, <1>14, <1>15, <1>16, <1>17, <1>18, <1>19, <1>20 DEF AssistantNext

-----------------------------------------------------------------------------
LEMMA AssistantBegins ==
  ASSUME AssistantInit
  PROVE  AssistantInv
<1>1. AssistantTypeOK
  <2>1. NoRecord \in HelperRecord /\ NoCall \in AssistantCall
    BY DEF NoRecord, HelperRecord, NoCall, AssistantCall, CallPlaces
  <2>2. <<>> \in Seq(Lines)
    OBVIOUS
  <2>3. \A p \in Warmers : call[p].at = "idle"
    BY DEF AssistantInit, NoCall
  <2> QED
    BY <2>1, <2>2, <2>3 DEF AssistantInit, AssistantTypeOK, CallAt
<1>2. /\ \A p \in Warmers : call[p].at = "idle" /\ call[p].line = Blank /\ call[p].asks = FALSE
      /\ \A a \in AssistantIds : helper[a].lives = FALSE
  BY DEF AssistantInit, NoCall, NoRecord
<1>3. (\A p \in Warmers : HoldsWarmLock(p)) /\ HomeMade
  BY <1>2 DEF AssistantInit, HoldsWarmLock, UnderLock, HomeMade
<1>4. OneAssistant
  BY <1>2 DEF AssistantInit, OneAssistant, KnowsRunning, CallAt
<1>5. Outcomes
  BY <1>2 DEF AssistantInit, Outcomes, CallAt
<1>6. \A p \in Warmers : Asks(p)
  BY <1>2 DEF Asks
<1>7. OneHand
  BY <1>2 DEF AssistantInit, OneHand
<1> QED
  BY <1>1, <1>3, <1>4, <1>5, <1>6, <1>7 DEF AssistantInv

LEMMA AssistantGoesOn ==
  ASSUME AssistantInv, [AssistantNext]_helperVars
  PROVE  AssistantInv'
<1>1. OneAssistant'
  BY LivesRun, KnowsKept, OneKept, OutcomeExplained DEF OneAssistant
<1> QED
  BY <1>1, Typed, LocksKept, HomeKept, OutcomesKept, AsksKept, OneHandKept DEF AssistantInv

(* In every state the program reaches a warm past warm.lock is the only    *)
(* one there and knows who runs, and a line is in the buffer, in one call's *)
(* hand or delivered (plugins/assistant: warm, ask, take_input_buffer).    *)
THEOREM AssistantInvariance == AssistantSpec => []AssistantInv
<1>1. AssistantInit => AssistantInv
  BY AssistantBegins
<1>2. AssistantInv /\ [AssistantNext]_helperVars => AssistantInv'
  BY AssistantGoesOn
<1> QED
  BY <1>1, <1>2, PTL DEF AssistantSpec

LEMMA AtMostOne ==
  ASSUME \A a, b \in AssistantIds : helper[a].lives /\ helper[b].lives => a = b
  PROVE  Cardinality({a \in AssistantIds : helper[a].lives}) <= 1
<1>1. CASE {a \in AssistantIds : helper[a].lives} = {}
  BY <1>1, FS_EmptySet
<1>2. CASE \E a \in AssistantIds : helper[a].lives
  <2>1. PICK a \in AssistantIds : helper[a].lives
    BY <1>2
  <2>2. {b \in AssistantIds : helper[b].lives} = {a}
    BY <2>1
  <2> QED
    BY <2>2, FS_Singleton
<1> QED
  BY <1>1, <1>2

(* For any number of processes, agents and lines: warms that take turns    *)
(* start no second assistant and none fails for another's sake, a line not *)
(* typed over another is delivered once, and the header says "failed" of a *)
(* last warm that failed (plugins/assistant: warm, ask, record_outcome).   *)
THEOREM AssistantIsOne == AssistantSpec => []AssistantHolds
<1>1. AssistantInv => AssistantHolds
  <2> SUFFICES ASSUME AssistantInv PROVE AssistantHolds
    OBVIOUS
  <2>1. ~byHand => Cardinality({a \in AssistantIds : helper[a].lives}) <= 1
    BY AtMostOne DEF AssistantInv, OneAssistant
  <2>2. ~lastWarm => faulty \/ byHand
    BY DEF AssistantInv, OneAssistant
  <2>3. ~hurried => \A i, j \in DOMAIN delivered : delivered[i] = delivered[j] => i = j
    <3>1. DOMAIN delivered = 1..Len(delivered)
      BY DEF AssistantInv, AssistantTypeOK
    <3> QED
      BY <3>1 DEF AssistantInv, OneHand
  <2>4. (unrecorded = {} /\ ~crossed /\ HeaderSays = "failed") => ~lastWarm
    <3>1. HeaderSays = "failed" => failure
      BY DEF HeaderSays
    <3> QED
      BY <3>1 DEF AssistantInv, Outcomes
  <2>5. repo = "initialised" => faulty \/ \E p \in Warmers : CallAt(p, "commit")
    BY DEF AssistantInv, HomeMade
  <2> QED
    BY <2>1, <2>2, <2>3, <2>4, <2>5 DEF AssistantHolds
<1> QED
  BY <1>1, AssistantInvariance, PTL
=============================================================================
