---------------------------- MODULE EngineLaunch ----------------------------
(***************************************************************************)
(* From definition files to the command a CLI is started with.             *)
(*                                                                         *)
(* What an agent runs on (tx-core/src/definitions.rs, profile.rs, core.rs):*)
(* agents, skills, MCP servers and roles are files under layered roots, a  *)
(* later root wins by name; an operator edits them, `tx check` judges them *)
(* and a launch resolves them.  Texts are left out.                        *)
(*                                                                         *)
(* What an adapter makes of a launch (plugins/engine-*/src/lib.rs): the    *)
(* plan of the CLI's arguments from the agent's engine data and profile,   *)
(* and the engine data itself from create to fork, resume and hook.        *)
(*                                                                         *)
(* A profile: tools (NoData: roles alone), cuts as [server, tool] and [tool],*)
(* servers as a function to what their secrets need, linked skills, and    *)
(* provided skills as a function to their provider.  Arguments are a       *)
(* record; their order on the command line is left out.                    *)
(***************************************************************************)
EXTENDS Naturals, SequencesExt, FiniteSets, FiniteSetsExt, Functions

CONSTANTS
  Agents, Skills, Servers, Roles,   \* names
  AgentFiles,   \* what agents/<name>.md may say, beside Broken and Absent
  Absent, Broken, Failed

Roots == 1 .. 2     \* <data>/definitions, then the user's <config>/definitions

VARIABLES
  agentFile,    \* [Roots -> [Agents -> ...]]
  skillFile,    \* Absent, Broken, "own", or the provider of a reference skill
  serverFile,   \* Broken, or [Servers -> Absent or what its secrets need]
  roleFile      \* [Roots -> [Roles -> [base, local]]]: the skills it grants

defsVars == <<agentFile, skillFile, serverFile, roleFile>>

Providers == {"claude-bundled", "claude-synced"}

Holding(file, n) == {r \in Roots : file[r][n] # Absent}

----------------------------------------------------------------------------
(* Reading: the last root that has the name wins *)

WinningRoot(file, n) == Max(Holding(file, n))

AgentFile(a) ==
  IF Holding(agentFile, a) = {} THEN Absent ELSE agentFile[WinningRoot(agentFile, a)][a]

(* Any directory with a SKILL.md, whatever that says.                      *)
SkillDirectory(s) ==
  IF Holding(skillFile, s) = {} THEN Absent ELSE skillFile[WinningRoot(skillFile, s)][s]

(* The SKILL.md itself: not another's name, a known provider, no text of   *)
(* its own for a reference skill.                                          *)
ReadSkill(s) == IF SkillDirectory(s) \in {Absent, Broken} THEN Failed ELSE SkillDirectory(s)

ReadMcp(r) == IF serverFile[r] = Broken THEN Failed ELSE serverFile[r]

(* A file that does not parse, anywhere, fails them all.                   *)
McpServers ==
  IF \E r \in Roots : ReadMcp(r) = Failed THEN Failed
  ELSE [m \in {m \in Servers : Holding(serverFile, m) # {}} |->
          serverFile[WinningRoot(serverFile, m)][m]]

(* The base file from the last root, then every root's local one.          *)
RoleFiles(role) ==
  LET bases == {r \in Roots : roleFile[r][role].base # Absent}
  IN  IF bases = {} THEN Failed
      ELSE {roleFile[Max(bases)][role].base}
           \cup ({roleFile[r][role].local : r \in Roots} \ {Absent})

HasRole(role) == RoleFiles(role) # Failed

RoleSkill(s) == IF SkillDirectory(s) = Absent THEN Failed ELSE s

(* Profiles::resolve: the skills the roles grant.                          *)
Resolve(roles) ==
  IF \E role \in roles : RoleFiles(role) = Failed \/ Broken \in RoleFiles(role) THEN Failed
  ELSE LET grants == UNION UNION {RoleFiles(role) : role \in roles}
       IN  IF Failed \in {RoleSkill(s) : s \in grants} THEN Failed ELSE grants

(* Definitions::apply: the definition and the caller's extras on top.      *)
Apply(grants, choice) ==
  LET agent == AgentFile(choice.agent) IN
  IF agent \in {Absent, Broken} THEN Failed ELSE
  LET listed == agent.skills \cup choice.skills
      wanted == agent.servers \cup choice.servers
  IN  IF \/ \E s \in listed : ReadSkill(s) = Failed
         \/ McpServers = Failed
         \/ ~(wanted \subseteq DOMAIN McpServers)
        THEN Failed
        ELSE LET provided == {s \in listed : ReadSkill(s) \in Providers}
             IN  [ tools    |-> agent.tools \cup choice.tools,
                   cuts     |-> agent.cuts,
                   servers  |-> [m \in wanted |-> McpServers[m]],
                   linked   |-> grants \cup (listed \ provided),
                   provided |-> [s \in provided |-> ReadSkill(s)] ]

(* The roles named, else the definition's own.                             *)
ResolveProfile(roles, choice) ==
  LET agent == AgentFile(choice.agent) IN
  IF roles = {} /\ agent \in {Absent, Broken} THEN Failed ELSE
  LET grants == Resolve(IF roles = {} THEN agent.roles ELSE roles)
  IN  IF grants = Failed THEN Failed ELSE Apply(grants, choice)

----------------------------------------------------------------------------
(* tx check *)

(* What the files that parse say of a server.                              *)
ReadableServers ==
  LET holding(m) == {r \in Roots : ReadMcp(r) # Failed /\ ReadMcp(r)[m] # Absent}
  IN  [m \in {m \in Servers : holding(m) # {}} |-> serverFile[Max(holding(m))][m]]

CheckAgent(a) ==
  LET agent == AgentFile(a) IN
  {<<"skills", a, s>> : s \in {s \in agent.skills : SkillDirectory(s) = Absent}}
  \cup {<<"roles", a, role>> : role \in {role \in agent.roles : ~HasRole(role)}}
  \cup {<<"mcpServers", a, m>> : m \in agent.servers \ DOMAIN ReadableServers}
  \cup {<<"tools", a, t>> : t \in agent.mcpTools}
  \cup {<<"disallowedTools", a, c>> :
          c \in {c \in agent.cuts : "server" \in DOMAIN c /\ c.server \notin agent.servers}}

(* ${VAR} inside a value: no engine can pass it on.                        *)
CheckServer(m) == IF ReadableServers[m] = "inside" THEN {<<"secret", m>>} ELSE {}

(* Mutant: stops at the file that does not parse without a word. *)
CheckQuietly(names) ==
  LET wanted(n) == names = {} \/ n \in names
      agents == {a \in Agents : AgentFile(a) # Absent /\ wanted(a)}
      skills == {s \in Skills : SkillDirectory(s) # Absent /\ wanted(s)}
  IN  {<<"agent", a>> : a \in {a \in agents : AgentFile(a) = Broken}}
      \cup {<<"skill", s>> : s \in {s \in skills : ReadSkill(s) = Failed}}
      \cup UNION ({CheckAgent(a) : a \in {a \in agents : AgentFile(a) # Broken}}
                 \cup {CheckServer(m) : m \in {m \in DOMAIN ReadableServers : wanted(m)}})

(* Every problem of the winning definitions, of those names or of all.     *)
Check(names) ==
  LET wanted(n) == names = {} \/ n \in names
      agents == {a \in Agents : AgentFile(a) # Absent /\ wanted(a)}
      skills == {s \in Skills : SkillDirectory(s) # Absent /\ wanted(s)}
      known == {a \in Agents : AgentFile(a) # Absent} \cup DOMAIN ReadableServers
               \cup {s \in Skills : SkillDirectory(s) # Absent}
  IN  {<<"unknown", n>> : n \in names \ known}
      \cup {<<"mcp.json", r>> : r \in {r \in Roots : ReadMcp(r) = Failed}}
      \cup {<<"agent", a>> : a \in {a \in agents : AgentFile(a) = Broken}}
      \cup {<<"skill", s>> : s \in {s \in skills : ReadSkill(s) = Failed}}
      \cup UNION ({CheckAgent(a) : a \in {a \in agents : AgentFile(a) # Broken}}
                 \cup {CheckServer(m) : m \in {m \in DOMAIN ReadableServers : wanted(m)}})

----------------------------------------------------------------------------
(* The operator edits one file at a time *)

CONSTANTS
  SkillFiles, ServerFiles, RoleSkills,   \* what the files may say
  MaxFiles                               \* bound: files at a time

(* What the files may say, and that a failure is none of what they make.   *)
ASSUME DefinitionsAssumption ==
  /\ AgentFiles \subseteq
       [ tools : SUBSET STRING, mcpTools : SUBSET STRING,
         cuts : SUBSET ([tool : STRING] \cup [server : Servers, tool : STRING]),
         skills : SUBSET Skills, servers : SUBSET Servers, roles : SUBSET Roles ]
  /\ SkillFiles \subseteq {Absent, Broken, "own"} \cup Providers
  /\ \A granted \in RoleSkills \ {Absent, Broken} : granted \subseteq Skills
  /\ Absent \in ServerFiles /\ "codex_worktrees" \notin Servers
  /\ Absent \notin AgentFiles /\ Broken \notin AgentFiles /\ Absent # Broken
  /\ Failed \notin {Absent, Broken, "own"} \cup Providers \cup Skills
  /\ \A skills \in SUBSET Skills : Broken # skills /\ Failed # skills
  /\ Broken \notin [Servers -> ServerFiles]
  /\ \A servers \in SUBSET Servers : Failed \notin [servers -> ServerFiles]
  /\ Failed \notin [ tools : SUBSET STRING, cuts : SUBSET ([tool : STRING] \cup [server : Servers, tool : STRING]),
                     servers : UNION {[servers -> ServerFiles] : servers \in SUBSET Servers},
                     linked : SUBSET Skills, provided : UNION {[skills -> Providers] : skills \in SUBSET Skills} ]

DefsInit ==
  /\ agentFile = [r \in Roots |-> [a \in Agents |-> Absent]]
  /\ skillFile = [r \in Roots |-> [s \in Skills |-> Absent]]
  /\ serverFile = [r \in Roots |-> [m \in Servers |-> Absent]]
  /\ roleFile = [r \in Roots |-> [role \in Roles |-> [base |-> Absent, local |-> Absent]]]

Files ==
  Cardinality({x \in Roots \X Agents : agentFile[x[1]][x[2]] # Absent})
  + Cardinality({x \in Roots \X Skills : skillFile[x[1]][x[2]] # Absent})
  + Cardinality({r \in Roots : serverFile[r] # [m \in Servers |-> Absent]})
  + Cardinality({x \in Roots \X Roles \X {"base", "local"} : roleFile[x[1]][x[2]][x[3]] # Absent})

EditAgent(r, a) ==
  /\ \E file \in AgentFiles \cup {Absent, Broken} : agentFile' = [agentFile EXCEPT ![r][a] = file]
  /\ UNCHANGED <<skillFile, serverFile, roleFile>>

EditSkill(r, s) ==
  /\ \E file \in SkillFiles : skillFile' = [skillFile EXCEPT ![r][s] = file]
  /\ UNCHANGED <<agentFile, serverFile, roleFile>>

EditServers(r) ==
  /\ \E file \in {Broken} \cup [Servers -> ServerFiles] : serverFile' = [serverFile EXCEPT ![r] = file]
  /\ UNCHANGED <<agentFile, skillFile, roleFile>>

EditRole(r, role) ==
  /\ \E f \in {"base", "local"}, skills \in RoleSkills :
       roleFile' = [roleFile EXCEPT ![r][role][f] = skills]
  /\ UNCHANGED <<agentFile, skillFile, serverFile>>

DefsNext ==
  \E r \in Roots :
    /\ \/ \E a \in Agents : EditAgent(r, a)
       \/ \E s \in Skills : EditSkill(r, s)
       \/ EditServers(r)
       \/ \E role \in Roles : EditRole(r, role)
    /\ Files' <= MaxFiles

DefsSpec == DefsInit /\ [][DefsNext]_defsVars

----------------------------------------------------------------------------
(* Properties *)

NoExtras(a) == [agent |-> a, skills |-> {}, servers |-> {}, tools |-> {}]

(* Definitions in which `tx check` finds nothing launch: an agent resolves *)
(* on its own roles, whatever overrides what in which root, unless a role  *)
(* file itself is broken or grants a skill that is not there, which check  *)
(* does not look into (definitions.rs check, apply; profile.rs resolve).   *)
CheckedMeansResolved ==
  Check({}) = {} =>
    \A a \in Agents : AgentFile(a) # Absent =>
      \/ ResolveProfile({}, NoExtras(a)) # Failed
      \/ \E role \in AgentFile(a).roles : \E skills \in RoleFiles(role) :
           skills = Broken \/ \E s \in skills : SkillDirectory(s) = Absent

-----------------------------------------------------------------------------
(* The adapters *)

CONSTANTS
  Ids,          \* agents of one engine
  Options,      \* launch options of the caller: functions from option names
  MaxConvs,     \* bound: conversations the CLIs open by themselves
  Synced,       \* the claude-synced skills on this machine
  OperatorSettings,   \* the settings keys the operator gives Claude
  NoData

VARIABLES
  adapter,      \* "claude" or "codex"
  engineData,   \* ext[ext_key] of each agent: a function from keys, NoData: no record
  opened,       \* the conversations the CLIs opened
  given         \* history: the options each agent was last given

launchVars == <<adapter, engineData, opened, given>>

Refused == [refused |-> TRUE]
IsRefused(plan) == "refused" \in DOMAIN plan
Set(f, k, v) == [x \in DOMAIN f \cup {k} |-> IF x = k THEN v ELSE f[x]]
Get(f, k, default) == IF k \in DOMAIN f THEN f[k] ELSE default

----------------------------------------------------------------------------
(* Engine data *)

DataKeys == {"model", "effort", "command", "engine_args", "conversation_id", "transcript_path"}

(* NoData is no engine data and no set of tools or servers, and an agent's *)
(* id is no id a CLI gives (both are uuids of their own).                  *)
ASSUME LaunchAssumption ==
  /\ Ids \cap (1 .. MaxConvs) = {} /\ NoData \notin Ids \cup (1 .. MaxConvs)
  /\ \A f \in AgentFiles : NoData # f.tools
  /\ \A configured \in SUBSET (Servers \cup {"codex_worktrees"}) : NoData # configured
  /\ \A o \in Options : \A k \in DOMAIN o : o[k] \in STRING \cup Seq(STRING)
  /\ \A keys \in SUBSET DataKeys :
       NoData \notin [keys -> STRING \cup Seq(STRING) \cup Ids \cup (1 .. MaxConvs)]

(* The caller's options over the data there is; an option of no known name *)
(* or an empty model or command is refused.                                *)
Configure(data, options) ==
  IF \/ ~(DOMAIN options \subseteq {"model", "effort", "command", "engine_args"})
     \/ \E k \in {"model", "command"} : Get(options, k, "x") = ""
    THEN Refused
    ELSE [k \in DOMAIN data \cup DOMAIN options |-> Get(options, k, Get(data, k, ""))]

CodexConfigure(data, options) == Configure(data, options)

(* A path is the conversation's it belongs to.                             *)
NamedAfter(data, a) == Set(Set(data, "conversation_id", a), "transcript_path", a)

ConversationStarted(data, c) ==
  IF Get(data, "conversation_id", NoData) = c /\ Get(data, "transcript_path", NoData) = c
    THEN data
    ELSE Set(Set(data, "conversation_id", c), "transcript_path", c)

(* Mutant: the path is dropped, the id stays. *)
WithoutTranscript(data) == Restrict(data, DOMAIN data \ {"transcript_path"})

WithoutConversation(data) ==
  Restrict(data, DOMAIN data \ {"conversation_id", "transcript_path"})

ConversationOf(data, a) == Get(data, "conversation_id", a)

CodexConversationOf(data) == Get(data, "conversation_id", NoData)

----------------------------------------------------------------------------
(* Claude's plan *)

BaseTools == {"Bash", "Read", "Edit", "Write"}
BaselineTools == {"Skill", "ToolSearch"}
ToolsOf(p) == (IF p.tools = NoData THEN BaseTools ELSE p.tools) \cup BaselineTools

Bundled(p) == {s \in DOMAIN p.provided : p.provided[s] = "claude-bundled"}
SyncedSkills(p) == {s \in DOMAIN p.provided : p.provided[s] = "claude-synced"}

(* Whose word each settings key is: tx's own keys win over the operator's. *)
LaunchSettings(operator, hooked, bundled) ==
  LET own == {"autoMemoryEnabled", "disableBundledSkills", "skipDangerousModePermissionPrompt"}
             \cup (IF "plugin-authoring" \in bundled THEN {} ELSE {"enabledPlugins"})
             \cup (IF hooked THEN {"hooks"} ELSE {})
  IN  [k \in own \cup operator |->
         IF k \in own THEN IF k = "disableBundledSkills" THEN <<"tx", bundled = {}>> ELSE <<"tx">>
         ELSE <<"operator">>]

(* The skills become links in a plugin of the agent's own.                 *)
ClaudePlan(opens, stored, data, p, prompt) ==
  IF ~(SyncedSkills(p) \subseteq Synced) THEN Refused ELSE
  [ opens    |-> opens, stored |-> stored, prompt |-> prompt,
    model    |-> Get(data, "model", NoData),
    effort   |-> Get(data, "effort", "high"),
    program  |-> Get(data, "command", "claude"),
    args     |-> Get(data, "engine_args", <<>>),
    tools    |-> ToolsOf(p), cuts |-> p.cuts, servers |-> DOMAIN p.servers,
    settings |-> LaunchSettings(OperatorSettings, TRUE, Bundled(p)),
    manifest |-> p.linked \cup SyncedSkills(p) # {},
    links    |-> p.linked \cup SyncedSkills(p) ]

ClaudeStart(a, data, p, prompt) ==
  ClaudePlan([session |-> a], NamedAfter(data, a), data, p, prompt)

ClaudeResume(a, data, p) ==
  ClaudePlan([resume |-> ConversationOf(data, a)], NoData, data, p, "")

ClaudeFork(a, data, source, sourceData, p, prompt) ==
  ClaudePlan([resume |-> ConversationOf(sourceData, source), session |-> a],
             NamedAfter(data, a), data, p, prompt)

----------------------------------------------------------------------------
(* Codex's plan *)

(* Tool names that share a switch.                                         *)
SwitchGroups == {{"Bash"}, {"Read"}, {"WebSearch", "WebFetch"}, {"Agent", "Task"},
                 {"AskUserQuestion"}, {"ScheduleWakeup"}}
CodexOnly == {"goals", "tool_suggest", "image_generation"}
Worktrees == "codex_worktrees"

Offered(p, t) == t \in p.tools /\ [tool |-> t] \notin p.cuts

ToolSwitches(p) ==
  IF p.tools = NoData THEN {}
  ELSE {g \in SwitchGroups : \A t \in g : ~Offered(p, t)} \cup {{f} : f \in CodexOnly}

(* A secret of a stdio server passes only under its own name.              *)
ServerRefused(need) == need = "renamed"

CutServers(p) == {c.server : c \in {x \in p.cuts : "server" \in DOMAIN x /\ x.tool \in {"", "*"}}}
CutTools(p, m) == {c.tool : c \in {x \in p.cuts : /\ "server" \in DOMAIN x /\ x.server = m
                                                  /\ x.tool \notin {"", "*"}}}

(* What is said of each server, on top of the operator's config.toml: that *)
(* it is there, that it is off, which of its tools are off.                *)
McpOverrides(p, configured) ==
  LET kept == DOMAIN p.servers \ CutServers(p)
      tui == IF Worktrees \in configured THEN {} ELSE {Worktrees}
  IN  IF \E m \in kept : ServerRefused(p.servers[m]) THEN Refused
      ELSE [ defined |-> kept \cup tui,
             off     |-> {m \in configured : m \notin DOMAIN p.servers \/ m \in CutServers(p)} \cup tui,
             cut     |-> [m \in kept |-> CutTools(p, m)] ]

(* configured: the servers of config.toml, NoData when it does not parse.    *)
CodexPlan(opens, stored, data, p, prompt, configured) ==
  IF DOMAIN p.provided # {} \/ configured = NoData THEN Refused ELSE
  LET servers == McpOverrides(p, configured) IN
  IF IsRefused(servers) THEN Refused ELSE
  [ opens   |-> opens, stored |-> stored, prompt |-> prompt,
    model   |-> Get(data, "model", NoData),
    effort  |-> Get(data, "effort", "high"),
    program |-> Get(data, "command", "codex"),
    args    |-> Get(data, "engine_args", <<>>),
    servers |-> servers, switched |-> ToolSwitches(p), links |-> p.linked ]

CodexStart(data, p, prompt, configured) ==
  CodexPlan([new |-> TRUE], NoData, data, p, prompt, configured)

CodexResume(data, p, configured) ==
  IF CodexConversationOf(data) = NoData THEN Refused
  ELSE CodexPlan([resume |-> CodexConversationOf(data)], NoData, data, p, "", configured)

CodexFork(data, sourceData, p, prompt, configured) ==
  IF CodexConversationOf(sourceData) = NoData THEN Refused
  ELSE CodexPlan([fork |-> CodexConversationOf(sourceData)], WithoutConversation(data),
                 data, p, prompt, configured)

----------------------------------------------------------------------------
(* The records of agents on one engine, launched on a plain profile        *)

PlainProfile == [tools |-> NoData, cuts |-> {}, servers |-> <<>>, linked |-> {}, provided |-> <<>>]

LaunchInit ==
  /\ adapter \in {"claude", "codex"}
  /\ engineData = [a \in Ids |-> NoData]
  /\ opened = {} /\ given = [a \in Ids |-> <<>>]

Stores(a, data, plan) ==
  engineData' = [engineData EXCEPT ![a] = IF plan.stored = NoData THEN data ELSE plan.stored]

(* launch_locked: a fork's data starts as a copy of its source's.          *)
Launch(a, source, options) ==
  /\ engineData[a] = NoData
  /\ source # NoData => engineData[source] # NoData
  /\ LET base == IF source = NoData THEN <<>> ELSE engineData[source]
         data == IF adapter = "claude" THEN Configure(base, options)
                 ELSE CodexConfigure(base, options)
         plan == IF IsRefused(data) THEN Refused
                 ELSE IF adapter = "claude"
                        THEN IF source = NoData THEN ClaudeStart(a, data, PlainProfile, "go")
                             ELSE ClaudeFork(a, data, source, base, PlainProfile, "go")
                        ELSE IF source = NoData THEN CodexStart(data, PlainProfile, "go", {})
                             ELSE CodexFork(data, base, PlainProfile, "go", {})
     IN  /\ ~IsRefused(plan)
         /\ Stores(a, data, plan)
         /\ given' = [given EXCEPT ![a] =
              [k \in DOMAIN options \cup (IF source = NoData THEN {} ELSE DOMAIN given[source]) |->
                 IF k \in DOMAIN options THEN options[k] ELSE given[source][k]]]
  /\ UNCHANGED <<adapter, opened>>

(* The CLI of a comes up in a conversation, or opens another: SessionStart.*)
Opens(a) ==
  /\ engineData[a] # NoData
  /\ \E c \in (1 .. MaxConvs) \ opened :
       /\ engineData' = [engineData EXCEPT ![a] = ConversationStarted(@, c)]
       /\ opened' = opened \cup {c}
  /\ UNCHANGED <<adapter, given>>

(* A respawn: the CLI resumes and says so again.                           *)
Resumes(a) ==
  /\ engineData[a] # NoData
  /\ LET data == engineData[a]
         plan == IF adapter = "claude" THEN ClaudeResume(a, data, PlainProfile)
                 ELSE CodexResume(data, PlainProfile, {})
     IN  /\ ~IsRefused(plan)
         /\ engineData' = [engineData EXCEPT ![a] = ConversationStarted(data, plan.opens.resume)]
  /\ UNCHANGED <<adapter, opened, given>>

LaunchNext ==
  \E a \in Ids :
    \/ \E options \in Options :
         \/ Launch(a, NoData, options)
         \/ \E source \in Ids \ {a} : Launch(a, source, options)
    \/ Opens(a)
    \/ Resumes(a)

LaunchSpec == LaunchInit /\ [][LaunchNext]_launchVars

----------------------------------------------------------------------------
(* Properties *)

(* No two agents are recorded in one conversation, though a fork's data    *)
(* starts as a copy of its source's and Codex tells a conversation only    *)
(* with the first prompt; a transcript path is its conversation's; and     *)
(* every option the caller gave, to the agent or to what it was forked     *)
(* from, is still in the data (configure, named_after, without_conversation*)
(* and conversation_started of both adapters).                             *)
DataStaysItsOwn ==
  \A a \in Ids : LET d == engineData[a] IN d # NoData =>
    /\ \A b \in Ids \ {a} : engineData[b] # NoData =>
         \A k \in {"conversation_id", "transcript_path"} :
           (k \in DOMAIN d /\ k \in DOMAIN engineData[b]) => d[k] # engineData[b][k]
    /\ "transcript_path" \in DOMAIN d =>
         "conversation_id" \in DOMAIN d /\ d["conversation_id"] = d["transcript_path"]
    /\ \A k \in DOMAIN given[a] : k \in DOMAIN d /\ d[k] = given[a][k]

----------------------------------------------------------------------------
(* From definition files to what a CLI gets: the profile definitions       *)
(* resolves goes into the plan, on either engine.                          *)

(* What the CLIs do with their arguments.                                  *)
ClaudeTools(plan) == plan.tools \ {c.tool : c \in {x \in plan.cuts : "server" \notin DOMAIN x}}
ClaudeServers(plan) ==
  plan.servers \ {c.server : c \in {x \in plan.cuts : "server" \in DOMAIN x /\ x.tool \in {"", "*"}}}
CodexTools(plan) == UNION (SwitchGroups \ plan.switched)
CodexServers(plan, configured) ==
  (configured \cup plan.servers.defined \cup {Worktrees}) \ plan.servers.off

(* One definition means the same on both engines: wherever it launches, a  *)
(* server runs iff the agent lists it and does not cut it, whatever the    *)
(* operator's own Codex configuration has (enabled there), every built-in  *)
(* tool it lists and does not cut is there, and what it leaves out is not, *)
(* but for Claude's baseline and tools that share a switch on Codex; and   *)
(* only a skill of the other engine, a secret under another name or a      *)
(* synced skill that is missing refuses it; the operator's own settings    *)
(* take away neither the hooks nor the say over bundled skills (plan,      *)
(* tools, launch_settings, mcp_overrides, tool_switches of the adapters).  *)
EnginesAgree ==
  \A a \in Agents : AgentFile(a) \notin {Absent, Broken} =>
    LET p == ResolveProfile({}, NoExtras(a)) IN p # Failed =>
    LET kept == DOMAIN p.servers \ CutServers(p)
        offers == {t \in p.tools : Offered(p, t)}
        claude == ClaudeStart(a, <<>>, p, "go")
    IN
    /\ IF IsRefused(claude) THEN \E s \in DOMAIN p.provided : p.provided[s] = "claude-synced"
       ELSE /\ ClaudeServers(claude) = kept
            /\ offers \subseteq ClaudeTools(claude)
            /\ ClaudeTools(claude) \subseteq offers \cup BaselineTools
            /\ claude.manifest = (claude.links # {})
            /\ claude.settings["hooks"] = <<"tx">>
            /\ claude.settings["disableBundledSkills"] =
                 <<"tx", \A s \in DOMAIN p.provided : p.provided[s] # "claude-bundled">>
    /\ \A configured \in SUBSET (Servers \cup {Worktrees}) :
         LET codex == CodexStart(<<>>, p, "go", configured) IN
         IF IsRefused(codex)
           THEN DOMAIN p.provided # {} \/ \E m \in kept : p.servers[m] = "renamed"
           ELSE /\ CodexServers(codex, configured) = kept
                /\ offers \cap UNION SwitchGroups \subseteq CodexTools(codex)
                /\ \A t \in CodexTools(codex) :
                     \E g \in SwitchGroups : t \in g /\ g \cap offers # {}

(* What tx check passes is resolved, and launched alike by both engines    *)
(* (definitions.rs, profile.rs, the plans of both adapters).               *)
LaunchesAsChecked == CheckedMeansResolved /\ EnginesAgree

-----------------------------------------------------------------------------
(* The worktree before the CLI starts (engine.rs of tx-core, skill_links of *)
(* both adapters). A path is its components, an absolute one from "/"; what *)
(* links lead to has no links in it.                                        *)

CONSTANTS
  SkillLists,     \* the directories of skills a profile may grant, absolute
  LoosePaths,     \* paths a plan could name
  MaxPuts         \* bound: what users put into the worktree

VARIABLES
  tree,    \* what is at each absolute path there is
  theirs   \* history: what users put, and git checked out

workVars == <<tree, theirs>>

WorkDir == <<"/", "w">>
Elsewhere == <<"/", "o">>
Dangling == <<"/", "gone">>

Directory == [is |-> "dir", holds |-> <<>>]
TextFile(content) == [is |-> "file", holds |-> content]
LinkTo(path) == [is |-> "link", holds |-> path]

WriteAction(path, content) == [path |-> path, entry |-> TextFile(content)]
SymlinkAction(src, dst) == [path |-> dst, entry |-> LinkTo(src)]

Climbs == <<"..">>

(* Folds . and .. without a look at the files.                              *)
Normalize(path) ==
  FoldLeft(LAMBDA at, c : IF at = Climbs \/ c = "." THEN at
                          ELSE IF c # ".." THEN Append(at, c)
                          ELSE IF Len(at) > 1 THEN Front(at) ELSE Climbs, <<>>, path)

ResolveIn(cwd, path) ==
  LET within == Normalize(cwd)
      target == Normalize(IF path # <<>> /\ Head(path) = "/" THEN path ELSE within \o path)
  IN  IF cwd = <<>> \/ Head(cwd) # "/" \/ Climbs \in {within, target} \/ ~IsPrefix(within, target)
        THEN Climbs ELSE target

(* Where a path leads: through every link, or all but a last one.           *)
Followed(t, path) ==
  FoldLeft(LAMBDA at, c : LET p == Append(at, c)
                          IN  IF p \in DOMAIN t /\ t[p].is = "link" THEN t[p].holds ELSE p,
           <<>>, path)
PlaceOf(t, path) == Append(Followed(t, Front(path)), Last(path))
IsDir(t, path) == path \in DOMAIN t /\ t[path].is = "dir"

Puts(r, path, entry) == [r EXCEPT !.tree = Set(@, path, entry)]
Stuck(r) == [r EXCEPT !.ok = FALSE]

CreateDirAll(r, path) ==
  LET Make(s, i) ==
        LET p == Followed(s.tree, SubSeq(path, 1, i)) IN
        IF ~s.ok \/ IsDir(s.tree, p) THEN s
        ELSE IF p \in DOMAIN s.tree \/ p # PlaceOf(s.tree, SubSeq(path, 1, i)) THEN Stuck(s)
        ELSE Puts(s, p, Directory)
  IN  FoldLeft(Make, r, [i \in DOMAIN path |-> i])

(* A write goes through links, a link takes the place of one.               *)
WritesThrough(r, path, entry) ==
  LET p == Followed(r.tree, path) IN
  IF IF p \in DOMAIN r.tree THEN r.tree[p].is = "file" ELSE IsDir(r.tree, Front(p))
    THEN Puts(r, p, entry) ELSE Stuck(r)

(* Mutant: whatever is there goes. *)
PutsLinkAnyway(r, path, entry) == Puts(r, PlaceOf(r.tree, path), entry)

PutsLink(r, path, entry) ==
  LET p == PlaceOf(r.tree, path) IN
  IF p \notin DOMAIN r.tree \/ r.tree[p].is = "link" THEN Puts(r, p, entry) ELSE Stuck(r)

ApplyAction(cwd, r, action) ==
  LET target == ResolveIn(cwd, action.path)
      made == IF r.ok THEN CreateDirAll(r, Front(target)) ELSE r
  IN  IF ~made.ok THEN made
      ELSE IF action.entry.is = "file" THEN WritesThrough(made, target, action.entry)
      ELSE PutsLink(made, target, action.entry)

(* Every path is resolved before the first is written; what was done before *)
(* one that fails stays.                                                    *)
ApplyWorkspace(t, cwd, actions) ==
  IF \E i \in DOMAIN actions : ResolveIn(cwd, actions[i].path) = Climbs
    THEN [ok |-> FALSE, tree |-> t]
    ELSE FoldLeft(LAMBDA r, action : ApplyAction(cwd, r, action), [ok |-> TRUE, tree |-> t], actions)

(* The plans of the adapters: a link for each skill, by the directory's name. *)
PluginManifest == <<".claude", "tx-plugin", ".claude-plugin", "plugin.json">>
PluginSkillsDir == <<".claude", "tx-plugin", "skills">>
AgentsSkillsDir == <<".agents", "skills">>
SkillLinks(dir, skills) == [i \in DOMAIN skills |-> SymlinkAction(skills[i], Append(dir, Last(skills[i])))]
ClaudeWorkspace(skills) ==
  IF skills = <<>> THEN <<>>
  ELSE <<WriteAction(PluginManifest, <<"tx">>)>> \o SkillLinks(PluginSkillsDir, skills)
CodexWorkspace(skills) == SkillLinks(AgentsSkillsDir, skills)

Workspaces == {IF adapter = "claude" THEN ClaudeWorkspace(l) ELSE CodexWorkspace(l) : l \in SkillLists}

(* What users and git put where a plan would.                               *)
InTheWay ==
  {WorkDir \o p : p \in UNION {UNION {{SubSeq(w[i].path, 1, j) : j \in DOMAIN w[i].path} : i \in DOMAIN w} : w \in Workspaces}}

WorkspaceInit ==
  /\ tree = [p \in {<<"/">>, WorkDir, Elsewhere} \cup UNION {Range(l) : l \in SkillLists} |-> Directory]
  /\ theirs = {}

PutInTheWay(path, entry) ==
  /\ Cardinality(theirs) < MaxPuts
  /\ path \notin DOMAIN tree /\ IsDir(tree, Front(path))
  /\ tree' = Set(tree, path, entry) /\ theirs' = theirs \cup {path}

TakeAway(path) ==
  /\ path \in DOMAIN tree
  /\ tree' = Restrict(tree, {p \in DOMAIN tree : ~IsPrefix(path, p)})
  /\ UNCHANGED theirs

Prepare(actions) == tree' = ApplyWorkspace(tree, WorkDir, actions).tree /\ UNCHANGED theirs

WorkspaceNext ==
  \/ \E path \in InTheWay :
       \/ TakeAway(path)
       \/ \E entry \in {Directory, TextFile(<<"theirs">>), LinkTo(Elsewhere), LinkTo(Dangling)} : PutInTheWay(path, entry)
  \/ \E actions \in Workspaces : Prepare(actions)

(* A launch prepares its worktree without a loss: no directory goes, no file *)
(* changes but the manifest, and nothing outside the worktree but where a    *)
(* link of a user's leads. It fails only for something a user put in its way,*)
(* a second launch on the same plan changes nothing, every skill is linked   *)
(* by its name, and a path that leaves the worktree leaves all as it was     *)
(* (apply_workspace, resolve_in).                                           *)
WorkspaceHolds ==
  IsDir(tree, WorkDir) => \A plan \in Workspaces :
    LET r == ApplyWorkspace(tree, WorkDir, plan)
        Target(a) == WorkDir \o a.path
        Walked(path) == FoldLeft(LAMBDA at, c : IF c # ".." THEN Append(at, c) ELSE IF Len(at) > 1 THEN Front(at) ELSE at,
                                 <<>>, IF Head(path) = "/" THEN path ELSE WorkDir \o path)
    IN
    /\ \A p \in DOMAIN tree :
         \/ p \in DOMAIN r.tree /\ r.tree[p] = tree[p]
         \/ p \in DOMAIN r.tree /\ tree[p].is = "file" /\ p = Followed(tree, WorkDir \o PluginManifest)
         \/ tree[p].is = "link"
    /\ \A p \in DOMAIN r.tree :
         \/ p \in DOMAIN tree /\ r.tree[p] = tree[p]
         \/ IsPrefix(WorkDir, p)
         \/ \E q \in theirs \cap DOMAIN tree : tree[q].is = "link" /\ IsPrefix(tree[q].holds, p)
    /\ IF r.ok
         THEN /\ ApplyWorkspace(r.tree, WorkDir, plan) = r
              /\ \A i \in DOMAIN plan : \E j \in DOMAIN plan :
                   /\ j >= i /\ plan[j].path = plan[i].path
                   /\ r.tree[PlaceOf(r.tree, Target(plan[i]))] = plan[j].entry
                      \/ r.tree[Followed(r.tree, Target(plan[i]))] = plan[j].entry
         ELSE \E q \in theirs, i \in DOMAIN plan : IsPrefix(q, Target(plan[i]))
    /\ \A path \in LoosePaths : ~IsPrefix(WorkDir, Walked(path)) =>
         ApplyWorkspace(tree, WorkDir, Append(plan, WriteAction(path, <<"x">>))) = [ok |-> FALSE, tree |-> tree]

=============================================================================
