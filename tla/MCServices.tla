---------------------------- MODULE MCServices -----------------------------
(***************************************************************************)
(* The components around the agents' operations, each on its own: part     *)
(* says which one a behaviour is of, and the others stay as they begin.    *)
(***************************************************************************)
EXTENDS EngineLaunch, EngineHooks, StateFiles, HomeFloor, Install, ClientViews, ArtifactViews,
        Mockup, Assistant

CONSTANTS agent1, skill1, server1, role1, p1, p2, title, titleAndId

File(tools, cuts, skills, servers_, roles) ==
  [tools |-> tools, mcpTools |-> {}, cuts |-> cuts, skills |-> skills,
   servers |-> servers_, roles |-> roles]

(* Definitions: an agent that is narrowed, one with a server cut, one whose *)
(* server has a tool cut.                                                   *)
AgentFilesC ==
  { File({"Bash", "WebSearch"}, {}, {skill1}, {server1}, {role1}),
    File({"Read", "WebSearch", "WebFetch", "Agent"},
         {[tool |-> "WebFetch"], [server |-> server1, tool |-> ""]}, {}, {server1}, {}),
    File({"Bash", "Task"}, {[server |-> server1, tool |-> "t"]}, {skill1}, {}, {}) }
SkillFilesC == {Absent, Broken, "own", "claude-bundled"}
ServerFilesC == {Absent, "plain", "renamed", "inside"}
RoleSkillsC == {Absent, Broken, {skill1}}
OptionsC == {<<>>, [model |-> "m"], [effort |-> "low", command |-> "c"], [model |-> ""], [other |-> "o"]}

(* Three builds of tx: all plugins, a fragment's key moved to another one,  *)
(* and one plugin alone.                                                    *)
ShipsC == [full |-> [ide |-> {"a"}, chat |-> {"b", "c"}],
           moved |-> [ide |-> {"a", "b"}, chat |-> {"c"}],
           bare |-> [ide |-> {"a"}]]

(* Two screens, with options and without, and waiting for the next one; the  *)
(* agent's session is shown in a pane of h1.                                *)
Screen(options, body) ==
  [waiting |-> FALSE, options |-> options, body |-> body,
   nodes |-> {[keys |-> {"text"}, percent |-> 0]}]
DraftsC == {Screen(<<"a", "b">>, FALSE), Screen(<<"d">>, TRUE), [Screen(<<>>, TRUE) EXCEPT !.waiting = TRUE]}
HostedInC == {<<"agent", "h1">>}

(* Two skills of one name, from two roots, and a third.                     *)
SkillListsC == {<<>>, <<<<"/", "r", "a">>, <<"/", "r", "b">>>>, <<<<"/", "r", "a">>, <<"/", "q", "a">>>>}
LoosePathsC == {<<"..", "x">>, <<"a", "..", "..", "x">>, <<"/", "etc">>, <<"a", ".", "..", "x">>, <<"..", "w", "x">>}

TwoNames == {title, titleAndId}

VARIABLE part

Parts == {"definitions", "data", "hooks", "files", "floor", "install", "views", "artifacts", "mockup", "assistant", "workspace"}

ServicesInit ==
  /\ part \in Parts
  /\ DefsInit
  /\ LaunchInit /\ (part \notin {"data", "workspace"} => adapter = "claude")
  /\ HooksInit /\ (part # "hooks" => engine = "claude")
  /\ FilesInit /\ disk[1].now = 0 /\ (part # "files" => dirs = {1})
  /\ FloorInit
  /\ InstallInit /\ (part # "install" => keyFiles = [f \in Fragments |-> Missing])
  /\ ViewsInit
  /\ ArtifactViewsInit
  /\ MockInit /\ on = [c1 |-> "agent", c2 |-> "h1"] /\ busiest = "c1"
  /\ AssistantInit
  /\ IF part = "workspace" THEN WorkspaceInit ELSE tree = <<>> /\ theirs = {}

(* The other components stand still.                                        *)
Kept(name, own) == IF part = name THEN TRUE ELSE UNCHANGED own
Alone(name) ==
  /\ part = name /\ UNCHANGED part
  /\ Kept("definitions", defsVars) /\ Kept("data", launchVars) /\ Kept("hooks", hookVars)
  /\ Kept("files", fileVars) /\ Kept("floor", floorVars) /\ Kept("install", installVars)
  /\ Kept("views", viewVars) /\ Kept("artifacts", vars)
  /\ Kept("mockup", mockVars) /\ Kept("assistant", helperVars)
  /\ Kept("workspace", workVars)

(* Narrowed: a lost lock file, a power loss or a scan beside one update;    *)
(* installs overlap two by two; more verbs meet fewer clients; a mockup has  *)
(* more turns with fewer files.                                             *)
ServicesNext ==
  \/ Alone("definitions") /\ DefsNext
  \/ Alone("data") /\ LaunchNext
  \/ Alone("hooks") /\ HooksNext
  \/ Alone("files") /\ FilesNext
     /\ removals' + losses' + (IF scan'.at = "idle" THEN 0 ELSE updates') <= 1
  \/ Alone("floor") /\ FloorNext
  \/ Alone("install") /\ InstallNext
     /\ (Cardinality(Installing') > 1 => installs' <= 2)
  \/ Alone("views") /\ ViewsNext
     /\ verbs' + Cardinality({c \in ViewClients : clients'[c].shows # Nobody}) <= 3
  \/ Alone("artifacts") /\ ArtifactViewsNext
  \/ Alone("mockup") /\ MockNext
     /\ mockTurns' + Len(content') + mtime' <= 5
  \/ Alone("assistant") /\ AssistantNext
  \/ Alone("workspace") /\ WorkspaceNext
=============================================================================
