----------------------------- MODULE CommandLine -----------------------------
(***************************************************************************)
(* How `tx` and `txi` find the core they work for (tx-core-cli, tx-core's  *)
(* config.rs): the five directories and the socket, from the flags, from   *)
(* what a session carries and from the XDG variables; the config file,     *)
(* read more than once; what is created and when. Sessions start here in   *)
(* one step: how is AgentLifecycle's.                                      *)
(*                                                                         *)
(* And the worktree a created agent gets (tx-core's worktree.rs): the name *)
(* of the session, the label of its tree on disk, and the one spelling of  *)
(* a path that tx compares with what git lists. One create at a time: the  *)
(* caller holds the names' lock.                                           *)
(***************************************************************************)
EXTENDS Naturals, Sequences, FiniteSets, SequencesExt

CONSTANTS
  Shells,          \* environments of shells outside tx
  Workplace,       \* the directory calls run in
  Flagged,         \* what the flags before the verb name
  BadNames,        \* values of $TX_APPNAME that are no path component
  MaxSocketParts,  \* longest socket path, in parts
  NoSession,
  SessionIds,
  MaxStops, MaxConfigEdits, \* bounds: servers that end, edits of the config file
  FileDefaults,    \* what `agent:` says: engine, model, effort, roles, definition
  Pairs,           \* flags of `create` after --cwd and --prompt: flag, key, value
  EngineNames, OptionKeys, NotSet,
  MaxPairs,
  Manifests,       \* plugins linked, in order: id, verbs, engines, resources
  EntryIds,        \* ids a config file lists
  RetiredPlugins, BuiltIn, Reserved, NoTable,
  FormAgents, EngineModels, DefaultAgent, NoReply, MaxForms

VARIABLES
  sessions,   \* sessions of any server: id (or NoSession, a view), the core that made it, env
  servers,    \* socket -> the environment of the process that started the server
  configs,    \* config file -> what is in it; a file not listed is missing
  recorded,   \* data directory -> agents with a record
  invocation, \* the call that runs
  serverStops, configEdits,
  typed, fileDefaults,  \* create's flags so far; the file's agent block
  manifest, entries,    \* the plugins linked; the config file's entries
  form, offered, answers, created, forms  \* prefix+n: the form's process, the definitions there
                        \* are, what its directory holds, who was created

createVars == <<typed, fileDefaults>>
pluginVars == <<manifest, entries>>
formVars == <<form, offered, answers, created, forms>>
invocationVars == <<sessions, servers, configs, recorded, invocation, serverStops, configEdits>>

-----------------------------------------------------------------------------
(* Paths are sequences of parts, <<>> when unset.                           *)
Kinds == {"config", "data", "state", "cache", "run"}
Unset == <<>>
Absolute(path) == IF path # Unset /\ path[1] = "/" THEN path ELSE Workplace \o path
FirstSet(paths) == LET i == SelectInSeq(paths, LAMBDA p : p # Unset) IN IF i = 0 THEN Unset ELSE paths[i]
Under(base, part) == IF base = Unset THEN Unset ELSE Append(base, part)

ApplicationName(env) == IF env.app = "" THEN "tx-ide" ELSE env.app

DefaultPlace(kind, env) ==
  CASE kind = "config" -> env.home \o <<".config">>
    [] kind = "data" -> env.home \o <<".local", "share">>
    [] kind = "state" -> env.home \o <<".local", "state">>
    [] kind = "cache" -> env.home \o <<".cache">>
    [] kind = "run" -> IF env.user = "" THEN Unset ELSE <<"/", "tmp", env.user>>

Directory(kind, global, env) ==
  FirstSet(<<global.dirs[kind], env.exported[kind], Under(env.xdg[kind], ApplicationName(env)),
             Under(DefaultPlace(kind, env), ApplicationName(env))>>)

NamesADirectory(global) == \E k \in Kinds : global.dirs[k] # Unset

(* Mutant: the exported socket serves whatever directories were named.      *)
SocketAlways(global, env) ==
  IF global.socket # Unset THEN Absolute(global.socket) ELSE env.socket
SocketOverride(global, env) ==
  CASE global.socket # Unset -> Absolute(global.socket)
    [] global.socket = Unset /\ NamesADirectory(global) -> Unset
    [] OTHER -> env.socket

(* A name that is no path component, or nothing to name <run> after.        *)
Unresolvable(global, env) == env.app \in BadNames \/ Directory("run", global, env) = Unset

CoreOf(global, env) ==
  LET dirs == [k \in Kinds |-> Absolute(Directory(k, global, env))] IN
  [dirs |-> dirs, socket |-> SocketOverride(global, env), app |-> ApplicationName(env), given |-> global.given,
   file |-> IF global.config # Unset THEN Absolute(global.config) ELSE Append(dirs["config"], "config.yaml")]

SocketPath(core) == IF core.socket # Unset THEN core.socket ELSE Append(core.dirs["run"], "tmux.sock")
SocketFits(core) == Len(SocketPath(core)) <= MaxSocketParts /\ SocketPath(core)[1] = "/"

(* The flags of a re-invocation: no --config, no --env.                     *)
CliArguments(core) ==
  [dirs |-> core.dirs, socket |-> core.socket, config |-> Unset, given |-> [k \in Kinds |-> Unset]]
NoFlags == [dirs |-> [k \in Kinds |-> Unset], socket |-> Unset, config |-> Unset, given |-> [k \in Kinds |-> Unset]]

(* What core exports into a session over the server's environment; a user's *)
(* own `--env TX_DATA_DIR=...` comes last.                                  *)
SessionEnvironment(core, id, inherited) ==
  [inherited EXCEPT !.id = id, !.socket = SocketPath(core), !.app = core.app, !.tmux = SocketPath(core),
                    !.exported = [k \in Kinds |-> FirstSet(<<core.given[k], core.dirs[k]>>)]]

(* What a config file makes of the call: "all" the plugins, one of them off, *)
(* or no reading it.                                                        *)
ConfigAt(file) == IF file \in DOMAIN configs THEN configs[file] ELSE "all"
RecordsIn(core) == IF core.dirs["data"] \in DOMAIN recorded THEN recorded[core.dirs["data"]] ELSE {}
ServerEnv(socket, env) == IF socket \in DOMAIN servers THEN servers[socket] ELSE env

-----------------------------------------------------------------------------
NoCore == [dirs |-> [k \in Kinds |-> Unset], socket |-> Unset, app |-> "", given |-> [k \in Kinds |-> Unset], file |-> Unset]
NoInvocation ==
  [at |-> "none", verb |-> "", global |-> NoFlags, env |-> CHOOSE e \in Shells : TRUE, core |-> NoCore,
   expected |-> NoCore, caller |-> NoSession, plugins |-> "", edited |-> FALSE, sender |-> NoSession, made |-> {}]

Told == {"help", "definitions", "check", "misuse"}     \* verbs that open no core
Verbs == Told \union {"create", "send", "plugin", "hook"}

InvocationInit ==
  /\ sessions = {} /\ servers = Unset /\ configs = Unset /\ recorded = Unset
  /\ invocation = NoInvocation /\ serverStops = 0 /\ configEdits = 0

(* main: the words are parsed; expected is the core the caller means.       *)
Parse(env, global, verb, expected, caller) ==
  invocation' = [NoInvocation EXCEPT !.at = "parsed", !.verb = verb, !.global = global, !.env = env,
                   !.expected = expected, !.caller = caller]
(* A view carries nothing of the core that made it; a session whose directory *)
(* the user named with --env means that one.                                *)
Meant(s) == IF s.id # NoSession /\ s.core.given = NoFlags.given THEN s.core ELSE NoCore
AtRest == invocation.at = "none" /\ UNCHANGED <<sessions, servers, configs, recorded, serverStops, configEdits>>

InvokeOutside ==
  /\ AtRest
  /\ \E env \in Shells, global \in Flagged, verb \in Verbs \ {"hook"} : Parse(env, global, verb, NoCore, NoSession)

(* In a session's pane, its agent's command or a user at a view.            *)
InvokeInside ==
  /\ AtRest
  /\ \E s \in sessions, global \in Flagged, verb \in Verbs \ {"hook"} :
       Parse(s.env, global, verb, IF global = NoFlags THEN Meant(s) ELSE NoCore, s.id)

(* A program an agent started that left its pane: its environment, and      *)
(* another terminal, or none.                                               *)
InvokeDetached ==
  /\ AtRest
  /\ \E s \in sessions, verb \in {"send", "create"} : Parse([s.env EXCEPT !.tmux = Unset], NoFlags, verb, Meant(s), NoSession)

(* A key, a popup or a view's program runs tx with the core's arguments, in *)
(* the server's environment, in a session's or in a shell's.                *)
InvokeAgain ==
  /\ AtRest
  /\ \E s \in sessions, verb \in {"plugin", "create"} :
       \E env \in Shells \union {t.env : t \in sessions} \union {servers[x] : x \in DOMAIN servers} :
         Parse(env, CliArguments(s.core), verb, s.core, NoSession)

(* The hook an engine wires: `txi hook`, no flags.                          *)
InvokeHook ==
  /\ AtRest
  /\ \E s \in sessions : s.id # NoSession /\ Parse(s.env, NoFlags, "hook", Meant(s), s.id)

-----------------------------------------------------------------------------
CallIs(place) == invocation.at = place
Standing == UNCHANGED <<sessions, servers, recorded, configs, serverStops, configEdits>>
To(place) == invocation' = [invocation EXCEPT !.at = place]

Tell == CallIs("parsed") /\ invocation.verb \in Told /\ To("over") /\ Standing

(* A verb that is not built in is looked up before a core is opened.        *)
PreviewVerbs ==
  /\ CallIs("parsed") /\ invocation.verb = "plugin"
  /\ IF Unresolvable(invocation.global, invocation.env) THEN To("over")
     ELSE LET text == ConfigAt(CoreOf(invocation.global, invocation.env).file) IN
          IF text # "all" THEN To("over") ELSE To("known")
  /\ Standing

(* open_with: the plugins of the config file, and then its agent block.     *)
ReadPlugins ==
  /\ (CallIs("parsed") /\ invocation.verb \in {"create", "send", "hook"}) \/ CallIs("known")
  /\ IF Unresolvable(invocation.global, invocation.env) THEN To("over")
     ELSE LET core == CoreOf(invocation.global, invocation.env)
              text == ConfigAt(core.file) IN
          IF text = "broken" THEN To("over")
          ELSE invocation' = [invocation EXCEPT !.at = "plugins", !.core = core, !.plugins = text]
  /\ Standing

ReadDefaults ==
  /\ CallIs("plugins")
  /\ IF ConfigAt(invocation.core.file) = "broken" THEN To("over") ELSE To("read")
  /\ Standing

(* TxCore::open: the socket is checked before a directory is made.          *)
OpenCore ==
  /\ CallIs("read")
  /\ IF SocketFits(invocation.core)
     THEN invocation' = [invocation EXCEPT !.at = "open", !.made = {invocation.core.dirs[k] : k \in {"data", "state", "run"}}]
     ELSE To("over")
  /\ Standing

(* A core whose config has lost the plugin since: `expect` ends the program. *)
Panic == CallIs("open") /\ invocation.verb = "plugin" /\ invocation.plugins # "all" /\ To("panicked") /\ Standing

(* create: a session with core's exports. A plugin's verb opens a view: what *)
(* the server has, and no more. The first session starts the server.        *)
StartSession(id, env) ==
  LET core == invocation.core
      socket == SocketPath(core) IN
  /\ sessions' = sessions \union {[id |-> id, core |-> core, env |-> env]}
  /\ servers' = [x \in DOMAIN servers \union {socket} |-> IF x \in DOMAIN servers THEN servers[x] ELSE invocation.env]

Create ==
  /\ CallIs("open") /\ invocation.verb = "create"
  /\ \E id \in SessionIds \ {s.id : s \in sessions} :
       LET core == invocation.core IN
       /\ StartSession(id, SessionEnvironment(core, id, ServerEnv(SocketPath(core), invocation.env)))
       /\ recorded' = [d \in DOMAIN recorded \union {core.dirs["data"]} |->
                         IF d = core.dirs["data"] THEN RecordsIn(core) \union {id} ELSE recorded[d]]
  /\ To("over") /\ UNCHANGED <<configs, serverStops, configEdits>>

RunPlugin ==
  /\ CallIs("open") /\ invocation.verb = "plugin" /\ invocation.plugins = "all"
  /\ LET socket == SocketPath(invocation.core) IN
     StartSession(NoSession, [ServerEnv(socket, invocation.env) EXCEPT !.tmux = socket])
  /\ To("over") /\ UNCHANGED <<recorded, configs, serverStops, configEdits>>

(* Who `send` speaks as: an agent inside this core's server, or the user.   *)
InsideServer == invocation.env.tmux = SocketPath(invocation.core)
SenderFromEnv == IF InsideServer /\ invocation.env.id \in RecordsIn(invocation.core) THEN invocation.env.id ELSE NoSession
Send ==
  /\ CallIs("open") /\ invocation.verb = "send"
  /\ invocation' = [invocation EXCEPT !.at = "sent", !.sender = SenderFromEnv]
  /\ Standing

(* A hook of an agent this core has no record of is not an error.           *)
Hear ==
  /\ CallIs("open") /\ invocation.verb = "hook"
  /\ invocation' = [invocation EXCEPT !.at = "heard", !.sender = IF invocation.env.id \in RecordsIn(invocation.core)
                      THEN invocation.env.id ELSE NoSession]
  /\ Standing

Leave == invocation.at \in {"over", "sent", "heard", "panicked"} /\ invocation' = NoInvocation /\ Standing

-----------------------------------------------------------------------------
(* An editor saves the config file of the core that is called.              *)
EditConfig ==
  /\ configEdits < MaxConfigEdits /\ invocation.at \in {"parsed", "known", "plugins", "read", "open"} /\ ~Unresolvable(invocation.global, invocation.env)
  /\ \E text \in {"all", "less", "broken"} :
       LET file == CoreOf(invocation.global, invocation.env).file IN
       /\ text # ConfigAt(file)
       /\ configs' = [f \in DOMAIN configs \union {file} |-> IF f = file THEN text ELSE configs[f]]
  /\ invocation' = [invocation EXCEPT !.edited = @ \/ invocation.at # "parsed"]
  /\ configEdits' = configEdits + 1
  /\ UNCHANGED <<sessions, servers, recorded, serverStops>>

(* A server ends with its last session.                                     *)
ServerStops ==
  /\ serverStops < MaxStops /\ invocation.at = "none"
  /\ \E x \in DOMAIN servers :
       /\ servers' = [y \in DOMAIN servers \ {x} |-> servers[y]]
       /\ sessions' = {s \in sessions : SocketPath(s.core) # x}
  /\ serverStops' = serverStops + 1
  /\ UNCHANGED <<configs, recorded, invocation, configEdits>>

InvocationNext ==
  \/ InvokeOutside \/ InvokeInside \/ InvokeDetached \/ InvokeAgain \/ InvokeHook
  \/ Tell \/ PreviewVerbs \/ ReadPlugins \/ ReadDefaults \/ OpenCore \/ Panic
  \/ Create \/ RunPlugin \/ Send \/ Hear \/ Leave \/ EditConfig \/ ServerStops

-----------------------------------------------------------------------------
CoreIsOpen == invocation.core # NoCore
(* What runs for a session is that session's core, wherever and by whom it is *)
(* run: its hooks reach its record and its messages are its own, an agent's   *)
(* name is taken by nobody who is not in its pane, but for who works on a     *)
(* server that agent itself started. A call that names the run directory is   *)
(* on the server there, also inside a session. A call that only tells, that   *)
(* names no verb or whose config file cannot be read creates nothing, and the *)
(* program dies of a verb it had looked up only if the file was edited in     *)
(* between.                                                                 *)
InvocationHolds ==
  /\ CoreIsOpen /\ invocation.expected # NoCore =>
       invocation.core.dirs = invocation.expected.dirs /\ SocketPath(invocation.core) = SocketPath(invocation.expected)
  /\ CoreIsOpen /\ invocation.global.socket = Unset /\ invocation.global.dirs["run"] # Unset =>
       SocketPath(invocation.core) = Append(Absolute(invocation.global.dirs["run"]), "tmux.sock")
  /\ CallIs("heard") /\ invocation.expected # NoCore => invocation.sender = invocation.caller
  /\ CallIs("sent") =>
       /\ invocation.expected # NoCore => invocation.sender = invocation.caller
       /\ invocation.sender \in {invocation.caller, NoSession} \/ \E x \in DOMAIN servers : servers[x].id = invocation.sender
  /\ invocation.made # {} => invocation.verb \notin Told /\ invocation.plugins # ""
  /\ CallIs("panicked") => invocation.edited

-----------------------------------------------------------------------------
(* `create NAME --cwd DIR --prompt T flag...`: what the flags and the file   *)
(* make of a launch. A value is a sequence of words, an option not set <<>>. *)
SetsOption(p) == p.flag \in {"--model", "--effort", "--option"}
OptionKey(p) == CASE p.flag = "--model" -> "model" [] p.flag = "--effort" -> "effort" [] OTHER -> p.key
Values(pairs, flag) == LET own == SelectSeq(pairs, LAMBDA p : p.flag = flag) IN [i \in DOMAIN own |-> own[i].value]
LastOr(values, otherwise) == IF values = <<>> THEN otherwise ELSE values[Len(values)]

(* An engine this build does not know, an option without a value or a bare   *)
(* name, extras without the agent they extend.                              *)
Misuse(pairs) ==
  \/ \E i \in DOMAIN pairs :
       \/ pairs[i].flag = "--engine" /\ pairs[i].value \notin EngineNames
       \/ SetsOption(pairs[i]) /\ (pairs[i].value = <<>> \/ OptionKey(pairs[i]) = "")
  \/ Values(pairs, "--skill") # <<>> /\ Values(pairs, "--agent") = <<>>

(* --engine-args is the option `args`, set after the others.                *)
OptionsGiven(pairs, key) ==
  LET own == SelectSeq(pairs, LAMBDA p : SetsOption(p) /\ OptionKey(p) = key) IN
  IF key = "args" /\ Values(pairs, "--engine-args") # <<>> THEN FlattenSeq(Values(pairs, "--engine-args"))
  ELSE IF own = <<>> THEN NotSet ELSE own[Len(own)].value

(* Mutant: the file's model is asked of any engine. *)
FileOptionOfAny(defaults, engine, key) ==
  CASE key = "model" -> defaults.model
    [] key = "effort" -> defaults.effort
    [] OTHER -> NotSet

(* The file's model is a model of the file's engine.                        *)
FileOption(defaults, engine, key) ==
  CASE key = "model" -> IF engine = defaults.engine THEN defaults.model ELSE NotSet
    [] key = "effort" -> defaults.effort
    [] OTHER -> NotSet

LaunchOf(defaults, pairs) ==
  LET engine == LastOr(Values(pairs, "--engine"), defaults.engine)
      agent == LastOr(Values(pairs, "--agent"), NotSet)
      roles == Values(pairs, "--role") IN
  [engine |-> engine,
   roles |-> IF roles = <<>> /\ agent = NotSet THEN defaults.roles ELSE roles,
   definition |-> IF agent = NotSet THEN defaults.definition ELSE agent,
   skills |-> Values(pairs, "--skill"), tags |-> Values(pairs, "--tag"),
   options |-> [k \in OptionKeys |-> IF OptionsGiven(pairs, k) # NotSet THEN OptionsGiven(pairs, k)
                                     ELSE FileOption(defaults, engine, k)]]

(* `fork SOURCE`: the source's launch, under the options and tags given.     *)
ForkOf(source, pairs) ==
  [source EXCEPT !.tags = IF Values(pairs, "--tag") = <<>> THEN @ ELSE Values(pairs, "--tag"),
                 !.options = [k \in OptionKeys |-> IF OptionsGiven(pairs, k) # NotSet THEN OptionsGiven(pairs, k) ELSE @[k]]]
ForkFlag(p) == SetsOption(p) \/ p.flag \in {"--engine-args", "--tag"}

CreateInit == typed = <<>> /\ fileDefaults \in FileDefaults
TypePair == Len(typed) < MaxPairs /\ typed' \in {Append(typed, p) : p \in Pairs} /\ UNCHANGED fileDefaults

(* What a flag settles; --model and --option model=M are one.               *)
Settles(p) == IF SetsOption(p) THEN <<"option", OptionKey(p)>> ELSE <<p.flag, "">>
Swapped(s, i) == [s EXCEPT ![i] = s[i + 1], ![i + 1] = s[i]]
(* The order of two flags that settle different things is nothing, the       *)
(* file's model reaches its own engine only, and a fork under options is the  *)
(* agent that those options after the source's would have made.             *)
LaunchesHold ==
  /\ \A i \in 1..(Len(typed) - 1) :
       Settles(typed[i]) # Settles(typed[i + 1]) =>
         LaunchOf(fileDefaults, typed) = LaunchOf(fileDefaults, Swapped(typed, i)) /\ Misuse(typed) = Misuse(Swapped(typed, i))
  /\ LET launch == LaunchOf(fileDefaults, typed) IN
     launch.engine # fileDefaults.engine /\ OptionsGiven(typed, "model") = NotSet => launch.options["model"] = NotSet
  /\ \A i \in 0..Len(typed) :
       LET first == SubSeq(typed, 1, i)
           rest == SubSeq(typed, i + 1, Len(typed)) IN
       (\A j \in DOMAIN rest : ForkFlag(rest[j])) =>
         LET fork == ForkOf(LaunchOf(fileDefaults, first), rest)
             whole == LaunchOf(fileDefaults, typed) IN
         /\ fork.engine = whole.engine /\ fork.roles = whole.roles /\ fork.definition = whole.definition
         /\ \A k \in OptionKeys \ {"args"} : fork.options[k] = whole.options[k]

-----------------------------------------------------------------------------
(* The plugins this binary links and the entries of the config file. A call *)
(* previews their verbs without a core, and registers them in the core.     *)
KnownIds == {manifest[i].id : i \in DOMAIN manifest}
UnknownEntry == \E id \in EntryIds : entries[id] # "absent" /\ id \notin KnownIds \union RetiredPlugins
Disabled == {id \in KnownIds : id \notin RetiredPlugins /\ id \in EntryIds /\ entries[id] = "off"}
ListedTwice == Cardinality(KnownIds) # Len(manifest)
Active(off) == SelectSeq(manifest, LAMBDA p : p.id \notin off)

Clashes(active, i, slot) == \E j \in 1..(i - 1) : active[i][slot] \intersect active[j][slot] # {}
VerbRefused(active, i) == active[i].verbs \intersect Reserved # {} \/ Clashes(active, i, "verbs")
AllVerbs(active) == UNION {active[i].verbs : i \in DOMAIN active}

(* Mutant: the preview does not look for an id that is there twice. *)
PreviewTableOfTwice(off) ==
  LET active == Active(off) IN
  IF \E i \in DOMAIN active : VerbRefused(active, i) THEN NoTable ELSE AllVerbs(active)

(* The verbs there will be, before anything is opened. *)
PreviewTable(off) ==
  LET active == Active(off) IN
  IF ListedTwice \/ \E i \in DOMAIN active : VerbRefused(active, i) THEN NoTable ELSE AllVerbs(active)
Plug(off) ==
  LET active == Active(off) IN
  IF ListedTwice \/ \E i \in DOMAIN active : VerbRefused(active, i) \/ Clashes(active, i, "engines") \/ Clashes(active, i, "resources")
  THEN NoTable
  ELSE AllVerbs(active)
PluginStatus(off) == [i \in DOMAIN manifest |-> <<manifest[i].id, manifest[i].id \notin off>>]

PluginsInit == manifest \in Manifests /\ entries = [id \in EntryIds |-> "absent"]
EditEntry == \E id \in EntryIds, entry \in {"absent", "on", "off"} : entries' = [entries EXCEPT ![id] = entry] /\ UNCHANGED manifest

(* What a call previews is what its core has: a plugin that registers runs   *)
(* under every verb that is shown of it, and a verb that a builtin word hides *)
(* is one the front end did not reserve. Switching a plugin off takes its     *)
(* verbs away, mends what it clashed with and breaks nothing; a retired id    *)
(* switches nothing off.                                                    *)
PluginsHold ==
  ~UnknownEntry =>
    LET table == Plug(Disabled)
        shown == PreviewTable(Disabled) IN
    /\ table # NoTable => shown = table /\ table \intersect BuiltIn \subseteq BuiltIn \ Reserved
    /\ table = NoTable /\ shown # NoTable =>
         \E i \in DOMAIN manifest, slot \in {"engines", "resources"} : Clashes(manifest, i, slot)
    /\ \A id \in KnownIds \ Disabled :
         table # NoTable => Plug(Disabled \union {id}) = UNION {manifest[i].verbs : i \in {j \in DOMAIN manifest :
                                                          manifest[j].id \notin Disabled \union {id}}}
    /\ \A i \in DOMAIN manifest : PluginStatus(Disabled)[i][2] <=>
         (manifest[i].id \in EntryIds => entries[manifest[i].id] # "off" \/ manifest[i].id \in RetiredPlugins)

-----------------------------------------------------------------------------
(* prefix+n (plugins/spawn): tx asks in nvim, in a directory named after its *)
(* process, and creates what the answers say. Two processes may have one id, *)
(* one after the other. offered: the agent definitions there are.           *)
NoForm == [at |-> "none", agent |-> "", shown |-> {}, said |-> NoReply, kept |-> FALSE]
Preselected == IF DefaultAgent \in offered THEN DefaultAgent ELSE CHOOSE a \in offered : TRUE

FormInit == form = NoForm /\ offered = FormAgents /\ answers = NoReply /\ created = NoReply /\ forms = 0
OpenForm ==
  /\ form.at = "none" /\ offered # {} /\ forms < MaxForms
  /\ form' = [at |-> "asking", agent |-> Preselected, shown |-> offered, said |-> NoReply, kept |-> answers # NoReply]
  /\ forms' = forms + 1 /\ created' = NoReply /\ UNCHANGED <<offered, answers>>
(* The form writes its answers and nvim ends; or it ends without.           *)
Submit ==
  /\ form.at = "asking"
  /\ \E agent \in form.shown, engine \in DOMAIN EngineModels :
       \E model \in {EngineModels[engine][i] : i \in DOMAIN EngineModels[engine]} :
         LET reply == [agent |-> agent, engine |-> engine, model |-> model] IN
         answers' = reply /\ form' = [form EXCEPT !.at = "ended", !.said = reply]
  /\ UNCHANGED <<offered, created, forms>>
Cancel == form.at = "asking" /\ form' = [form EXCEPT !.at = "ended"] /\ UNCHANGED <<offered, answers, created, forms>>
(* The popup is closed on it, or tx is killed: the directory stays.         *)
FormDies == form.at \in {"asking", "ended"} /\ form' = NoForm /\ UNCHANGED <<offered, answers, created, forms>>

(* What the options say to the engine: no model for the engine's own.       *)
ModelOption(reply) == IF reply.model = EngineModels[reply.engine][1] THEN "" ELSE reply.model
TakeAnswers ==
  /\ form.at = "ended"
  /\ answers' = NoReply
  /\ IF answers = NoReply THEN form' = NoForm /\ UNCHANGED created
     ELSE IF answers.agent \notin offered THEN form' = [form EXCEPT !.at = "failed"] /\ UNCHANGED created
     ELSE form' = [form EXCEPT !.at = "spawned"] /\ created' = [agent |-> answers.agent, engine |-> answers.engine, model |-> ModelOption(answers)]
  /\ UNCHANGED <<offered, forms>>
ReportSpawn == form.at \in {"spawned", "failed"} /\ form' = NoForm /\ UNCHANGED <<offered, answers, created, forms>>
EditAgents == offered' \in {offered \ {a} : a \in offered} \union {FormAgents} /\ offered' # offered /\ UNCHANGED <<form, answers, created, forms>>

FormNext == OpenForm \/ Submit \/ Cancel \/ FormDies \/ TakeAnswers \/ ReportSpawn \/ EditAgents

(* Who is created is who the form said, under the model that was picked, and *)
(* nobody is when it was cancelled: unless another process of that id died    *)
(* with its answers unread. What is preselected is offered.                 *)
FormHolds ==
  /\ form.at = "spawned" =>
       LET reply == form.said IN
       IF reply = NoReply THEN form.kept
       ELSE created.agent = reply.agent /\ created.engine = reply.engine
            /\ reply.model = IF created.model = "" THEN EngineModels[reply.engine][1] ELSE created.model
  /\ form.at = "asking" => form.agent \in form.shown /\ (DefaultAgent \in form.shown => form.agent = DefaultAgent)

-----------------------------------------------------------------------------
(* Worktrees: paths are sequences of names from the root. *)

CONSTANTS
  LinkSets,     \* symlinks a file system may have: path -> target (absolute or not, parts)
  SpelledParts, \* parts a path is spelled with
  MaxHops, MaxSpelled,
  TreeRoot,     \* <data>/worktrees, as it is written
  Checkouts,    \* repositories
  SlugOf,       \* checkout -> the name it is browsed by
  NamesTried,   \* base name -> the names tried, in order
  MaxTreeTurns  \* bound: creates and what others do

VARIABLES
  links,      \* the symlinks there are
  spelled,    \* a path being spelled
  treesThere,     \* directories there are under the root, by their one spelling
  treesListed,     \* what git lists, by the same
  crew,       \* agents: name, checkout, path, whether it runs
  forgotten,       \* trees deleted and pruned since their agent was created (history)
  making,     \* the create that runs
  treeTurns

pathVars == <<links, spelled>>
treeVars == <<treesThere, treesListed, crew, forgotten, making, treeTurns>>

-----------------------------------------------------------------------------
(* resolve_path: a link is read relative to where it is, `..` is applied to  *)
(* what is resolved so far, and what is not there is kept as written.       *)
RECURSIVE Follow(_, _, _)
Follow(resolved, pending, hops) ==
  IF pending = <<>> THEN resolved
  ELSE IF Head(pending) = ".." THEN Follow(IF resolved = <<>> THEN <<>> ELSE Front(resolved), Tail(pending), hops)
  ELSE LET next == Append(resolved, Head(pending)) IN
       IF next \in DOMAIN links /\ hops < MaxHops
       THEN Follow(IF links[next].absolute THEN <<>> ELSE resolved, links[next].parts \o Tail(pending), hops + 1)
       ELSE Follow(next, Tail(pending), hops)
ResolvePath(path) == Follow(<<>>, path, 0)

PathsInit == links \in LinkSets /\ spelled = <<>>
Spell == Len(spelled) < MaxSpelled /\ spelled' \in {Append(spelled, p) : p \in SpelledParts} /\ UNCHANGED links

Canonical(path) == \A i \in DOMAIN path : path[i] # ".." /\ SubSeq(path, 1, i) \notin DOMAIN links
(* The spelling a path resolves to has no link and no `..`, is its own        *)
(* spelling, and whatever of a path is spelled that way first, the rest leads *)
(* to the same place: only where links run in a circle is one left.         *)
PathsHold ==
  LET path == ResolvePath(spelled) IN
  Canonical(path) =>
    /\ ResolvePath(path) = path
    /\ \A i \in 0..Len(spelled) :
         LET first == ResolvePath(SubSeq(spelled, 1, i)) IN
         Canonical(first) => ResolvePath(first \o SubSeq(spelled, i + 1, Len(spelled))) = path

-----------------------------------------------------------------------------
(* The readable name and the digest of the shared git directory.            *)
RepositoryKey(checkout) == <<SlugOf[checkout], checkout>>
PathFor(checkout, label) == TreeRoot \o <<RepositoryKey(checkout)[1], RepositoryKey(checkout)[2], label>>

RunningNames == {a.name : a \in {b \in crew : b.runs}}
Free(path) == ResolvePath(path) \notin treesThere \union treesListed
Pick(base, free) == LET names == NamesTried[base]
                        i == SelectInSeq(names, LAMBDA n : n \in free) IN IF i = 0 THEN "" ELSE names[i]
FreeName(base) == Pick(base, Range(NamesTried[base]) \ RunningNames)
NextName(checkout, base) == Pick(base, {n \in Range(NamesTried[base]) : Free(PathFor(checkout, n))})

NotMaking == [at |-> "idle", checkout |-> "", base |-> "", name |-> "", label |-> "", disturbed |-> FALSE]
TreesInit == treesThere = {} /\ treesListed = {} /\ crew = {} /\ forgotten = {} /\ making = NotMaking /\ treeTurns = 0

TreeTurn == treeTurns < MaxTreeTurns /\ treeTurns' = treeTurns + 1
(* create_unique: the session's name first, and then a label for the tree.  *)
NameSession ==
  /\ making.at = "idle" /\ TreeTurn
  /\ \E checkout \in Checkouts, base \in DOMAIN NamesTried :
       making' = [NotMaking EXCEPT !.at = IF FreeName(base) = "" THEN "full" ELSE "named", !.checkout = checkout, !.base = base, !.name = FreeName(base)]
  /\ UNCHANGED <<treesThere, treesListed, crew, forgotten>>
LabelTree ==
  /\ making.at = "named"
  /\ LET label == NextName(making.checkout, making.name) IN
     making' = [making EXCEPT !.at = IF label = "" THEN "full" ELSE "labelled", !.label = label]
  /\ UNCHANGED <<treesThere, treesListed, crew, forgotten, treeTurns>>
(* create: looked at once more, and then git adds it. git refuses a path it   *)
(* lists, its directory there or not.                                       *)
AddTree ==
  /\ making.at = "labelled"
  /\ LET path == ResolvePath(PathFor(making.checkout, making.label)) IN
     IF Free(PathFor(making.checkout, making.label))
     THEN making' = [making EXCEPT !.at = "added"] /\ treesThere' = treesThere \union {path} /\ treesListed' = treesListed \union {path}
     ELSE making' = [making EXCEPT !.at = "refused"] /\ UNCHANGED <<treesThere, treesListed>>
  /\ UNCHANGED <<crew, forgotten, treeTurns>>
(* The launch: recorded under the tree's one spelling, or it fails, always if *)
(* the tree is gone again, and git, asked from inside the tree, removes it.  *)
LaunchAgent ==
  /\ making.at = "added"
  /\ LET path == ResolvePath(PathFor(making.checkout, making.label)) IN
     \/ /\ path \in treesThere /\ making' = NotMaking /\ UNCHANGED <<treesThere, treesListed>>
        /\ crew' = crew \union {[name |-> making.name, path |-> path, runs |-> TRUE]}
     \/ LET removed == {path} \intersect treesThere \intersect treesListed IN
        making' = [making EXCEPT !.at = "failed"] /\ treesThere' = treesThere \ removed /\ treesListed' = treesListed \ removed /\ UNCHANGED crew
  /\ UNCHANGED <<forgotten, treeTurns>>
GiveUp == making.at \in {"full", "refused", "failed"} /\ making' = NotMaking /\ UNCHANGED <<treesThere, treesListed, crew, forgotten, treeTurns>>

Disturb == making' = [making EXCEPT !.disturbed = making.at # "idle"]
AgentEnds ==
  /\ \E a \in crew : a.runs /\ crew' = (crew \ {a}) \union {[a EXCEPT !.runs = FALSE]}
  /\ Disturb /\ UNCHANGED <<treesThere, treesListed, forgotten, treeTurns>>
(* Others: a directory in the way, a tree deleted, git told to forget it.   *)
DirectoryAppears ==
  /\ TreeTurn /\ \E checkout \in Checkouts, base \in DOMAIN NamesTried : treesThere' = treesThere \union {ResolvePath(PathFor(checkout, base))}
  /\ treesThere' # treesThere /\ Disturb /\ UNCHANGED <<treesListed, crew, forgotten>>
TreeDeleted == TreeTurn /\ \E path \in treesThere : treesThere' = treesThere \ {path} /\ Disturb /\ UNCHANGED <<treesListed, crew, forgotten>>
Prune ==
  /\ TreeTurn /\ treesListed \ treesThere # {}
  /\ treesListed' = treesListed \intersect treesThere /\ forgotten' = forgotten \union (treesListed \ treesThere) /\ Disturb /\ UNCHANGED <<treesThere, crew>>

WorktreesInit == PathsInit /\ TreesInit
TreesNext ==
  NameSession \/ LabelTree \/ AddTree \/ LaunchAgent \/ GiveUp \/ AgentEnds \/ DirectoryAppears \/ TreeDeleted \/ Prune

(* A new agent's tree is nobody else's, ended agents and deleted trees        *)
(* included, as long as git was not told to forget it; a create fails only    *)
(* over what came in its way while it ran, or when every name is taken; a     *)
(* failed launch leaves no tree; and no two that run have one name.         *)
TreesHold ==
  /\ making.at = "added" => \A a \in crew :
       a.path = ResolvePath(PathFor(making.checkout, making.label)) => a.path \in forgotten
  /\ making.at = "refused" => making.disturbed
  /\ making.at = "full" /\ ~making.disturbed =>
       IF making.name = "" THEN Range(NamesTried[making.base]) \subseteq RunningNames
       ELSE \A label \in Range(NamesTried[making.name]) : ~Free(PathFor(making.checkout, label))
  /\ making.at = "failed" /\ ~making.disturbed => ResolvePath(PathFor(making.checkout, making.label)) \notin treesThere \union treesListed
  /\ \A a, b \in crew : a.runs /\ b.runs /\ a.name = b.name => a = b
=============================================================================
