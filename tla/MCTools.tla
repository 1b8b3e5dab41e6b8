------------------------------ MODULE MCTools ------------------------------
(***************************************************************************)
(* The verbs a user types and the popups they open, each on its own: part  *)
(* says which one a behaviour is of, and the others stay as they begin.    *)
(***************************************************************************)
EXTENDS Panes, Tutor, Chat, ArtifactDiffs, ArtifactStore, CommandLine, Names, Quoting, HomeChoices

(* Panes: h is the home base, with panes 1, which shows a, and 2; v is the   *)
(* artifact's view, not open yet; m is a session that is not tx's.           *)
RoomOfC == (1 :> "h") @@ (2 :> "h") @@ (3 :> "m")
StartShowsC == (1 :> "a") @@ (2 :> "none") @@ (3 :> "none")
StartScreensC == (11 :> "h") @@ (12 :> "m")
MenuParentC == [a |-> "none", b |-> "a", v |-> "a", h |-> "none", m |-> "none"]
PaperViewC == [x |-> "v"]
TouchersC == [x |-> <<"a", "user", "b">>]
RoleOfC == [a |-> "llm", b |-> "llm", v |-> "nvim", h |-> "shell", m |-> "shell"]
(* A picker begun outside tmux is all its terminal shows.                    *)
PanesNext ==
  /\ \/ WorldNext /\ UNCHANGED <<menuVars, pickerVars>>
     \/ MenuNext /\ UNCHANGED pickerVars
     \/ PickerNext /\ UNCHANGED menuVars
  /\ \A t \in Screens : picker[t].at # "idle" /\ screen[t] = NoRoom /\ UNCHANGED picker => screen'[t] = NoRoom
  /\ worldTurns' + menuKeys' + pickerKeys' + reloads' <= 4

(* Tutor: two builds, whose packs share their first lesson.                 *)
PacksC == {<<"one", "two">>, <<"one", "three">>}
ChecksOfC == [one |-> <<"http", "confirm">>, two |-> <<"tx", "http">>, three |-> <<"confirm">>]

(* The calendar: the first day there is, new years before a leap year, before a  *)
(* year without one that 4 divides, of 53 weeks, and the last days there are.*)
WallStartsC == {[date |-> <<1, 1, 1>>, day |-> MinDays, thursday |-> <<>>],
  [date |-> <<1899, 12, 20>>, day |-> -25579, thursday |-> <<1899, 50>>],
  [date |-> <<1999, 12, 25>>, day |-> 10950, thursday |-> <<1999, 51>>],
  [date |-> <<2019, 12, 20>>, day |-> 18250, thursday |-> <<2019, 51>>],
  [date |-> <<2020, 12, 20>>, day |-> 18616, thursday |-> <<2020, 51>>],
  [date |-> <<9999, 12, 1>>, day |-> 2932866, thursday |-> <<9999, 47>>]}
ClocksC == {<<0, 0, 0, 0>>, <<9, 5, 7, 40>>, <<23, 59, 59, 999999>>, <<24, 0, 0, 0>>, <<23, 59, 60, 0>>}
ZonesC == {0, 90, -1439, 720}

(* The rows: what Claude's and Codex's harnesses write; the third     *)
(* line, if any, is one more of what Claude takes from its user.            *)
Block(type, text) == [type |-> type, text |-> text]
Line(engine, type, by, body, wrap, at) ==
  LET said == IF by \in {"operator", "cli", "model"} THEN body ELSE BuildEnvelope("from-agent", by, body)
      text == CASE wrap = "pasted" -> <<Space, Open("pasted_content", ""), Space>> \o said \o <<Space, Close("pasted_content")>>
                [] wrap = "padded" -> <<Space>> \o said \o <<Space>>
                [] OTHER -> said
  IN [engine |-> engine, type |-> type, by |-> by, body |-> body, wrap |-> wrap, at |-> at, side |-> FALSE,
      meta |-> FALSE, content |-> <<Block(IF type = "function_call" THEN "tool" ELSE "text", text)>>, model |-> "none", context |-> "none"]
Hi == Word("hi")
Bodies == {<<Hi>>, <<>>, <<Hi, Close("from-agent")>>, <<PeerMark("b"), Hi>>, <<<<"command", "/clear", "">>>>,
           <<<<"image", "", "">>, Hi>>, <<Open("from-agent", "b"), Hi, Close("from-agent")>>, <<CommandPrompt, Hi>>}
TypedTexts == {<<Hi>>, <<PeerMark("a"), Hi>>, <<Hi, Open("from-agent", "a"), Hi, Close("from-agent")>>,
               <<<<"command", "/clear", "">>, <<"arguments", "now", "">>>>, <<<<"shell", "ls", "">>>>, <<CommandPrompt, Hi>>,
               BuildEnvelope("from-user", "h", <<Hi>>), <<Word("Act on tx session"), Hi>>}
HarnessTexts == {<<Open("task-notification", "")>>, <<Word("as your first actions")>>, <<Word("[Request interrupted")>>}
ToolTexts == {<<Word("gh pr merge")>>, <<Word("tx artifact create"), Word("--help"), Space, Word("tx artifact create")>>,
              <<Word("send-message"), Word("gh pr merge")>>}
Engines == {"claude", "codex"}
LinesC ==
  {Line(e, "user", by, b, "plain", 1) : e \in Engines, by \in {"a", "b"}, b \in Bodies}
  \union {Line(e, "user", "a", <<Hi>>, w, 2) : e \in Engines, w \in {"pasted", "padded"}}
  \union {Line(e, "user", "a", <<Hi>>, "plain", Untimed) : e \in Engines}
  \union {Line(e, "user", "operator", t, "plain", 1) : e \in Engines, t \in TypedTexts}
  \union {Line(e, "user", "operator", <<Hi, Hi, Hi>>, "plain", 2) : e \in Engines}
  \union {Line(e, "user", "cli", t, "plain", 1) : e \in Engines, t \in HarnessTexts}
  \union {Line("codex", "function_call", "model", t, "plain", 1) : t \in ToolTexts}
  \union {[Line("claude", "assistant", "model", <<Hi>>, "plain", 1) EXCEPT !.content = <<Block("text", <<Hi>>), Block("tool", t)>>,
                   !.model = m, !.context = "5k"] : t \in ToolTexts, m \in {"m", "<synthetic>"}}
  \union {[Line("claude", "assistant", "model", <<Hi>>, "plain", 1) EXCEPT !.side = TRUE, !.model = "small"],
          [Line("claude", "user", "cli", <<Hi>>, "plain", 1) EXCEPT !.meta = TRUE, !.content = <<Block("image", <<>>), Block("text", <<Hi>>)>>],
          [Line("claude", "compact_boundary", "cli", <<>>, "plain", 1) EXCEPT !.context = "1k"],
          [Line("codex", "turn_context", "cli", <<>>, "plain", 1) EXCEPT !.model = "m"],
          [Line("codex", "token_count", "cli", <<>>, "plain", 1) EXCEPT !.context = "3k"]}
ChatNext ==
  /\ ConversationNext
  /\ Len(transcriptLines') > 2 => \A i \in DOMAIN transcriptLines' :
       LET l == transcriptLines'[i] IN
       l.engine = "claude" /\ l.type # "assistant" /\ l.by \in {"operator", "cli"}

(* The cleanup: hooks of both versions, one or none in either CLI's file.    *)
RetiredC == <<"chat", "history">>
TargetsC == <<"claude", "codex">>
TxCommandC == [chat |-> "txc", history |-> "txh"]
OwnBlocksC == {<<"mine">>}

(* Groups: a parent and a child beside a hub; s touched the artifact first, *)
(* last of the living, or nobody living did.                                *)
TagsAtFirstC == [s |-> "no group", t |-> "tag", hub |-> "no group"]
FirstAuthorsC == {<<"s">>, <<"user", "s", "t", "gone">>, <<"gone", "user">>}

(* ArtifactStore: two ids that begin alike, the second a tour that comes after *)
(* the first and is only there for its name.                                *)
BeginningsC == [i1 |-> {"i", "i1"}, i2 |-> {"i", "i2"}]
NewAs(contents) == [group |-> NotThere, archived |-> FALSE, contents |-> contents]
IsNew(what) == [group |-> what.group, archived |-> what.archived, contents |-> what.contents] = NewAs(<<"c">>)
PapersNext ==
  /\ StoreNext
  /\ paperVerbs' + Cardinality(harms') <= 4
  /\ named'["i2"] = NotThere
  /\ \A id \in PaperIds : asked[id] = NotThere /\ asked'[id] # NotThere => IsNew(asked'[id])
  /\ asked'["i2"] # NotThere => asked'["i1"] # NotThere /\ asked'["i2"].kind = "tour"
       /\ (asked["i2"] = NotThere \/ asked'["i2"] = asked["i2"])

(* Tours: an agent and the user open one tour, one that lacks a fact and a    *)
(* document; another may be registered under the same title.                *)
GuideActorC == [p |-> "a", q |-> "user"]
RecordTagsC == [a |-> {"x"}]
OldPapersC ==
  [doc |-> [kind |-> "document", title |-> "T"], odd |-> [TourKind("p", "list", "T", FALSE) EXCEPT !.facts = {"worktree"}],
   old |-> TourKind("p", "list", "T", FALSE)]

TourNext ==
  /\ TourProcNext
  /\ tourTurns < tourTurns' /\ tourTurns' > 2 => UNCHANGED <<guides, placesLeft>>
  /\ tourTurns < tourTurns' /\ tourTurns' > 3 => UNCHANGED script /\ placesLeft = Places

(* CommandLine: a plain shell and one with an XDG variable and a name of its  *)
(* own; flags for one directory, one relative, the socket, a --env and a      *)
(* config file; two agents and the views beside them.                       *)
NoDirs == [k \in Kinds |-> <<>>]
ShellOf(app, xdg, user) == [home |-> <<"/", "h">>, user |-> user, app |-> app, exported |-> NoDirs, xdg |-> xdg,
                    socket |-> <<>>, id |-> NoSession, tmux |-> <<>>]
ShellsC == {ShellOf("", NoDirs, "u"), ShellOf("alt", [NoDirs EXCEPT !["data"] = <<"/", "x">>], "u"), ShellOf("a/b", NoDirs, "u"), ShellOf("", NoDirs, "")}
FlaggedC == {NoFlags, [NoFlags EXCEPT !.dirs["data"] = <<"/", "d">>], [NoFlags EXCEPT !.dirs["run"] = <<"r">>],
             [NoFlags EXCEPT !.socket = <<"/", "s">>], [NoFlags EXCEPT !.given["data"] = <<"/", "o">>],
             [NoFlags EXCEPT !.config = <<"c">>], [NoFlags EXCEPT !.dirs["run"] = <<"/", "a", "b", "c", "d", "e">>]}
WorkplaceC == <<"/", "w">>
InvokeNext ==
  /\ InvocationNext
  /\ configEdits' = 1 => sessions' = {}
  /\ sessions # {} /\ invocation.at = "none" =>
       \/ invocation'.env \notin Shells \/ invocation'.expected # NoCore
       \/ invocation'.at = "none" \/ (invocation'.verb = "send" /\ invocation'.global = NoFlags)
  /\ Cardinality(sessions) = 2 => invocation'.verb \in {"", "send", "hook"} /\ (invocation'.env \notin Shells \/ invocation'.at = "none")
  /\ serverStops' = 1 => Cardinality(sessions) <= 1
  /\ sessions # {} /\ invocation'.global # NoFlags => \E s \in sessions, e \in Shells : s.core = CoreOf(NoFlags, e)
(* Launches: three engines' names, of which two exist, the older flags, an    *)
(* empty value and the same option as a flag and by its name.               *)
Flag(flag, value) == [flag |-> flag, key |-> "", value |-> value]
PairsC == {Flag("--engine", <<"codex">>), Flag("--engine", <<"claude">>), Flag("--engine", <<"other">>), Flag("--agent", <<"a">>),
           Flag("--skill", <<"k">>), Flag("--role", <<"r">>), Flag("--tag", <<"t">>), Flag("--model", <<"m">>), Flag("--effort", <<>>),
           Flag("--engine-args", <<"--x", "y">>), [Flag("--option", <<"n">>) EXCEPT !.key = "model"], [Flag("--option", <<"z">>) EXCEPT !.key = "args"]}
FileDefaultsC == {[engine |-> <<"claude">>, model |-> <<"opus">>, effort |-> <<"3">>, roles |-> <<<<"q">>>>, definition |-> <<"developer">>],
                  [engine |-> <<"codex">>, model |-> NotSet, effort |-> NotSet, roles |-> <<>>, definition |-> NotSet]}
(* Plugins: verbs and resources that clash, an engine registered twice, an id *)
(* twice, a reserved verb and one that is hidden.                           *)
Plugin(id, verbs, engines, resources) == [id |-> id, verbs |-> verbs, engines |-> engines, resources |-> resources]
ManifestsC == {<<Plugin("p", a, {"claude"}, {"keys"}), Plugin(q, b, e, r), Plugin("s", {"w"}, {}, {"bin"})>> :
                 a \in {{"v"}, {"ls"}}, b \in {{"u"}, {"v"}, {"w", "check"}}, q \in {"q", "p", "menu"}, e \in {{"codex"}, {"claude"}}, r \in {{}, {"keys"}}}
EngineNamesC == {<<"claude">>, <<"codex">>}
EngineModelsC == [claude |-> <<"fable", "opus">>, codex |-> <<"astra">>]

(* Worktrees: links to a sibling, up and down, absolute and in a circle; the  *)
(* root is reached through one. Two checkouts share a slug.                 *)
LinkTo(absolute, parts) == [absolute |-> absolute, parts |-> parts]
RootLinks == <<"d">> :> LinkTo(TRUE, <<"e">>)
LinkSetsC == {RootLinks,
  (<<"a">> :> LinkTo(FALSE, <<"b", "a">>)) @@ (<<"b", "a">> :> LinkTo(FALSE, <<"..", "c">>)),
  (<<"a", "b">> :> LinkTo(FALSE, <<"..", "b">>)) @@ (<<"b">> :> LinkTo(TRUE, <<"a", "c">>)),
  (<<"a">> :> LinkTo(FALSE, <<"b">>)) @@ (<<"b">> :> LinkTo(TRUE, <<"a">>))}
TreeRootC == <<"d", "w">>
SlugOfC == [r |-> "s", q |-> "s"]
NamesTriedC == [n |-> <<"n", "n2">>, n2 |-> <<"n2", "n22">>, n22 |-> <<"n22">>]

(* Its words: the packs' way of numbering, ids that begin alike, and one     *)
(* that is a number; answers with a header twice and with another answer      *)
(* before them.                                                             *)
DirsTypedC == {<<"~">>, <<"~", "p">>, <<"/", "p">>, <<"p">>, <<"~u">>}
HomesC == {<<>>, <<"/", "h">>}
CwdsC == {<<"/", "w">>, <<"/", "v">>}
LessonIdsC == {<<"0", "1", "-", "a">>, <<"0", "2", "-", "a">>, <<"a">>, <<"a", "b">>, <<"a", "c">>, <<"2">>}
RepliesC ==
  [status : {"200", "404"}, spaced : BOOLEAN, interim : BOOLEAN, body : {<<>>, <<"{}">>, <<"crlf", "crlf", "1">>, <<"1", "a">>},
   headers : {<<>>, <<<<<<"A">>, <<"a", "A">>>>>>, <<<<<<"b">>, <<"a">>>>, <<<<"a">>, <<"b", ":", "a">>>>, <<<<"A">>, <<"a">>>>>>}]
HttpChecksC ==
  [status : {"200"}, contains : {<<>>, <<"1">>}, json : BOOLEAN,
   headers : {<<>>, <<"a">> :> <<"a", "*">>, (<<"a">> :> <<"*", "a">>) @@ (<<"B">> :> <<"A">>)}]
(* The characters that mean something to a shell, tmux, nvim or Lua.         *)
TextCharsC == {"a", "'", ";", "\\", "#", ":", " ", "nl", "ctrl"}
Attendee(name, state, tags, parent) == [name |-> name, engine |-> "claude", state |-> state, tags |-> tags, parent |-> parent]
AttendeesC == {Attendee("a", "idle", {"t"}, FALSE), Attendee("b", "working", {"t", "u"}, TRUE),
               Attendee("c", "ended", {"t"}, TRUE), Attendee("d", "starting", {}, FALSE)}
TxFiltersC ==
  [tag : {{}, {"t"}}, name : {{}, {"a"}}, role : {{}, {"shell"}}, engine : {{}, {"codex"}}, hasParent : {{}, {TRUE}},
   chatOrigin : {{}, {"fork"}}, state : {{}, {"alive", "ended"}, {"idle", "working"}}]

VARIABLE part

Parts == {"panes", "tutor", "calendar", "chat", "cleanup", "diff", "groups", "papers", "git", "invoke", "launch", "plugins", "form", "paths", "trees", "names", "words", "stock", "globs", "replies", "serve", "texts", "tour", "tour words", "choices", "loop", "projects"}

FirstManifest == CHOOSE m \in Manifests : TRUE
FirstReply == CHOOSE r \in ServerReplies : TRUE
ToolsInit ==
  /\ part \in Parts
  /\ (part # "plugins" => manifest = FirstManifest) /\ (part # "replies" => reply = FirstReply)
  /\ WorldInit /\ MenuInit /\ PickerInit
  /\ CalendarInit /\ (part # "calendar" => day = MinDays)
  /\ ConversationInit
  /\ CleanupInit /\ (part # "cleanup" => \A f \in Files : usersOwn[f] = NoEvents /\ versions[f] = {})
  /\ DiffInit /\ StoreInit
  /\ GroupingInit /\ (IF part = "groups" THEN parentOf["hub"] \in {"s", "gone"} /\ (viewParent = "gone" => parentOf["hub"] = "s")
       ELSE parentOf = [s \in Kin |-> Gone] /\ authors = <<"s">> /\ viewParent = "t")
  /\ DiffKindInit /\ (part # "git" => refs["origin/HEAD"] = 1 /\ ~sibling)
  /\ InvocationInit /\ FormInit
  /\ CreateInit /\ (part # "launch" => fileDefaults = CHOOSE d \in FileDefaults : TRUE)
  /\ PluginsInit
  /\ WorktreesInit /\ (part # "paths" => links = RootLinks)
  /\ NamesInit /\ TextsInit /\ TourProcInit /\ (part # "tour" => script = "list") /\ tourTyped = <<>>
  /\ ChoicesInit /\ (part # "choices" => performer.place = "popup" /\ performer.action = <<"tutor", "">>)
  /\ ProjectsInit /\ (part # "projects" => \A w \in HomeTrees : ~checkedOut[w].there /\ checkedOut[w].repository = NoRepository)
  /\ LoopInit /\ (part # "loop" => backdrop = 0 /\ loop.spins)
  /\ LessonsInit /\ (part # "stock" => stock.files = {} /\ ~stock.spoilt)
  /\ TutorInit /\ (part # "tutor" => pack = CHOOSE p \in Packs : TRUE)

(* The other tools stand still.                                             *)
Kept(name, own) == IF part = name THEN TRUE ELSE UNCHANGED own
Alone(name) ==
  /\ part = name /\ UNCHANGED part
  /\ Kept("panes", <<worldVars, menuVars, pickerVars>>) /\ Kept("tutor", tutorVars)
  /\ Kept("calendar", calendarVars) /\ Kept("chat", conversationVars) /\ Kept("cleanup", cleanupVars)
  /\ Kept("diff", diffVars) /\ Kept("groups", groupVars) /\ Kept("papers", storeVars) /\ Kept("git", diffKindVars)
  /\ Kept("invoke", invocationVars) /\ Kept("launch", createVars) /\ Kept("plugins", pluginVars) /\ Kept("form", formVars)
  /\ Kept("paths", pathVars) /\ Kept("trees", treeVars) /\ Kept("names", nameVars)
  /\ Kept("words", tutorWords) /\ Kept("stock", stock) /\ Kept("globs", glob) /\ Kept("replies", <<reply, attending>>)
  /\ Kept("serve", serveVars) /\ Kept("texts", conveyed)
  /\ Kept("tour", tourProcVars) /\ Kept("tour words", tourTyped)
  /\ Kept("choices", choiceVars) /\ Kept("loop", loopVars) /\ Kept("projects", projectVars)

ToolsNext ==
  \/ Alone("panes") /\ PanesNext
  \/ Alone("tutor") /\ TutorNext /\ verbsRun' + learned' + tutorUpsets' <= 4
  \/ Alone("calendar") /\ CalendarNext
  \/ Alone("chat") /\ ChatNext
  \/ Alone("cleanup") /\ CleanupNext
  \/ Alone("diff") /\ DiffNext
  \/ Alone("groups") /\ GroupingNext
  \/ Alone("papers") /\ PapersNext
  \/ Alone("git") /\ DiffKindNext /\ (sibling => gitTurns' <= 1) /\ (gitTurns' = 3 => refs["origin/HEAD"] = NoRef)
  \/ Alone("invoke") /\ InvokeNext
  \/ Alone("launch") /\ TypePair
  \/ Alone("plugins") /\ EditEntry
  \/ Alone("form") /\ FormNext
  \/ Alone("paths") /\ Spell
  \/ Alone("trees") /\ TreesNext
  \/ Alone("names") /\ NamesNext
  \/ Alone("words") /\ TypeTutor
  \/ Alone("stock") /\ WriteLesson /\ LoadPack(stock) \in {"no lessons", "loaded"}
  \/ Alone("globs") /\ TypeGlob
  \/ Alone("replies") /\ Attend
  \/ Alone("serve") /\ ServeNext
  \/ Alone("texts") /\ TypeText
  \/ Alone("tour") /\ TourNext
  \/ Alone("tour words") /\ TypeTour
  \/ Alone("choices") /\ ChoicesNext
  \/ Alone("loop") /\ LoopNext
  \/ Alone("projects") /\ ProjectsNext

-----------------------------------------------------------------------------
(* The list of prefix+a, the picker and the users share one server: none of  *)
(* them shows a session inside itself, what prefix+a was asked for is what   *)
(* comes up, the picker keeps what it promises, a name a pane or a user     *)
(* gives a verb means the agent that had it, and what is chosen in the home  *)
(* happens to its pane or its client, under a backdrop that keeps its time,  *)
(* among the projects git named.                                            *)
PanesHold ==
  /\ part = "panes" => NoLoops /\ ~astray /\ PickerHolds
  /\ part = "names" => NamesHold
  /\ part = "choices" => ChoicesHold
  /\ part = "loop" => LoopHolds
  /\ part = "projects" => ProjectsHold

(* The tutorial checks what is there, and what it reads and runs for that    *)
(* means what it says: its words, its packs, globs, answers and filters, and *)
(* the server it starts. What the chat reads of transcripts is what was said *)
(* and when, and what it takes out of the CLIs' settings is tx's own.        *)
(*                                                                          *)
(* A command line opens the core it means, makes of create's flags the launch *)
(* they say, knows the verbs its plugins have and creates what the form said; *)
(* worktrees are where they say, and what is passed on is read as it was, but *)
(* for the directories TmuxReadsOne names and the data of binary files.      *)
(*                                                                          *)
(* What the artifacts' verbs say of the store is so: hunks, patches, groups, *)
(* names and the doctor's findings; a tour's view shows the stops of its     *)
(* artifact, and its command lines do what they say.                        *)
VerbsHold ==
  /\ part = "tutor" => TutorHolds
  /\ part = "words" => WordsHold
  /\ part = "stock" => PacksHold
  /\ part = "globs" => GlobHolds
  /\ part = "replies" => AnswersHold /\ TxChecksHold
  /\ part = "serve" => ServeHolds
  /\ part = "calendar" => CalendarHolds
  /\ part = "chat" => ConversationHolds
  /\ part = "cleanup" => CleanupHolds
  /\ part = "invoke" => InvocationHolds
  /\ part = "launch" => LaunchesHold
  /\ part = "plugins" => PluginsHold
  /\ part = "form" => FormHolds
  /\ part = "paths" => PathsHold
  /\ part = "trees" => TreesHold
  /\ part = "texts" => TextsHold
  /\ part = "diff" => DiffHolds
  /\ part = "groups" => GroupingHolds
  /\ part = "papers" => StoreHolds
  /\ part = "git" => DiffKindHolds
  /\ part = "tour" => ToursHold
  /\ part = "tour words" => TourWordsHold
=============================================================================
