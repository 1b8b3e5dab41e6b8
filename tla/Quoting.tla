------------------------------ MODULE Quoting ------------------------------
(***************************************************************************)
(* What is typed, named or recorded reaches programs through tmux, shells  *)
(* and editors, each of which reads it in its own way: the command lines   *)
(* tx builds (tx-core engine.rs and tmux.rs, tx-client tmux.rs and         *)
(* views.rs, home verbs.rs, tour lib.rs) beside the readers they are for.  *)
(* A text is a sequence of characters; a fixed word is one character.      *)
(***************************************************************************)
EXTENDS Naturals, Sequences, SequencesExt, FiniteSetsExt

CONSTANTS
  TextChars,  \* characters of a text: letters, ' ; \ # : space and "nl"
  MaxText     \* bound: the length of a text

VARIABLE conveyed  \* the text

-----------------------------------------------------------------------------
(* The readers. *)

Replace(t, c, by) == FlattenSeq([i \in DOMAIN t |-> IF t[i] = c THEN by ELSE <<t[i]>>])
Spaced(words) == FoldLeft(LAMBDA line, w : IF line = <<>> THEN w ELSE line \o <<" ">> \o w, <<>>, words)
EndsIn(t, c) == t # <<>> /\ Last(t) = c

(* A shell: words between blanks; quotes, backslashes, separators, comments. *)
WordDone(r) == IF r.open THEN [r EXCEPT !.words = Append(@, r.word), !.word = <<>>, !.open = FALSE] ELSE r
Taken(r, c) == [r EXCEPT !.word = Append(@, c), !.open = TRUE, !.mode = IF @ = "escaped" THEN "plain" ELSE @]
Separates(r, c) == [WordDone(r) EXCEPT !.words = Append(@, <<c>>)]
ShellChar(r, c) ==
  CASE r.mode = "comment" -> r
    [] r.mode = "quoted" -> IF c = "'" THEN [r EXCEPT !.mode = "plain"] ELSE Taken(r, c)
    [] r.mode = "escaped" -> Taken(r, c)
    [] c = "'" -> [r EXCEPT !.mode = "quoted", !.open = TRUE]
    [] c = "\\" -> [r EXCEPT !.mode = "escaped", !.open = TRUE]
    [] c = " " -> WordDone(r)
    [] c \in {";", "nl"} -> Separates(r, c)
    [] c = "#" /\ ~r.open -> [r EXCEPT !.mode = "comment"]
    [] OTHER -> Taken(r, c)
ShellReads(line) ==
  WordDone(FoldLeft(ShellChar, [mode |-> "plain", open |-> FALSE, word |-> <<>>, words |-> <<>>], line)).words

(* tmux's own command line: a word that ends in `;` ends a command, one that  *)
(* ends in `\;` loses the backslash.                                        *)
TmuxWord(commands, word) ==
  LET now == Last(commands) IN
  IF ~EndsIn(word, ";") THEN [commands EXCEPT ![Len(commands)] = Append(now, word)]
  ELSE IF EndsIn(Front(word), "\\") THEN [commands EXCEPT ![Len(commands)] = Append(now, Front(Front(word)) \o <<";">>)]
  ELSE Append([commands EXCEPT ![Len(commands)] = IF Front(word) = <<>> THEN now ELSE Append(now, Front(word))], <<>>)
TmuxReads(words) == FoldLeft(TmuxWord, <<<<>>>>, words)
(* A format: `##` is a hash, a hash before anything else is a variable.      *)
TmuxExpands(t) ==
  LET Next(r, c) == IF r.hash THEN [hash |-> FALSE, out |-> Append(r.out, IF c = "#" THEN "#" ELSE "variable")]
                    ELSE IF c = "#" THEN [r EXCEPT !.hash = TRUE] ELSE [r EXCEPT !.out = Append(@, c)]
      end == FoldLeft(Next, [hash |-> FALSE, out |-> <<>>], t)
  IN IF end.hash THEN Append(end.out, "#") ELSE end.out
(* One word is the shell's, several are the program and its arguments.       *)
TmuxRuns(words) == IF Len(words) = 1 THEN ShellReads(words[1]) ELSE words
(* A session is never given a name with a colon.                            *)
TmuxNames(name) == Replace(name, ":", <<"_">>)

(* A backslash takes the next character as it is, in :set up to a blank; Lua's *)
(* `\n` is a line's end.                                                    *)
Unescaped(t, stops) ==
  LET Next(r, c) == CASE r.over -> r
                      [] r.back -> [r EXCEPT !.back = FALSE, !.out = Append(@, IF c = "n" THEN "nl" ELSE c)]
                      [] c = "\\" -> [r EXCEPT !.back = TRUE]
                      [] c \in stops -> [r EXCEPT !.over = TRUE]
                      [] OTHER -> [r EXCEPT !.out = Append(@, c)]
  IN FoldLeft(Next, [over |-> FALSE, back |-> FALSE, out |-> <<>>], t).out
SetReads(value) == Unescaped(value, {" "})
LuaReads(literal) == Unescaped(Tail(literal), {"'", "nl"})

(* The strings of a line of JSON.                                           *)
JsonChar(r, c) ==
  CASE r.mode = "out" -> IF c = "\"" THEN [r EXCEPT !.mode = "in", !.strings = Append(@, <<>>)] ELSE r
    [] r.mode = "in" /\ c = "\\" -> [r EXCEPT !.mode = "back"]
    [] r.mode = "in" /\ c = "\"" -> [r EXCEPT !.mode = "out"]
    [] r.mode = "in" -> [r EXCEPT !.strings[Len(r.strings)] = Append(@, c)]
    [] r.mode = "back" -> [r EXCEPT !.mode = IF c = "u" THEN "hex" ELSE "in",
                                    !.strings[Len(r.strings)] = Append(@, CASE c = "n" -> "nl" [] c = "u" -> "ctrl" [] OTHER -> c)]
    [] r.mode = "hex" -> IF c = "b" THEN [r EXCEPT !.mode = "in"] ELSE r
JsonReads(line) == FoldLeft(JsonChar, [mode |-> "out", strings |-> <<>>], line).strings

-----------------------------------------------------------------------------
(* tx-core. *)

(* POSIX single quotes.                                                     *)
ShellQuote(t) == <<"'">> \o Replace(t, "'", <<"'", "\\", "'", "'">>) \o <<"'">>
Quoted(words) == Spaced([i \in DOMAIN words |-> ShellQuote(words[i])])
HookShellCommand(command, event) == Quoted(Append(command, event)) \o <<" ", "||", " ", "exit", " ", "1">>

(* Mutant: a `;` behind a backslash is taken for one that is escaped. *)
EscapeUnlessEscaped(arg) ==
  IF EndsIn(arg, ";") /\ ~EndsIn(Front(arg), "\\") THEN Front(arg) \o <<"\\", ";">> ELSE arg

(* However many backslashes are before it, a last `;` gets one more.         *)
EscapeTrailingSemicolon(arg) == IF EndsIn(arg, ";") THEN Front(arg) \o <<"\\", ";">> ELSE arg

(* A value of -e, the program and its arguments are escaped.                *)
NewSessionArgs(name, cwd, program, args, env) ==
  <<<<"new-session">>, <<"-d">>, <<"-s">>, name, <<"-c">>, cwd>>
  \o FlattenSeq([i \in DOMAIN env |-> <<<<"-e">>, EscapeTrailingSemicolon(env[i])>>])
  \o <<<<"--">>, EscapeTrailingSemicolon(program)>>
  \o [i \in DOMAIN args |-> EscapeTrailingSemicolon(args[i])]

(* Keys are typed without the last semicolons, then those one by one.        *)
LiteralChunks(t) ==
  LET stem == Max({0} \union {i \in DOMAIN t : t[i] # ";"}) IN
  (IF stem = 0 THEN <<>> ELSE <<SubSeq(t, 1, stem)>>) \o [i \in 1..(Len(t) - stem) |-> <<"\\", ";">>]
SendKeysLiteral(pane, t) == [i \in DOMAIN LiteralChunks(t) |-> <<<<"send-keys">>, <<"-t">>, pane, <<"-l">>, <<"--">>, LiteralChunks(t)[i]>>]

(* A line of the operation log: compact JSON, the message cut between two     *)
(* characters so that the line is one write of at most pipeBuf bytes.       *)
EscapedLen(c) == IF c \in {"\"", "\\", "nl"} THEN 2 ELSE IF c = "ctrl" THEN 6 ELSE 1
JsonString(t) ==
  <<"\"">> \o FlattenSeq([i \in DOMAIN t |->
    CASE t[i] \in {"\"", "\\"} -> <<"\\", t[i]>> [] t[i] = "nl" -> <<"\\", "n">>
      [] t[i] = "ctrl" -> <<"\\", "u", "0", "0", "1", "b">> [] OTHER -> <<t[i]>>]) \o <<"\"">>
LogLine(name, msg) == <<"{", "name:">> \o JsonString(name) \o <<",", "msg:">> \o JsonString(msg) \o <<"}", "nl">>
FittingPrefix(t, budget) ==
  FoldLeft(LAMBDA r, c : IF r.full \/ EscapedLen(c) > r.left THEN [r EXCEPT !.full = TRUE]
                         ELSE [r EXCEPT !.left = @ - EscapedLen(c), !.kept = Append(@, c)],
           [full |-> FALSE, left |-> budget, kept |-> <<>>], t).kept
Encode(name, msg, pipeBuf) ==
  LET skeleton == Len(LogLine(name, <<>>)) IN
  IF Len(LogLine(name, msg)) <= pipeBuf THEN LogLine(name, msg)
  ELSE LogLine(name, FittingPrefix(msg, IF skeleton > pipeBuf THEN 0 ELSE pipeBuf - skeleton))

-----------------------------------------------------------------------------
(* tx-client. *)

TmuxDirectory(path) == Replace(path, "#", <<"#", "#">>)
RuntimeCommand(runtime) ==
  <<"set rtp^=">> \o Replace(Replace(runtime, "\\", <<"\\", "\\">>), " ", <<"\\", " ">>) \o <<" ", "|", " ", "runtime", " ", "plugin/tx.lua">>
ProgramArguments(program, arguments, runtime) ==
  IF program = <<"nvim">> THEN arguments \o <<<<"-c">>, RuntimeCommand(runtime)>> ELSE arguments
OpenArguments(name, directory, program, arguments, runtime) ==
  <<<<"new-session">>, <<"-d">>, <<"-s">>, name, <<"-c">>, TmuxDirectory(directory), program>>
  \o ProgramArguments(program, arguments, runtime)
SplitArguments(target, size, directory, program, arguments, runtime) ==
  <<<<"split-window">>, <<"-h">>>> \o (IF size = <<>> THEN <<>> ELSE <<<<"-l">>, size>>)
  \o <<<<"-t">>, target, <<"-c">>, TmuxDirectory(directory), <<"-P">>, <<"-F">>, <<"#{pane_id}">>, program>>
  \o ProgramArguments(program, arguments, runtime)

(* Every other byte becomes a dash; a title of nothing else is "artifact".   *)
NameChars == TextChars \ {"'", ";", "\\", "#", ":", " ", "nl", "ctrl"}
Sanitize(title) ==
  LET name == [i \in DOMAIN title |-> IF title[i] \in NameChars THEN title[i] ELSE "-"] IN
  IF ToSet(name) \subseteq {"-"} THEN <<"artifact">> ELSE name

AttachCommand(socket, target) ==
  <<"TMUX=", " ", "tmux", " ", "-S", " ">> \o ShellQuote(socket) \o <<" ", "attach", " ", "-t", " ">> \o ShellQuote(target)
NestAttachScript(socket, target) == <<"set", " ", "-m", ";", " ">> \o AttachCommand(socket, target)
NestAttachCommand(socket, target) ==
  <<"bash", " ", "-c", " ">> \o ShellQuote(NestAttachScript(socket, target) \o <<";", " ", "exec", " ", "${SHELL:-zsh}">>)
NestAttachOnly(socket, target) == <<"bash", " ", "-c", " ">> \o ShellQuote(NestAttachScript(socket, target))

RespawnPane(pane, command) == <<<<"respawn-pane">>, <<"-k">>, <<"-t">>, pane, command>>
RunShellBackground(command) == <<<<"run-shell">>, <<"-b">>, TmuxDirectory(command)>>
PopupArgs(client, title, command) ==
  <<<<"display-popup">>, <<"-c">>, client, <<"-E">>, <<"-T">>, <<"#[accent]">> \o title \o <<"#[default]">>, command>>

(* The home's and the tours' own.                                           *)
TxShell(exe, arguments, args) == Quoted(<<exe>> \o arguments \o args)
LuaString(t) == <<"'">> \o Replace(Replace(Replace(t, "\\", <<"\\", "\\">>), "'", <<"\\", "'">>), "nl", <<"\\", "n">>) \o <<"'">>
NvimArguments(stops) == <<<<"-c">>, <<"autocmd VimEnter * ++once lua require('tx-tour')(">> \o LuaString(stops) \o <<")">>>>

-----------------------------------------------------------------------------
TextsInit == conveyed = <<>>
TypeText == Len(conveyed) < MaxText /\ conveyed' \in {Append(conveyed, c) : c \in TextChars}

(* A command line of quoted words is read as those words, at whatever depth: *)
(* a hook's by the CLI's shell, an attach's by the pane's and again by bash.  *)
ShellsReadWords ==
  LET attach == <<<<"TMUX=">>, <<"tmux">>, <<"-S">>, conveyed, <<"attach">>, <<"-t">>, conveyed>>
      script == <<<<"set">>, <<"-m">>, <<";">>>> \o attach
      Bash(command) == ShellReads(ShellReads(command)[3])
  IN /\ ShellReads(HookShellCommand(<<conveyed, <<"tx">>>>, conveyed)) = <<conveyed, <<"tx">>, conveyed, <<"||">>, <<"exit">>, <<"1">>>>
     /\ ShellReads(AttachCommand(conveyed, conveyed)) = attach
     /\ Bash(NestAttachOnly(conveyed, conveyed)) = script
     /\ Bash(NestAttachCommand(conveyed, conveyed)) = script \o <<<<";">>, <<"exec">>, <<"${SHELL:-zsh}">>>>

(* tmux takes it as one command: an agent's program, arguments and variables *)
(* are run as they are, what is typed into it is typed whole, and what a pane, *)
(* a popup or a job is given is run as it is. A launch's directory goes       *)
(* unescaped: it is read as it is if and only if it does not end in `;`, and  *)
(* then expanded, whatever it holds; a view's and a pane's, which is escaped  *)
(* against formats alone, is the one meant unless it ends in `;`.             *)
TmuxReadsOne ==
  LET Launch(cwd) == TmuxReads(NewSessionArgs(<<"n">>, cwd, conveyed, <<conveyed, <<"a">>, conveyed>>, <<conveyed>>))
      launch == Launch(<<"d">>)
      here == Launch(conveyed)
      command == TxShell(conveyed, <<conveyed>>, <<conveyed>>)
      popup == TmuxReads(PopupArgs(<<"c">>, conveyed, command))
      job == TmuxReads(RunShellBackground(command))
      open == TmuxReads(OpenArguments(Sanitize(conveyed), conveyed, <<"nvim">>, NvimArguments(conveyed), conveyed))
      typed == [i \in DOMAIN SendKeysLiteral(<<"%1">>, conveyed) |-> TmuxReads(SendKeysLiteral(<<"%1">>, conveyed)[i])]
      split == TmuxReads(SplitArguments(<<"%1">>, <<>>, conveyed, <<"nvim">>, <<>>, conveyed))
  IN /\ Len(launch) = 1 /\ launch[1][8] = conveyed /\ SubSeq(launch[1], 10, 13) = <<conveyed, conveyed, <<"a">>, conveyed>>
     /\ \A i \in DOMAIN typed : Len(typed[i]) = 1
     /\ FlattenSeq([i \in DOMAIN typed |-> typed[i][1][6]]) = conveyed
     /\ TmuxReads(RespawnPane(<<"%1">>, command)) = <<RespawnPane(<<"%1">>, command)>>
     /\ Len(popup) = 1 /\ TmuxRuns(<<popup[1][7]>>) = <<conveyed, conveyed, conveyed>>
     /\ Len(job) = 1 /\ ShellReads(TmuxExpands(job[1][3])) = <<conveyed, conveyed, conveyed>>
     /\ Len(here) = 1 /\ here[1][6] = conveyed <=> ~EndsIn(conveyed, ";")
     /\ ~EndsIn(conveyed, ";") =>
          /\ SubSeq(here[1], 7, 13) = SubSeq(launch[1], 7, 13)
          /\ ~Contains(conveyed, "#") => TmuxExpands(here[1][6]) = conveyed
          /\ Len(open) = 1 /\ TmuxExpands(open[1][6]) = conveyed /\ TmuxNames(open[1][4]) = Sanitize(conveyed)
          /\ SubSeq(open[1], 8, 9) = NvimArguments(conveyed)
          /\ Len(split) = 1 /\ TmuxExpands(split[1][6]) = conveyed

(* nvim loads the tour and the runtime from where they are: a path in a Lua   *)
(* literal and one after `:set rtp^=` are read back whole.                  *)
NvimReadsPaths ==
  LET lua == NvimArguments(conveyed)[2] IN
  /\ LuaReads(SubSeq(lua, 2, Len(lua))) = conveyed
  /\ ~Contains(conveyed, "nl") => SetReads(Tail(RuntimeCommand(conveyed))) = conveyed

(* A line of the log is one line, whatever is said in it, and it names its    *)
(* session; what a reader gets of the message is its beginning, all of it or  *)
(* as much as one write takes (events.rs).                                  *)
LogReadsLines ==
  \A limit \in 9..24, name \in {<<"a">>, conveyed} :
    LET line == Encode(name, conveyed, limit)
        msg == JsonReads(line)[2]
    IN /\ JsonReads(line)[1] = name /\ IsPrefix(msg, conveyed)
       /\ {i \in DOMAIN line : line[i] = "nl"} = {Len(line)}
       /\ Len(line) <= limit \/ msg = <<>>
       /\ msg # conveyed => Len(LogLine(name, SubSeq(conveyed, 1, Len(msg) + 1))) > limit

(* tmux.rs says of the arguments of new-session that every one the user has a *)
(* hand in is escaped, so that tmux reads one command. The working directory *)
(* of a launch is not: one that ends in `;` ends the command there.           *)
LaunchIsOneCommand == Len(TmuxReads(NewSessionArgs(<<"n">>, <<"/">> \o conveyed, <<"p">>, <<>>, <<>>))) = 1

TextsHold == LogReadsLines /\ ShellsReadWords /\ TmuxReadsOne /\ NvimReadsPaths
=============================================================================
