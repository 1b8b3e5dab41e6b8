-------------------------------- MODULE Tutor --------------------------------
(***************************************************************************)
(* The tutorial (plugins/tutor): `tx tutor start|check|next|prev|goto|     *)
(* reset` over one progress file, one project directory and one view. Each *)
(* verb reads the progress once and writes it later, without a lock.       *)
(***************************************************************************)
EXTENDS Integers, Sequences, SequencesExt, FiniteSets, FiniteSetsExt

CONSTANTS
  Packs,         \* the lesson packs of the builds of tx, as sequences of lessons
  ChecksOf,      \* ChecksOf[lesson]: the kinds of its checks, in order
  Learners,      \* processes of `tx tutor`
  MaxTutorVerbs, MaxLearned, MaxTutorUpsets  \* bounds: verbs; turns of the user; failures

VARIABLES
  pack,       \* the pack of the installed build
  progress,   \* the progress file, or NoProgress
  project,    \* [kind: absent, empty, foreign or tutor; solved: lessons its code solves]
  crowd,      \* the sessions a tx check asks for run
  lessonView, \* none, building, whole
  strays,     \* staging directories nobody will remove
  learner,    \* learner[p]: the verb process p runs
  earned,     \* lessons whose checks all held, since the last reset (history)
  split,      \* a process saved what it read before another's save (history)
  lost,       \* a directory went that the user had not given up (history)
  verbsRun, learned, tutorUpsets

tutorVars == <<pack, progress, project, crowd, lessonView, strays, learner, earned, split, lost,
               verbsRun, learned, tutorUpsets>>
tutorWorld == <<pack, crowd, learned>>

NoProgress == [current |-> "", passed |-> {}]
NoLearner == [at |-> "idle", verb |-> "none", pack |-> <<>>, read |-> NoProgress, stale |-> FALSE,
              results |-> <<>>, served |-> {}, serving |-> FALSE, listed |-> FALSE, asked |-> FALSE,
              yes |-> FALSE]
LearnerAt(p, place) == learner[p].at = place
LearnerTo(p, place) == learner' = [learner EXCEPT ![p].at = place]
VerbOver(p) == learner' = [learner EXCEPT ![p] = NoLearner]
Upsetting == tutorUpsets < MaxTutorUpsets /\ tutorUpsets' = tutorUpsets + 1
Fresh == [kind |-> "tutor", solved |-> {}]
NoProject == [kind |-> "absent", solved |-> {}]

-----------------------------------------------------------------------------
(* Begin: the pack and the progress are read here. *)
IndexOf(lessons, lesson) == IF Contains(lessons, lesson) THEN SelectInSeq(lessons, LAMBDA l : l = lesson) ELSE 0

StartsVerb(p, l) ==
  /\ LearnerAt(p, "idle") /\ verbsRun < MaxTutorVerbs /\ verbsRun' = verbsRun + 1
  /\ learner' = [learner EXCEPT ![p] = l]
  /\ UNCHANGED <<tutorWorld, progress, project, lessonView, strays, earned, split, lost, tutorUpsets>>

(* start: what is saved, or a new one; a lesson the pack lost starts over   *)
StartFrom(lessons) ==
  LET saved == IF progress = NoProgress THEN [current |-> Head(lessons), passed |-> {}] ELSE progress
  IN IF Contains(lessons, saved.current) THEN saved ELSE [saved EXCEPT !.current = Head(lessons)]
BeginStart(p) ==
  StartsVerb(p, [NoLearner EXCEPT !.at = IF project.kind = "tutor" THEN "save" ELSE "stage",
                !.verb = "start", !.pack = pack, !.read = StartFrom(pack)])

(* next stays at the last lesson, prev at the first; goto takes any         *)
BeginMove(p) ==
  /\ Contains(pack, progress.current)
  /\ LET at == IndexOf(pack, progress.current)
     IN \E to \in {IF at = Len(pack) THEN at ELSE at + 1, IF at = 1 THEN 1 ELSE at - 1}
                  \cup DOMAIN pack :
          StartsVerb(p, [NoLearner EXCEPT !.at = "save", !.verb = "move", !.pack = pack,
                        !.read = [progress EXCEPT !.current = pack[to]]])

BeginCheck(p) ==
  /\ Contains(pack, progress.current)
  /\ StartsVerb(p, [NoLearner EXCEPT !.at = "check", !.verb = "check", !.pack = pack, !.read = progress])

(* reset needs no lesson of the pack: --hard asks first                     *)
BeginReset(p, hard) ==
  /\ progress # NoProgress
  /\ StartsVerb(p, [NoLearner EXCEPT !.at = IF hard THEN "ask" ELSE "save", !.verb = "reset",
                   !.pack = pack, !.read = [current |-> Head(pack), passed |-> {}]])

-----------------------------------------------------------------------------
(* project::scaffold and reset --hard *)
Confirm(p, yes) ==
  /\ LearnerAt(p, "ask")
  /\ IF yes THEN learner' = [learner EXCEPT ![p].at = "remove", ![p].yes = TRUE] ELSE VerbOver(p)
  /\ UNCHANGED <<tutorWorld, progress, project, lessonView, strays, earned, split, lost, verbsRun, tutorUpsets>>

IsTutorProject == project.kind = "tutor"
RemoveProject(p) ==
  /\ LearnerAt(p, "remove") /\ LearnerTo(p, "stage")
  /\ project' = IF IsTutorProject THEN NoProject ELSE project
  /\ lost' = (lost \/ (project' # project /\ (project.kind = "foreign" \/ ~learner[p].yes)))
  /\ UNCHANGED <<tutorWorld, progress, lessonView, strays, earned, split, verbsRun, tutorUpsets>>

(* the skeleton is copied and committed beside the directory                *)
Occupied == project.kind \in {"foreign", "tutor"}
Stage(p) ==
  /\ LearnerAt(p, "stage")
  /\ IF Occupied /\ ~IsTutorProject THEN VerbOver(p) ELSE LearnerTo(p, "swap")
  /\ UNCHANGED <<tutorWorld, progress, project, lessonView, strays, earned, split, lost, verbsRun, tutorUpsets>>

(* remove_dir takes only an empty directory                                 *)
Swap(p) ==
  /\ LearnerAt(p, "swap")
  /\ IF Occupied THEN VerbOver(p) /\ UNCHANGED project
     ELSE LearnerTo(p, "rename") /\ project' = NoProject
  /\ lost' = (lost \/ (project' # project /\ Occupied))
  /\ UNCHANGED <<tutorWorld, progress, lessonView, strays, earned, split, verbsRun, tutorUpsets>>

(* the staging directory is kept before the rename: one that fails leaves it *)
Publish(p) ==
  /\ LearnerAt(p, "rename")
  /\ IF Occupied THEN VerbOver(p) /\ strays' = strays + 1 /\ UNCHANGED project
     ELSE LearnerTo(p, "save") /\ project' = Fresh /\ UNCHANGED strays
  /\ UNCHANGED <<tutorWorld, progress, lessonView, earned, split, lost, verbsRun, tutorUpsets>>

(* git, the disk: a step fails; before the rename the staging goes with it  *)
StepFails(p) ==
  /\ learner[p].at \in {"swap", "rename", "built"} /\ Upsetting /\ VerbOver(p)
  /\ strays' = IF LearnerAt(p, "rename") THEN strays + 1 ELSE strays
  /\ lessonView' = IF LearnerAt(p, "built") THEN "none" ELSE lessonView
  /\ UNCHANGED <<tutorWorld, progress, project, earned, split, lost, verbsRun>>

-----------------------------------------------------------------------------
(* Progress::save, the view *)

(* others that had read the file will write over what is saved here         *)
SavesProgress(p, next, saved) ==
  /\ progress' = saved
  /\ split' = (split \/ learner[p].stale)
  /\ learner' = [q \in Learners |->
                   IF q = p THEN next
                   ELSE [learner[q] EXCEPT !.stale = (learner[q].at # "idle" \/ @)]]

Save(p) ==
  /\ LearnerAt(p, "save")
  /\ SavesProgress(p, IF learner[p].verb = "start" THEN [learner[p] EXCEPT !.at = "view"] ELSE NoLearner,
           learner[p].read)
  /\ earned' = IF learner[p].verb = "reset" THEN {} ELSE earned
  /\ UNCHANGED <<tutorWorld, project, lessonView, strays, lost, verbsRun, tutorUpsets>>

(* a view that is there is taken, whole or not                              *)
OpenView(p) ==
  /\ LearnerAt(p, "view")
  /\ IF lessonView = "none" THEN lessonView' = "building" /\ LearnerTo(p, "built")
     ELSE VerbOver(p) /\ UNCHANGED lessonView
  /\ UNCHANGED <<tutorWorld, progress, project, strays, earned, split, lost, verbsRun, tutorUpsets>>
BuildView(p) ==
  /\ LearnerAt(p, "built") /\ VerbOver(p)
  /\ lessonView' = IF lessonView = "building" THEN "whole" ELSE lessonView
  /\ UNCHANGED <<tutorWorld, progress, project, strays, earned, split, lost, verbsRun, tutorUpsets>>

-----------------------------------------------------------------------------
(* checks::run: one server and one listing of the sessions for all checks   *)
LessonOf(p) == learner[p].read.current
RunCheck(p) ==
  /\ LearnerAt(p, "check") /\ Len(learner[p].results) < Len(ChecksOf[LessonOf(p)])
  /\ LET l == learner[p]
         kind == ChecksOf[LessonOf(p)][Len(l.results) + 1]
         served == IF l.serving THEN l.served ELSE project.solved
         listed == IF l.asked THEN l.listed ELSE crowd
     IN \E yes \in IF kind = "confirm" THEN BOOLEAN ELSE {TRUE} :
          learner' = [learner EXCEPT ![p] =
            [l EXCEPT !.served = IF kind = "http" THEN served ELSE @,
                      !.serving = (@ \/ kind = "http"),
                      !.listed = IF kind = "tx" THEN listed ELSE @,
                      !.asked = (@ \/ kind = "tx"),
                      !.results = Append(@, CASE kind = "http" -> LessonOf(p) \in served
                                              [] kind = "tx" -> listed
                                              [] kind = "confirm" -> yes)]]
  /\ UNCHANGED <<tutorWorld, progress, project, lessonView, strays, earned, split, lost, verbsRun, tutorUpsets>>

(* Mutant: the last check decides. *)
PassedLast(results) == results[Len(results)]

Passed(results) == \A i \in DOMAIN results : results[i]
MarkPassed(saved, lesson) == [saved EXCEPT !.passed = @ \cup {lesson}]
EndCheck(p) ==
  /\ LearnerAt(p, "check") /\ Len(learner[p].results) = Len(ChecksOf[LessonOf(p)])
  /\ LET marked == MarkPassed(learner[p].read, LessonOf(p))
     IN IF Passed(learner[p].results)
        THEN SavesProgress(p, [learner[p] EXCEPT !.at = "advance", !.read = marked], marked)
        ELSE VerbOver(p) /\ UNCHANGED <<progress, split>>
  /\ earned' = IF FALSE \in Range(learner[p].results) THEN earned ELSE earned \cup {LessonOf(p)}
  /\ UNCHANGED <<tutorWorld, project, lessonView, strays, lost, verbsRun, tutorUpsets>>

Advance(p) ==
  /\ LearnerAt(p, "advance")
  /\ LET l == learner[p]
         at == IndexOf(l.pack, LessonOf(p))
     IN IF at = Len(l.pack) THEN VerbOver(p) /\ UNCHANGED <<progress, split>>
        ELSE SavesProgress(p, NoLearner, [l.read EXCEPT !.current = l.pack[at + 1]])
  /\ UNCHANGED <<tutorWorld, project, lessonView, strays, earned, lost, verbsRun, tutorUpsets>>

-----------------------------------------------------------------------------
(* The process is killed; the user works, and installs another build        *)
TutorKilled(p) ==
  /\ ~LearnerAt(p, "idle") /\ Upsetting /\ VerbOver(p)
  /\ strays' = IF learner[p].at \in {"swap", "rename"} THEN strays + 1 ELSE strays
  /\ UNCHANGED <<tutorWorld, progress, project, lessonView, earned, split, lost, verbsRun>>

UserTurns ==
  /\ learned < MaxLearned /\ learned' = learned + 1
  /\ \/ /\ IsTutorProject
        /\ project' \in {[project EXCEPT !.solved = @ \cup {l}] : l \in Range(pack)}
                        \cup {[project EXCEPT !.kind = "foreign"], NoProject}
        /\ UNCHANGED <<pack, crowd, lessonView>>
     \/ /\ project.kind \in {"absent", "empty"}
        /\ project' \in {[NoProject EXCEPT !.kind = k] : k \in {"empty", "foreign"}}
        /\ UNCHANGED <<pack, crowd, lessonView>>
     \/ crowd' = ~crowd /\ UNCHANGED <<pack, project, lessonView>>
     \/ pack' \in Packs \ {pack} /\ UNCHANGED <<project, crowd, lessonView>>
     \/ lessonView # "none" /\ lessonView' = "none" /\ UNCHANGED <<pack, project, crowd>>
  /\ UNCHANGED <<progress, strays, learner, earned, split, lost, verbsRun, tutorUpsets>>

TutorInit ==
  /\ pack \in Packs /\ progress = NoProgress /\ project = NoProject
  /\ crowd = FALSE /\ lessonView = "none" /\ strays = 0
  /\ learner = [p \in Learners |-> NoLearner]
  /\ earned = {} /\ split = FALSE /\ lost = FALSE
  /\ verbsRun = 0 /\ learned = 0 /\ tutorUpsets = 0

TutorNext ==
  \/ \E p \in Learners :
       \/ BeginStart(p) \/ BeginMove(p) \/ BeginCheck(p)
       \/ \E hard \in BOOLEAN : BeginReset(p, hard)
       \/ \E yes \in BOOLEAN : Confirm(p, yes)
       \/ RemoveProject(p) \/ Stage(p) \/ Swap(p) \/ Publish(p) \/ Save(p) \/ OpenView(p) \/ BuildView(p)
       \/ RunCheck(p) \/ EndCheck(p) \/ Advance(p) \/ StepFails(p) \/ TutorKilled(p)
  \/ UserTurns

-----------------------------------------------------------------------------
(* What the user keeps of a tutorial, over verbs that overlap, steps that    *)
(* fail, processes killed half-way and packs that change:                   *)
(*  - a directory goes only if it is empty, or the tutorial's own project   *)
(*    and the user has said yes (project::scaffold, reset --hard);           *)
(*  - unless a verb saved over another's save, every lesson marked passed    *)
(*    had all its checks hold in one run since the last reset;               *)
(*  - a half-built view has its builder, or lost it to a kill.               *)
TutorHolds ==
  /\ ~lost
  /\ ~split => progress.passed \subseteq earned
  /\ lessonView = "building" /\ tutorUpsets = 0 => \E p \in Learners : LearnerAt(p, "built")

-----------------------------------------------------------------------------
(***************************************************************************)
(* What the tutorial's verbs read and run: the words of `tx tutor`, the    *)
(* packs and the lesson a word names, the http check with the server it    *)
(* starts, and the tx check over the records (plugins/tutor: lib.rs,       *)
(* pack.rs, http.rs, tx_check.rs).                                         *)
(***************************************************************************)
CONSTANTS
  TutorWords, MaxTutorWords,       \* words typed after `tx tutor`; bound
  DirsTyped, UserHomes, CwdsOf,      \* what --dir may be, homes (<<>>: none), working directories
  LessonIds,                       \* as characters
  PatternChars, HeaderChars, MaxPattern, MaxHeader,  \* header globs and values; bounds
  ServerReplies, HttpChecks,            \* what servers answer, what checks ask
  Attendees, TxFilters,            \* records there may be, filters of tx checks
  ReadyTimeout, FirstDelay, LongestDelay  \* in ticks

VARIABLES
  tutorWords,  \* typed
  stock,       \* the pack on disk
  glob,        \* [pattern, text]
  reply,       \* what the project's server answers
  attending,   \* the records of the sessions
  server,      \* the server of a check, and the port it was given
  readyClock

serveVars == <<server, readyClock>>

-----------------------------------------------------------------------------
(* Words. *)
NoWords == [verb |-> "", target |-> "", lang |-> "", dir |-> "", hard |-> FALSE, detach |-> FALSE]
Usage == [NoWords EXCEPT !.verb = "usage"]
TutorActions == {"start", "check", "next", "prev", "goto", "status", "hint", "reset"}

RECURSIVE TakeWords(_, _)
TakeValue(args, rest) == IF rest = <<>> THEN Usage ELSE TakeWords(args, Tail(rest))
FirstOf(rest) == IF rest = <<>> THEN "" ELSE Head(rest)
TakeWords(args, rest) ==
  IF rest = <<>> THEN IF args.verb = "goto" /\ args.target = "" THEN Usage ELSE args
  ELSE CASE Head(rest) = "--lang" /\ args.verb # "start" -> TakeValue([args EXCEPT !.lang = FirstOf(Tail(rest))], Tail(rest))
         [] Head(rest) = "--dir" /\ args.verb = "start" -> TakeValue([args EXCEPT !.dir = FirstOf(Tail(rest))], Tail(rest))
         [] Head(rest) = "--detach" /\ args.verb = "start" -> TakeWords([args EXCEPT !.detach = TRUE], Tail(rest))
         [] Head(rest) = "--hard" /\ args.verb = "reset" -> TakeWords([args EXCEPT !.hard = TRUE], Tail(rest))
         [] Head(rest) \notin {"--lang", "--dir", "--detach", "--hard"} /\ args.target = "" /\ args.verb \in {"start", "goto"} ->
              TakeWords([args EXCEPT !.target = Head(rest)], Tail(rest))
         [] OTHER -> Usage
ParseTutor(words) ==
  IF words = <<>> \/ FirstOf(words) \notin TutorActions THEN Usage
  ELSE TakeWords([NoWords EXCEPT !.verb = Head(words)], Tail(words))

(* Mutant: a relative directory is kept as it was typed. *)
AbsoluteDirKept(dir, home, cwd) == IF Head(dir) = "~" /\ home # <<>> THEN home \o Tail(dir) ELSE dir

(* A directory is where it was typed: ~ by the home, if there is one, the    *)
(* rest against the caller's.                                               *)
AbsoluteDir(dir, home, cwd) ==
  LET expanded == IF Head(dir) = "~" /\ home # <<>> THEN home \o Tail(dir) ELSE dir
  IN IF Head(expanded) = "/" THEN expanded ELSE cwd \o expanded

(* Every word was understood: what the verb takes, none dropped, and typing  *)
(* what was understood again means the same; a directory stays the one it was *)
(* wherever it is read again.                                               *)
WordsHold ==
  LET args == ParseTutor(tutorWords)
      Typed(flag, value) == IF value = "" THEN <<>> ELSE <<flag, value>>
      again == <<args.verb>> \o (IF args.target = "" THEN <<>> ELSE <<args.target>>)
               \o Typed("--lang", args.lang) \o Typed("--dir", args.dir)
               \o (IF args.detach THEN <<"--detach">> ELSE <<>>) \o (IF args.hard THEN <<"--hard">> ELSE <<>>)
  IN /\ args # Usage =>
          /\ ParseTutor(again) = args
          /\ ToSet(again) \subseteq ToSet(tutorWords)
          /\ Len(again) = Len(tutorWords) \/ \E i, j \in DOMAIN tutorWords : i < j /\ tutorWords[i] = tutorWords[j]
          /\ args.hard => args.verb = "reset" /\ "--hard" \in ToSet(tutorWords)
          /\ args.dir # "" \/ args.detach => args.verb = "start"
     /\ \A dir \in DirsTyped, home \in UserHomes, cwd, later \in CwdsOf :
          /\ Head(AbsoluteDir(dir, home, cwd)) = "/"
          /\ AbsoluteDir(AbsoluteDir(dir, home, cwd), home, later) = AbsoluteDir(dir, home, cwd)

-----------------------------------------------------------------------------
(* Packs. *)

(* The first thing that is wrong with a pack, in the order it is looked for. *)
Twice(p, n) == \E m \in 1 .. n - 1 : p.lessons[m].id = p.lessons[n].id
FileMissing(p, n) == ~(({p.lessons[n].file} \union p.lessons[n].solution) \subseteq p.files)
LoadPack(p) ==
  CASE "pack.toml" \notin p.files -> "no pack"
    [] p.spoilt -> "unreadable"
    [] p.lessons = <<>> -> "no lessons"
    [] "skeleton" \notin p.files -> "no skeleton"
    [] OTHER ->
       LET bad == {n \in DOMAIN p.lessons : Twice(p, n) \/ FileMissing(p, n)}
       IN IF bad = {} THEN "loaded" ELSE IF Twice(p, Min(bad)) THEN "twice" ELSE "missing"

(* goto: a number, with a + or not, then an id, then the only one it begins. *)
KeyDigits == {"0", "1", "2"}
Unsigned(key) == IF key # <<>> /\ key[1] = "+" THEN Tail(key) ELSE key
IsNumber(key) == Unsigned(key) # <<>> /\ ToSet(Unsigned(key)) \subseteq KeyDigits
NumberOf(key) ==
  FoldLeft(LAMBDA n, d : 10 * n + (CASE d = "1" -> 1 [] d = "2" -> 2 [] OTHER -> 0), 0, Unsigned(key))
(* Mutant: a whole id counts as what begins an id. *)
LessonsOfBegun(lessons, key) ==
  IF IsNumber(key) THEN {NumberOf(key)} \cap DOMAIN lessons
  ELSE LET begun == {n \in DOMAIN lessons : IsPrefix(key, lessons[n].id)}
       IN IF Cardinality(begun) = 1 THEN begun ELSE {}

(* Which lesson a key names, if any. *)
LessonsOf(lessons, key) ==
  IF IsNumber(key) THEN {NumberOf(key)} \cap DOMAIN lessons
  ELSE LET same == {n \in DOMAIN lessons : lessons[n].id = key}
           begun == {n \in DOMAIN lessons : IsPrefix(key, lessons[n].id)}
       IN IF same # {} THEN {Min(same)} ELSE IF Cardinality(begun) = 1 THEN begun ELSE {}

(* In a pack that loads, a lesson's id is that lesson's, and so is what means *)
(* it when more of its id is typed, unless that is a number; and its files are *)
(* there.                                                                   *)
PacksHold ==
  LoadPack(stock) = "loaded" =>
    \A n \in DOMAIN stock.lessons :
      LET lesson == stock.lessons[n]
          means == [k \in 0 .. Len(lesson.id) |-> LessonsOf(stock.lessons, SubSeq(lesson.id, 1, k))]
          Number(k) == IsNumber(SubSeq(lesson.id, 1, k))
      IN /\ ~Number(Len(lesson.id)) => means[Len(lesson.id)] = {n}
         /\ lesson.file \in stock.files
         /\ \A k \in DOMAIN means : \A longer \in k .. Len(lesson.id) :
              means[k] = {n} /\ ~Number(k) /\ ~Number(longer) => means[longer] = {n}

-----------------------------------------------------------------------------
(* Headers and answers. *)
Lowered(text) == [n \in DOMAIN text |-> IF text[n] = "A" THEN "a" ELSE text[n]]

(* The pieces between the stars: the first begins the text, the next ones are *)
(* each found where they come first, the last ends what is left.            *)
Pieces(pattern) ==
  FoldLeft(LAMBDA ps, c : IF c = "*" THEN Append(ps, <<>>) ELSE Front(ps) \o <<Append(Last(ps), c)>>, <<<<>>>>, pattern)
FoundAt(rest, piece) ==
  {n \in 0 .. Len(rest) - Len(piece) : SubSeq(rest, n + 1, n + Len(piece)) = piece}
RECURSIVE AfterMiddle(_, _)
AfterMiddle(rest, middle) ==
  IF middle = <<>> THEN {rest}
  ELSE LET at == FoundAt(rest, Head(middle))
       IN IF at = {} THEN {} ELSE AfterMiddle(SubSeq(rest, Min(at) + Len(Head(middle)) + 1, Len(rest)), Tail(middle))
(* Mutant: the last piece need not end the text. *)
MatchPiecesAnywhere(text, pieces) ==
  /\ IsPrefix(Head(pieces), text)
  /\ LET rest == SubSeq(text, Len(Head(pieces)) + 1, Len(text))
     IN IF Len(pieces) = 1 THEN rest = <<>> ELSE AfterMiddle(rest, Tail(pieces)) # {}

(* All the pieces, in their order. *)
MatchPieces(text, pieces) ==
  /\ IsPrefix(Head(pieces), text)
  /\ LET rest == SubSeq(text, Len(Head(pieces)) + 1, Len(text))
     IN IF Len(pieces) = 1 THEN rest = <<>>
        ELSE \E left \in AfterMiddle(rest, Front(Tail(pieces))) : IsSuffix(Last(pieces), left)
GlobMatch(pattern, text) == MatchPieces(Lowered(text), Pieces(Lowered(pattern)))

(* What a glob says: a star stands for any run, the rest for itself.         *)
RECURSIVE Globs(_, _)
Globs(pattern, text) ==
  IF pattern = <<>> THEN text = <<>>
  ELSE IF Head(pattern) = "*" THEN \E n \in 0 .. Len(text) : Globs(Tail(pattern), SubSeq(text, n + 1, Len(text)))
  ELSE text # <<>> /\ Lowered(<<Head(pattern)>>) = Lowered(<<Head(text)>>) /\ Globs(Tail(pattern), Tail(text))
GlobHolds == GlobMatch(glob.pattern, glob.text) <=> Globs(glob.pattern, glob.text)

(* A response is words, spaces and line ends as they come.                   *)
Sp == " "
Crlf == "crlf"
Trimmed(line) ==
  LET said == {n \in DOMAIN line : line[n] # Sp} IN IF said = {} THEN <<>> ELSE SubSeq(line, Min(said), Max(said))
LinesOf(raw) ==
  FoldLeft(LAMBDA ls, w : IF w = Crlf THEN Append(ls, <<>>) ELSE Front(ls) \o <<Append(Last(ls), w)>>, <<<<>>>>, raw)
HeadEnds(raw) == {n \in 1 .. Len(raw) - 1 : raw[n] = Crlf /\ raw[n + 1] = Crlf}
HeaderOf(line) ==
  LET colon == Min({n \in DOMAIN line : line[n] = ":"})
  IN <<Trimmed(SubSeq(line, 1, colon - 1)), Trimmed(SubSeq(line, colon + 1, Len(line)))>>
NotHttp == [status |-> "none", headers |-> <<>>, body |-> <<>>]
ParseLines(lines, body) ==
  LET words == SelectSeq(Head(lines), LAMBDA w : w # Sp)
  IN IF Len(words) < 2 \/ words[1] # "HTTP/1.0" \/ words[2] \notin {"100", "200", "404"} THEN NotHttp
     ELSE [status |-> words[2], body |-> body,
           headers |-> LET told == SelectSeq(Tail(lines), LAMBDA l : ":" \in ToSet(l))
                       IN [n \in DOMAIN told |-> HeaderOf(told[n])]]
ParseResponse(raw) ==
  IF HeadEnds(raw) = {} THEN ParseLines(LinesOf(raw), <<>>)
  ELSE LET end == Min(HeadEnds(raw)) IN ParseLines(LinesOf(SubSeq(raw, 1, end - 1)), SubSeq(raw, end + 2, Len(raw)))

SameHeader(name, other) == Lowered(name) = Lowered(other)
HeadersOf(response, name) == {n \in DOMAIN response.headers : SameHeader(response.headers[n][1], name)}
Within(part, body) == FoundAt(body, part) # {}
EvaluateHttp(check, response) ==
  /\ response.status = check.status
  /\ \A name \in DOMAIN check.headers :
       /\ HeadersOf(response, name) # {}
       /\ GlobMatch(check.headers[name], response.headers[Min(HeadersOf(response, name))][2])
  /\ Within(check.contains, response.body)
  /\ check.json => response.body \in {<<"{}">>, <<"1">>}

(* How a server writes its answer: with or without a reason, spaces about a  *)
(* value, and perhaps an interim answer before it.                          *)
WriteReply(r) ==
  (IF r.interim THEN <<"HTTP/1.0", Sp, "100", Crlf, Crlf>> ELSE <<>>)
  \o <<"HTTP/1.0", Sp, r.status>> \o (IF r.spaced THEN <<Sp, "Fine", ":">> ELSE <<>>) \o <<Crlf>>
  \o FoldLeft(LAMBDA raw, h : raw \o h[1] \o <<":">> \o (IF r.spaced THEN <<Sp>> \o h[2] \o <<Sp>> ELSE h[2]) \o <<Crlf>>,
              <<>>, r.headers)
  \o <<Crlf>> \o r.body

(* What was answered is what is checked, unless an interim answer came first; *)
(* of a header sent twice the first.                                        *)
AnswersHold ==
  LET read == ParseResponse(WriteReply(reply))
  IN IF reply.interim THEN read.status = "100"
     ELSE /\ read = [status |-> reply.status, headers |-> reply.headers, body |-> reply.body]
          /\ \A check \in HttpChecks :
               EvaluateHttp(check, read) <=>
                 /\ reply.status = check.status /\ Within(check.contains, reply.body)
                 /\ \A name \in DOMAIN check.headers :
                      \E n \in DOMAIN reply.headers :
                        /\ SameHeader(reply.headers[n][1], name) /\ Globs(check.headers[name], reply.headers[n][2])
                        /\ \A m \in 1 .. n - 1 : ~SameHeader(reply.headers[m][1], name)
                 /\ check.json => reply.body \in {<<"{}">>, <<"1">>}

-----------------------------------------------------------------------------
(* The tx check. *)
StateNames(a) == IF a.state = "ended" THEN {"archived", "ended"} ELSE {"alive", "running", a.state}
MatchesFilter(f, a) ==
  /\ f.tag \subseteq a.tags /\ (f.name # {} => f.name = {a.name}) /\ f.role \subseteq {"llm", "agent"}
  /\ (f.engine # {} => f.engine = {a.engine})
  /\ (f.state # {} => f.state \cap StateNames(a) # {})
  /\ (f.hasParent # {} => f.hasParent = {a.parent})
  /\ f.chatOrigin = {}
EvaluateTx(f, count, absent) ==
  LET hits == {a \in attending : MatchesFilter(f, a)}
  IN IF absent THEN hits = {} ELSE Cardinality(hits) >= count

(* Absent is what fails when one is asked for; a session is alive or it is    *)
(* archived, idle only when it is alive; several states mean any of them.    *)
TxChecksHold ==
  \A f \in TxFilters :
    /\ EvaluateTx(f, 1, TRUE) <=> ~EvaluateTx(f, 1, FALSE)
    /\ \A a \in attending :
         LET In(states) == MatchesFilter([f EXCEPT !.state = states], a)
         IN /\ In({}) <=> In({"alive"}) \/ In({"archived"})
            /\ ~(In({"alive"}) /\ In({"archived"}))
            /\ In({"idle"}) \/ In({"working"}) => In({"running"})
            /\ f.state # {} => (In(f.state) <=> \E state \in f.state : In({state}))

-----------------------------------------------------------------------------
(* The server of a check. Its group is the program and what it started.      *)
NoServer == [at |-> "idle", child |-> "none", helper |-> FALSE, listens |-> "nobody", wake |-> 0, delay |-> FirstDelay,
             opened |-> FALSE, answer |-> "none", refused |-> "no", taken |-> FALSE]
LessonsInit ==
  /\ tutorWords = <<>>
  /\ stock \in [files : SUBSET {"pack.toml", "skeleton", "f", "g"}, spoilt : BOOLEAN, lessons : {<<>>}]
  /\ glob = [pattern |-> <<>>, text |-> <<>>]
  /\ reply \in ServerReplies /\ attending = {}
  /\ server = NoServer /\ readyClock = 0

(* What is typed, written in a pack, asked, answered and there to be checked. *)
TypeTutor == \E word \in TutorWords : Len(tutorWords) < MaxTutorWords /\ tutorWords' = Append(tutorWords, word)
WriteLesson ==
  /\ Len(stock.lessons) < 3
  /\ \E id \in LessonIds, file \in {"f", "g"}, solution \in {{}, {"g"}} :
       stock' = [stock EXCEPT !.lessons = Append(@, [id |-> id, file |-> file, solution |-> solution])]
TypeGlob ==
  \/ \E c \in PatternChars : Len(glob.pattern) < MaxPattern /\ glob' = [glob EXCEPT !.pattern = Append(@, c)]
  \/ \E c \in HeaderChars : Len(glob.text) < MaxHeader /\ glob' = [glob EXCEPT !.text = Append(@, c)]
Attend == \E a \in Attendees : attending' = attending \union {a} /\ UNCHANGED reply

ServerSet(changes) == server' = changes
Still == UNCHANGED readyClock

(* A free port is picked and let go again; then the program is started.      *)
StartServer ==
  /\ server.at = "idle" /\ Still
  /\ ServerSet([server EXCEPT !.at = "wait", !.child = "runs"])

(* Who else wants the port has it when it is free; the group listens and     *)
(* ends as it likes.                                                        *)
PortTaken == server.at \in {"idle", "wait", "ready"} /\ server.listens = "nobody" /\ Still
             /\ ServerSet([server EXCEPT !.listens = "stranger", !.taken = TRUE])
GroupMoves ==
  /\ server.at \in {"wait", "ready"} /\ Still
  /\ \/ server.child = "runs" /\ ~server.helper /\ ServerSet([server EXCEPT !.helper = TRUE])
     \/ \E who \in {"child", "helper"} :
          /\ server.listens = "nobody" /\ (IF who = "child" THEN server.child = "runs" ELSE server.helper)
          /\ ServerSet([server EXCEPT !.listens = who, !.opened = TRUE])
     \/ server.child = "runs"
        /\ ServerSet([server EXCEPT !.child = "ended", !.listens = IF @ = "child" THEN "nobody" ELSE @])

(* Mutant: only the program is killed, not what it started. *)
DroppedAlone(s) ==
  [s EXCEPT !.at = "over", !.child = "none", !.listens = IF @ = "child" THEN "nobody" ELSE @]

(* The group is killed, and the program, whatever it came to.                *)
Dropped(s) ==
  [s EXCEPT !.at = "over", !.child = "none", !.helper = FALSE,
            !.listens = IF @ \in {"child", "helper"} THEN "nobody" ELSE @]

(* wait_ready: connect, then see whether it ended, then look at the clock.   *)
PollServer ==
  /\ server.at = "wait" /\ readyClock >= server.wake /\ Still
  /\ ServerSet(
       CASE server.listens # "nobody" -> [server EXCEPT !.at = "ready"]
         [] server.child = "ended" -> Dropped([server EXCEPT !.refused = "ended"])
         [] readyClock >= ReadyTimeout -> Dropped([server EXCEPT !.refused = "late"])
         [] OTHER -> [server EXCEPT !.wake = readyClock + server.delay,
                                    !.delay = IF 2 * server.delay > LongestDelay THEN LongestDelay ELSE 2 * server.delay])
ReadyTick ==
  /\ server.at = "wait" /\ readyClock < server.wake
  /\ readyClock' = readyClock + 1 /\ UNCHANGED server

(* A check asks whoever listens now; after the last the server goes.         *)
AskServer == server.at = "ready" /\ server.answer = "none" /\ Still
             /\ ServerSet([server EXCEPT !.answer = server.listens])
DropServer == server.at = "ready" /\ Still /\ ServerSet(Dropped(server))
ServeNext == StartServer \/ PortTaken \/ GroupMoves \/ PollServer \/ ReadyTick \/ AskServer \/ DropServer

(* When the check is over nothing of the server runs or listens; one that     *)
(* listens in time is never called late, late is no later than one wait after *)
(* the time, and who answers is the project's unless another took the port.  *)
ServeHolds ==
  /\ server.at \in {"idle", "over"} => server.child = "none" /\ ~server.helper /\ server.listens \in {"nobody", "stranger"}
  /\ server.refused = "late" => readyClock >= ReadyTimeout /\ ~server.opened /\ ~server.taken
  /\ readyClock <= ReadyTimeout + LongestDelay
  /\ server.answer = "stranger" => server.taken
=============================================================================
