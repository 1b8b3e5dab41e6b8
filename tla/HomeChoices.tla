---------------------------- MODULE HomeChoices -----------------------------
(***************************************************************************)
(* What the home does with what was chosen in it (plugins/home verbs.rs):  *)
(* on the floor the pane's program has ended and gets the next one; in the *)
(* popup of prefix+m a client is switched. HomeFloor has the files and the *)
(* hook that lead here. And the loop around the home's screen (run.rs):    *)
(* the backdrop's clock, the terminal's modes and the frames.              *)
(***************************************************************************)
EXTENDS Naturals, Sequences, SequencesExt

CONSTANTS
  HomeAgents,   \* the agents' ids, which are their sessions' names
  AtFirst,      \* the sessions there are at first
  MaxUnlucky,   \* bound: commands that fail, sessions and clients that go
  Backdrops,    \* how many themes there are
  FrameTime,    \* the ticks between two frames of a backdrop
  SpinTime,     \* and of a spinner
  MaxClock,     \* bound: ticks
  HomeTrees,    \* worktrees of agents the home lists
  Repositories, \* main checkouts
  LastRetry,    \* the longest wait after a lookup that failed
  MaxRetries,   \* bound: ticks of those waits
  MaxTreeNews   \* bound: what happens to the worktrees

VARIABLES
  here,     \* the sessions that run
  performer,\* [place, client: one to speak to, todo: what it still does, action]
  floorPane, \* what the floor's pane has: "dead", a TUI or a nested attach
  viewed,   \* what the client shows
  spoken,     \* what went wrong or was done, on the client's status line
  wrong,    \* history: what went wrong
  programs, \* history: how many programs the pane got
  unlucky,
  now, focused, \* the time; whether the terminal's pane has the focus
  events,   \* the terminal's, not handled yet
  modes,    \* the terminal reports mouse and focus
  loop,     \* [at, changed, wait, frame: when it was drawn, spins: a row does]
  backdrop, \* 0, or the theme that is drawn
  clock,    \* [started, paused, lost: <<>> or since when]
  ran,      \* history: how long the backdrop's clock was seen to run
  checkedOut, \* worktree -> [there, repository or NoRepository, branch or "", written: how often HEAD was]
  lookups,  \* worktree -> what is known of it
  asking,   \* the lookup that runs: <<>>, or worktree and what is read next
  ticks, news

projectVars == <<checkedOut, lookups, asking, ticks, news>>
loopVars == <<now, focused, events, modes, loop, backdrop, clock, ran>>
choiceVars == <<here, performer, floorPane, viewed, spoken, wrong, programs, unlucky>>

-----------------------------------------------------------------------------
(* The home's own command line. *)
TuiFlags == {"--first", "--popup", "--returned-from", "--choice"}
NoArguments == [pane |-> "", first |-> FALSE, popup |-> FALSE, from |-> <<>>, choice |-> <<>>, want |-> "", wrong |-> FALSE]
(* Mutant: a flag is a flag also where a value is awaited. *)
TuiWordFlagsFirst(a, word) ==
  CASE word = "--first" -> [a EXCEPT !.first = TRUE]
    [] word = "--popup" -> [a EXCEPT !.popup = TRUE]
    [] word \in {"--returned-from", "--choice"} -> [a EXCEPT !.want = word]
    [] word \notin TuiFlags /\ a.want = "--returned-from" -> [a EXCEPT !.from = <<word>>, !.want = ""]
    [] word \notin TuiFlags /\ a.want = "--choice" -> [a EXCEPT !.choice = <<word>>, !.want = ""]
    [] OTHER -> [a EXCEPT !.wrong = TRUE]

(* One word after another; a value is the word after its flag. *)
TuiWord(a, word) ==
  CASE a.want = "--returned-from" -> [a EXCEPT !.from = <<word>>, !.want = ""]
    [] a.want = "--choice" -> [a EXCEPT !.choice = <<word>>, !.want = ""]
    [] word = "--first" -> [a EXCEPT !.first = TRUE]
    [] word = "--popup" -> [a EXCEPT !.popup = TRUE]
    [] word \in {"--returned-from", "--choice"} -> [a EXCEPT !.want = word]
    [] OTHER -> [a EXCEPT !.wrong = TRUE]
TuiArguments(argv) == FoldLeft(TuiWord, [NoArguments EXCEPT !.pane = Head(argv)], Tail(argv))
BackArguments(p, from) == <<p>> \o (IF from = <<>> THEN <<>> ELSE <<"--returned-from", from[1]>>)
PopupArguments(p, file) == <<p, "--popup", "--choice", file>>
FirstArguments(p) == <<p, "--first">>

-----------------------------------------------------------------------------
(* The steps of a choice: the performer does the first of its todo. *)
ToShow(name) == [do |-> "show", name |-> name]
ToBack(name) == [do |-> "back", name |-> name]
Tx(verb, id) == [do |-> verb, name |-> id]
Say(what) == [do |-> "say", name |-> what]
OwnPopup(what) == [do |-> "popup", name |-> what]
Switch(name) == [do |-> "switch", name |-> name]
Assistant == "assistant"
TutorView == "tutor"

HomeActions ==
  {<<a, id>> : a \in {"attach", "resume", "stop", "artifacts"}, id \in HomeAgents}
  \union {<<a, "">> : a \in {"ask", "new", "timeline", "warm", "tutor"}}
(* An id is its agent's name; "" selects no row.                            *)
Steps(action) ==
  LET id == action[2] IN
  CASE action[1] = "attach" -> <<ToShow(id)>>
    [] action[1] = "resume" -> <<Tx("respawn", id)>>
    [] action[1] = "ask" -> <<Tx("warm to ask", "")>>
    [] action[1] = "new" -> <<ToBack(""), OwnPopup("new")>>
    [] action[1] = "stop" -> <<ToBack(id), Tx("stop", id)>>
    [] action[1] = "artifacts" -> <<ToBack(id), Tx("menu", id)>>
    [] action[1] = "timeline" -> <<ToBack(""), OwnPopup("timeline")>>
    [] action[1] = "warm" -> <<Tx("warm", "")>>
    [] action[1] = "tutor" -> <<ToBack(""), Tx("tutor start", "")>>

ChoicesInit ==
  /\ here = AtFirst
  /\ \E place \in {"floor", "popup"}, client \in BOOLEAN, action \in HomeActions :
       /\ place = "popup" => client
       /\ performer = [place |-> place, client |-> client, todo |-> Steps(action), action |-> action]
       /\ floorPane = IF place = "floor" THEN <<"dead">> ELSE <<"tui", "">>
  /\ viewed = "home" /\ spoken = <<>> /\ wrong = {} /\ programs = 0 /\ unlucky = 0

Does(do) == performer.todo # <<>> /\ Head(performer.todo).do = do
Name == Head(performer.todo).name
Then(steps) == performer' = [performer EXCEPT !.todo = steps \o Tail(@)]
Fails(what) == unlucky < MaxUnlucky /\ unlucky' = unlucky + 1 /\ wrong' = wrong \union {what}
Fine == UNCHANGED <<wrong, unlucky>>
OnFloor == performer.place = "floor"
Gets(program) == floorPane' = program /\ programs' = programs + 1
PaneKept == UNCHANGED <<floorPane, programs>>

(* With no client nobody would see it.                                      *)
Speak ==
  /\ Does("say") /\ Then(<<>>) /\ spoken' = IF performer.client THEN Append(spoken, Name) ELSE spoken
  /\ PaneKept /\ Fine /\ UNCHANGED <<here, viewed>>
(* Only the floor has its TUI back, on the row it left.                     *)
TuiBack ==
  /\ Does("back")
  /\ \/ ~OnFloor /\ Then(<<>>) /\ PaneKept /\ Fine
     \/ OnFloor /\ Then(<<>>) /\ Gets(<<"tui", Name>>) /\ Fine
     \/ OnFloor /\ Fails("back") /\ Then(<<Say("back")>>) /\ PaneKept
  /\ UNCHANGED <<here, viewed, spoken>>
(* The session is nested, or the TUI comes back; that the last session was    *)
(* not recorded is said, and is no reason not to nest.                      *)
ShowSession ==
  /\ Does("show")
  /\ \/ ~OnFloor /\ Then(<<Switch(Name)>>) /\ PaneKept /\ Fine
     \/ /\ OnFloor /\ Name \notin here
        /\ Then(<<Say("no session"), ToBack("")>>) /\ PaneKept /\ UNCHANGED unlucky /\ wrong' = wrong \union {"no session"}
     \/ OnFloor /\ Name \in here /\ Then(<<>>) /\ Gets(<<"nest", Name>>) /\ Fine
     \/ OnFloor /\ Name \in here /\ Fails("last") /\ Then(<<Say("last")>>) /\ Gets(<<"nest", Name>>)
     \/ OnFloor /\ Name \in here /\ Fails("nest") /\ Then(<<Say("nest"), ToBack(Name)>>) /\ PaneKept
  /\ UNCHANGED <<here, viewed, spoken>>
SwitchClient ==
  /\ Does("switch")
  /\ IF ~performer.client THEN Then(<<>>) /\ UNCHANGED viewed /\ Fine
     ELSE \/ Name \in here /\ Then(<<>>) /\ viewed' = Name /\ Fine
          \/ Name \notin here /\ Then(<<Say("switch")>>) /\ wrong' = wrong \union {"switch"} /\ UNCHANGED <<viewed, unlucky>>
          \/ Fails("switch") /\ Then(<<Say("switch")>>) /\ UNCHANGED viewed
  /\ PaneKept /\ UNCHANGED <<here, spoken>>
(* A popup is only for a client; the call returns when it closes.            *)
ShowPopup ==
  /\ Does("popup")
  /\ \/ Then(<<>>) /\ Fine
     \/ performer.client /\ Fails("popup") /\ Then(<<Say("popup")>>)
  /\ PaneKept /\ UNCHANGED <<here, viewed, spoken>>

(* Another verb: what is done when it has done its work, and when it fails.   *)
Ran(verb, started, after, failed) ==
  /\ Does(verb)
  /\ \/ Then(after) /\ here' = here \union started /\ Fine
     \/ Fails(verb) /\ Then(failed) /\ UNCHANGED here
  /\ PaneKept /\ UNCHANGED <<viewed, spoken>>
(* `tx respawn` and `warm` name the session they bring up.                   *)
RunVerb ==
  \/ Ran("respawn", {Name}, <<Say("respawned"), ToShow(Name)>>, <<Say("respawn"), ToBack(Name)>>)
  \/ Ran("warm to ask", {Assistant}, <<ToShow(Assistant), Tx("ask", "")>>, <<Say("warm to ask"), ToBack("")>>)
  \/ Ran("ask", {}, <<>>, <<Say("ask")>>)
  \/ Ran("warm", {Assistant}, <<ToBack("")>>, <<Say("warm"), ToBack("")>>)
  \/ Ran("tutor start", {TutorView}, <<Switch(TutorView)>>, <<Say("tutor start")>>)
(* The menu of a client that is not there is not opened.                     *)
RunMenu ==
  /\ Does("menu")
  /\ \/ Then(<<>>) /\ Fine
     \/ performer.client /\ Fails("menu") /\ Then(<<Say("menu")>>)
  /\ PaneKept /\ UNCHANGED <<here, viewed, spoken>>
RunStop ==
  /\ Does("stop")
  /\ \/ Then(<<Say("stopped")>>) /\ here' = here \ {Name} /\ Fine
     \/ Fails("stop") /\ Then(<<Say("stop")>>) /\ UNCHANGED here
  /\ PaneKept /\ UNCHANGED <<viewed, spoken>>
SessionGoes ==
  /\ unlucky < MaxUnlucky /\ unlucky' = unlucky + 1
  /\ \E name \in here : here' = here \ {name}
  /\ UNCHANGED <<performer, floorPane, viewed, spoken, wrong, programs>>

ChoicesNext ==
  \/ Speak \/ TuiBack \/ ShowSession \/ SwitchClient \/ ShowPopup
  \/ RunVerb \/ RunMenu \/ RunStop \/ SessionGoes

(* The floor's pane gets one program, the one the choice meant or the TUI, if *)
(* tmux gives it any, and the popup leaves it alone; what goes wrong is said    *)
(* to the client there is, and a session that was to come up comes up if      *)
(* nothing went wrong.                                                      *)
OneProgramForThePane ==
  LET over == performer.todo = <<>> IN
  /\ programs <= 1
  /\ ~OnFloor => programs = 0 /\ floorPane = <<"tui", "">>
  /\ OnFloor /\ over => programs = 1 \/ "back" \in wrong
WrongIsSaid == performer.todo = <<>> /\ performer.client => wrong \subseteq ToSet(spoken)
ComesUp ==
  LET kind == performer.action[1]
      wanted == CASE kind \in {"attach", "resume"} -> {performer.action[2]} [] kind = "ask" -> {Assistant} [] kind = "tutor" -> {TutorView} [] OTHER -> {}
  IN performer.todo = <<>> /\ wrong = {} =>
       \A name \in wanted :
         IF OnFloor /\ kind # "tutor" THEN floorPane = <<"nest", name>> ELSE performer.client => viewed = name
(* Whatever a session is called, the TUI is started on its row.              *)
TuiReadsItsWords ==
  \A name \in HomeAgents \union TuiFlags :
    /\ TuiArguments(BackArguments("%1", <<name>>)) = [NoArguments EXCEPT !.pane = "%1", !.from = <<name>>]
    /\ TuiArguments(PopupArguments("%1", name)) = [NoArguments EXCEPT !.pane = "%1", !.popup = TRUE, !.choice = <<name>>]
    /\ TuiArguments(FirstArguments("%1")) = [NoArguments EXCEPT !.pane = "%1", !.first = TRUE]

ChoicesHold == OneProgramForThePane /\ WrongIsSaid /\ ComesUp /\ TuiReadsItsWords

-----------------------------------------------------------------------------
(* The loop. *)
NewClock(time) == [started |-> time, paused |-> 0, lost |-> <<>>]
Running(c) == c.lost = <<>>
Pause(c, time) == IF Running(c) THEN [c EXCEPT !.lost = <<time>>] ELSE c
(* Mutant: the time without the focus is not counted as paused. *)
ResumeForgets(c, time) == IF Running(c) THEN c ELSE [c EXCEPT !.lost = <<>>]

(* The focus is back. *)
Resume(c, time) == IF Running(c) THEN c ELSE [c EXCEPT !.paused = @ + time - c.lost[1], !.lost = <<>>]
Elapsed(c, time) == (IF Running(c) THEN time ELSE c.lost[1]) - c.started - c.paused

(* 1, 2 and so on, then off.                                                *)
NextTheme(theme) == IF theme < Backdrops THEN theme + 1 ELSE 0
ModesChange(before, after) == IF before = after THEN <<>> ELSE <<after>>

Animating == Running(clock) /\ backdrop # 0
Periodic(spins) == Animating \/ spins
Interval == IF Animating THEN FrameTime ELSE SpinTime
NoNegative(a, b) == IF a > b THEN a - b ELSE 0

LoopInit ==
  /\ now = 0 /\ focused = TRUE /\ events = <<>> /\ ran = 0 /\ clock = NewClock(0)
  /\ backdrop \in {0, 1} /\ modes = (backdrop # 0)
  /\ \E spins \in BOOLEAN : loop = [at |-> "top", changed |-> TRUE, wait |-> 0, frame |-> 0, spins |-> spins]

(* The replies are taken; a frame, if anything has changed or one is due;    *)
(* then as long a wait as until the next.                                   *)
DrawFrame(spins) ==
  LET due == loop.changed \/ spins # loop.spins \/ (Periodic(spins) /\ now - loop.frame >= Interval)
      frame == IF due THEN now ELSE loop.frame
  IN /\ loop.at = "top"
     /\ loop' = [at |-> "poll", frame |-> frame, changed |-> FALSE, spins |-> spins,
                  wait |-> IF Periodic(spins) THEN NoNegative(frame + Interval, now) ELSE Interval]
     /\ UNCHANGED <<now, focused, events, modes, backdrop, clock, ran>>
PollTimesOut ==
  /\ loop.at = "poll" /\ events = <<>> /\ loop.wait = 0 /\ loop' = [loop EXCEPT !.at = "top"]
  /\ UNCHANGED <<now, focused, events, modes, backdrop, clock, ran>>
TimePasses ==
  /\ loop.at = "poll" /\ events = <<>> /\ loop.wait > 0 /\ now < MaxClock
  /\ now' = now + 1 /\ loop' = [loop EXCEPT !.wait = @ - 1] /\ ran' = IF Running(clock) THEN ran + 1 ELSE ran
  /\ UNCHANGED <<focused, events, modes, backdrop, clock>>

(* One event after another, and none of them waits for a frame.              *)
Handles(event, changes) ==
  /\ loop.at = "poll" /\ events # <<>> /\ Head(events) = event
  /\ loop' = [loop EXCEPT !.wait = 0, !.changed = @ \/ changes]
  /\ UNCHANGED <<now, focused>>
Mouse == Handles("mouse", FALSE) /\ events' = Tail(events) /\ UNCHANGED <<modes, backdrop, clock, ran>>
FocusLost == Handles("lost", FALSE) /\ events' = Tail(events) /\ clock' = Pause(clock, now) /\ UNCHANGED <<modes, backdrop, ran>>
FocusGained == Handles("gained", TRUE) /\ events' = Tail(events) /\ clock' = Resume(clock, now) /\ UNCHANGED <<modes, backdrop, ran>>
Resized == Handles("resize", TRUE) /\ events' = Tail(events) /\ UNCHANGED <<modes, backdrop, clock, ran>>
(* The clock begins again; a terminal told to report the focus says it.       *)
ThemeKey ==
  LET theme == NextTheme(backdrop)
      change == ModesChange(backdrop # 0, theme # 0)
  IN /\ Handles("b", TRUE)
     /\ backdrop' = theme /\ clock' = NewClock(now) /\ ran' = 0
     /\ modes' = IF change = <<>> THEN modes ELSE change[1]
     /\ events' = Tail(events) \o (IF change = <<TRUE>> THEN <<IF focused THEN "gained" ELSE "lost">> ELSE <<>>)
(* A choice, q or the popup's Ctrl-c; the terminal is left as it was.         *)
LoopEnds ==
  /\ loop.at = "poll" /\ events # <<>> /\ Head(events) = "choice"
  /\ loop' = [loop EXCEPT !.at = "over"] /\ modes' = IF backdrop # 0 THEN FALSE ELSE modes
  /\ UNCHANGED <<now, focused, events, backdrop, clock, ran>>

(* The terminal. Keys go to the pane that has the focus.                     *)
Types ==
  /\ Len(events) < 2 /\ loop.at # "over"
  /\ \/ focused /\ \E key \in {"b", "resize", "choice"} : events' = Append(events, key) /\ UNCHANGED focused
     \/ modes /\ events' = Append(events, "mouse") /\ UNCHANGED focused
     \/ focused' = ~focused /\ events' = IF modes THEN Append(events, IF focused THEN "lost" ELSE "gained") ELSE events
  /\ UNCHANGED <<now, modes, loop, backdrop, clock, ran>>

LoopNext ==
  \/ \E spins \in BOOLEAN : DrawFrame(spins)
  \/ PollTimesOut \/ TimePasses \/ Mouse \/ FocusLost \/ FocusGained \/ Resized \/ ThemeKey \/ LoopEnds \/ Types

(* The backdrop's time is how long it was seen with the focus, and it runs    *)
(* with the focus once the reports are handled; the terminal reports exactly  *)
(* while there is a backdrop, and not once the home is over; no change waits  *)
(* for its frame, and what moves is drawn in time.                          *)
LoopHolds ==
  /\ Elapsed(clock, now) = ran
  /\ backdrop # 0 /\ events = <<>> => (Running(clock) <=> focused)
  /\ modes <=> (backdrop # 0 /\ loop.at # "over")
  /\ loop.at = "poll" /\ loop.wait > 0 => ~loop.changed
  /\ Periodic(loop.spins) /\ loop.at = "poll" /\ loop.wait > 0 => now - loop.frame <= Interval

-----------------------------------------------------------------------------
(* The projects (project.rs): what git said of each worktree. *)
NoRepository == "none"
ParentDirectory == "parent"
NotSeen == [main |-> ParentDirectory, at |-> "unseen", from |-> NoRepository, stamp |-> <<>>, branch |-> "",
            failures |-> 0, retry |-> 0, since |-> 0, missed |-> FALSE]
(* HEAD as it was written; a rewritten one has another time or length.       *)
StampOf(w, from) == IF from # NoRepository /\ checkedOut[w].repository = from THEN <<checkedOut[w].written>> ELSE <<>>
RetryAfter(failures) == IF 2^(failures - 1) < LastRetry THEN 2^(failures - 1) ELSE LastRetry

(* Mutant: what was found once is never looked at again. *)
DueOnce(w) == lookups[w].at = "pending" \/ (lookups[w].at = "failed" /\ ticks >= lookups[w].retry)

(* What is to be looked up now. *)
Due(w) ==
  CASE lookups[w].at = "pending" -> TRUE
    [] lookups[w].at = "found" -> StampOf(w, lookups[w].from) # lookups[w].stamp
    [] lookups[w].at = "failed" -> ticks >= lookups[w].retry
    [] OTHER -> FALSE

ProjectsInit ==
  /\ checkedOut \in [HomeTrees -> [there : BOOLEAN, repository : Repositories \union {NoRepository}, branch : {"main"}, written : {1}]]
  /\ lookups = [w \in HomeTrees |-> NotSeen] /\ asking = <<>> /\ ticks = 0 /\ news = 0

Knows(w, lookup) == lookups' = [lookups EXCEPT ![w] = lookup]
(* main_checkout: nothing is asked of git.                                   *)
ReadProject(w) ==
  /\ asking = <<>> /\ lookups[w].at = "unseen" /\ Knows(w, [NotSeen EXCEPT !.at = "pending"])
  /\ UNCHANGED <<checkedOut, asking, ticks, news>>
(* look_up_due: of a worktree that was found only HEAD is asked again.       *)
LookUpAgain(w) ==
  /\ asking = <<>> /\ Due(w) /\ lookups[w].at = "found" /\ asking' = <<w, "stamp">>
  /\ UNCHANGED <<checkedOut, lookups, ticks, news>>
LookUp(w) ==
  /\ asking = <<>> /\ Due(w) /\ lookups[w].at \in {"pending", "failed"}
  /\ LET failures == lookups[w].failures + 1
         failed == [NotSeen EXCEPT !.at = "failed", !.failures = failures, !.retry = ticks + RetryAfter(failures),
                      !.since = IF failures = 1 THEN ticks ELSE lookups[w].since]
     IN IF ~checkedOut[w].there THEN Knows(w, [NotSeen EXCEPT !.at = "gone"]) /\ UNCHANGED <<asking, news>>
        ELSE \/ /\ checkedOut[w].repository # NoRepository /\ asking' = <<w, "stamp">> /\ UNCHANGED news
                /\ Knows(w, [NotSeen EXCEPT !.at = "found", !.main = checkedOut[w].repository, !.from = checkedOut[w].repository])
             \/ checkedOut[w].repository = NoRepository /\ Knows(w, failed) /\ UNCHANGED <<asking, news>>
             \/ news < MaxTreeNews /\ news' = news + 1 /\ Knows(w, failed) /\ UNCHANGED asking
  /\ UNCHANGED <<checkedOut, ticks>>
(* The stamp, and only then the branch.                                      *)
ReadStamp ==
  /\ asking # <<>> /\ asking[2] = "stamp" /\ asking' = <<asking[1], "branch">>
  /\ Knows(asking[1], [lookups[asking[1]] EXCEPT !.stamp = StampOf(asking[1], lookups[asking[1]].from)])
  /\ UNCHANGED <<checkedOut, ticks, news>>
ReadBranch ==
  /\ asking # <<>> /\ asking[2] = "branch" /\ asking' = <<>>
  /\ LET tree == checkedOut[asking[1]]
         said == tree.there /\ tree.repository # NoRepository
     IN \/ /\ Knows(asking[1], [lookups[asking[1]] EXCEPT !.branch = IF said THEN tree.branch ELSE "", !.missed = ~said]) /\ UNCHANGED news
        \/ /\ said /\ news < MaxTreeNews /\ news' = news + 1
           /\ Knows(asking[1], [lookups[asking[1]] EXCEPT !.branch = "", !.missed = TRUE])
  /\ UNCHANGED <<checkedOut, ticks>>
RetryTime == ticks < MaxRetries /\ ticks' = ticks + 1 /\ UNCHANGED <<checkedOut, lookups, asking, news>>

(* Others: "" is a HEAD that is detached.                                    *)
TreeNews(w) ==
  /\ news < MaxTreeNews /\ news' = news + 1
  /\ LET tree == checkedOut[w] IN
     \/ /\ tree.repository # NoRepository
        /\ \E branch \in {"main", "b", ""} \ {tree.branch} :
             checkedOut' = [checkedOut EXCEPT ![w].branch = branch, ![w].written = @ + 1]
     \/ checkedOut' = [checkedOut EXCEPT ![w].there = ~@]
     \/ \E repository \in (Repositories \union {NoRepository}) \ {tree.repository} :
          checkedOut' = [checkedOut EXCEPT ![w].repository = repository, ![w].written = @ + 1]
  /\ UNCHANGED <<lookups, asking, ticks>>

ProjectsNext ==
  \/ \E w \in HomeTrees : ReadProject(w) \/ LookUpAgain(w) \/ LookUp(w) \/ TreeNews(w)
  \/ ReadStamp \/ ReadBranch \/ RetryTime

(* When nothing is due of a worktree that was found, its branch is the one     *)
(* HEAD names now, however HEAD changed while it was read, unless git failed  *)
(* at that or its repository is another now; a worktree is listed under the   *)
(* repository git named and else under its parent; and one git cannot name    *)
(* is asked about ever more seldom.                                         *)
Waited(failures) == FoldLeft(LAMBDA sum, i : sum + RetryAfter(i), 0, [i \in 1..failures |-> i])
ProjectsHold ==
  \A w \in HomeTrees : LET known == lookups[w] IN
    /\ known.at = "found" /\ asking = <<>> /\ ~Due(w) /\ ~known.missed /\ known.from = checkedOut[w].repository
         => known.branch = checkedOut[w].branch
    /\ known.main = IF known.at = "found" THEN known.from ELSE ParentDirectory
    /\ known.at = "failed" => known.retry >= known.since + Waited(known.failures) /\ ticks + LastRetry >= known.retry
=============================================================================
