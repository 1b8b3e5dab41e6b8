---------------------------- MODULE HomeScreen ----------------------------
(***************************************************************************)
(* The home TUI (plugins/home: model.rs, run.rs, data.rs, project.rs): its *)
(* rows, cursor and keys, and the worker thread that gathers its data      *)
(* while the agents and the views it lists come and go.                    *)
(***************************************************************************)
EXTENDS Integers, Sequences, FiniteSets, SequencesExt

CONSTANTS
  HomeAgents,   \* agent ids, numbers: the larger, the more recent activity
  HomeViews,    \* names of views, numbers
  NameOf,       \* NameOf[a]: the agent's name, a number
  CheckoutOf,   \* CheckoutOf[a]: its project once git was asked
  ParentOf,     \* ParentOf[v]: the view's parent agent, or NoAgent
  ViewProject,  \* ViewProject[v]: the project its directory lies in, or NoAgent
  HomeAssistant,\* the id of the assistant's agent
  Found,        \* names and projects the find text "f" matches
  NoAgent,
  EndedShown,   \* ENDED_SHOWN (3 in the code)
  FirstWorlds,  \* the sessions there may be when the home starts
  MaxHomeKeys,  \* bound: keys pressed
  MaxHomeSteps  \* bound: changes of the world

ASSUME HomeAssumption ==
  /\ IsFiniteSet(HomeAgents) /\ EndedShown \in Nat
  /\ NoAgent \notin HomeViews \cup {NameOf[a] : a \in HomeAgents}
  /\ FirstWorlds \subseteq [running : SUBSET HomeAgents, gone : {{}}, ended : SUBSET HomeAgents,
                            views : SUBSET HomeViews, failed : BOOLEAN]

VARIABLES
  home,      \* Home: what is on the screen
  requests,  \* to the worker
  replies,   \* from the worker
  asked,     \* Data::asked: the detail asked for
  returned,  \* Data::returned_from: the session to select once
  gathered,  \* the worker's own context
  looked,    \* agents whose checkout the worker's ProjectCache knows
  world,     \* the live sessions: [running, ended: agents; views; failed: the assistant's failure file]
  ran,       \* the action the TUI left with
  homeKeys, homeSteps

homeVars == <<home, requests, replies, asked, returned, gathered, looked, world, ran,
              homeKeys, homeSteps>>

Unasked == 0     \* the project of a checkout git was not asked about
NotRun == [do |-> "nothing", on |-> NoAgent]
NoContext == [agents |-> <<>>, views |-> {}, details |-> {}, assistant |-> "absent"]
Loading == [context |-> NoContext, loaded |-> FALSE, cursor |-> 1, unfolded |-> {},
            endedShown |-> FALSE, filter |-> "", view |-> "main", confirm |-> NoAgent,
            input |-> "none"]

-----------------------------------------------------------------------------
(* data.rs: gathering the context *)

ProjectOf(a, known) == IF a \in known THEN CheckoutOf[a] ELSE Unasked

(* The elements of S in order, each after those that come before it.       *)
Ranked(S, before) ==
  [n \in 1..Cardinality(S) |-> CHOOSE x \in S : Cardinality({y \in S : <<y, x>> \in before}) = n - 1]
Ascending(S) == Ranked(S, {p \in S \X S : p[1] < p[2]})
AgentList(ids, over, known) ==
  [i \in 1..Cardinality(ids) |-> LET a == Ascending(ids)[i] IN [id |-> a, ended |-> over, project |-> ProjectOf(a, known)]]

AssistantFrom(w) ==
  CASE HomeAssistant \in w.running -> "ready"
    [] HomeAssistant \notin w.running /\ w.failed -> "failed"
    [] HomeAssistant \in w.ended /\ ~w.failed -> "stopped"
    [] OTHER -> "absent"

(* The running records are listed and refreshed against tmux first, those  *)
(* that ended listed afterwards: one whose end the refresh found, and      *)
(* saved, is in both.                                                      *)
Gather(w, details, known) ==
  LET live == AgentList(w.running, FALSE, known) \o AgentList(w.gone, TRUE, known)
      over == AgentList(w.ended \cup w.gone, TRUE, known) IN
  [agents |-> live \o over, views |-> w.views,
   details |-> details \cap (w.running \cup w.gone \cup w.ended),
   assistant |-> AssistantFrom([w EXCEPT !.ended = @ \cup w.gone])]

-----------------------------------------------------------------------------
(* model.rs: the rows *)

Matches(h, text) == h.filter = "" \/ text \in Found
ViewsUnder(c, a) == {v \in c.views : ParentOf[v] = a}
Projects(c) == {c.agents[i].project : i \in DOMAIN c.agents}
Orphaned(c, v) == \A i \in DOMAIN c.agents : c.agents[i].id # ParentOf[v]

KeepsAgent(h, a) ==
  Matches(h, NameOf[a.id]) \/ Matches(h, a.project)
  \/ \E v \in ViewsUnder(h.context, a.id) : Matches(h, v)

LooseViews(h, p) ==
  {v \in h.context.views :
     /\ (IF ViewProject[v] \in Projects(h.context) THEN ViewProject[v] ELSE NoAgent) = p
     /\ Orphaned(h.context, v)
     /\ Matches(h, v) \/ (p # NoAgent /\ Matches(h, p))}

ViewsRow(views, p) ==
  IF views = {} THEN <<>> ELSE <<[kind |-> "views", names |-> Ascending(views), project |-> p]>>

AgentRows(h, a) ==
  <<[kind |-> "agent", id |-> a.id, ended |-> a.ended, project |-> a.project]>>
  \o (IF a.id \in h.unfolded THEN <<[kind |-> "detail"]>> ELSE <<>>)
  \o ViewsRow(ViewsUnder(h.context, a.id), a.project)

KeptOf(h, p) ==
  {i \in DOMAIN h.context.agents :
     h.context.agents[i].project = p /\ KeepsAgent(h, h.context.agents[i])}

(* running agents before ended ones, then by the newest activity           *)
AgentOrder(all, kept) ==
  LET before(i, j) == \/ ~all[i].ended /\ all[j].ended
                      \/ all[i].ended = all[j].ended /\ all[i].id > all[j].id
                      \/ all[i].ended = all[j].ended /\ all[i].id = all[j].id /\ i < j IN
  Ranked(kept, {p \in kept \X kept : before(p[1], p[2])})

ProjectRows(h, p) ==
  LET all == h.context.agents
      kept == KeptOf(h, p)
      order == AgentOrder(all, kept)
      ended == Cardinality({i \in kept : all[i].ended})
      hidden == IF h.endedShown \/ ended <= EndedShown THEN 0 ELSE ended - EndedShown
      loose == ViewsRow(LooseViews(h, p), p) IN
  IF kept = {} /\ loose = <<>> THEN <<>>
  ELSE <<[kind |-> "project"]>>
       \o FlattenSeq([n \in 1..Cardinality(kept) - hidden |-> AgentRows(h, all[order[n]])])
       \o (IF hidden > 0 THEN <<[kind |-> "fold"]>> ELSE <<>>)
       \o loose

(* the assistant's project comes last, then by the newest activity *)
ProjectOrder(c) ==
  LET of(p) == {c.agents[i].id : i \in {j \in DOMAIN c.agents : c.agents[j].project = p}}
      newest(p) == CHOOSE a \in of(p) : \A b \in of(p) : b <= a
      system(p) == HomeAssistant \in of(p)
      before(p, q) == IF system(p) # system(q) THEN system(q) ELSE newest(p) > newest(q) IN
  Ranked(Projects(c), {p \in Projects(c) \X Projects(c) : before(p[1], p[2])})

IsFirstRun(h) ==
  /\ \A i \in DOMAIN h.context.agents : h.context.agents[i].id = HomeAssistant
  /\ h.context.views = {}

AllRows(h) ==
  IF ~h.loaded THEN <<[kind |-> "loading"]>>
  ELSE LET order == ProjectOrder(h.context)
           loose == ViewsRow(LooseViews(h, NoAgent), NoAgent) IN
       FlattenSeq([i \in DOMAIN order |-> ProjectRows(h, order[i])])
       \o (IF loose = <<>> THEN <<>> ELSE <<[kind |-> "project"]>> \o loose)
       \o (IF IsFirstRun(h) THEN <<[kind |-> "first run"]>> ELSE <<>>)

(* rows are made of no more than this of the home                          *)
RowData(h) ==
  [context |-> h.context, loaded |-> h.loaded, unfolded |-> h.unfolded,
   endedShown |-> h.endedShown, filter |-> h.filter]
Rows(h) == AllRows(RowData(h))

Selectable(row) == row.kind \in {"agent", "views"}
Holds(row, name) ==
  CASE row.kind = "agent" -> NameOf[row.id] = name
    [] row.kind = "views" -> \E i \in DOMAIN row.names : row.names[i] = name
    [] OTHER -> FALSE
Selectables(rows) == {i \in DOMAIN rows : Selectable(rows[i])}
Least(S) == CHOOSE i \in S : \A j \in S : i <= j
Greatest(S) == CHOOSE i \in S : \A j \in S : j <= i

(* cursor_row: the row under the cursor, when it can be selected *)
CursorRow(h) ==
  LET rows == Rows(h) IN
  IF h.cursor \in Selectables(rows) THEN rows[h.cursor] ELSE [kind |-> "none"]
AgentOf(row) == IF row.kind = "agent" THEN row.id ELSE NoAgent
NameIn(row) ==
  CASE row.kind = "agent" -> NameOf[row.id] [] row.kind = "views" -> row.names[1] [] OTHER -> NoAgent
CursorAgent(h) == AgentOf(CursorRow(h))
SessionName(h) == NameIn(CursorRow(h))

(* the first selectable row that holds the session's name, else the        *)
(* selectable row nearest the cursor                                       *)
Anchor(h, name) ==
  LET rows == Rows(h)
      at == Selectables(rows)
      named == {i \in at : Holds(rows[i], name)}
      away(i) == IF i > h.cursor THEN i - h.cursor ELSE h.cursor - i IN
  IF named # {} THEN Least(named)
  ELSE IF at = {} THEN h.cursor
  ELSE Least({i \in at : \A j \in at : away(i) <= away(j)})

(* Mutant: the cursor keeps its index.                                     *)
ReshapeInPlace(h, changed) == changed

Reshape(h, changed) == [changed EXCEPT !.cursor = Anchor(changed, SessionName(h))]

-----------------------------------------------------------------------------
(* model.rs: keys *)

Step(h, forward) ==
  LET at == Selectables(Rows(h))
      past == {i \in at : IF forward THEN i > h.cursor ELSE i < h.cursor}
      from == IF past = {} THEN at ELSE past IN
  IF at = {} THEN h
  ELSE [h EXCEPT !.cursor = IF h.cursor \notin at THEN Least(at)
                            ELSE IF forward THEN Least(from) ELSE Greatest(from)]

CursorEnded(h) == CursorRow(h).kind = "agent" /\ CursorRow(h).ended

FindShows(h, k) ==
  CASE k = "enter" -> [h EXCEPT !.input = "none"]
    [] k = "esc" -> Reshape(h, [h EXCEPT !.filter = "", !.input = "none"])
    [] k = "f" -> Reshape(h, [h EXCEPT !.filter = "f"])
    [] k = "backspace" -> Reshape(h, [h EXCEPT !.filter = ""])
    [] OTHER -> h

MainShows(h, k) ==
  LET a == CursorAgent(h) IN
  CASE k \in {"j", "k"} -> Step(h, k = "j")
    [] k = "right" /\ a # NoAgent -> Reshape(h, [h EXCEPT !.unfolded = @ \cup {a}])
    [] k = "left" /\ a # NoAgent -> Reshape(h, [h EXCEPT !.unfolded = @ \ {a}])
    [] k = "tab" -> Reshape(h, [h EXCEPT !.endedShown = ~@])
    [] k = "x" /\ a # NoAgent /\ ~CursorEnded(h) -> [h EXCEPT !.confirm = a]
    [] k = "p" -> [h EXCEPT !.view = "plugins"]
    [] k = "f" -> [h EXCEPT !.input = "find"]
    [] k = "ask" -> [h EXCEPT !.input = "ask"]
    [] OTHER -> h

KeyShows(h, k) ==
  IF h.view # "main" THEN IF k = "esc" THEN [h EXCEPT !.view = "main"] ELSE h
  ELSE IF h.confirm # NoAgent THEN [h EXCEPT !.confirm = NoAgent]
  ELSE IF h.input = "find" THEN FindShows(h, k)
  ELSE IF h.input = "ask" THEN IF k \in {"enter", "esc"} THEN [h EXCEPT !.input = "none"] ELSE h
  ELSE MainShows(h, k)

Resume(h) ==
  LET a == CursorAgent(h)
      assistant == a = HomeAssistant IN
  IF h.context.assistant = "failed" /\ (a = NoAgent \/ assistant) THEN [do |-> "warm", on |-> NoAgent]
  ELSE IF a # NoAgent /\ (CursorEnded(h) \/ (h.context.assistant = "stopped" /\ assistant))
         THEN [do |-> "resume", on |-> a]
  ELSE NotRun

MainRuns(h, k) ==
  LET row == CursorRow(h)
      agent == row.kind = "agent" IN
  CASE k = "enter" /\ agent /\ CursorEnded(h) -> [do |-> "resume", on |-> row.id]
    [] k = "enter" /\ row.kind \in {"agent", "views"} /\ ~CursorEnded(h) ->
         [do |-> "attach", on |-> SessionName(h)]
    [] k = "n" -> [do |-> "new", on |-> IF Selectable(row) THEN row.project ELSE NoAgent]
    [] k = "r" -> Resume(h)
    [] k = "a" /\ agent -> [do |-> "artifacts", on |-> row.id]
    [] OTHER -> NotRun

KeyRuns(h, k) ==
  IF h.view # "main" THEN NotRun
  ELSE IF h.confirm # NoAgent THEN IF k = "y" THEN [do |-> "stop", on |-> h.confirm] ELSE NotRun
  ELSE IF h.input = "ask" THEN IF k = "enter" THEN [do |-> "ask", on |-> NoAgent] ELSE NotRun
  ELSE IF h.input = "find" THEN NotRun
  ELSE MainRuns(h, k)

HomeKeySet == {"j", "k", "enter", "right", "left", "tab", "n", "x", "y", "r", "a", "f",
               "ask", "p", "esc", "backspace"}

HomeKey(k) ==
  /\ ran = NotRun /\ homeKeys < MaxHomeKeys
  /\ homeKeys' = homeKeys + 1
  /\ home' = KeyShows(home, k)
  /\ ran' = KeyRuns(home, k)
  /\ UNCHANGED <<requests, replies, asked, returned, gathered, looked, world, homeSteps>>

-----------------------------------------------------------------------------
(* run.rs: the event loop's data and its worker *)

Outstanding == Len(requests) + Len(replies)

(* Data::apply: a reply replaces the context; what git was not asked about *)
(* is asked when nothing else is outstanding; a failed gathering ends the  *)
(* TUI.                                                                    *)
HomeReceive ==
  /\ ran = NotRun /\ replies # <<>>
  /\ replies' = Tail(replies)
  /\ LET reply == Head(replies)
         fresh == Reshape(home, [home EXCEPT !.context = reply.context, !.loaded = TRUE])
         rows == Rows(fresh)
         back == {i \in Selectables(rows) : Holds(rows[i], returned)} IN
     IF reply.failed
       THEN /\ ran' = [do |-> "fail", on |-> NoAgent]
            /\ UNCHANGED <<home, requests, returned>>
       ELSE /\ home' = IF back = {} THEN fresh ELSE [fresh EXCEPT !.cursor = Least(back)]
            /\ returned' = NoAgent
            /\ requests' = IF reply.due /\ Outstanding = 1 THEN <<[ask |-> "projects"]>> ELSE requests
            /\ UNCHANGED ran
  /\ UNCHANGED <<asked, gathered, looked, world, homeKeys, homeSteps>>

NeedsDetail ==
  LET missing == {a \in home.unfolded \ home.context.details :
                    \E i \in DOMAIN home.context.agents : home.context.agents[i].id = a} IN
  IF missing = {} THEN NoAgent ELSE Least(missing)

(* Data::request: the first missing detail, once; the context each second  *)
(* that nothing is outstanding                                             *)
HomeRequest ==
  /\ ran = NotRun
  /\ asked' = NeedsDetail
  /\ LET detail == IF NeedsDetail \notin {asked, NoAgent}
                     THEN <<[ask |-> "detail", id |-> NeedsDetail]>> ELSE <<>> IN
     \/ requests' = requests \o detail /\ <<requests, asked>>' # <<requests, asked>>
     \/ Outstanding = 0 /\ detail = <<>> /\ requests' = <<[ask |-> "context"]>>
  /\ UNCHANGED <<home, replies, returned, gathered, looked, world, ran, homeKeys, homeSteps>>

Reply(context, known) ==
  [failed |-> FALSE, context |-> context,
   due |-> \E i \in DOMAIN context.agents : context.agents[i].id \notin known]

WorkerAnswers ==
  /\ requests # <<>> /\ ran = NotRun
  /\ requests' = Tail(requests)
  /\ LET request == Head(requests)
         known == IF request.ask = "projects"
                    THEN {gathered.agents[i].id : i \in DOMAIN gathered.agents} ELSE looked
         fresh == IF request.ask = "detail"
                    THEN [gathered EXCEPT !.details =
                            IF request.id \in world.running \cup world.gone \cup world.ended
                              THEN @ \cup {request.id} ELSE @]
                    ELSE Gather(world, gathered.details, known) IN
     /\ looked' = looked \cup known
     /\ gathered' = fresh
     /\ replies' = Append(replies, Reply(fresh, looked \cup known))
     /\ world' = IF request.ask = "detail" THEN world
                 ELSE [world EXCEPT !.ended = @ \cup world.gone, !.gone = {}]
  /\ UNCHANGED <<home, asked, returned, ran, homeKeys, homeSteps>>

WorkerFails ==
  /\ requests # <<>> /\ Head(requests).ask # "detail" /\ ran = NotRun
  /\ requests' = Tail(requests)
  /\ replies' = Append(replies, [failed |-> TRUE])
  /\ UNCHANGED <<home, asked, returned, gathered, looked, world, ran, homeKeys, homeSteps>>

(* agents and views come and go                                            *)
WorldTurns ==
  /\ homeSteps < MaxHomeSteps
  /\ homeSteps' = homeSteps + 1
  /\ \/ \E a \in world.running : world' = [world EXCEPT !.running = @ \ {a}, !.gone = @ \cup {a}]
     \/ \E a \in HomeAgents \ (world.running \cup world.gone) :
          /\ \A b \in world.running \cup world.gone : NameOf[b] # NameOf[a]
          /\ world' = [world EXCEPT !.running = @ \cup {a}, !.ended = @ \ {a}]
     \/ \E v \in HomeViews :
          world' = [world EXCEPT !.views = IF v \in @ THEN @ \ {v} ELSE @ \cup {v}]
     \/ world' = [world EXCEPT !.failed = ~@]
  /\ UNCHANGED <<home, requests, replies, asked, returned, gathered, looked, ran, homeKeys>>

HomeInit ==
  /\ home = Loading /\ requests = <<[ask |-> "context"]>> /\ replies = <<>>
  /\ asked = NoAgent /\ gathered = NoContext /\ looked = {} /\ ran = NotRun
  /\ returned \in {NoAgent} \cup HomeViews
  /\ world \in FirstWorlds
  /\ homeKeys = 0 /\ homeSteps = 0

HomeNext ==
  \/ \E k \in HomeKeySet : HomeKey(k)
  \/ HomeReceive \/ HomeRequest \/ WorkerAnswers \/ WorkerFails \/ WorldTurns

HomeSpec == HomeInit /\ [][HomeNext]_homeVars

-----------------------------------------------------------------------------
RowsNamed(rows, name) == {i \in Selectables(rows) : Holds(rows[i], name)}
AgentsRows(rows, a) == {i \in Selectables(rows) : AgentOf(rows[i]) = a}

(* Where a step leaves the cursor, on the rows it leaves.                  *)
CursorMoves(rows) ==
  LET row == CursorRow(home)
      back == homeKeys' = homeKeys /\ RowsNamed(rows, returned) # {}
      named == RowsNamed(rows, IF back THEN returned ELSE NameIn(row))
      own == AgentsRows(rows, AgentOf(row)) IN
  /\ Selectables(rows) # {} => home'.cursor \in Selectables(rows)
  /\ homeKeys' = homeKeys \/ RowData(home') # RowData(home) =>
       /\ named # {} => home'.cursor \in named
       /\ ~back /\ AgentOf(row) # NoAgent /\ own # {} /\ RowsNamed(rows, NameIn(row)) \subseteq own
            => home'.cursor \in own

(* Whatever keys and refreshes came, the cursor is on a row while any can  *)
(* be selected. What changes the rows, and each poll, leaves it on its     *)
(* agent as long as that is listed and nothing else of its name is; and if *)
(* a namesake is, or it was on views, on a row of that name; and a poll    *)
(* after a return puts it on the session that was returned from            *)
(* (Home::reshape, anchor, step, replace_context, select_session).         *)
CursorStaysOnItsSession ==
  [][home' # home => \A rows \in {Rows(home')} : CursorMoves(rows)]_homeVars

(* model.rs:457: "New data from the poll; the cursor stays on its session, *)
(* else the nearest row."                                                  *)
CursorStaysOnItsAgent ==
  [][ home' # home /\ homeKeys' = homeKeys /\ returned' = returned =>
      LET own == AgentsRows(Rows(home'), CursorAgent(home)) IN
      CursorAgent(home) # NoAgent /\ own # {} => home'.cursor \in own ]_homeVars
=============================================================================
