------------------------------- MODULE Mockup -------------------------------
(***************************************************************************)
(* Mockups (plugins/mockup): an agent writes screens into content/, the    *)
(* viewer in the view mockup-<agent> shows the newest, and the operator's  *)
(* choice comes back as lines of state/events and as a message.  `tx mockup*)
(* start|show|wait|stop` and the viewer are processes of their own.        *)
(***************************************************************************)
EXTENDS Integers, Sequences, FiniteSets, SequencesExt

CONSTANTS
  Drafts,        \* what an agent may write: RawScreen, or waiting for a file of that name
  MockFiles,     \* file names in content/
  MockClients,   \* tmux clients of the operator
  Places,        \* sessions besides the view; one of them is the agent's
  HostedIn,       \* attachment_map: <<nested session, session of the pane>>
  AgentPlace, Nowhere,
  MaxMtime, MaxMockTurns    \* bounds: the coarse clock; keys, moves, deaths and verbs

ViewOf == "mockup"
NoShow == [client |-> Nowhere, from |-> Nowhere]
KindKeys == {"row", "col", "block", "text", "list", "table", "frames"}

ASSUME MockAssumption ==
  /\ Nowhere \notin MockFiles
  /\ ViewOf \notin Places
  /\ \A draft \in Drafts : draft.waiting \in BOOLEAN

VARIABLES
  content,    \* files in content/, in the order they were created
  mtime,      \* the file system's clock
  events,     \* state/events; of: the file whose screen it is an option of
  viewer,     \* the process in the view's pane
  shown,      \* Viewer
  view,       \* [is: absent, alive or dead; returnTo: @tx-mockup-return]
  on,         \* on[c]: the session client c shows
  busiest,    \* the client used last
  showing,    \* `tx mockup show`: the client and the session it found, or NoShow
  started,      \* ext.mockup is set: tx mockup start was run
  runs,       \* viewers started (history)
  fetchedFrom,  \* where show took the client from, Nowhere after a move by hand (history)
  mockTurns

mockVars == <<content, mtime, events, viewer, shown, view, on, busiest, showing, started, runs,
              fetchedFrom, mockTurns>>

MockTurn == mockTurns < MaxMockTurns /\ mockTurns' = mockTurns + 1

-----------------------------------------------------------------------------
(* model.rs: a node has exactly one kind, a block a body, a size of at most *)
(* 100 %; a screen has options or a body.  nodes: those anywhere in it.    *)
NodeConverts(n) ==
  /\ Cardinality(n.keys \cap KindKeys) = 1
  /\ "block" \in n.keys => "body" \in n.keys
  /\ n.percent <= 100
Converts(raw) ==
  /\ (raw.options = <<>>) # ~raw.body
  /\ \A n \in raw.nodes : NodeConverts(n)

(* the ids of its options, of none with a body *)
OptionsOf(raw) == IF raw.body THEN <<>> ELSE raw.options

-----------------------------------------------------------------------------
(* Viewer *)

NoSource == [name |-> Nowhere, at |-> 0, length |-> 0]
NoScreen == [of |-> Nowhere, options |-> <<>>]
NewViewer == [current |-> NoSource, screen |-> NoScreen, focus |-> 1, selected |-> 0,
              layout |-> "All", error |-> FALSE, waiting |-> FALSE]

FileOf(name) == CHOOSE f \in Range(content) : f.name = name
(* Mutant: compared by time alone. *)
SourceByTime(f) == [name |-> f.name, at |-> f.at, length |-> 0]
SourceOf(f) == [name |-> f.name, at |-> f.at, length |-> f.length]

(* newer by time, then by creation *)
Later(i, j) == content[i].at > content[j].at \/ (content[i].at = content[j].at /\ i >= j)
Newest == content[CHOOSE i \in DOMAIN content : \A j \in DOMAIN content : Later(i, j)]

(* poll: what newest() found is current before its text is read; a new     *)
(* name empties the events, but for a viewer that has shown nothing.       *)
Poll ==
  /\ viewer = [at |-> "loop"] /\ content # <<>> /\ shown.current # SourceOf(Newest)
  /\ LET new == shown.current.name # Newest.name
         base == IF new THEN [NewViewer EXCEPT !.screen = shown.screen, !.layout = shown.layout]
                 ELSE shown
     IN /\ events' = IF new /\ shown.current # NoSource THEN <<>> ELSE events
        /\ shown' = [base EXCEPT !.current = SourceOf(Newest),
                                 !.waiting = Newest.draft.waiting,
                                 !.error = IF Newest.draft.waiting THEN FALSE ELSE @]
  /\ viewer' = [at |-> IF Newest.draft.waiting THEN "loop" ELSE "read"]
  /\ UNCHANGED <<content, mtime, view, on, busiest, showing, started, runs, fetchedFrom, mockTurns>>

(* A screen that does not parse leaves the last one.                       *)
ReadScreen ==
  /\ viewer = [at |-> "read"] /\ viewer' = [at |-> "loop"]
  /\ LET f == FileOf(shown.current.name)
     IN shown' = IF f.whole /\ Converts(f.draft)
                   THEN [shown EXCEPT !.screen = [of |-> f.name, options |-> OptionsOf(f.draft)],
                                      !.error = FALSE]
                   ELSE [shown EXCEPT !.error = TRUE]
  /\ UNCHANGED <<content, mtime, events, view, on, busiest, showing, started, runs, fetchedFrom, mockTurns>>

Offers == shown.screen.options
ChoiceAt(index) == IF index \in DOMAIN Offers THEN Offers[index] ELSE Nowhere
AppendEvent(type, choice) ==
  events' = Append(events, [type |-> type, choice |-> choice, screen |-> shown.current.name,
                            run |-> runs])
Focused(delta) == IF Offers = <<>> THEN shown.focus
                  ELSE ((shown.focus - 1 + delta) % Len(Offers)) + 1

Keyed ==
  /\ viewer = [at |-> "loop"] /\ MockTurn
  /\ \E c \in MockClients : on[c] = ViewOf /\ busiest' = c
  /\ UNCHANGED <<content, mtime, view, on, showing, started, runs, fetchedFrom>>

Select(index) ==
  /\ Keyed /\ viewer' = viewer
  /\ IF index \in DOMAIN Offers
       THEN /\ shown' = [shown EXCEPT !.selected = index, !.focus = index]
            /\ AppendEvent("select", Offers[index])
       ELSE UNCHANGED <<shown, events>>
MoveFocus(delta) ==
  Keyed /\ shown' = [shown EXCEPT !.focus = Focused(delta)] /\ UNCHANGED <<viewer, events>>
Toggle ==
  /\ Keyed /\ UNCHANGED <<viewer, events>>
  /\ shown' = [shown EXCEPT !.layout = IF @ = "All" THEN "One" ELSE "All"]
Enter ==
  LET choice == ChoiceAt(IF shown.selected # 0 THEN shown.selected ELSE shown.focus) IN
  /\ Keyed /\ AppendEvent("confirm", choice) /\ shown' = shown
  /\ viewer' = [at |-> "back", outcome |-> IF choice = Nowhere THEN "confirmed" ELSE choice]
Escape ==
  /\ Keyed /\ AppendEvent("dismiss", Nowhere) /\ shown' = shown
  /\ viewer' = [at |-> "back", outcome |-> "dismissed"]

(* switch_back: all that show the view; the session may be gone.           *)
SwitchedBack(c) ==
  IF on[c] = ViewOf /\ view.returnTo # Nowhere THEN view.returnTo ELSE on[c]
SwitchBack ==
  /\ on' = [c \in MockClients |-> SwitchedBack(c)]
  /\ fetchedFrom' = [c \in MockClients |-> IF on'[c] = ViewOf THEN fetchedFrom[c] ELSE Nowhere]

(* run: on_back takes the operator back, then tells the agent               *)
SwitchesBack ==
  /\ viewer.at = "back" /\ SwitchBack /\ viewer' = [viewer EXCEPT !.at = "notify"]
  /\ UNCHANGED <<content, mtime, events, shown, view, busiest, showing, started, runs, mockTurns>>
Notify ==
  /\ viewer.at = "notify" /\ viewer' = [at |-> "loop"]
  /\ UNCHANGED <<content, mtime, events, shown, view, on, busiest, showing, started, runs,
                 fetchedFrom, mockTurns>>

(* An error or a panic ends the viewer after it switched back; its pane     *)
(* stays.                                                                  *)
ViewerFails ==
  /\ viewer.at = "loop" /\ MockTurn
  /\ SwitchBack /\ viewer' = [at |-> "none"] /\ view' = [view EXCEPT !.is = "dead"]
  /\ UNCHANGED <<content, mtime, events, shown, busiest, showing, started, runs>>
ViewerDies ==
  /\ viewer.at # "none" /\ MockTurn
  /\ viewer' = [at |-> "none"] /\ view' = [view EXCEPT !.is = "dead"]
  /\ UNCHANGED <<content, mtime, events, shown, on, busiest, showing, started, runs, fetchedFrom>>

-----------------------------------------------------------------------------
(* The verbs, one at a time *)

(* ensure_view: opened, or its dead viewer started again                     *)
EnsureView ==
  /\ showing = NoShow /\ MockTurn
  /\ view' = IF view.is = "absent" THEN [is |-> "alive", returnTo |-> Nowhere]
             ELSE [view EXCEPT !.is = "alive"]
  /\ IF view.is = "alive" THEN UNCHANGED <<viewer, shown, runs>>
     ELSE viewer' = [at |-> "loop"] /\ shown' = NewViewer /\ runs' = runs + 1
StartMockup ==
  /\ started' = TRUE /\ EnsureView
  /\ UNCHANGED <<content, mtime, events, on, busiest, showing, fetchedFrom>>

(* hosts_of: the sessions whose panes show it, the nearest first           *)
Hosts ==
  LET further(hosts, i) ==
        LET of == IF i = 1 THEN AgentPlace ELSE IF i - 1 \in DOMAIN hosts THEN hosts[i - 1] ELSE Nowhere
        IN hosts \o SetToSeq({h \in Places : <<of, h>> \in HostedIn /\ h # AgentPlace}
                             \ Range(hosts))
  IN FoldLeft(further, <<>>, [i \in 1..Cardinality(Places) |-> i])

(* pick_client: the outermost, of those the busiest; none that views mockups *)
Depth(place) ==
  LET d == SelectInSeq(Hosts, LAMBDA h : h = place) IN
  IF place = AgentPlace THEN 0 ELSE IF d = 0 THEN -1 ELSE d
Picks ==
  LET fits == {c \in MockClients : on[c] # ViewOf /\ Depth(on[c]) >= 0}
      outermost == {c \in fits : \A d \in fits : Depth(on[d]) <= Depth(on[c])}
  IN IF busiest \in outermost THEN {busiest} ELSE outermost

(* show: found and the option set, then switched                            *)
ShowBegins ==
  /\ started /\ EnsureView
  /\ IF \E c \in MockClients : on[c] = ViewOf THEN showing' = showing
     ELSE IF Picks = {} THEN showing' = showing
     ELSE \E c \in Picks : showing' = [client |-> c, from |-> on[c]]
  /\ UNCHANGED <<content, mtime, events, on, busiest, started, fetchedFrom>>
ShowSets ==
  /\ showing # NoShow /\ view.is # "absent" /\ view.returnTo # showing.from
  /\ view' = [view EXCEPT !.returnTo = showing.from]
  /\ UNCHANGED <<content, mtime, events, viewer, shown, on, busiest, showing, started, runs, fetchedFrom, mockTurns>>
ShowSwitches ==
  /\ showing # NoShow /\ view.returnTo = showing.from /\ showing' = NoShow
  /\ on' = [on EXCEPT ![showing.client] = ViewOf]
  /\ fetchedFrom' = [fetchedFrom EXCEPT
       ![showing.client] = IF on[showing.client] = showing.from THEN showing.from ELSE Nowhere]
  /\ UNCHANGED <<content, mtime, events, viewer, shown, view, busiest, started, runs, mockTurns>>

(* stop: back, and closed; tmux moves the clients that are left             *)
StopMockup ==
  /\ view.is # "absent" /\ showing = NoShow /\ MockTurn
  /\ view' = [is |-> "absent", returnTo |-> Nowhere] /\ viewer' = [at |-> "none"]
  /\ \E place \in Places :
       on' = [c \in MockClients |-> IF SwitchedBack(c) = ViewOf THEN place ELSE SwitchedBack(c)]
  /\ fetchedFrom' = [c \in MockClients |-> Nowhere]
  /\ UNCHANGED <<content, mtime, events, shown, busiest, showing, started, runs>>

Writes(files) ==
  /\ content' = files
  /\ UNCHANGED <<events, viewer, shown, view, on, busiest, showing, started, runs, fetchedFrom, mockTurns>>

(* wait: a file of its own; the agent's screens are files of their own too, *)
(* whose text may come in two writes.                                      *)
Write(name, draft, whole) ==
  /\ started /\ \A f \in Range(content) : f.name # name
  /\ draft.waiting => whole
  /\ Writes(Append(content, [name |-> name, at |-> mtime, length |-> IF whole THEN 2 ELSE 1,
                             draft |-> draft, whole |-> whole]))
  /\ mtime' = mtime
Completes(i) ==
  /\ ~content[i].whole
  /\ Writes([content EXCEPT ![i].whole = TRUE, ![i].length = 2, ![i].at = mtime])
  /\ mtime' = mtime
TimePasses == mtime < MaxMtime /\ mtime' = mtime + 1 /\ Writes(content)

ClientMoves(c, place) ==
  /\ MockTurn
  /\ on[c] # place /\ (place = ViewOf => view.is # "absent")
  /\ on' = [on EXCEPT ![c] = place] /\ busiest' = c
  /\ fetchedFrom' = [fetchedFrom EXCEPT ![c] = Nowhere]
  /\ UNCHANGED <<content, mtime, events, viewer, shown, view, showing, started, runs>>

MockInit ==
  /\ content = <<>> /\ mtime = 1 /\ events = <<>>
  /\ viewer = [at |-> "none"] /\ shown = NewViewer
  /\ view = [is |-> "absent", returnTo |-> Nowhere]
  /\ on \in [MockClients -> Places] /\ busiest \in MockClients
  /\ showing = NoShow /\ started = FALSE /\ runs = 0 /\ fetchedFrom = [c \in MockClients |-> Nowhere]
  /\ mockTurns = 0

MockNext ==
  \/ Poll
  \/ ReadScreen
  \/ \E i \in 1..2 : Select(i)
  \/ \E d \in {-1, 1} : MoveFocus(d)
  \/ Toggle
  \/ Enter
  \/ Escape
  \/ SwitchesBack
  \/ Notify
  \/ ViewerFails
  \/ ViewerDies
  \/ StartMockup
  \/ ShowBegins
  \/ ShowSets
  \/ ShowSwitches
  \/ StopMockup
  \/ \E name \in MockFiles, draft \in Drafts, whole \in BOOLEAN : Write(name, draft, whole)
  \/ \E i \in DOMAIN content : Completes(i)
  \/ TimePasses
  \/ \E c \in MockClients, place \in Places \cup {ViewOf} : ClientMoves(c, place)

MockSpec == MockInit /\ [][MockNext]_mockVars

-----------------------------------------------------------------------------
(* Once the viewer has seen the newest file as it is, it shows that file,  *)
(* or says that it cannot be read (Viewer::poll).                          *)
ShowsTheNewest ==
  (viewer = [at |-> "loop"] /\ content # <<>> /\ shown.current = SourceOf(Newest)) =>
    /\ shown.waiting = (Newest.draft.waiting)
    /\ ~shown.waiting =>
         IF shown.error THEN ~(Newest.whole /\ Converts(Newest.draft))
         ELSE shown.screen = [of |-> Newest.name, options |-> OptionsOf(Newest.draft)]

(* The viewer shows the newest screen. What lies in events is of the file  *)
(* that is current, or from before the viewer was started anew; what the     *)
(* agent is about to be told is its last line; and a client that show has  *)
(* fetched goes back where it came from (poll, append_event, switch_back). *)
MockupHolds ==
  /\ ShowsTheNewest
  /\ \A e \in Range(events) : e.run = runs => e.screen \in {shown.current.name, Nowhere}
  /\ viewer.at \in {"back", "notify"} =>
       /\ events # <<>> /\ Last(events).screen = shown.current.name
       /\ Last(events).choice \in {Nowhere, viewer.outcome}
       /\ Last(events).choice = Nowhere => viewer.outcome \in {"confirmed", "dismissed"}
  /\ \A c \in MockClients :
       (on[c] = ViewOf /\ fetchedFrom[c] # Nowhere) => view.returnTo = fetchedFrom[c]
=============================================================================
