------------------------------- MODULE Panes -------------------------------
(***************************************************************************)
(* The IDE's tmux server as its clients' verbs see it (tx-client tmux.rs,  *)
(* artifacts tmux.rs): sessions, panes that show other sessions through a  *)
(* nested client, terminals, and the commands that find, focus, re-host    *)
(* and pop up. Panes are numbered by host, window and index.               *)
(*                                                                         *)
(* In it, prefix+a (artifacts menu.rs, picker.rs): in a view the key goes  *)
(* back to the controlling session; in an agent's it opens a list in a     *)
(* popup, and what is picked is shown by a background process, by names    *)
(* and clients noted when the key was pressed.                             *)
(*                                                                         *)
(* And `tx pick` (plugins/picker): an fzf over the running sessions that   *)
(* its binds reload every second, with two files the binds share: the arm  *)
(* of the two-press kill and popup mode's mark. fzf itself is external: it *)
(* keeps the row under the cursor over a reload when it is still there,    *)
(* and its focus event comes with every other row that gets under it.      *)
(***************************************************************************)
EXTENDS Naturals, FiniteSets, FiniteSetsExt, Sequences, SequencesExt

CONSTANTS
  Rooms,       \* names of sessions
  HostingRooms,\* views whose panes host nested clients: home, tutor
  TermPanes,   \* numbers of panes that may run a shell, a program or a client
  RoomOf,      \* RoomOf[pane]: the session it is of
  Screens,     \* terminals
  NoRoom,
  StartShows,  \* StartShows[p]: what the pane shows at first
  StartScreens,\* StartScreens[t]: what the terminal shows at first
  StartRooms,  \* the sessions there at first
  MaxWorldTurns, MaxIds \* bounds: turns of users and agents; sessions begun

VARIABLES
  uid,      \* uid[name]: which session has the name now, 0 for none
  pane,     \* pane[p]: [runs: none, shell, program or client; shows: a session or NoRoom]
  screen,   \* screen[t]: the session the terminal shows, or NoRoom
  front,    \* front[name]: its selected pane, 0 when it is none of TermPanes
  dressed,  \* sessions that have the popup's status line
  popped,   \* sessions a popup shows, with the terminal it is over
  begun, worldTurns

worldVars == <<uid, pane, screen, front, dressed, popped, begun, worldTurns>>
worldBounds == <<begun, worldTurns>>

Shell == [runs |-> "shell", shows |-> NoRoom]
NoPane == [runs |-> "none", shows |-> NoRoom]
LiveRoom(name) == uid[name] > 0

(* a client is a terminal's or a pane's; its session                        *)
Shows(c) == IF c \in Screens THEN screen[c] ELSE pane[c].shows
Watching == {c \in Screens \cup TermPanes : Shows(c) # NoRoom}

(* attached_to: the panes of other sessions that show it                    *)
AttachedTo(name) == {p \in TermPanes : pane[p].shows = name /\ RoomOf[p] # name}

(* pane_for_session: one of a preferred host, else the first; 0 for none    *)
PaneFor(name, prefer) ==
  LET near == {p \in AttachedTo(name) : RoomOf[p] \in prefer}
  IN IF AttachedTo(name) = {} THEN 0 ELSE Min(IF near # {} THEN near ELSE AttachedTo(name))

(* outer_client: from a pane's client to a client of the pane's session, and *)
(* on; which one of several is the most active is left open                 *)
Outward(c) == IF c \in Screens THEN {} ELSE {d \in Watching : Shows(d) = RoomOf[c]}
OuterOf(c) ==
  LET reach[k \in 0..Cardinality(TermPanes)] ==
        IF k = 0 THEN {c} \cap Watching
        ELSE LET near == reach[k-1] IN near \cup UNION {Outward(d) : d \in near}
  IN reach[Cardinality(TermPanes)] \cap Screens

HostsNested(name) == name \in HostingRooms /\ LiveRoom(name)

-----------------------------------------------------------------------------
(* Commands: what they do to panes, screens and fronts *)

(* respawn-pane -k with an attach: one that finds no session falls to $SHELL *)
Nested(p, name, found) == [pane EXCEPT ![p] = IF found THEN [runs |-> "client", shows |-> name] ELSE Shell]
RespawnAttached(p, name, found) == pane' = Nested(p, name, found)

(* focus_hosting_pane: in the outer client's own session the pane is        *)
(* selected; a plain session is switched to; another hosting view is not    *)
FocusReaches(outer, p) == RoomOf[p] = screen[outer] \/ ~HostsNested(RoomOf[p])

(* Mutant: the pane is selected and the terminal stays where it is. *)
FocusSelects(outer, p) == front' = [front EXCEPT ![RoomOf[p]] = p] /\ UNCHANGED screen

(* The terminal comes to the pane that shows it. *)
Focus(outer, p) ==
  /\ front' = [front EXCEPT ![RoomOf[p]] = p]
  /\ screen' = [screen EXCEPT ![outer] = RoomOf[p]]
CanFocus(outer, name) ==
  LET p == PaneFor(name, {screen[outer]}) IN p # 0 /\ FocusReaches(outer, p)

(* popup_attach: the status line is set, the popup blocks, the line is unset *)
PopsUp(t, name) ==
  /\ LiveRoom(name)
  /\ dressed' = dressed \cup {name} /\ popped' = popped \cup {<<name, t>>}

(* Mutant: the status line stays when the popup is closed. *)
PopupStaysDressed(name, t) ==
  /\ <<name, t>> \in popped /\ popped' = popped \ {<<name, t>>}
  /\ UNCHANGED <<uid, pane, screen, front, dressed, worldBounds>>

(* The popup is closed by its user, or by what it shows. *)
PopupCloses(name, t) ==
  /\ <<name, t>> \in popped
  /\ popped' = popped \ {<<name, t>>} /\ dressed' = dressed \ {name}
  /\ UNCHANGED <<uid, pane, screen, front, worldBounds>>

-----------------------------------------------------------------------------
(* Users and agents *)

(* the clients that show it fall back, its own panes go with what they show  *)
RoomGoes(name) ==
  /\ uid' = [uid EXCEPT ![name] = 0]
  /\ pane' = [p \in TermPanes |-> IF RoomOf[p] = name THEN NoPane
                                  ELSE IF pane[p].shows = name THEN Shell ELSE pane[p]]
  /\ screen' = [t \in Screens |-> IF screen[t] = name THEN NoRoom ELSE screen[t]]
  /\ front' = [front EXCEPT ![name] = 0]
  /\ dressed' = dressed \ {name} /\ popped' = {x \in popped : x[1] # name}

RoomComes(name) ==
  /\ ~LiveRoom(name) /\ begun < MaxIds /\ begun' = begun + 1
  /\ uid' = [uid EXCEPT ![name] = begun + 1]
  /\ pane' = [p \in TermPanes |-> IF RoomOf[p] = name THEN Shell ELSE pane[p]]
  /\ front' = [front EXCEPT ![name] = IF \E p \in TermPanes : RoomOf[p] = name
                                      THEN Min({p \in TermPanes : RoomOf[p] = name}) ELSE 0]

WorldTurn == worldTurns < MaxWorldTurns /\ worldTurns' = worldTurns + 1

EndRoom(name) ==
  /\ LiveRoom(name) /\ name \notin HostingRooms /\ WorldTurn /\ RoomGoes(name)
  /\ UNCHANGED begun
BeginRoom(name) ==
  /\ WorldTurn /\ RoomComes(name)
  /\ UNCHANGED <<screen, dressed, popped>>
(* a terminal attaches; a shell runs a program, or attaches what hosts none  *)
AttachScreen(t, name) ==
  /\ screen[t] = NoRoom /\ LiveRoom(name) /\ WorldTurn
  /\ screen' = [screen EXCEPT ![t] = name]
  /\ UNCHANGED <<uid, pane, front, dressed, popped, begun>>
UseShell(p, name) ==
  /\ pane[p] = Shell /\ LiveRoom(name) /\ name \notin HostingRooms \cup {RoomOf[p]} /\ WorldTurn
  /\ pane' \in {[pane EXCEPT ![p].runs = "program"], Nested(p, name, TRUE)}
  /\ UNCHANGED <<uid, screen, front, dressed, popped, begun>>

WorldInit ==
  /\ uid = [name \in Rooms |-> IF name \in StartRooms THEN 1 ELSE 0]
  /\ pane = [p \in TermPanes |-> IF StartShows[p] = NoRoom THEN Shell ELSE [runs |-> "client", shows |-> StartShows[p]]]
  /\ screen = StartScreens
  /\ front = [name \in Rooms |-> IF \E p \in TermPanes : RoomOf[p] = name
                                 THEN Min({p \in TermPanes : RoomOf[p] = name}) ELSE 0]
  /\ dressed = {} /\ popped = {} /\ begun = 1 /\ worldTurns = 0

WorldNext ==
  \/ \E name \in Rooms : EndRoom(name) \/ BeginRoom(name)
  \/ \E t \in Screens, name \in Rooms : AttachScreen(t, name) \/ PopupCloses(name, t)
  \/ \E p \in TermPanes, name \in Rooms : UseShell(p, name)

-----------------------------------------------------------------------------
(* Through any number of nested clients no session is shown inside itself   *)
(* (the picker and prefix+a never nest a view that hosts).                  *)
ShownIn(name) == {pane[p].shows : p \in {q \in TermPanes : RoomOf[q] = name}} \ {NoRoom}
Inside(name) ==
  LET within[k \in 0..Cardinality(TermPanes)] ==
        IF k = 0 THEN ShownIn(name)
        ELSE LET near == within[k-1] IN near \cup UNION {ShownIn(n) : n \in near}
  IN within[Cardinality(TermPanes)]
NoLoops == \A name \in Rooms : name \notin Inside(name)

-----------------------------------------------------------------------------
(* prefix+a *)

CONSTANTS
  Keyed,        \* prefix+a key presses under way
  MenuAgents,   \* agents' names
  MenuParent,   \* MenuParent[name]: the agent or view's parent, or NoRoom
  Papers,       \* artifacts
  PaperView,    \* PaperView[x]: the view bound to it, while it is open
  Touchers,     \* Touchers[x]: the agents and "user" of its history, creator first
  MaxMenuKeys   \* bound: presses of prefix+a and keys of its list

VARIABLES
  menu,      \* menu[i]: the press and what became of it
  menuKeys,
  astray     \* a pick came out at another session than the one picked (history)

menuVars == <<menu, menuKeys, astray>>

NoMenu == [at |-> "idle", room |-> NoRoom, id |-> 0, client |-> 0, targets |-> <<>>, cursor |-> 0,
           op |-> "attach", notice |-> FALSE, target |-> NoRoom, name |-> NoRoom]
MenuAt(i, place) == menu[i].at = place
MenuOver(i) == menu' = [menu EXCEPT ![i] = NoMenu]
MenuKey == menuKeys < MaxMenuKeys /\ menuKeys' = menuKeys + 1
Bound == {PaperView[x] : x \in Papers}
MenuViews == Rooms \ (MenuAgents \cup HostingRooms)
Live(a) == a \in MenuAgents /\ LiveRoom(a)

-----------------------------------------------------------------------------
(* sections: artifacts, the parent, child agents, child views of no artifact *)
Target(kind, name) == [kind |-> kind, name |-> name, id |-> IF kind = "artifact" THEN 0 ELSE uid[name]]
Sections(a) ==
  LET papers == SetToSeq({x \in Papers : a \in Range(Touchers[x])})
      parent == IF Live(MenuParent[a]) THEN <<MenuParent[a]>> ELSE <<>>
      agents == SetToSeq({b \in MenuAgents : Live(b) /\ MenuParent[b] = a})
      views == SetToSeq({v \in MenuViews \ Bound : LiveRoom(v) /\ MenuParent[v] = a})
  IN [i \in DOMAIN papers |-> Target("artifact", papers[i])]
     \o [i \in DOMAIN parent |-> Target("session", parent[i])]
     \o [i \in DOMAIN agents |-> Target("session", agents[i])]
     \o [i \in DOMAIN views |-> Target("view", views[i])]

(* controlling_session: the last running toucher, else the creator          *)
Controlling(x) ==
  LET touches == Touchers[x]
      running == {k \in DOMAIN touches : Live(touches[k])}
  IN IF running # {} THEN touches[Max(running)]
     ELSE IF touches[1] = "user" THEN NoRoom ELSE touches[1]
BackFrom(v) ==
  IF v \in Bound
  THEN LET own == Controlling(CHOOSE x \in Papers : PaperView[x] = v)
       IN IF own = NoRoom THEN MenuParent[v] ELSE own
  ELSE MenuParent[v]

-----------------------------------------------------------------------------
(* rehost: the pane whose tty the client has, unless the key was pressed in  *)
(* the target itself                                                        *)
HostedIn(client) == client \in TermPanes /\ pane[client].runs # "none"
Rehost(room, client, name) ==
  IF room # name /\ HostedIn(client) THEN RespawnAttached(client, name, LiveRoom(name)) ELSE UNCHANGED pane

(* a focus that succeeds has the terminal at a selected pane that shows it   *)
Arrives(outer, name) ==
  \E p \in TermPanes : screen'[outer] = RoomOf[p] /\ front'[RoomOf[p]] = p /\ pane[p].shows = name
FocusOr(client, name, otherwise) ==
  IF \E outer \in OuterOf(client) : CanFocus(outer, name)
  THEN \E outer \in OuterOf(client) :
         /\ CanFocus(outer, name) /\ Focus(outer, PaneFor(name, {screen[outer]}))
         /\ astray' = (astray \/ ~Arrives(outer, name))
         /\ UNCHANGED pane
  ELSE otherwise /\ UNCHANGED <<front, screen, astray>>

(* the key lands in the innermost session: panes that show one pass it on    *)
Innermost(name) == front[name] # 0 => pane[front[name]].runs # "client"
GoBack(i, c) ==
  LET room == Shows(c)
      back == BackFrom(room)
  IN /\ MenuAt(i, "idle") /\ c \in Watching /\ room \in MenuViews /\ Innermost(room) /\ MenuKey
     /\ IF back = NoRoom \/ ~Live(back) THEN UNCHANGED <<front, screen, pane, astray>>
        ELSE FocusOr(c, back, Rehost(room, c, back))
     /\ UNCHANGED <<menu, uid, dressed, popped, worldBounds>>

OpenMenu(i, c) ==
  LET room == Shows(c)
  IN /\ MenuAt(i, "idle") /\ c \in Watching /\ Live(room) /\ Innermost(room) /\ MenuKey
     /\ menu' = [menu EXCEPT ![i] = [NoMenu EXCEPT !.at = "pick", !.room = room, !.id = uid[room],
                                       !.client = c, !.targets = Sections(room),
                                       !.cursor = IF Sections(room) = <<>> THEN 0 ELSE 1]]
     /\ UNCHANGED <<worldVars, astray>>

-----------------------------------------------------------------------------
(* The list in the popup *)
MenuRows(i) == Len(menu[i].targets)
PaperNamed(target) == IF target.kind = "artifact" THEN PaperView[target.name] ELSE target.name
ShownAlready(target) == LiveRoom(PaperNamed(target))
(* a focus on what no pane shows is declined, back in attach mode           *)
Declined(i, k) ==
  menu[i].op = "focus" /\ (~ShownAlready(menu[i].targets[k]) \/ PaneFor(PaperNamed(menu[i].targets[k]), {}) = 0)
PickRow(i, k) ==
  /\ k \in 1..MenuRows(i)
  /\ menu' = [menu EXCEPT ![i] = IF Declined(i, k) THEN [@ EXCEPT !.op = "attach", !.notice = TRUE]
                                 ELSE [@ EXCEPT !.at = "go", !.target = menu[i].targets[k]]]
MenuKeyed(i) ==
  /\ MenuAt(i, "pick") /\ MenuKey
  /\ LET m == menu[i]
         becomes(n) == menu' = [menu EXCEPT ![i] = [n EXCEPT !.notice = FALSE]]
     IN \/ becomes([m EXCEPT !.cursor = IF @ < MenuRows(i) THEN @ + 1 ELSE @])
        \/ becomes([m EXCEPT !.cursor = IF @ > 1 THEN @ - 1 ELSE @])
        \/ \E op \in {"focus", "popup"} : becomes([m EXCEPT !.op = op])
        \/ IF m.op # "attach" THEN becomes([m EXCEPT !.op = "attach"]) ELSE MenuOver(i)
        \/ IF MenuRows(i) = 0 THEN MenuOver(i) ELSE PickRow(i, m.cursor)
        \/ \E k \in 1..MenuRows(i) : PickRow(i, k)
  /\ UNCHANGED <<worldVars, astray>>
(* the popup goes with its client                                           *)
MenuGone(i) ==
  /\ MenuAt(i, "pick") /\ menu[i].client \notin Watching
  /\ MenuOver(i) /\ UNCHANGED <<worldVars, menuKeys, astray>>

-----------------------------------------------------------------------------
(* _artifact-go *)
GoTo(i, name) == menu' = [menu EXCEPT ![i].at = "show", ![i].name = name]
(* the session is found by name, the artifact's view or a new one is shown  *)
Go(i) ==
  /\ MenuAt(i, "go")
  /\ LET m == menu[i]
         view == PaperNamed(m.target)
     IN CASE m.target.kind = "session" ->
               /\ IF uid[m.target.name] = m.target.id THEN GoTo(i, m.target.name) ELSE MenuOver(i)
               /\ UNCHANGED worldVars
          [] m.target.kind = "view" ->
               /\ IF LiveRoom(m.target.name) THEN GoTo(i, m.target.name) ELSE MenuOver(i)
               /\ UNCHANGED worldVars
          [] m.target.kind = "artifact" /\ (~Live(m.room) \/ LiveRoom(view)) ->
               /\ IF Live(m.room) THEN GoTo(i, view) ELSE MenuOver(i)
               /\ UNCHANGED worldVars
          [] OTHER ->
               /\ RoomComes(view) /\ GoTo(i, view)
               /\ UNCHANGED <<screen, dressed, popped, worldTurns>>
  /\ UNCHANGED <<menuKeys, astray>>

Show(i) ==
  /\ MenuAt(i, "show") /\ MenuOver(i)
  /\ LET m == menu[i]
     IN CASE m.op = "focus" ->
               FocusOr(m.client, m.name, UNCHANGED pane) /\ UNCHANGED <<uid, dressed, popped>>
          [] m.op = "popup" ->
               /\ IF OuterOf(m.client) # {} /\ LiveRoom(m.name)
                  THEN \E outer \in OuterOf(m.client) : PopsUp(outer, m.name)
                  ELSE UNCHANGED <<dressed, popped>>
               /\ UNCHANGED <<uid, pane, front, screen, astray>>
          [] m.op = "attach" ->
               /\ Rehost(m.room, m.client, m.name)
               /\ astray' = (astray \/ (pane' # pane /\ pane'[m.client].shows \notin {NoRoom, PaperNamed(m.target)}))
               /\ UNCHANGED <<uid, front, screen, dressed, popped>>
  /\ UNCHANGED <<worldBounds, menuKeys>>

MenuInit == menu = [i \in Keyed |-> NoMenu] /\ menuKeys = 0 /\ astray = FALSE

MenuNext ==
  \/ \E i \in Keyed, c \in Screens \cup TermPanes : GoBack(i, c) \/ OpenMenu(i, c)
  \/ \E i \in Keyed : MenuKeyed(i) \/ MenuGone(i) \/ Go(i) \/ Show(i)

-----------------------------------------------------------------------------
(* The picker *)

CONSTANTS
  RoleOf,         \* RoleOf[name]: the role the picker files a session under
  Unlisted,       \* sessions the picker never lists: the home base, those that are not tx's
  MaxPickerKeys, MaxReloads   \* bounds: keys; reloads that find other rows

VARIABLES
  picker,      \* picker[t]: the picker over the terminal t
  hidden,      \* the roles the TAB panel hides: the file every picker reads
  unasked,     \* a kill met another session than the one asked about (history)
  strayPick,   \* a pick came out at another session than the row's (history)
  pickerKeys, reloads

pickerVars == <<picker, hidden, unasked, strayPick, pickerKeys, reloads>>

NoPicker == [at |-> "idle", rows |-> <<>>, cur |-> 0, search |-> FALSE, mark |-> FALSE, arm |-> NoRoom,
             footer |-> "normal", asks |-> FALSE, popup |-> FALSE, jump |-> FALSE, kept |-> FALSE, inside |-> TRUE,
             row |-> [name |-> NoRoom, id |-> 0]]
PickerAt(t, place) == picker[t].at = place
PickerOver(t) == picker' = [picker EXCEPT ![t] = NoPicker]
PickerKey == pickerKeys < MaxPickerKeys /\ pickerKeys' = pickerKeys + 1
Row(name, ids) == [name |-> name, id |-> ids[name]]
NameAt(k) == IF k.cur = 0 THEN NoRoom ELSE k.rows[k.cur].name

(* gather: what runs, less the home base and the hidden roles               *)
RowOrder == SetToSeq(Rooms \ Unlisted)
Feed(off, ids) ==
  LET listed == SelectSeq(RowOrder, LAMBDA name : ids[name] > 0 /\ RoleOf[name] \notin off)
  IN [i \in DOMAIN listed |-> Row(listed[i], ids)]

(* Mutant: an arm outlives the row it was set on. *)
FocusedKeepsArm(k) == [k EXCEPT !.asks = FALSE]

(* the focus event: the arm is emptied, the header names the row            *)
Focused(k) == [k EXCEPT !.arm = NoRoom, !.asks = FALSE]
Loaded(k, rows) ==
  {[IF cur > 0 /\ k.cur > 0 /\ rows[cur].name = NameAt(k) THEN k ELSE Focused(k)
      EXCEPT !.rows = rows, !.cur = cur] :
     cur \in IF rows = <<>> THEN {0}
             ELSE LET same == {i \in DOMAIN rows : rows[i].name = NameAt(k)}
                  IN IF same # {} THEN same ELSE DOMAIN rows}
(* fzf starts anew: the files are the ones the picker made at its start     *)
StartFzf(k) == Loaded([k EXCEPT !.at = "fzf", !.cur = 0, !.rows = <<>>, !.search = FALSE,
                                !.footer = "normal", !.popup = FALSE], Feed(hidden, uid))
Becomes(t, ks) == \E k \in ks : picker' = [picker EXCEPT ![t] = k]
Quiet == UNCHANGED <<worldVars, unasked, strayPick, reloads>>

OpenPicker(t, jump) ==
  /\ PickerAt(t, "idle") /\ PickerKey
  /\ Becomes(t, StartFzf([NoPicker EXCEPT !.jump = jump, !.inside = (screen[t] # NoRoom)]))
  /\ UNCHANGED hidden /\ Quiet

-----------------------------------------------------------------------------
(* Binds *)

(* each second unless the mark is set                                       *)
Reload(t) ==
  /\ PickerAt(t, "fzf") /\ ~picker[t].mark
  /\ Feed(hidden, uid) # picker[t].rows /\ reloads < MaxReloads /\ reloads' = reloads + 1
  /\ Becomes(t, Loaded(picker[t], Feed(hidden, uid)))
  /\ UNCHANGED <<worldVars, hidden, unasked, strayPick, pickerKeys>>

Normal(t) == PickerAt(t, "fzf") /\ ~picker[t].search
Bind(t, k) == PickerKey /\ picker' = [picker EXCEPT ![t] = k] /\ UNCHANGED hidden /\ Quiet
MoveTo(t, cur) ==
  /\ Normal(t) /\ cur \in DOMAIN picker[t].rows \ {picker[t].cur}
  /\ Bind(t, [Focused(picker[t]) EXCEPT !.cur = cur])
Arm(t) == Normal(t) /\ Bind(t, [picker[t] EXCEPT !.arm = NameAt(picker[t]), !.asks = TRUE])
Disarm(t) == Normal(t) /\ Bind(t, Focused(picker[t]))
EnterSearch(t) ==
  Normal(t) /\ Bind(t, [Focused(picker[t]) EXCEPT !.search = TRUE, !.mark = FALSE, !.footer = "search"])
Popup(t) == Normal(t) /\ Bind(t, [picker[t] EXCEPT !.mark = TRUE, !.footer = "popup", !.kept = FALSE])

(* y: the arm is checked, the row under the cursor killed, the arm emptied   *)
Yes(t) ==
  LET k == picker[t]
      name == NameAt(k)
      kills == k.arm # NoRoom /\ name # NoRoom /\ LiveRoom(name)
  IN /\ Normal(t) /\ PickerKey
     /\ IF kills THEN RoomGoes(name) ELSE UNCHANGED <<uid, pane, screen, front, dressed, popped>>
     /\ unasked' = (unasked \/ (kills /\ name # k.arm))
     /\ Becomes(t, Loaded(Focused(k), Feed(hidden, uid')))
     /\ UNCHANGED <<hidden, worldBounds, strayPick, reloads>>

(* the TAB panel: a role toggled, or all; the list anew, the arm as it was   *)
Toggled(role) == IF role = "all" THEN IF hidden = {} THEN Range(RoleOf) ELSE {}
                 ELSE (hidden \ {role}) \cup ({role} \ hidden)
Panel(t, role) ==
  /\ PickerAt(t, "fzf") /\ PickerKey
  /\ hidden' = Toggled(role)
  /\ Becomes(t, {[k EXCEPT !.asks = FALSE] : k \in Loaded(picker[t], Feed(hidden', uid))})
  /\ Quiet

(* _picker-key: esc leaves search, then popup mode, then the picker          *)
Esc(t) ==
  LET k == picker[t]
      back == [k EXCEPT !.search = FALSE, !.mark = FALSE, !.footer = "normal", !.kept = FALSE]
  IN /\ PickerAt(t, "fzf")
     /\ Bind(t, IF k.search \/ k.mark THEN back ELSE NoPicker)
Accepted(t, popup) ==
  LET k == picker[t]
  IN IF k.cur = 0 THEN NoPicker ELSE [k EXCEPT !.at = "chosen", !.popup = popup, !.row = k.rows[k.cur]]
Enter(t) == PickerAt(t, "fzf") /\ Bind(t, [Accepted(t, picker[t].mark) EXCEPT !.mark = FALSE, !.kept = FALSE])
(* alt-p does not go through _picker-key: a mark that is set stays           *)
AltP(t) == PickerAt(t, "fzf") /\ Bind(t, [Accepted(t, TRUE) EXCEPT !.kept = @ \/ Accepted(t, TRUE).mark])

PickerGone(t) ==
  /\ ~PickerAt(t, "idle") /\ picker[t].inside /\ screen[t] = NoRoom /\ PickerOver(t)
  /\ UNCHANGED <<worldVars, hidden, unasked, strayPick, pickerKeys, reloads>>

-----------------------------------------------------------------------------
(* What is done with the row fzf printed *)

(* The pane that has the terminal's keys. *)
PaneHere(t) == front[screen[t]]

(* open_mode: a shell or a client of a hosting view gives way to a nested    *)
(* client, never to a view that hosts itself                                *)
OpenMode(t, name) ==
  IF screen[t] = NoRoom THEN "attach"
  ELSE IF HostsNested(screen[t]) /\ ~HostsNested(name) /\ PaneHere(t) # 0
          /\ pane[PaneHere(t)].runs \in {"shell", "client"}
       THEN "nest" ELSE "switch"

(* a row's session id names that session alone, its name whoever has it now  *)
OpenHere(t, row) ==
  CASE OpenMode(t, row.name) = "nest" ->
         RespawnAttached(PaneHere(t), row.name, uid[row.name] = row.id) /\ UNCHANGED <<screen, front>>
    [] OpenMode(t, row.name) = "switch" ->
         screen' = [screen EXCEPT ![t] = row.name] /\ UNCHANGED <<pane, front>>
    [] OpenMode(t, row.name) = "attach" ->
         screen' = [screen EXCEPT ![t] = IF uid[row.name] = row.id THEN row.name ELSE NoRoom]
         /\ UNCHANGED <<pane, front>>

(* jump: the pane of this very session that shows it, before anything else   *)
JumpHere(t, row) ==
  LET near == PaneFor(row.name, {screen[t]})
  IN IF screen[t] = row.name THEN UNCHANGED <<pane, screen, front>>
     ELSE IF near # 0 /\ RoomOf[near] = screen[t]
          THEN front' = [front EXCEPT ![RoomOf[near]] = near] /\ UNCHANGED <<pane, screen>>
          ELSE OpenHere(t, row)

InView(t, name, panes, fronts, screens) ==
  \/ screens[t] = name
  \/ screens[t] # NoRoom /\ fronts[screens[t]] # 0 /\ panes[fronts[screens[t]]].shows = name
ChooseRow(t) ==
  LET k == picker[t]
  IN /\ PickerAt(t, "chosen") /\ ~k.popup /\ LiveRoom(k.row.name) /\ PickerOver(t)
     /\ IF k.jump THEN JumpHere(t, k.row) ELSE OpenHere(t, k.row)
     /\ strayPick' = (strayPick \/ (uid[k.row.name] = k.row.id /\ ~InView(t, k.row.name, pane', front', screen')))
     /\ UNCHANGED <<uid, dressed, popped, worldBounds, hidden, unasked, pickerKeys, reloads>>
(* alt-p and popup mode, by a background process once fzf's popup has gone    *)
ChoosePopup(t) ==
  LET k == picker[t]
  IN /\ PickerAt(t, "chosen") /\ k.popup /\ screen[t] # NoRoom /\ PickerOver(t)
     /\ PopsUp(t, k.row.name)
     /\ UNCHANGED <<uid, pane, screen, front, worldBounds, hidden, unasked, strayPick, pickerKeys, reloads>>
(* a session that is gone, a popup outside tmux: the list again              *)
Again(t) ==
  /\ PickerAt(t, "chosen") /\ (~LiveRoom(picker[t].row.name) \/ (picker[t].popup /\ screen[t] = NoRoom))
  /\ Becomes(t, StartFzf(picker[t]))
  /\ UNCHANGED <<worldVars, hidden, unasked, strayPick, pickerKeys, reloads>>

PickerInit ==
  /\ picker = [t \in Screens |-> NoPicker] /\ hidden = {}
  /\ unasked = FALSE /\ strayPick = FALSE /\ pickerKeys = 0 /\ reloads = 0

PickerNext ==
  \E t \in Screens :
    \/ \E jump \in BOOLEAN : OpenPicker(t, jump)
    \/ Reload(t) \/ Arm(t) \/ Disarm(t) \/ EnterSearch(t) \/ Popup(t) \/ Yes(t) \/ Esc(t)
    \/ Enter(t) \/ AltP(t) \/ PickerGone(t) \/ ChooseRow(t) \/ ChoosePopup(t) \/ Again(t)
    \/ \E cur \in 1..Cardinality(Rooms) : MoveTo(t, cur)
    \/ \E role \in Range(RoleOf) \cup {"all"} : Panel(t, role)

-----------------------------------------------------------------------------
(* However rows, sessions, panes and files change between two keys of a      *)
(* picker and between its choice and what is done with it: a session is      *)
(* killed only by name of the row that was asked about, and a session that   *)
(* was chosen and still is that session comes into view; the arm is the row  *)
(* under the cursor; the footer says the mode Enter acts in, but after a     *)
(* failed alt-p in popup mode; and the popup's status line goes with it.     *)
PickerHolds ==
  /\ ~unasked /\ ~strayPick
  /\ dressed \subseteq {x[1] : x \in popped}
  /\ \A t \in Screens : LET k == picker[t] IN
       /\ k.arm # NoRoom => k.arm = NameAt(k)
       /\ k.at = "fzf" /\ ~k.search /\ ~k.kept => (k.mark <=> k.footer = "popup")
=============================================================================
