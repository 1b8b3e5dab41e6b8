--------------------------- MODULE TimelineScreen ---------------------------
(***************************************************************************)
(* The timeline's TUI (plugins/timeline app.rs, run.rs, ui.rs): what part  *)
(* of the payload it shows, its cursor and selected message, under keys,   *)
(* the mouse, resizes and the payloads of its tick, while agents and       *)
(* their transcripts go on.  A column is a number of minutes.              *)
(***************************************************************************)
EXTENDS Timeline

CONSTANTS
  StartsAt,      \* the time of the first draw
  FirstScenes,   \* the records and files at the first draw
  NextScenes(_),  \* the scenes a scene may become
  Window,        \* --last
  ZoomLevels,    \* ZOOM_LEVELS
  FineTierMax,
  Canvases,      \* [width, height]: columns of the canvas, rows of lanes
  MaxScreenKeys, MaxScenes    \* bounds: keys and clicks, changes

ASSUME ScreenAssumption ==
  /\ StartsAt \in Int /\ DayLength \in Int /\ Window \in Nat
  /\ ZoomLevels \in Seq(Nat \ {0}) /\ ZoomLevels # <<>>
  /\ Canvases \subseteq [width : 1..Window, height : Nat]

VARIABLES
  scene,         \* [everyone, transcripts]: records and files as they are
  clock,
  app,           \* App
  resized,       \* the terminal has another size, and no resize was handled yet
  screenKeys, scenes

screenVars == <<scene, clock, app, resized, screenKeys, scenes>>

Payload(s, t) == Build(s.everyone, s.transcripts, t)

-----------------------------------------------------------------------------
(* The canvas *)

Fitted(x) == Window \div x.canvas.width
MinutesPerColumn(x) == IF x.custom THEN Smaller(ZoomLevels[x.zoom], Fitted(x)) ELSE Fitted(x)
Span(x) == x.canvas.width * MinutesPerColumn(x)
Right(x) == x.left + Span(x)
ObservationStart(x) == x.now - Window
Observes(x, m) == ObservationStart(x) <= m /\ m <= x.now
ColumnOf(x, m) ==
  LET c == (m - x.left) \div MinutesPerColumn(x) IN
  IF m <= Right(x) THEN Smaller(c, x.canvas.width - 1) ELSE c
OnCanvas(x, column) == 0 <= column /\ column < x.canvas.width
MinuteAt(x, column) == x.left + column * MinutesPerColumn(x)

JumpToNow(x) == [x EXCEPT !.left = x.now - Span(x), !.follow = TRUE]

FitInitial(x) ==
  LET fits == {z \in DOMAIN ZoomLevels : ZoomLevels[z] * x.canvas.width >= Window} IN
  JumpToNow([x EXCEPT !.custom = FALSE,
                      !.zoom = IF fits = {} THEN Len(ZoomLevels) ELSE FirstIn(fits)])

(* Mutant: once following, always following. *)
PanFollows(x, minutes) ==
  LET latest == x.now - Span(x)
      left == Greater(x.left + minutes, Smaller(ObservationStart(x), latest))
  IN IF left >= latest THEN [x EXCEPT !.left = latest, !.follow = TRUE]
     ELSE [x EXCEPT !.left = left]
Pan(x, minutes) ==
  LET latest == x.now - Span(x)
      left == Greater(x.left + minutes, Smaller(ObservationStart(x), latest))
  IN IF left >= latest THEN [x EXCEPT !.left = latest, !.follow = TRUE]
     ELSE [x EXCEPT !.left = left, !.follow = FALSE]

ZoomTo(x, zoom, minute, column) ==
  LET y == [x EXCEPT !.zoom = zoom] IN
  IF ZoomLevels[zoom] * x.canvas.width >= Window THEN FitInitial(y)
  ELSE LET z == [y EXCEPT !.custom = TRUE]
       IN Pan([z EXCEPT !.left = minute - column * MinutesPerColumn(z)], 0)

Clamp(low, high, n) == Greater(low, Smaller(high, n))
ZoomClamped(x, delta) == Clamp(1, Len(ZoomLevels), x.zoom + delta)
ZoomBy(x, delta) ==
  LET zoom == ZoomClamped(x, delta)
      middle == x.canvas.width \div 2
      at == IF x.message = 0 THEN 0 ELSE x.payload.edges[x.message].at
  IN CASE zoom = x.zoom -> x
       [] zoom # x.zoom /\ x.message # 0 /\ OnCanvas(x, ColumnOf(x, at)) ->
            ZoomTo(x, zoom, at, ColumnOf(x, at))
       [] OTHER -> ZoomTo(x, zoom, MinuteAt(x, middle), middle)

EnsureMinuteVisible(x, minute) ==
  IF OnCanvas(x, ColumnOf(x, minute)) THEN x
  ELSE Pan(x, minute - MinuteAt(x, x.canvas.width \div 2))

-----------------------------------------------------------------------------
(* Rows *)

ShownSpans(x, lane) == IF MinutesPerColumn(x) <= FineTierMax THEN lane.work ELSE lane.segs
LaneDim(x, lane) ==
  ~ \E i \in DOMAIN ShownSpans(x, lane) :
      ShownSpans(x, lane)[i][2] >= x.left /\ ShownSpans(x, lane)[i][1] <= Right(x)

LanesIn(x, group) ==
  {i \in DOMAIN x.payload.lanes :
     LET lane == x.payload.lanes[i] IN
     /\ lane.group = group
     /\ lane.b >= ObservationStart(x) /\ lane.a <= x.now
     /\ (x.showSys \/ lane.name.base = Assistant \/ ~lane.sys)
     /\ (x.hideIdle => ~LaneDim(x, lane))}

(* a set of positions as a list                                            *)
InTurn(S) == [k \in 1..Cardinality(S) |-> CHOOSE i \in S : Cardinality({j \in S : j <= i}) = k]

GroupRows(x, g) ==
  LET lanes == InTurn(LanesIn(x, x.payload.groups[g])) IN
  IF LanesIn(x, x.payload.groups[g]) = {} THEN <<>>
  ELSE <<<<"group", g>>>> \o [i \in DOMAIN lanes |-> <<"lane", lanes[i]>>]
RowsOn(x) == FlattenSeq([g \in DOMAIN x.payload.groups |-> GroupRows(x, g)])
VisibleLanes(x) ==
  LET rows == RowsOn(x)
      lanes == InTurn({i \in DOMAIN rows : rows[i][1] = "lane"})
  IN [i \in DOMAIN lanes |-> rows[lanes[i]][2]]
FirstVisible(x) == IF VisibleLanes(x) = <<>> THEN 0 ELSE VisibleLanes(x)[1]

EnsureCursorRowVisible(x) ==
  LET at == {i \in DOMAIN RowsOn(x) : RowsOn(x)[i] = <<"lane", x.cursor>>}
      row == FirstIn(at) - 1
  IN IF x.cursor = 0 \/ at = {} THEN x
     ELSE CASE row < x.rowScroll -> [x EXCEPT !.rowScroll = Greater(row - 1, 0)]
            [] row >= x.rowScroll + x.canvas.height -> [x EXCEPT !.rowScroll = row + 1 - x.canvas.height]
            [] OTHER -> x

(* the position after a move around a list, from where it is, or start *)
Around(list, from, delta, start) ==
  LET at == {i \in DOMAIN list : list[i] = from} IN
  IF at = {} THEN list[start] ELSE list[((FirstIn(at) - 1 + delta) % Len(list)) + 1]

MoveCursor(x, delta) ==
  LET lanes == VisibleLanes(x) IN
  IF lanes = <<>> THEN [x EXCEPT !.cursor = 0]
  ELSE EnsureCursorRowVisible([x EXCEPT !.cursor = Around(lanes, x.cursor, delta, 1)])

Messages(x) ==
  InTurn({i \in DOMAIN x.payload.edges :
            x.payload.edges[i].kind = "message" /\ Observes(x, x.payload.edges[i].at)})

SelectMessage(x, delta) ==
  LET messages == Messages(x)
      before == {k \in DOMAIN messages : x.payload.edges[messages[k]].at <= Right(x)}
      start == IF before = {} THEN Len(messages) ELSE LastIn(before)
      chosen == Around(messages, x.message, delta, start)
  IN IF messages = <<>> THEN [x EXCEPT !.message = 0]
     ELSE EnsureMinuteVisible([x EXCEPT !.message = chosen], x.payload.edges[chosen].at)

-----------------------------------------------------------------------------
(* App::handle_key *)

Key(x, key) ==
  LET quarter == Span(x) \div 4 IN
  CASE key = "q" -> [x EXCEPT !.quit = TRUE]
    [] key = "H" -> Pan(x, -(4 * quarter))
    [] key = "L" -> Pan(x, 4 * quarter)
    [] key = "h" -> Pan(x, -quarter)
    [] key = "l" -> Pan(x, quarter)
    [] key = "+" -> ZoomBy(x, -1)
    [] key = "-" -> ZoomBy(x, 1)
    [] key = "j" -> MoveCursor(x, 1)
    [] key = "k" -> MoveCursor(x, -1)
    [] key = "enter" -> [x EXCEPT !.goto = x.cursor]
    [] key = "tab" -> SelectMessage(x, 1)
    [] key = "backtab" -> SelectMessage(x, -1)
    [] key = "n" -> JumpToNow(x)
    [] key = "g" -> Pan(x, -x.left)
    [] key = "esc" /\ x.message # 0 -> [x EXCEPT !.message = 0]
    [] key = "esc" /\ x.message = 0 -> [x EXCEPT !.search = ""]
    [] key = "s" -> [x EXCEPT !.showSys = ~@]
    [] key = "i" -> [x EXCEPT !.hideIdle = ~@]
    [] key = "/" -> [x EXCEPT !.searching = TRUE]

(* typing, deleting, leaving; a text typed is "x" *)
SearchKey(x, key) ==
  CASE key = "esc" -> [x EXCEPT !.search = "", !.searching = FALSE]
    [] key = "enter" -> [x EXCEPT !.searching = FALSE]
    [] OTHER -> [x EXCEPT !.search = "x"]

(* A cursor whose lane the key has hidden goes to the first lane.          *)
Repaired(x) ==
  IF x.cursor # 0 /\ x.cursor \notin Range(VisibleLanes(x))
    THEN [x EXCEPT !.cursor = FirstVisible(x), !.message = 0]
    ELSE x

AllKeys == {"q", "H", "L", "h", "l", "+", "-", "j", "k", "enter", "tab", "backtab", "n", "g",
            "esc", "s", "i", "/"}

Screened(x) == app' = x /\ screenKeys < MaxScreenKeys /\ screenKeys' = screenKeys + 1
                       /\ UNCHANGED <<scene, clock, resized, scenes>>

HandleKey(key) ==
  /\ ~app.quit
  /\ Screened(IF app.searching THEN SearchKey(app, key) ELSE Repaired(Key(app, key)))

-----------------------------------------------------------------------------
(* App::handle_mouse; column -1 is beside the canvas *)

WheelPan(direction) == Screened(Pan(app, direction * 3 * MinutesPerColumn(app)))
WheelZoom(direction, column) ==
  Screened(ZoomTo(app, ZoomClamped(app, direction), MinuteAt(app, column), column))
WheelRows(direction) ==
  Screened([app EXCEPT !.rowScroll =
    Clamp(0, Greater(Len(RowsOn(app)) - app.canvas.height, 0), @ + direction)])

Clicked(x, row, column) ==
  IF row[1] = "group"
    THEN LET g == x.payload.groups[row[2]] IN [x EXCEPT !.search = IF @ = g THEN "" ELSE g]
    ELSE LET hit == {k \in DOMAIN Messages(x) : ColumnOf(x, x.payload.edges[Messages(x)[k]].at) = column}
         IN [x EXCEPT !.cursor = row[2],
                      !.message = IF column = -1 \/ hit = {} THEN 0 ELSE Messages(x)[FirstIn(hit)]]

Click(screenRow, column) ==
  LET rows == RowsOn(app)
      row == screenRow + app.rowScroll
      x == IF screenRow <= app.canvas.height /\ row \in DOMAIN rows
             THEN Clicked(app, rows[row], column) ELSE app
  IN /\ column < app.canvas.width
     /\ Screened([x EXCEPT !.drag = IF column = -1 THEN @ ELSE <<column, x.left>>])

Drag(column) ==
  /\ app.drag # <<>> /\ column < app.canvas.width
  /\ Screened(Pan(app, app.drag[2] + (app.drag[1] - column) * MinutesPerColumn(app) - app.left))
Release == app.drag # <<>> /\ Screened([app EXCEPT !.drag = <<>>])

-----------------------------------------------------------------------------
(* The loop *)

(* A draw finds the terminal in another size; the event follows.           *)
Redraw(canvas) ==
  /\ canvas # app.canvas /\ ~resized /\ screenKeys < MaxScreenKeys
  /\ app' = [app EXCEPT !.canvas = canvas] /\ resized' = TRUE /\ screenKeys' = screenKeys + 1
  /\ UNCHANGED <<scene, clock, scenes>>

Resized(x) ==
  CASE ~x.custom \/ ZoomLevels[x.zoom] * x.canvas.width >= Window -> FitInitial(x)
    [] x.custom /\ ZoomLevels[x.zoom] * x.canvas.width < Window /\ x.follow -> JumpToNow(x)
    [] OTHER -> x
HandleResize ==
  /\ resized /\ resized' = FALSE /\ app' = Resized(app)
  /\ UNCHANGED <<scene, clock, screenKeys, scenes>>

(* jump: the lane is left for its session, if it has one *)
Goto ==
  /\ app.goto # 0 /\ app' = [app EXCEPT !.goto = 0]
  /\ UNCHANGED <<scene, clock, resized, screenKeys, scenes>>

(* Mutant: the cursor stays where it is. *)
CursorForSame(x, sid) == IF x.cursor \in Range(VisibleLanes(x)) THEN x.cursor ELSE FirstVisible(x)
(* App::refresh: the cursor stays with its session, the message with its   *)
(* time.                                                                   *)
CursorFor(x, sid) ==
  LET lanes == {i \in DOMAIN x.payload.lanes : x.payload.lanes[i].sid = sid} IN
  IF lanes # {} /\ FirstIn(lanes) \in Range(VisibleLanes(x)) THEN FirstIn(lanes) ELSE FirstVisible(x)

Renewed(x, payload, t) ==
  LET y == [x EXCEPT !.payload = payload, !.now = t - payload.epoch]
  IN IF y.follow THEN JumpToNow(y) ELSE Pan(y, 0)
Placed(x, z) ==
  LET same == {k \in DOMAIN Messages(z) : z.payload.edges[Messages(z)[k]].at = x.payload.edges[x.message].at}
  IN [z EXCEPT
        !.cursor = IF x.cursor = 0 THEN FirstVisible(z)
                   ELSE CursorFor(z, x.payload.lanes[x.cursor].sid),
        !.message = IF x.message = 0 \/ same = {} THEN 0 ELSE Messages(z)[FirstIn(same)]]
Refreshed(x, payload, t) ==
  LET w == Placed(x, Renewed(x, payload, t)) IN
  EnsureCursorRowVisible(
    [w EXCEPT !.rowScroll = Smaller(@, Greater(Len(RowsOn(w)) - w.canvas.height, 0))])

(* q in the popup's resident: its clients are detached, it stays. *)
Detach ==
  /\ app.quit /\ app.goto = 0 /\ app' = [app EXCEPT !.quit = FALSE]
  /\ UNCHANGED <<scene, clock, resized, screenKeys, scenes>>

Tick ==
  /\ ~app.quit /\ app.goto = 0
  /\ \E payload \in {Payload(scene, clock)} :
       /\ app.payload # payload \/ app.now # clock - payload.epoch
       /\ app' = Refreshed(app, payload, clock)
  /\ UNCHANGED <<scene, clock, resized, screenKeys, scenes>>

-----------------------------------------------------------------------------
(* The world *)

Changes(s, minutes) ==
  /\ scenes < MaxScenes /\ scenes' = scenes + 1
  /\ scene' = s /\ clock' = clock + minutes
  /\ UNCHANGED <<app, resized, screenKeys>>

NewApp(payload, t, canvas) ==
  LET x == [payload |-> payload, now |-> t - payload.epoch, zoom |-> 1, custom |-> FALSE,
            left |-> 0, follow |-> TRUE, cursor |-> 0, message |-> 0, rowScroll |-> 0,
            showSys |-> FALSE, hideIdle |-> FALSE, search |-> "", searching |-> FALSE,
            canvas |-> canvas, quit |-> FALSE, goto |-> 0, drag |-> <<>>]
  IN FitInitial([x EXCEPT !.cursor = FirstVisible(x)])

ScreenInit(s, canvas) ==
  /\ scene = s /\ clock = StartsAt
  /\ app = NewApp(Payload(s, StartsAt), StartsAt, canvas)
  /\ resized = FALSE /\ screenKeys = 0 /\ scenes = 0

ScreenNext ==
  \/ \E key \in AllKeys : HandleKey(key)
  \/ \E d \in {-1, 1} : WheelPan(d)
  \/ \E d \in {-1, 1}, c \in 0..3 : WheelZoom(d, c)
  \/ \E d \in {-1, 1} : WheelRows(d)
  \/ \E row \in 1..4, c \in -1..3 : Click(row, c)
  \/ \E c \in 0..3 : Drag(c)
  \/ Release
  \/ \E c \in Canvases : Redraw(c)
  \/ HandleResize
  \/ Goto
  \/ Detach
  \/ Tick
  \/ \E s \in NextScenes(scene) : Changes(s, 0)
  \/ \E minutes \in {1, DayLength} : Changes(scene, minutes)

ScreenSpec ==
  /\ \E s \in FirstScenes, canvas \in Canvases : ScreenInit(s, canvas)
  /\ [][ScreenNext]_screenVars

-----------------------------------------------------------------------------
(* What the payload promises *)

LanesOf(payload, seeds, id) ==
  {i \in DOMAIN payload.lanes : \E s \in DOMAIN seeds :
     /\ \E r \in Range(seeds[s].records) : r.id = id
     /\ payload.lanes[i].sid = Primary(seeds[s]).id}

(* Every recent record has one lane, and a lane's segments are apart.      *)
LanesHold(p, lanesOf) ==
  /\ \A id \in DOMAIN lanesOf : Cardinality(lanesOf[id]) = 1
  /\ \A l \in Range(p.lanes) : \A i \in DOMAIN l.segs : i > 1 => l.segs[i][1] > l.segs[i - 1][2]

(* The lanes a token may mean: of the record with that id, else those of   *)
(* that name, else those that would have it but for their day.             *)
MeantBy(p, lanesOf, token) ==
  LET named == {i \in DOMAIN p.lanes : p.lanes[i].name = PlainName(token)} IN
  IF token \in DOMAIN lanesOf THEN lanesOf[token]
  ELSE IF named # {} THEN named ELSE {i \in DOMAIN p.lanes : p.lanes[i].name.base = token}

(* The launches and messages of the window that are edges: what came to    *)
(* which lane, when, and who is named as its origin.                       *)
LaunchesIn(p, lanesOf, recent) ==
  {[of |-> r.id, at |-> r.created - p.epoch, to |-> lanesOf[r.id], token |-> r.parent, message |-> FALSE] :
     r \in {q \in recent : q.parent # NoParent /\ q.created >= p.epoch}}
MessagesIn(p, lanesOf, recent) ==
  UNION {LET lines == scene.transcripts[r.path] IN
         {[of |-> <<r.path, k>>, at |-> lines[k].at - p.epoch, to |-> lanesOf[r.id],
           token |-> lines[k].from, message |-> TRUE] :
            k \in {n \in DOMAIN lines : lines[n].kind = "message" /\ lines[n].at >= p.epoch}} :
         r \in {q \in recent : q.path # NoPath}}

(* The edges are those launches and messages, each once, although lanes    *)
(* and edges were sorted since; and each starts where its token says.      *)
EdgesHold(p, lanesOf, happened) ==
  LET is(e, h) == /\ h.at = e.at /\ h.to = {e.to} /\ h.token = e.token
                  /\ h.message = (e.kind = "message")
      edges(h) == {k \in DOMAIN p.edges : is(p.edges[k], h)} IN
  /\ \A h \in happened :
       Cardinality(edges(h)) = Cardinality({g \in happened : [g EXCEPT !.of = h.of] = h})
  /\ \A e \in Range(p.edges) :
       /\ \E h \in happened : is(e, h)
       /\ LET meant == MeantBy(p, lanesOf, e.token) IN
          IF meant = {} THEN e.from = 0 ELSE e.from \in meant

(* The group of the nearest of the session and those above it that was     *)
(* given one, nobody above the assistant counting; else its first tag, or  *)
(* its name.                                                               *)
NearestGroup(everyone, r) ==
  LET above[k \in 0..Len(everyone)] ==
        IF k = 0 THEN {r} ELSE {q \in Range(everyone) : \E c \in above[k - 1] : c.parent = q.id}
      within == {k \in 0..Len(everyone) : \A j \in 0..k - 1 : \A q \in above[j] : q.name # Assistant}
      given == {k \in within : \E q \in above[k] : q.group # NoGroup} IN
  IF given = {} THEN Head(r.tags \o <<r.name>>)
  ELSE (CHOOSE q \in above[FirstIn(given)] : TRUE).group

(* Every lane is in the group its session says, and each group is listed   *)
(* once: those of the saved order in it, then the others as their lanes    *)
(* come.                                                                   *)
GroupsHold(p, everyone) ==
  LET saved(g) == {k \in DOMAIN SavedOrder : SavedOrder[k] = g}
      first(g) == FirstIn({i \in DOMAIN p.lanes : p.lanes[i].group = g})
      before(g, h) == \/ saved(g) # {} /\ saved(h) = {}
                      \/ saved(g) # {} /\ saved(h) # {} /\ FirstIn(saved(g)) < FirstIn(saved(h))
                      \/ saved(g) = {} /\ saved(h) = {} /\ first(g) < first(h) IN
  /\ \A l \in Range(p.lanes) : l.group = NearestGroup(everyone, RecordOf(everyone, l.sid))
  /\ {l.group : l \in Range(p.lanes)} = Range(p.groups)
  /\ \A i, j \in DOMAIN p.groups : i < j => before(p.groups[i], p.groups[j])

(* The payload is that of the records and their transcripts (lane_seeds,   *)
(* session_group, build).                                                  *)
PayloadHolds(p) ==
  LET seeds == LaneSeeds(scene.everyone, p.epoch)
      recent == Range(Recent(scene.everyone, p.epoch))
      lanesOf == [id \in {r.id : r \in recent} |-> LanesOf(p, seeds, id)] IN
  /\ LanesHold(p, lanesOf)
  /\ EdgesHold(p, lanesOf, LaunchesIn(p, lanesOf, recent) \cup MessagesIn(p, lanesOf, recent))
  /\ GroupsHold(p, scene.everyone)

(* What the screen relies on: lists, numbers, and one lane of a session.   *)
IsPayload(p) ==
  /\ Len(p.lanes) \in Nat /\ DOMAIN p.lanes = 1..Len(p.lanes)
  /\ Len(p.edges) \in Nat /\ DOMAIN p.edges = 1..Len(p.edges)
  /\ Len(p.groups) \in Nat /\ DOMAIN p.groups = 1..Len(p.groups)
  /\ p.epoch \in Int /\ \A i \in DOMAIN p.edges : p.edges[i].at \in Int
  /\ \A i, j \in DOMAIN p.lanes : p.lanes[i].sid = p.lanes[j].sid => i = j
PayloadTyped == IsPayload(app.payload)

(* Whatever was pressed, clicked and refreshed: cursor and message are of   *)
(* the payload and shown (but for lanes the mouse made idle ones), a view   *)
(* that follows ends now once a resize is handled, and none starts before  *)
(* the observed time (App's operations).                                   *)
ScreenHolds ==
  /\ {app.cursor, app.goto} \subseteq {0} \cup DOMAIN app.payload.lanes
  /\ app.message \in {0} \cup Range(Messages(app))
  /\ ~app.hideIdle => app.cursor \in {0} \cup Range(VisibleLanes(app))
  /\ ~resized => (app.follow => Right(app) = app.now)
  /\ app.left >= ObservationStart(app)

(* A new payload leaves the operator where they were: the cursor on its     *)
(* session as long as that is shown, the message of the same time while    *)
(* the window begins on the same day, the view at now if it was there; and *)
(* the cursor's row is on the screen, if that has two rows (refresh).      *)
KeepsPlace(x, y) ==
  LET shown == VisibleLanes(y)
      sid == x.payload.lanes[x.cursor].sid
      at == x.payload.edges[x.message].at
  IN /\ x.follow => y.follow
     /\ (x.cursor # 0 /\ \E i \in Range(shown) : y.payload.lanes[i].sid = sid)
          => y.payload.lanes[y.cursor].sid = sid
     /\ (x.message # 0 /\ x.payload.epoch = y.payload.epoch
         /\ \E i \in Range(Messages(y)) : y.payload.edges[i].at = at)
          => y.message # 0 /\ y.payload.edges[y.message].at = at
     /\ (y.cursor = 0) = (shown = <<>>)
     /\ (y.cursor # 0 /\ y.canvas.height > 1) =>
          \E i \in DOMAIN RowsOn(y) :
            /\ RowsOn(y)[i] = <<"lane", y.cursor>>
            /\ i > y.rowScroll /\ i <= y.rowScroll + y.canvas.height

(* What the screen shows is of its payload, and every payload it takes      *)
(* leaves the operator where they were (App::refresh).                     *)
TicksKeepPlace == [][\A x \in {app'} : app.payload # x.payload => KeepsPlace(app, x)]_app
ScreenKeeps == []ScreenHolds /\ TicksKeepPlace

(* Every payload the screen takes is that of the records (Builder::build).  *)
PayloadsAreRight == [][\A x \in {app'} : app.payload # x.payload => PayloadHolds(x.payload)]_app
=============================================================================
