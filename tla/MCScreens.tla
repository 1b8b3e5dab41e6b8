----------------------------- MODULE MCScreens -----------------------------
(***************************************************************************)
(* The programs that draw, each on its own: part says which one a          *)
(* behaviour is of, and the others stay as they begin.                     *)
(***************************************************************************)
EXTENDS HomeScreen, SessionEditor, TimelineScreen

(* Home: agents 1 and 3 share a name; 4 is the assistant, in a checkout of  *)
(* its own; view 21 is 3's, view 22 is bound to the project.                *)
NameOfC == [a \in HomeAgents |-> IF a \in {1, 3} THEN 101 ELSE 100 + a]
CheckoutOfC == [a \in HomeAgents |-> IF a = 4 THEN 52 ELSE 51]
ParentOfC == [v \in HomeViews |-> IF v = 21 THEN 3 ELSE NoAgent]
ViewProjectC == [v \in HomeViews |-> IF v = 22 THEN 51 ELSE NoAgent]
FoundC == {101, 22}
FirstWorldsC ==
  {[running |-> {}, gone |-> {}, ended |-> {}, views |-> HomeViews, failed |-> FALSE],
   [running |-> {3, 4}, gone |-> {}, ended |-> {1, 2}, views |-> HomeViews, failed |-> FALSE]}

(* Editor: w is a wide letter.                                              *)
RecordsC == {[name |-> <<"a", "w", "a">>, tags |-> <<<<"a">>, <<"w">>>>, group |-> <<>>],
             [name |-> <<"a">>, tags |-> <<>>, group |-> <<"w">>]}

(* Timeline: 1 spawned 2, which spawned 3, of the same name as 1; what the *)
(* payload makes of them without keys, for more of their kind.              *)
Record(id, name, created, active, ended, parent, group, path) ==
  [id |-> id, name |-> name, created |-> created, active |-> active, ended |-> ended,
   parent |-> parent, group |-> group, path |-> path, tags |-> <<>>]
Line(kind, at) == [kind |-> kind, at |-> at]
Message(from, at) == [kind |-> "message", at |-> at, from |-> from]
TranscriptsC == [p1 |-> <<Line("user", 3), Message("2", 15), Line("end_turn", 16), Line("user", 28)>>,
                 p2 |-> <<Line("user", 11), Message("a", 13), Line("end_turn", 14), Message("a", 26)>>]
Scene(everyone) == [everyone |-> everyone, transcripts |-> TranscriptsC]
One == Record("1", "a", 3, 29, FALSE, NoParent, NoGroup, "p1")
Two == Record("2", "b", 10, 28, FALSE, "1", "g", "p2")
Three == Record("3", "a", 1, 15, TRUE, "2", NoGroup, NoPath)
FewScenes == {Scene(<<One, Two, Three>>)}
ManyScenes ==
  {Scene(<<[One EXCEPT !.parent = up], [Two EXCEPT !.group = g, !.created = c, !.tags = <<"w", "tx-system">>],
           [Three EXCEPT !.name = n, !.path = p, !.parent = q]>>) :
     up \in {NoParent, "3"}, g \in {NoGroup, "g"}, c \in {2, 10}, n \in {"a", Assistant},
     p \in {NoPath, "p1"}, q \in {NoParent, "2"}}
FirstScenesC == FewScenes \cup ManyScenes \cup {Scene(<<>>)}
NextScenesC(s) ==
  LET everyone == s.everyone IN
  {[s EXCEPT !.everyone = Append(@, Record("4", "c", 30, 30, FALSE, "3", NoGroup, NoPath))],
   [s EXCEPT !.everyone[2].ended = TRUE],
   [s EXCEPT !.everyone[1].group = "h"],
   [s EXCEPT !.transcripts.p1 = Append(@, Message("2", 30))]}
CanvasesC == {[width |-> 4, height |-> 3], [width |-> 8, height |-> 1]}
ZoomLevelsC == <<1, 2, 4>>
SavedOrderC == <<"h", "w">>

VARIABLE part

Parts == {"home", "form", "decoder", "transcript", "payload", "timeline"}

ScreensInit ==
  /\ part \in Parts
  /\ HomeInit /\ (part # "home" => returned = NoAgent /\ world.running = {} /\ world.ended = {})
  /\ FormInit /\ (part # "form" => record.group = <<>> /\ columns = CHOOSE c \in Available : TRUE)
  /\ DecoderInit
  /\ CacheInit
  /\ \E s \in CASE part = "payload" -> ManyScenes [] part = "timeline" -> FewScenes
               [] OTHER -> {Scene(<<>>)} :
       s \in FirstScenes /\ ScreenInit(s, [width |-> 4, height |-> 3])

(* The other programs stand still.                                         *)
Program == IF part = "payload" THEN "timeline" ELSE part
Kept(name, own) == IF Program = name THEN TRUE ELSE UNCHANGED own
Alone(name) ==
  /\ Program = name /\ UNCHANGED part
  /\ Kept("home", homeVars) /\ Kept("form", formVars) /\ Kept("decoder", decoderVars)
  /\ Kept("transcript", cacheVars)
  /\ Kept("timeline", screenVars)

ScreensNext ==
  \/ Alone("home") /\ HomeNext
  \/ Alone("form") /\ FormNext
  \/ Alone("decoder") /\ DecoderNext
  \/ Alone("transcript") /\ CacheNext
  \/ Alone("timeline") /\ ScreenNext /\ (part = "payload" => screenKeys' = 0)

(* The timeline's lanes and edges are of the records, its cache is what the *)
(* transcript says, however that grew between two reads, and its payload is *)
(* of the form the screen relies on (cache, Builder::build).                *)
TimelineHolds == CacheIsTheFile /\ WorkIsTheTurns /\ PayloadTyped
TimelineKeeps == []TimelineHolds /\ PayloadsAreRight
=============================================================================
