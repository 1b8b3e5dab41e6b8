------------------------------- MODULE Names -------------------------------
(***************************************************************************)
(* What a name means by the time it is used. Verbs are given a name, or    *)
(* read one off the session a pane shows, and only later look for the      *)
(* record that bears it; meanwhile agents are created, renamed, end and    *)
(* come back, and views open under names agents had. The verbs here are    *)
(* prefix+X and `tx kill`, prefix+f, `_relabel` and what takes a name on   *)
(* the command line, one at a time, beside all that others do.             *)
(***************************************************************************)
EXTENDS Naturals, Sequences, FiniteSets, FiniteSetsExt

CONSTANTS
  Titles,       \* names agents and views may have
  MaxAgents, MaxRooms,
  TagSets,      \* tags an agent may have
  NoTask,       \* no verb, or no rename, at work
  MaxNameTurns  \* bound: what others do, and verbs begun

VARIABLES
  roster,       \* records, in the order they were created: name, tags, whether it ended
  rooms,        \* tmux sessions ever made: name, the agent of its @tx-id, @tx-name, whether it is there
  inPane,       \* the session nested in the user's pane, 0 for none (the pane is home's)
  renaming,     \* a rename of tmux's session not saved yet: which agent, to what
  errand,       \* the verb at work
  nameTurns

NoAgent == 0   \* owner of a view
nameVars == <<roster, rooms, inPane, renaming, errand, nameTurns>>

Agents == DOMAIN roster
Bearers(name) == {a \in Agents : roster[a].name = name}
Living(set) == {a \in set : ~roster[a].ended}
(* Mutant: the oldest record of the name, whether it is over or not. *)
ResolveOldest(name) == IF Bearers(name) # {} THEN Min(Bearers(name)) ELSE 0

(* TxCore::resolve: the running record with the name, else the newest ended  *)
(* one, else none.                                                          *)
Resolve(name) ==
  IF Living(Bearers(name)) # {} THEN Min(Living(Bearers(name)))
  ELSE IF Bearers(name) # {} THEN Max(Bearers(name)) ELSE 0

There == {s \in DOMAIN rooms : rooms[s].there}
Called(name) == {s \in There : rooms[s].name = name}
HomesOf(a) == {s \in There : rooms[s].owner = a}
IsView(s) == rooms[s].owner = NoAgent
LabelOf(a) == [name |-> roster[a].name, tags |-> roster[a].tags]
PaneInfo(s) == LabelOf(rooms[s].owner)
NoLabel == [name |-> "", tags |-> {}]
(* What goes by a session's name: the border's label, `whoami`, `_tmux-name`.  *)
NestedLabel(s) == LET a == Resolve(rooms[s].name) IN IF a = 0 THEN [name |-> rooms[s].name, tags |-> {}] ELSE LabelOf(a)
WhoAmI(s) == LET a == Resolve(rooms[s].name) IN IF a = 0 THEN rooms[s].name ELSE roster[a].name
TmuxName(token) == LET a == Resolve(token) IN IF a = 0 THEN {} ELSE Called(roster[a].name)
RoomsWithout(s) == [rooms EXCEPT ![s].there = FALSE]
NewRoom(name, owner) == Append(rooms, [name |-> name, owner |-> owner, label |-> NoLabel, there |-> TRUE])
(* A client nested in a session that is gone leaves its pane.               *)
PaneAfter(newRooms) == IF inPane # 0 /\ ~newRooms[inPane].there THEN 0 ELSE inPane

(* Creating, renaming, bringing back and stopping hold the names' lock.      *)
NamesLocked == renaming # NoTask \/ (errand # NoTask /\ errand.at = "leaving")
RecordLocked(a) == NamesLocked /\ a = (IF renaming # NoTask THEN renaming.agent ELSE errand.who)

NamesInit ==
  /\ roster = <<[name |-> CHOOSE n \in Titles : TRUE, tags |-> CHOOSE t \in TagSets : TRUE, ended |-> FALSE]>>
  /\ rooms = <<[name |-> roster[1].name, owner |-> 1, label |-> NoLabel, there |-> TRUE]>>
  /\ inPane = 1 /\ renaming = NoTask /\ errand = NoTask /\ nameTurns = 0

-----------------------------------------------------------------------------
(* What others do, each marked on the verb it happens beside; what a verb     *)
(* has said is looked at before anything else happens.                      *)
Arrived(at) == errand # NoTask /\ errand.at = at
Stirs ==
  /\ nameTurns < MaxNameTurns /\ nameTurns' = nameTurns + 1 /\ ~Arrived("done")
  /\ errand' = IF errand = NoTask THEN NoTask ELSE [errand EXCEPT !.stirred = TRUE]

(* create: under a name no running record has and no session.               *)
Created(name, tags) ==
  /\ ~NamesLocked /\ Len(roster) < MaxAgents /\ Len(rooms) < MaxRooms
  /\ Living(Bearers(name)) = {} /\ Called(name) = {}
  /\ roster' = Append(roster, [name |-> name, tags |-> tags, ended |-> FALSE])
  /\ rooms' = NewRoom(name, Len(roster) + 1)
  /\ UNCHANGED <<inPane, renaming>>
(* rename: tmux's session first, while the record says it runs, then the     *)
(* record. A name that a session has is refused by tmux.                    *)
StartsRename(a, name) ==
  /\ ~NamesLocked /\ roster[a].name # name /\ Living(Bearers(name)) \ {a} = {}
  /\ LET mine == IF roster[a].ended THEN {} ELSE HomesOf(a) IN
     /\ mine # {} => Called(name) = {}
     /\ rooms' = [s \in DOMAIN rooms |-> IF s \in mine THEN [rooms[s] EXCEPT !.name = name] ELSE rooms[s]]
  /\ renaming' = [agent |-> a, to |-> name]
  /\ UNCHANGED <<roster, inPane>>
SavesRename ==
  /\ renaming # NoTask
  /\ roster' = [roster EXCEPT ![renaming.agent].name = renaming.to]
  /\ renaming' = NoTask
  /\ UNCHANGED <<rooms, inPane>>
(* respawn: StillRunning, NameHeld, or a new session under the old name.     *)
MayRespawn(a) ==
  roster[a].ended /\ HomesOf(a) = {} /\ Living(Bearers(roster[a].name)) = {} /\ Called(roster[a].name) = {}
Respawned(a) ==
  /\ ~NamesLocked /\ Len(rooms) < MaxRooms /\ MayRespawn(a)
  /\ roster' = [roster EXCEPT ![a].ended = FALSE]
  /\ rooms' = NewRoom(roster[a].name, a)
  /\ UNCHANGED <<inPane, renaming>>
(* A SessionEnd hook, and a refresh of what has no session, end the record;  *)
(* the session itself goes before or after.                                 *)
RecordEnds(a) ==
  /\ ~roster[a].ended /\ ~RecordLocked(a)
  /\ roster' = [roster EXCEPT ![a].ended = TRUE]
  /\ UNCHANGED <<rooms, inPane, renaming>>
Tagged(a, tags) ==
  /\ ~RecordLocked(a) /\ roster[a].tags # tags
  /\ roster' = [roster EXCEPT ![a].tags = tags]
  /\ UNCHANGED <<rooms, inPane, renaming>>
ViewOpens(name) ==
  /\ Len(rooms) < MaxRooms /\ Called(name) = {}
  /\ rooms' = NewRoom(name, NoAgent)
  /\ UNCHANGED <<roster, inPane, renaming>>
Closes(s) ==
  /\ rooms' = RoomsWithout(s) /\ inPane' = PaneAfter(RoomsWithout(s))
  /\ UNCHANGED <<roster, renaming>>
(* The user's keys go to a question or a popup that is up.                  *)
PaneShows(s) ==
  /\ inPane # s /\ (errand # NoTask => errand.at \notin {"confirm", "popup"})
  /\ inPane' = s
  /\ UNCHANGED <<roster, rooms, renaming>>

AllElse ==
  \/ Stirs /\ \/ \E name \in Titles, tags \in TagSets : Created(name, tags)
              \/ \E a \in Agents, name \in Titles : StartsRename(a, name)
              \/ \E a \in Agents : Respawned(a) \/ RecordEnds(a) \/ \E tags \in TagSets : Tagged(a, tags)
              \/ \E name \in Titles : ViewOpens(name)
              \/ \E s \in There : Closes(s) \/ PaneShows(s)
  \/ SavesRename /\ UNCHANGED nameTurns /\ ~Arrived("done")
       /\ errand' = IF errand = NoTask THEN NoTask ELSE [errand EXCEPT !.stirred = TRUE]

-----------------------------------------------------------------------------
Errand(kind, at, target) ==
  [kind |-> kind, at |-> at, target |-> target, meant |-> 0, who |-> 0, gone |-> {}, outcome |-> "",
   stirred |-> renaming # NoTask, owned |-> FALSE, live |-> {}, todo |-> {}, label |-> NoLabel]
Sets(e) ==
  /\ errand = NoTask /\ nameTurns < MaxNameTurns /\ nameTurns' = nameTurns + 1
  /\ errand' = e /\ UNCHANGED <<roster, rooms, inPane, renaming>>
Goes(e) == errand' = e /\ UNCHANGED <<roster, rooms, inPane, renaming, nameTurns>>
Done(outcome) == Goes([errand EXCEPT !.at = "done", !.outcome = outcome])
Forgets == Arrived("done") /\ Goes(NoTask)

(* tmux-kill-tx-session: the session in the pane, a view or an agent's, by    *)
(* its name, and a question. A pane with nothing nested is home's.          *)
KillPressed ==
  /\ inPane # 0
  /\ Sets([Errand(IF IsView(inPane) THEN "close" ELSE "kill", "confirm", rooms[inPane].name)
      EXCEPT !.meant = inPane, !.label = IF IsView(inPane) THEN NoLabel ELSE PaneInfo(inPane)])
Confirms == Arrived("confirm") /\ Goes([errand EXCEPT !.at = IF errand.kind = "close" THEN "guard" ELSE "resolve"])
Declines == Arrived("confirm") /\ Goes(NoTask)
(* `tx kill NAME`, `tx stop NAME`, `tx respawn NAME`, ... typed.             *)
TypedName(kind, name) == Sets(Errand(kind, "resolve", name))
ByName == {"kill", "stop", "respawn", "where", "tag"}

(* The session meant is still that of a running agent of this name.          *)
Owned == LET a == IF errand.meant = 0 THEN NoAgent ELSE rooms[errand.meant].owner IN
         a # NoAgent /\ ~roster[a].ended /\ roster[a].name = errand.target
(* Which of the name: an agent; `tx kill` tries the views when there is none. *)
Resolves ==
  /\ Arrived("resolve")
  /\ LET r == Resolve(errand.target) IN
     IF r # 0 THEN Goes([errand EXCEPT !.at = "act", !.who = r, !.owned = Owned])
     ELSE IF errand.kind = "kill" THEN Goes([errand EXCEPT !.at = "guard"])
     ELSE Done("not found")

(* stop_agent: the record ends and the program is asked to leave, or its       *)
(* session killed, by its own target; only then does the verb speak.         *)
Stops ==
  /\ Arrived("act") /\ errand.kind \in {"kill", "stop"} /\ renaming = NoTask
  /\ IF roster[errand.who].ended THEN Done("not running")
     ELSE /\ roster' = [roster EXCEPT ![errand.who].ended = TRUE]
          /\ errand' = IF HomesOf(errand.who) = {} THEN [errand EXCEPT !.at = "done", !.outcome = "stopped"]
                       ELSE [errand EXCEPT !.at = "leaving", !.gone = HomesOf(errand.who)]
          /\ UNCHANGED <<rooms, inPane, renaming, nameTurns>>
Leaves ==
  /\ Arrived("leaving")
  /\ rooms' = [s \in DOMAIN rooms |-> IF s \in errand.gone THEN [rooms[s] EXCEPT !.there = FALSE] ELSE rooms[s]]
  /\ inPane' = PaneAfter(rooms')
  /\ errand' = [errand EXCEPT !.at = "done", !.outcome = "stopped"]
  /\ UNCHANGED <<roster, renaming, nameTurns>>
(* views::close: only a view, then the session of that name.                *)
Guards ==
  /\ Arrived("guard")
  /\ IF Called(errand.target) = {} THEN Done("not found")
     ELSE IF \E s \in Called(errand.target) : IsView(s) THEN Goes([errand EXCEPT !.at = "close", !.owned = errand.meant \in Called(errand.target), !.stirred = renaming # NoTask])
     ELSE Done("failed")
ClosesView ==
  /\ Arrived("close")
  /\ IF Called(errand.target) = {} THEN Done("failed")
     ELSE \E s \in Called(errand.target) :
       /\ rooms' = RoomsWithout(s) /\ inPane' = PaneAfter(RoomsWithout(s))
       /\ errand' = [errand EXCEPT !.at = "done", !.outcome = "closed", !.gone = {s}]
       /\ UNCHANGED <<roster, renaming, nameTurns>>

(* The other verbs, by the id the name came to.                              *)
Wheres ==
  /\ Arrived("act") /\ errand.kind = "where"
  /\ IF roster[errand.who].ended \/ HomesOf(errand.who) = {} THEN Done("not running")
     ELSE Goes([errand EXCEPT !.at = "done", !.outcome = "found", !.meant = Min(HomesOf(errand.who))])
Tags ==
  /\ Arrived("act") /\ errand.kind = "tag" /\ \E tags \in TagSets : Tagged(errand.who, tags)
  /\ errand' = [errand EXCEPT !.at = "done", !.outcome = "tagged"] /\ UNCHANGED nameTurns
Respawns ==
  /\ Arrived("act") /\ errand.kind = "respawn" /\ ~NamesLocked
  /\ IF MayRespawn(errand.who) /\ Len(rooms) < MaxRooms
     THEN Respawned(errand.who) /\ errand' = [errand EXCEPT !.at = "done", !.outcome = "respawned"] /\ UNCHANGED nameTurns
     ELSE Done("refused")

(* _fork-pane: the source is read when the popup asks for a name, and again by  *)
(* the background half: the session shown, unless a view, then its record.    *)
ShownName == IF inPane = 0 \/ IsView(inPane) THEN "" ELSE rooms[inPane].name
ForkPressed ==
  /\ ShownName # "" /\ Resolve(ShownName) # 0
  /\ Sets([Errand("fork", "popup", ShownName) EXCEPT !.who = Resolve(ShownName)])
NamesFork == Arrived("popup") /\ (Goes([errand EXCEPT !.at = "source"]) \/ Goes(NoTask))
ReadsSource ==
  /\ Arrived("source")
  /\ IF ShownName = "" THEN Done("nothing here")
     ELSE Goes([errand EXCEPT !.at = "fork", !.target = ShownName, !.meant = inPane])
Forks ==
  /\ Arrived("fork")
  /\ LET r == Resolve(errand.target) IN
     IF r = 0 THEN Done("nothing here")
     ELSE Goes([errand EXCEPT !.at = "done", !.outcome = "forked", !.todo = {r}, !.owned = Owned])

(* _relabel: the sessions there are, then each running record in turn.        *)
Relabels == Sets([Errand("relabel", "list", "") EXCEPT !.live = {rooms[s].name : s \in There}])
Lists == Arrived("list") /\ Goes([errand EXCEPT !.at = "next", !.todo = Living(Agents)])
TakesNext ==
  /\ Arrived("next")
  /\ IF errand.todo = {} THEN Done("labelled")
     ELSE LET a == Min(errand.todo) rest == errand.todo \ {a} IN
          IF roster[a].name \in errand.live
          THEN Goes([errand EXCEPT !.at = "label", !.who = a, !.todo = rest, !.label = LabelOf(a)])
          ELSE Goes([errand EXCEPT !.todo = rest])
Labels ==
  /\ Arrived("label")
  /\ rooms' = [s \in DOMAIN rooms |-> IF s \in Called(errand.label.name) THEN [rooms[s] EXCEPT !.label = errand.label] ELSE rooms[s]]
  /\ errand' = [errand EXCEPT !.at = "next"]
  /\ UNCHANGED <<roster, inPane, renaming, nameTurns>>

NamesNext ==
  \/ AllElse
  \/ KillPressed \/ Confirms \/ Declines \/ Resolves \/ Stops \/ Leaves \/ Guards \/ ClosesView
  \/ \E kind \in ByName, name \in Titles : TypedName(kind, name)
  \/ Wheres \/ Tags \/ Respawns \/ Forgets
  \/ ForkPressed \/ NamesFork \/ ReadsSource \/ Forks
  \/ Relabels \/ Lists \/ TakesNext \/ Labels

-----------------------------------------------------------------------------
(* Whatever happens between, a running agent's name is its own and so is its  *)
(* session's, once a rename is saved: every label, `whoami` and key that goes  *)
(* by the name of a session finds the agent that is in it.                  *)
NameMeansOwner ==
  \A s \in There : LET a == rooms[s].owner IN
    a # NoAgent /\ ~roster[a].ended /\ ~(renaming # NoTask /\ renaming.agent = a) =>
      /\ Resolve(rooms[s].name) = a /\ TmuxName(rooms[s].name) = {s}
      /\ NestedLabel(s) = LabelOf(a) /\ WhoAmI(s) = roster[a].name

(* `y` kills what the pane showed when the question was put, as long as that  *)
(* runs under its name, and a view closed by name is a view; "Killed" is said *)
(* of an agent when it is over, no session left and nobody having brought it  *)
(* back; "not found" when there is nothing of that name to stop.            *)
KillsHold ==
  Arrived("done") /\ errand.kind \in {"kill", "stop", "close"} =>
    /\ errand.outcome = "stopped" => roster[errand.who].ended /\ HomesOf(errand.who) = {}
    /\ errand.outcome \in {"stopped", "not running"} /\ errand.owned => errand.who = rooms[errand.meant].owner
    /\ errand.outcome = "stopped" /\ errand.owned /\ ~errand.stirred => errand.label = LabelOf(errand.who)
    /\ errand.outcome = "closed" /\ ~errand.stirred => (\A s \in errand.gone : IsView(s)) /\ (errand.owned => errand.gone = {errand.meant})
    /\ errand.outcome = "not found" /\ ~errand.stirred =>
         Living(Bearers(errand.target)) = {} /\ (errand.kind # "stop" => ~\E s \in Called(errand.target) : IsView(s))

(* A fork is of the agent in the pane, and of the one its popup named unless  *)
(* something changed; where an agent is said to be is its session, of the     *)
(* name asked for; a relabel nothing disturbed leaves each session its agent's *)
(* name and tags.                                                           *)
ErrandsHold ==
  Arrived("done") =>
    /\ errand.outcome = "forked" => (errand.owned => errand.todo = {rooms[errand.meant].owner}) /\ (~errand.stirred => errand.todo = {errand.who})
    /\ errand.outcome = "found" => rooms[errand.meant].owner = errand.who /\ (~errand.stirred => rooms[errand.meant].name = errand.target)
    /\ errand.outcome = "respawned" => ~roster[errand.who].ended /\ (~errand.stirred => Resolve(errand.target) = errand.who)
    /\ errand.outcome = "labelled" /\ ~errand.stirred =>
         \A s \in There : rooms[s].owner # NoAgent /\ ~roster[rooms[s].owner].ended => rooms[s].label = LabelOf(rooms[s].owner)

NamesHold == NameMeansOwner /\ KillsHold /\ ErrandsHold
=============================================================================
