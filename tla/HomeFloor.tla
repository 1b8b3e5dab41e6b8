---------------------------- MODULE HomeFloor -----------------------------
(***************************************************************************)
(* The floor: the pane of the `home` view that always shows the home TUI   *)
(* or what was chosen in it. `tx ui attach` installs it (install.rs,       *)
(* plugins/home floor.rs and verbs.rs); when its program ends, tmux's      *)
(* pane-died hook runs `_home-perform`, which reads the choice the TUI     *)
(* left in a file and puts the next program into the pane.                 *)
(***************************************************************************)
EXTENDS Naturals, Sequences

CONSTANTS
  FloorActors,    \* processes of `tx ui attach` and `_home-perform`
  FloorSessions,  \* sessions the home can attach
  MaxChoices,     \* bound: choices made in the TUI
  MaxDeaths,      \* bound: programs of the floor that end
  MaxAttaches,    \* bound: `tx ui attach` runs, each of which may open a pane
  MaxFloorFaults  \* bound: commands that fail, processes that die

ASSUME FloorAssumption == MaxAttaches \in Nat

VARIABLES
  floor,     \* [pane: its number, program, dead, remains: remain-on-exit,
             \*  hook: pane-died, marked]
  choice,    \* choice[k]: 0, or the number of the choice in choice.<pane k>
  last,      \* last[k]: whether last.<pane k> holds a session
  live,      \* the sessions there are
  actor,     \* actor[p]: what the process does, for which pane
  chosen,    \* chosen[n]: the action of choice n
  performed, \* how many actors performed choice n (history)
  floorExcused,   \* the floor was left dead by a failure (history)
  overlapped,\* an attach took the pane from a performer at work (history)
  deaths, attaches, floorFaults

floorVars == <<floor, choice, last, live, actor, chosen, performed, floorExcused,
               overlapped, deaths, attaches, floorFaults>>
floorBounds == <<deaths, attaches, floorFaults>>

Panes == 1..MaxAttaches
NoFloor(pane) == [pane |-> pane, program |-> "none", dead |-> FALSE, remains |-> FALSE,
                  hook |-> FALSE, marked |-> FALSE]
Off == [at |-> "off", pane |-> 0, read |-> 0, back |-> FALSE, takes |-> FALSE, enabled |-> TRUE]
Free == {p \in FloorActors : actor[p].at = "off"}
To(p, place) == actor' = [actor EXCEPT ![p].at = place]
ActorEnds(p) == actor' = [actor EXCEPT ![p] = Off]

(* the pane a process works for is there no more: its tmux commands fail *)
PaneLost(p) == floor.program = "none" \/ floor.pane # actor[p].pane

(* the actions of the TUI: attach a session, or one that ends in the home *)
Actions == FloorSessions \cup {"other"}
Hosting == {"shell"}   \* HOSTING_COMMANDS

FloorInit ==
  /\ floor = NoFloor(0)
  /\ choice = [k \in Panes |-> 0] /\ last = [k \in Panes |-> FALSE] /\ live = FloorSessions
  /\ actor = [p \in FloorActors |-> Off]
  /\ chosen = <<>> /\ performed = <<>> /\ floorExcused = FALSE /\ overlapped = FALSE
  /\ deaths = 0 /\ attaches = 0 /\ floorFaults = 0

-----------------------------------------------------------------------------
(* tx ui attach: ensure_home opens the view with a shell when it is not    *)
(* there; install_floor runs `_home-install`, or takes the floor away when *)
(* the home plugin is off.                                                 *)
AttachIde(p, enabled) ==
  /\ p \in Free /\ attaches < MaxAttaches
  /\ attaches' = attaches + 1
  /\ floor' = IF floor.program = "none"
                THEN [NoFloor(floor.pane + 1) EXCEPT !.program = "shell"] ELSE floor
  /\ actor' = [actor EXCEPT ![p] = [Off EXCEPT !.at = "list", !.enabled = enabled]]
  /\ UNCHANGED <<choice, last, live, chosen, performed, floorExcused, overlapped, deaths, floorFaults>>

(* the pane is judged as it was listed: dead, or a shell that hosts nothing;*)
(* a TUI of an earlier tx is replaced when the assistant is down            *)
ListPanes(p) ==
  /\ actor[p].at = "list"
  /\ IF floor.program = "none" \/ (~actor[p].enabled /\ ~floor.marked) THEN ActorEnds(p)
     ELSE \E earlier \in BOOLEAN :
       actor' = [actor EXCEPT ![p] =
         [@ EXCEPT !.at = IF actor[p].enabled THEN "keep" ELSE "unhook", !.pane = floor.pane,
                   !.back = floor.dead,
                   !.takes = floor.dead \/ floor.program \in Hosting
                             \/ (earlier /\ floor.program = "tui")]]
  /\ UNCHANGED <<floor, choice, last, live, chosen, performed, floorExcused, overlapped, floorBounds>>

KeepPane(p) ==
  /\ actor[p].at = "keep"
  /\ IF PaneLost(p) THEN ActorEnds(p) /\ UNCHANGED floor
     ELSE floor' = [floor EXCEPT !.marked = TRUE, !.remains = TRUE] /\ To(p, "hook")
  /\ UNCHANGED <<choice, last, live, chosen, performed, floorExcused, overlapped, floorBounds>>

SetHook(p) ==
  /\ actor[p].at = "hook"
  /\ IF PaneLost(p) THEN ActorEnds(p) /\ UNCHANGED <<floor, floorExcused>>
     ELSE /\ floor' = [floor EXCEPT !.hook = TRUE]
          /\ IF actor[p].takes THEN To(p, "clear") ELSE ActorEnds(p)
          /\ floorExcused' = (floorExcused \/ (floor.dead /\ ~actor[p].takes))
  /\ UNCHANGED <<choice, last, live, chosen, performed, overlapped, floorBounds>>

ClearFiles(p) ==
  /\ actor[p].at = "clear"
  /\ choice' = [choice EXCEPT ![actor[p].pane] = 0]
  /\ last' = [last EXCEPT ![actor[p].pane] = FALSE]
  /\ To(p, "first")
  /\ UNCHANGED <<floor, live, chosen, performed, floorExcused, overlapped, floorBounds>>

(* respawn-pane -k: whatever the pane runs is killed, without the hook *)
Runs(program) == floor' = [floor EXCEPT !.program = program, !.dead = FALSE]

Performing(q) == actor[q].at \in {"read", "remove", "perform", "show", "last", "back"}
TakesOver(p) ==
  overlapped' = (overlapped \/ \E q \in FloorActors : Performing(q) /\ actor[q].pane = floor.pane)

StartFirst(p) ==
  /\ actor[p].at = "first"
  /\ ActorEnds(p)
  /\ \/ ~PaneLost(p) /\ Runs("tui") /\ TakesOver(p) /\ UNCHANGED <<floorExcused, floorFaults>>
     \/ /\ IF PaneLost(p) THEN UNCHANGED <<floorExcused, floorFaults>>
           ELSE floorFaults < MaxFloorFaults /\ floorFaults' = floorFaults + 1 /\ floorExcused' = TRUE
        /\ UNCHANGED <<floor, overlapped>>
  /\ UNCHANGED <<choice, last, live, chosen, performed, deaths, attaches>>

-----------------------------------------------------------------------------
(* remove_floor: the hook, then the other options, then the shell where the *)
(* pane was listed dead                                                     *)
Unhook(p) ==
  /\ actor[p].at = "unhook"
  /\ IF PaneLost(p) THEN ActorEnds(p) /\ UNCHANGED floor
     ELSE floor' = [floor EXCEPT !.hook = FALSE] /\ To(p, "unkeep")
  /\ UNCHANGED <<choice, last, live, chosen, performed, floorExcused, overlapped, floorBounds>>

UnkeepPane(p) ==
  /\ actor[p].at = "unkeep"
  /\ IF PaneLost(p) THEN UNCHANGED floor
     ELSE floor' = [floor EXCEPT !.remains = FALSE, !.marked = FALSE]
  /\ IF PaneLost(p) \/ ~actor[p].back THEN ActorEnds(p) ELSE To(p, "shell")
  /\ UNCHANGED <<choice, last, live, chosen, performed, floorExcused, overlapped, floorBounds>>

StartShell(p) ==
  /\ actor[p].at = "shell"
  /\ ActorEnds(p)
  /\ IF PaneLost(p) THEN UNCHANGED <<floor, overlapped>> ELSE Runs("shell") /\ TakesOver(p)
  /\ UNCHANGED <<choice, last, live, chosen, performed, floorExcused, floorBounds>>

-----------------------------------------------------------------------------
(* the floor's program ends: the TUI after it recorded its choice (or,     *)
(* failing, none; or killed), a nested  *)
(* attach on a detach, a shell on exit. tmux keeps the dead pane while      *)
(* remain-on-exit is on, and starts the hook; else the view goes.           *)
FloorDies ==
  /\ floor.program # "none" /\ ~floor.dead /\ deaths < MaxDeaths
  /\ deaths' = deaths + 1
  /\ \/ floor.program # "tui" /\ UNCHANGED <<choice, chosen, performed>>
     \/ /\ floor.program = "tui" /\ Len(chosen) < MaxChoices
        /\ \E a \in Actions : chosen' = Append(chosen, a)
        /\ performed' = Append(performed, 0)
        /\ choice' = [choice EXCEPT ![floor.pane] = Len(chosen) + 1]
     \/ /\ floor.program = "tui" /\ UNCHANGED <<chosen, performed>>
        /\ choice' \in {choice, [choice EXCEPT ![floor.pane] = 0]}
  /\ floor' = IF floor.remains THEN [floor EXCEPT !.dead = TRUE] ELSE NoFloor(floor.pane)
  /\ IF floor.remains /\ floor.hook
       THEN \E p \in Free :
              actor' = [actor EXCEPT ![p] = [Off EXCEPT !.at = "read", !.pane = floor.pane]]
       ELSE UNCHANGED actor
  /\ UNCHANGED <<last, live, floorExcused, overlapped, attaches, floorFaults>>

(* _home-perform: take reads the file, then removes it; a file that is     *)
(* gone by then is an error, and no choice.                                *)
ReadChoice(p) ==
  /\ actor[p].at = "read"
  /\ LET n == choice[actor[p].pane] IN
     actor' = [actor EXCEPT ![p] = [@ EXCEPT !.read = n, !.at = IF n = 0 THEN "last" ELSE "remove"]]
  /\ UNCHANGED <<floor, choice, last, live, chosen, performed, floorExcused, overlapped, floorBounds>>

(* Mutant: the choice stays in its file.                                   *)
RemoveNoChoice(p) ==
  /\ actor[p].at = "remove"
  /\ To(p, "perform")
  /\ UNCHANGED <<floor, choice, last, live, chosen, performed, floorExcused, overlapped, floorBounds>>

RemoveChoice(p) ==
  /\ actor[p].at = "remove"
  /\ choice' = [choice EXCEPT ![actor[p].pane] = 0]
  /\ To(p, IF choice[actor[p].pane] = 0 THEN "last" ELSE "perform")
  /\ UNCHANGED <<floor, last, live, chosen, performed, floorExcused, overlapped, floorBounds>>

(* Performer::perform: an attach shows the session if it is live, and      *)
(* records it as the one to return from; every other action, and an attach *)
(* that cannot be, goes back to the home.                                  *)
Perform(p) ==
  /\ actor[p].at = "perform"
  /\ IF chosen[actor[p].read] \in live
       THEN last' = [last EXCEPT ![actor[p].pane] = TRUE] /\ To(p, "show")
       ELSE UNCHANGED last /\ To(p, "back")
  /\ performed' = [performed EXCEPT ![actor[p].read] = @ + 1]
  /\ UNCHANGED <<floor, choice, live, chosen, floorExcused, overlapped, floorBounds>>

Show(p) ==
  /\ actor[p].at = "show"
  /\ \/ ~PaneLost(p) /\ Runs("nest") /\ ActorEnds(p)
     \/ To(p, "back") /\ UNCHANGED floor
  /\ UNCHANGED <<choice, last, live, chosen, performed, floorExcused, overlapped, floorBounds>>

TakeLast(p) ==
  /\ actor[p].at = "last"
  /\ last' = [last EXCEPT ![actor[p].pane] = FALSE]
  /\ To(p, "back")
  /\ UNCHANGED <<floor, choice, live, chosen, performed, floorExcused, overlapped, floorBounds>>

Back(p) ==
  /\ actor[p].at = "back"
  /\ IF PaneLost(p) THEN UNCHANGED floor ELSE Runs("tui")
  /\ ActorEnds(p)
  /\ UNCHANGED <<choice, last, live, chosen, performed, floorExcused, overlapped, floorBounds>>

(* a process dies, or tmux refuses the last respawn *)
FloorFault(p) ==
  /\ actor[p].at # "off" /\ floorFaults < MaxFloorFaults
  /\ floorFaults' = floorFaults + 1
  /\ ActorEnds(p)
  /\ floorExcused' = TRUE
  /\ UNCHANGED <<floor, choice, last, live, chosen, performed, overlapped, deaths, attaches>>

SessionLeaves(s) ==
  /\ live' = live \ {s} /\ s \in live
  /\ UNCHANGED <<floor, choice, last, actor, chosen, performed, floorExcused, overlapped, floorBounds>>

FloorNext ==
  \/ \E p \in FloorActors :
       \/ AttachIde(p, TRUE) \/ AttachIde(p, FALSE)
       \/ ListPanes(p) \/ KeepPane(p) \/ SetHook(p) \/ ClearFiles(p) \/ StartFirst(p)
       \/ Unhook(p) \/ UnkeepPane(p) \/ StartShell(p)
       \/ ReadChoice(p) \/ RemoveChoice(p) \/ Perform(p) \/ Show(p) \/ TakeLast(p) \/ Back(p)
       \/ FloorFault(p)
  \/ FloorDies
  \/ \E s \in FloorSessions : SessionLeaves(s)

FloorSpec == FloorInit /\ [][FloorNext]_floorVars

-----------------------------------------------------------------------------
(* a performer of the pane, or an attach that puts the TUI into it *)
Serves(p) ==
  \/ actor[p].at = "list" /\ actor[p].enabled
  \/ /\ actor[p].pane = floor.pane
     /\ Performing(p) \/ (actor[p].at \in {"keep", "hook", "clear", "first"} /\ actor[p].takes)

(* A floor left dead is always someone's to bring back: an attach that     *)
(* will take it or a performer of its hook, unless one failed on the way   *)
(* or the program died before the hook was set (pane-died hook, Performer).*)
DeadFloorIsServed ==
  floor.dead /\ floor.hook /\ ~floorExcused => \E p \in FloorActors : Serves(p)

(* A choice made in the home is performed at most once, but when an attach *)
(* takes the pane from under a performer (take in verbs.rs).               *)
ChoicesRunOnce == ~overlapped => \A n \in DOMAIN performed : performed[n] <= 1

(* A dead floor pane is served or replaced, and a choice is performed once *)
(* (the pane-died hook, Performer, take).                                  *)
FloorServes == DeadFloorIsServed /\ ChoicesRunOnce
=============================================================================
