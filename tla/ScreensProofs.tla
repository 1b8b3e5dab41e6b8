---------------------------- MODULE ScreensProofs ----------------------------
(***************************************************************************)
(* The proofs about the screens' own machinery: the home's floor, for any  *)
(* number of processes, deaths and attaches (a dead floor pane always has  *)
(* a process that will bring it back, and a choice is performed once); the *)
(* session editor, for any texts, widths and writers (what it saves takes  *)
(* nothing from another writer, and its cursors are on their texts and     *)
(* painted inside the box), and the decoder of keys, for any bytes (where  *)
(* reads cut them does not matter); mockup previews, for any files and     *)
(* clients; the home's cursor, for any agents, views and answers (it stays *)
(* on its session); and the timeline's, for any payloads, keys and sizes   *)
(* (what it selects is shown, and a new payload leaves it where it was).   *)
(***************************************************************************)
EXTENDS
  HomeFloor, HomeScreen, Mockup, SessionEditor, TimelineScreen, FiniteSetTheorems,
  SequenceTheorems, WellFoundedInduction, TLAPS

ActorPlaces ==
  {"off", "list", "keep", "hook", "clear", "first", "unhook", "unkeep", "shell",
   "read", "remove", "perform", "show", "last", "back"}
FloorPane ==
  [pane : Nat, program : {"none", "shell", "tui", "nest"}, dead : BOOLEAN, remains : BOOLEAN,
   hook : BOOLEAN, marked : BOOLEAN]
FloorActor ==
  [at : ActorPlaces, pane : Nat, read : Nat, back : BOOLEAN, takes : BOOLEAN, enabled : BOOLEAN]

(* A process past its listing works for a pane there was; the choice it    *)
(* read is one that was made.                                              *)
Works(p) ==
  /\ actor[p].at \notin {"off", "list"} => actor[p].pane \in Panes
  /\ actor[p].at \in {"remove", "perform"} => actor[p].read \in 1..Len(chosen)

FloorTypeOK ==
  /\ floor \in FloorPane /\ attaches \in Nat /\ attaches <= MaxAttaches /\ floor.pane <= attaches
  /\ floor.program # "none" => floor.pane >= 1
  /\ floor.dead => floor.program # "none"
  /\ chosen \in Seq(Actions) /\ performed \in Seq(Nat) /\ Len(performed) = Len(chosen)
  /\ choice \in [Panes -> 0..Len(chosen)]
  /\ actor \in [FloorActors -> FloorActor]
  /\ \A p \in FloorActors : Works(p)

(* While no attach took the pane from a performer, there is one performer  *)
(* at most, and the pane it works for is dead.                             *)
OnePerformer ==
  ~overlapped =>
    \A p \in FloorActors : Performing(p) =>
      /\ floor.dead /\ actor[p].pane = floor.pane
      /\ \A q \in FloorActors : Performing(q) => q = p

(* A choice that is in a file, or that a performer took from one, is not   *)
(* performed yet, and is nowhere else.                                     *)
Pending(p) ==
  /\ actor[p].at \in {"remove", "perform"} => performed[actor[p].read] = 0
  /\ actor[p].at = "remove" => \A k \in Panes : choice[k] = actor[p].read => k = actor[p].pane
  /\ actor[p].at = "perform" => \A k \in Panes : choice[k] # actor[p].read

ChoicesPending ==
  ~overlapped =>
    /\ \A k \in Panes : choice[k] # 0 => performed[choice[k]] = 0
    /\ \A k, l \in Panes : choice[k] # 0 /\ choice[k] = choice[l] => k = l
    /\ \A p \in FloorActors : Pending(p)
    /\ \A n \in 1..Len(performed) : performed[n] <= 1

FloorInv == FloorTypeOK /\ DeadFloorIsServed /\ OnePerformer /\ ChoicesPending

-----------------------------------------------------------------------------
(* What the steps do to the processes and to the pane                      *)

LEMMA GoesTo ==
  ASSUME FloorTypeOK, NEW p \in FloorActors, NEW place \in ActorPlaces, To(p, place)
  PROVE  /\ actor' \in [FloorActors -> FloorActor]
         /\ actor'[p] = [actor[p] EXCEPT !.at = place]
         /\ actor'[p].at = place /\ actor'[p].pane = actor[p].pane
         /\ actor'[p].read = actor[p].read /\ actor'[p].takes = actor[p].takes
         /\ \A q \in FloorActors : q # p => actor'[q] = actor[q]
BY DEF FloorTypeOK, To, FloorActor

LEMMA Ends ==
  ASSUME FloorTypeOK, NEW p \in FloorActors, ActorEnds(p)
  PROVE  /\ actor' \in [FloorActors -> FloorActor]
         /\ actor'[p].at = "off"
         /\ \A q \in FloorActors : q # p => actor'[q] = actor[q]
BY DEF FloorTypeOK, ActorEnds, FloorActor, Off, ActorPlaces

LEMMA RunsProgram ==
  ASSUME FloorTypeOK, NEW program \in {"shell", "tui", "nest"}, Runs(program)
  PROVE  /\ floor' \in FloorPane /\ floor'.pane = floor.pane /\ floor'.program = program
         /\ floor'.dead = FALSE /\ floor'.hook = floor.hook
BY DEF FloorTypeOK, Runs, FloorPane


LEMMA Listed ==
  ASSUME FloorTypeOK, NEW p \in FloorActors, ListPanes(p),
         floor.program # "none", actor[p].enabled \/ floor.marked
  PROVE  \E t \in BOOLEAN, place \in {"keep", "unhook"} :
           /\ floor.dead => t
           /\ actor[p].enabled => place = "keep"
           /\ actor' = [actor EXCEPT ![p] = [@ EXCEPT !.at = place, !.pane = floor.pane,
                                                     !.back = floor.dead, !.takes = t]]
<1>2. PICK earlier \in BOOLEAN :
        actor' = [actor EXCEPT ![p] =
          [@ EXCEPT !.at = IF actor[p].enabled THEN "keep" ELSE "unhook", !.pane = floor.pane,
                    !.back = floor.dead,
                    !.takes = floor.dead \/ floor.program \in Hosting
                              \/ (earlier /\ floor.program = "tui")]]
  BY DEF ListPanes
<1>3. PICK t \in BOOLEAN : t = (floor.dead \/ floor.program \in Hosting
                                \/ (earlier /\ floor.program = "tui"))
  OBVIOUS
<1>4. PICK place \in {"keep", "unhook"} : place = IF actor[p].enabled THEN "keep" ELSE "unhook"
  OBVIOUS
<1>5. /\ floor.dead => t
      /\ actor[p].enabled => place = "keep"
      /\ actor' = [actor EXCEPT ![p] = [@ EXCEPT !.at = place, !.pane = floor.pane,
                                                !.back = floor.dead, !.takes = t]]
  BY <1>2, <1>3, <1>4
<1> QED BY <1>5

LEMMA ChoiceMade ==
  ASSUME FloorTypeOK, NEW a \in Actions, chosen' = Append(chosen, a), performed' = Append(performed, 0)
  PROVE  /\ chosen' \in Seq(Actions) /\ performed' \in Seq(Nat)
         /\ Len(chosen') = Len(chosen) + 1 /\ Len(performed') = Len(chosen')
         /\ performed'[Len(chosen) + 1] = 0
         /\ \A n \in 1..Len(chosen) : performed'[n] = performed[n]
BY DEF FloorTypeOK

LEMMA FloorTyped ==
  ASSUME FloorTypeOK, [FloorNext]_floorVars
  PROVE  FloorTypeOK'
<1>1. MaxAttaches \in Nat /\ Panes = 1..MaxAttaches
  BY FloorAssumption DEF Panes
<1>2. ASSUME NEW p \in FloorActors, NEW e \in BOOLEAN, AttachIde(p, e)
      PROVE  FloorTypeOK'
  <2>1. /\ floor' \in FloorPane /\ floor'.pane <= attaches' /\ attaches' \in Nat
        /\ attaches' <= MaxAttaches
        /\ (floor'.program # "none" => floor'.pane >= 1)
        /\ (floor'.dead => floor'.program # "none")
    <3>1. CASE floor.program = "none"
      <4>1. floor' = [pane |-> floor.pane + 1, program |-> "shell", dead |-> FALSE,
                      remains |-> FALSE, hook |-> FALSE, marked |-> FALSE]
        BY <1>2, <3>1 DEF AttachIde, NoFloor
      <4>2. floor.pane \in Nat /\ attaches' = attaches + 1 /\ attaches < MaxAttaches
        BY <1>2 DEF AttachIde, FloorTypeOK, FloorPane
      <4> QED BY <1>1, <4>1, <4>2 DEF FloorTypeOK, FloorPane
    <3>2. CASE floor.program # "none"
      <4>1. floor' = floor /\ attaches' = attaches + 1 /\ attaches < MaxAttaches
        BY <1>2, <3>2 DEF AttachIde
      <4>2. floor.pane \in Nat
        BY DEF FloorTypeOK, FloorPane
      <4> QED BY <1>1, <4>1, <4>2 DEF FloorTypeOK
    <3> QED BY <3>1, <3>2
  <2>2. /\ actor' \in [FloorActors -> FloorActor] /\ actor'[p].at = "list"
        /\ \A q \in FloorActors : q # p => actor'[q] = actor[q]
    BY <1>2 DEF AttachIde, FloorTypeOK, FloorActor, Off, ActorPlaces
  <2>3. UNCHANGED <<choice, chosen, performed>>
    BY <1>2 DEF AttachIde
  <2>4. \A q \in FloorActors : Works(q)'
    BY <2>2, <2>3 DEF Works, FloorTypeOK
  <2> QED BY <2>1, <2>2, <2>3, <2>4 DEF FloorTypeOK
<1>3. ASSUME NEW p \in FloorActors, ListPanes(p)
      PROVE  FloorTypeOK'
  <2>1. UNCHANGED <<floor, attaches, choice, chosen, performed>>
    BY <1>3 DEF ListPanes, floorBounds
  <2>2. /\ actor' \in [FloorActors -> FloorActor] /\ actor'[p].at \in {"off", "keep", "unhook"}
        /\ actor'[p].at # "off" => actor'[p].pane = floor.pane /\ floor.program # "none"
        /\ \A q \in FloorActors : q # p => actor'[q] = actor[q]
    <3>1. CASE floor.program = "none" \/ (~actor[p].enabled /\ ~floor.marked)
      BY <1>3, <3>1, Ends DEF ListPanes
    <3>2. CASE floor.program # "none" /\ (actor[p].enabled \/ floor.marked)
      <4>1. PICK t \in BOOLEAN, place \in {"keep", "unhook"} :
              actor' = [actor EXCEPT ![p] = [@ EXCEPT !.at = place, !.pane = floor.pane,
                                                     !.back = floor.dead, !.takes = t]]
        BY <1>3, <3>2, Listed
      <4>2. floor.pane \in Nat /\ floor.dead \in BOOLEAN /\ floor.program # "none"
        BY <3>2 DEF FloorTypeOK, FloorPane
      <4> QED BY <4>1, <4>2, ZenonT(60) DEF FloorTypeOK, FloorActor, ActorPlaces
    <3> QED BY <3>1, <3>2
  <2>3. \A q \in FloorActors : Works(q)'
    BY <1>1, <2>1, <2>2 DEF Works, FloorTypeOK, FloorPane
  <2> QED BY <2>1, <2>2, <2>3 DEF FloorTypeOK
<1>4. ASSUME NEW p \in FloorActors,
             KeepPane(p) \/ SetHook(p) \/ Unhook(p) \/ UnkeepPane(p)
      PROVE  FloorTypeOK'
  <2>1. /\ floor' \in FloorPane /\ floor'.pane = floor.pane /\ floor'.program = floor.program
        /\ floor'.dead = floor.dead
    BY <1>4, ZenonT(60) DEF KeepPane, SetHook, Unhook, UnkeepPane, FloorTypeOK, FloorPane
  <2>2. /\ UNCHANGED <<attaches, choice, chosen, performed>>
        /\ actor[p].at \in {"keep", "hook", "unhook", "unkeep"}
    BY <1>4 DEF KeepPane, SetHook, Unhook, UnkeepPane, floorBounds
  <2>3. ActorEnds(p) \/ \E place \in {"hook", "clear", "unkeep", "shell"} : To(p, place)
    BY <1>4 DEF KeepPane, SetHook, Unhook, UnkeepPane
  <2>4. /\ actor' \in [FloorActors -> FloorActor]
        /\ actor'[p].at \in {"off", "hook", "clear", "unkeep", "shell"}
        /\ actor'[p].at # "off" => actor'[p].pane = actor[p].pane
        /\ \A q \in FloorActors : q # p => actor'[q] = actor[q]
    BY <2>3, Ends, GoesTo DEF ActorPlaces
  <2>5. \A q \in FloorActors : Works(q)'
    BY <2>2, <2>4 DEF Works, FloorTypeOK
  <2> QED BY <2>1, <2>2, <2>4, <2>5 DEF FloorTypeOK
<1>5. ASSUME NEW p \in FloorActors, ClearFiles(p) \/ RemoveChoice(p)
      PROVE  FloorTypeOK'
  <2>1. /\ choice' = [choice EXCEPT ![actor[p].pane] = 0]
        /\ UNCHANGED <<floor, attaches, chosen, performed>>
        /\ actor[p].at \in {"clear", "remove"}
    BY <1>5 DEF ClearFiles, RemoveChoice, floorBounds
  <2>2. /\ To(p, "first") \/ To(p, "last") \/ To(p, "perform")
        /\ To(p, "perform") => actor[p].at = "remove"
    <3>1. ClearFiles(p) => To(p, "first") /\ actor[p].at = "clear"
      BY DEF ClearFiles
    <3>2. RemoveChoice(p) => (To(p, "last") \/ To(p, "perform")) /\ actor[p].at = "remove"
      BY DEF RemoveChoice
    <3>3. ~(To(p, "first") /\ To(p, "perform"))
      BY GoesTo DEF ActorPlaces
    <3> QED BY <1>5, <3>1, <3>2, <3>3
  <2>3. /\ actor' \in [FloorActors -> FloorActor]
        /\ actor'[p].at \in {"first", "last", "perform"}
        /\ actor'[p].pane = actor[p].pane /\ actor'[p].read = actor[p].read
        /\ actor'[p].at = "perform" => actor[p].at = "remove"
        /\ \A q \in FloorActors : q # p => actor'[q] = actor[q]
    BY <2>2, GoesTo DEF ActorPlaces
  <2>4. \A q \in FloorActors : Works(q)'
    BY <2>1, <2>3 DEF Works, FloorTypeOK
  <2>5. choice' \in [Panes -> 0..Len(chosen')]
    <3>1. Len(chosen) \in Nat /\ chosen' = chosen
      BY <2>1 DEF FloorTypeOK
    <3>2. choice \in [Panes -> 0..Len(chosen)] /\ 0 \in 0..Len(chosen)
      BY <3>1 DEF FloorTypeOK
    <3> QED BY <2>1, <3>1, <3>2
  <2> QED BY <2>1, <2>3, <2>4, <2>5 DEF FloorTypeOK
<1>6. ASSUME NEW p \in FloorActors,
             StartFirst(p) \/ StartShell(p) \/ Show(p) \/ Back(p) \/ TakeLast(p) \/ FloorFault(p)
      PROVE  FloorTypeOK'
  <2>1. ActorEnds(p) \/ (To(p, "back") /\ actor[p].at \in {"show", "last"})
    BY <1>6 DEF StartFirst, StartShell, Show, Back, TakeLast, FloorFault
  <2>2. UNCHANGED <<attaches, chosen, performed, choice>>
    BY <1>6 DEF StartFirst, StartShell, Show, Back, TakeLast, FloorFault, floorBounds
  <2>3. floor' = floor \/ ((Runs("tui") \/ Runs("nest") \/ Runs("shell")) /\ ~PaneLost(p))
    <3>1. CASE StartFirst(p)
      BY <3>1 DEF StartFirst
    <3>2. CASE StartShell(p)
      BY <3>2 DEF StartShell
    <3>3. CASE Show(p)
      BY <3>3 DEF Show
    <3>4. CASE Back(p)
      BY <3>4 DEF Back
    <3>5. CASE TakeLast(p) \/ FloorFault(p)
      BY <3>5 DEF TakeLast, FloorFault
    <3> QED BY <1>6, <3>1, <3>2, <3>3, <3>4, <3>5
  <2>4. /\ floor' \in FloorPane /\ floor'.pane = floor.pane
        /\ floor'.program # "none" => floor.pane >= 1
        /\ floor'.dead => floor'.program # "none"
    <3>1. CASE floor' = floor
      BY <3>1 DEF FloorTypeOK
    <3>2. CASE (Runs("tui") \/ Runs("nest") \/ Runs("shell")) /\ ~PaneLost(p)
      <4>1. floor' \in FloorPane /\ floor'.pane = floor.pane /\ floor'.dead = FALSE
        BY <3>2, RunsProgram
      <4>2. floor.program # "none"
        BY <3>2 DEF PaneLost
      <4> QED BY <4>1, <4>2 DEF FloorTypeOK
    <3> QED BY <2>3, <3>1, <3>2
  <2>5. /\ actor' \in [FloorActors -> FloorActor] /\ actor'[p].at \in {"off", "back"}
        /\ actor'[p].at # "off" =>
             actor'[p].pane = actor[p].pane /\ actor[p].at \in {"show", "last"}
        /\ \A q \in FloorActors : q # p => actor'[q] = actor[q]
    BY <2>1, Ends, GoesTo DEF ActorPlaces
  <2>6. \A q \in FloorActors : Works(q)'
    BY <2>2, <2>5 DEF Works, FloorTypeOK
  <2> QED BY <2>2, <2>4, <2>5, <2>6 DEF FloorTypeOK
<1>7. ASSUME NEW p \in FloorActors, ReadChoice(p)
      PROVE  FloorTypeOK'
  <2>1. /\ UNCHANGED <<floor, attaches, chosen, performed, choice>> /\ actor[p].at = "read"
    BY <1>7 DEF ReadChoice, floorBounds
  <2>2. PICK n \in 0..Len(chosen) : n = choice[actor[p].pane]
    BY <2>1 DEF FloorTypeOK, Works
  <2>3. PICK at \in {"last", "remove"} : at = IF n = 0 THEN "last" ELSE "remove"
    OBVIOUS
  <2>4. actor' = [actor EXCEPT ![p] = [@ EXCEPT !.read = n, !.at = at]]
    BY <1>7, <2>2, <2>3 DEF ReadChoice
  <2>5. n \in Nat /\ Len(chosen) \in Nat
    BY <2>2 DEF FloorTypeOK
  <2>6. /\ actor' \in [FloorActors -> FloorActor] /\ actor'[p].at = at /\ actor'[p].read = n
        /\ actor'[p].pane = actor[p].pane
        /\ \A q \in FloorActors : q # p => actor'[q] = actor[q]
    BY <2>4, <2>5, ZenonT(60) DEF FloorTypeOK, FloorActor, ActorPlaces
  <2>7. at = "remove" => n \in 1..Len(chosen)
    BY <2>2, <2>3, <2>5
  <2>8. \A q \in FloorActors : Works(q)'
    BY <2>1, <2>3, <2>6, <2>7 DEF Works, FloorTypeOK
  <2> QED BY <2>1, <2>6, <2>8 DEF FloorTypeOK
<1>8. ASSUME NEW p \in FloorActors, Perform(p)
      PROVE  FloorTypeOK'
  <2>1. /\ UNCHANGED <<floor, attaches, chosen, choice>> /\ actor[p].at = "perform"
        /\ performed' = [performed EXCEPT ![actor[p].read] = @ + 1]
        /\ To(p, "show") \/ To(p, "back")
    BY <1>8 DEF Perform, floorBounds
  <2>2. /\ actor' \in [FloorActors -> FloorActor] /\ actor'[p].at \in {"show", "back"}
        /\ actor'[p].pane = actor[p].pane
        /\ \A q \in FloorActors : q # p => actor'[q] = actor[q]
    BY <2>1, GoesTo DEF ActorPlaces
  <2>3. actor[p].read \in 1..Len(performed) /\ performed \in Seq(Nat)
    BY <2>1 DEF FloorTypeOK, Works
  <2>4. performed' \in Seq(Nat) /\ Len(performed') = Len(performed)
    BY <2>1, <2>3
  <2>5. \A q \in FloorActors : Works(q)'
    BY <2>1, <2>2 DEF Works, FloorTypeOK
  <2> QED BY <2>1, <2>2, <2>4, <2>5 DEF FloorTypeOK
<1>9. CASE FloorDies
  <2>1. floor.program # "none" /\ attaches' = attaches
    BY <1>9 DEF FloorDies
  <2>2. floor.pane \in Panes /\ floor.pane \in Nat
    BY <1>1, <2>1 DEF FloorTypeOK, FloorPane
  <2>3. /\ chosen' \in Seq(Actions) /\ performed' \in Seq(Nat) /\ Len(performed') = Len(chosen')
        /\ Len(chosen') >= Len(chosen) /\ choice' \in [Panes -> 0..Len(chosen')]
    <3>1. CASE UNCHANGED <<chosen, performed>>
      <4>1. choice' = choice \/ choice' = [choice EXCEPT ![floor.pane] = 0]
        BY <1>9, <3>1 DEF FloorDies, FloorTypeOK
      <4>2. choice \in [Panes -> 0..Len(chosen)] /\ Len(chosen) \in Nat
        BY DEF FloorTypeOK
      <4> QED BY <3>1, <4>1, <4>2 DEF FloorTypeOK
    <3>2. CASE ~UNCHANGED <<chosen, performed>>
      <4>1. /\ \E a \in Actions : chosen' = Append(chosen, a)
            /\ performed' = Append(performed, 0)
            /\ choice' = [choice EXCEPT ![floor.pane] = Len(chosen) + 1]
        BY <1>9, <3>2 DEF FloorDies
      <4>2. /\ chosen' \in Seq(Actions) /\ performed' \in Seq(Nat)
            /\ Len(chosen') = Len(chosen) + 1 /\ Len(performed') = Len(chosen')
        BY <4>1, ChoiceMade
      <4>3. choice \in [Panes -> 0..Len(chosen)] /\ Len(chosen) \in Nat
        BY DEF FloorTypeOK
      <4> QED BY <2>2, <4>1, <4>2, <4>3
    <3> QED BY <3>1, <3>2
  <2>4. /\ floor' \in FloorPane /\ floor'.pane = floor.pane
        /\ (floor'.dead => floor'.program # "none")
    BY <1>9, <2>1, <2>2 DEF FloorDies, FloorTypeOK, FloorPane, NoFloor
  <2>5. /\ actor' \in [FloorActors -> FloorActor]
        /\ \A q \in FloorActors : actor'[q] = actor[q]
             \/ (actor'[q].at = "read" /\ actor'[q].pane = floor.pane)
    <3>1. CASE actor' = actor
      BY <3>1 DEF FloorTypeOK
    <3>2. CASE actor' # actor
      <4>1. PICK p \in FloorActors :
              actor' = [actor EXCEPT ![p] = [Off EXCEPT !.at = "read", !.pane = floor.pane]]
        BY <1>9, <3>2 DEF FloorDies, Free
      <4> QED BY <2>2, <4>1 DEF FloorTypeOK, FloorActor, Off, ActorPlaces
    <3> QED BY <3>1, <3>2
  <2>6. \A q \in FloorActors : Works(q)'
    <3>1. Len(chosen) \in Nat /\ Len(chosen') \in Nat
      BY <2>3 DEF FloorTypeOK
    <3>2. 1..Len(chosen) \subseteq 1..Len(chosen')
      BY <2>3, <3>1
    <3> QED BY <2>2, <2>5, <3>2 DEF Works, FloorTypeOK
  <2> QED BY <2>1, <2>2, <2>3, <2>4, <2>5, <2>6 DEF FloorTypeOK, Panes
<1>10. CASE (\E s \in FloorSessions : SessionLeaves(s)) \/ UNCHANGED floorVars
  <2>1. UNCHANGED <<floor, attaches, chosen, performed, choice, actor>>
    BY <1>10 DEF SessionLeaves, floorVars, floorBounds
  <2>2. \A q \in FloorActors : Works(q)'
    BY <2>1 DEF Works, FloorTypeOK
  <2> QED BY <2>1, <2>2 DEF FloorTypeOK
<1> QED BY <1>2, <1>3, <1>4, <1>5, <1>6, <1>7, <1>8, <1>9, <1>10 DEF FloorNext


-----------------------------------------------------------------------------
(* A dead floor is served                                                  *)

LEMMA StillServes ==
  ASSUME NEW w \in FloorActors, Serves(w), actor'[w] = actor[w], floor'.pane = floor.pane
  PROVE  Serves(w)'
BY DEF Serves, Performing

LEMMA FloorServed ==
  ASSUME FloorTypeOK, DeadFloorIsServed, [FloorNext]_floorVars
  PROVE  DeadFloorIsServed'
<1>1. SUFFICES ASSUME floor'.dead, floor'.hook, ~floorExcused'
               PROVE  \E w \in FloorActors : Serves(w)'
  BY DEF DeadFloorIsServed
<1>2. ASSUME NEW p \in FloorActors, NEW e \in BOOLEAN, AttachIde(p, e)
      PROVE  \E w \in FloorActors : Serves(w)'
  <2>1. floor' = floor /\ floorExcused' = floorExcused
    BY <1>1, <1>2 DEF AttachIde, NoFloor
  <2>2. PICK w \in FloorActors : Serves(w)
    BY <1>1, <2>1 DEF DeadFloorIsServed
  <2>3. actor[p].at = "off" /\ actor' = [actor EXCEPT ![p] = [Off EXCEPT !.at = "list", !.enabled = e]]
    BY <1>2 DEF AttachIde, Free
  <2>4. w # p
    BY <2>2, <2>3 DEF Serves, Performing
  <2> QED BY <2>1, <2>2, <2>3, <2>4, StillServes DEF FloorTypeOK
<1>3. ASSUME NEW p \in FloorActors, ListPanes(p)
      PROVE  \E w \in FloorActors : Serves(w)'
  <2>1. floor' = floor /\ floorExcused' = floorExcused /\ actor[p].at = "list"
    BY <1>3 DEF ListPanes
  <2>2. PICK w \in FloorActors : Serves(w)
    BY <1>1, <2>1 DEF DeadFloorIsServed
  <2>3. floor.dead /\ floor.program # "none"
    BY <1>1, <2>1 DEF FloorTypeOK
  <2>4. CASE w # p
    <3>1. actor'[w] = actor[w]
      BY <1>3, <2>4 DEF ListPanes, ActorEnds, FloorTypeOK
    <3> QED BY <2>1, <2>2, <3>1, StillServes
  <2>5. CASE w = p
    <3>1. actor[p].enabled
      BY <2>1, <2>2, <2>5 DEF Serves, Performing
    <3>2. actor'[p].at = "keep" /\ actor'[p].pane = floor.pane /\ actor'[p].takes
      <4>1. PICK t \in BOOLEAN, place \in {"keep", "unhook"} :
              /\ floor.dead => t
              /\ actor[p].enabled => place = "keep"
              /\ actor' = [actor EXCEPT ![p] = [@ EXCEPT !.at = place, !.pane = floor.pane,
                                                        !.back = floor.dead, !.takes = t]]
        BY <1>3, <2>3, <3>1, Listed
      <4>2. /\ actor'[p].at = place /\ actor'[p].pane = floor.pane /\ actor'[p].takes = t
        BY <4>1 DEF FloorTypeOK, FloorActor
      <4> QED BY <2>3, <3>1, <4>1, <4>2
    <3>3. Serves(p)'
      BY <2>1, <3>2 DEF Serves
    <3> QED BY <3>3
  <2> QED BY <2>4, <2>5
<1>4. ASSUME NEW p \in FloorActors, NEW place \in ActorPlaces, To(p, place),
             floor' = floor, floorExcused' = floorExcused,
             Serves(p) => \/ place \in {"hook", "clear", "first"} /\ actor[p].takes
                          \/ place \in {"read", "remove", "perform", "show", "last", "back"},
             actor[p].at # "list"
      PROVE  \E w \in FloorActors : Serves(w)'
  <2>1. PICK w \in FloorActors : Serves(w)
    BY <1>1, <1>4 DEF DeadFloorIsServed
  <2>2. CASE w # p
    BY <1>4, <2>1, <2>2, GoesTo, StillServes
  <2>3. CASE w = p
    <3>1. actor'[p].at = place /\ actor'[p].pane = actor[p].pane /\ actor'[p].takes = actor[p].takes
      BY <1>4, GoesTo
    <3>2. actor[p].pane = floor.pane
      BY <1>4, <2>1, <2>3 DEF Serves
    <3>3. Serves(p)'
      BY <1>4, <2>1, <2>3, <3>1, <3>2 DEF Serves, Performing
    <3> QED BY <3>3
  <2> QED BY <2>2, <2>3
<1>5. ASSUME NEW p \in FloorActors, ActorEnds(p), ~Serves(p),
             floor' = floor, floorExcused' = floorExcused
      PROVE  \E w \in FloorActors : Serves(w)'
  <2>1. PICK w \in FloorActors : Serves(w)
    BY <1>1, <1>5 DEF DeadFloorIsServed
  <2> QED BY <1>5, <2>1, Ends, StillServes
<1>6. ASSUME NEW p \in FloorActors, PaneLost(p), floor' = floor
      PROVE  ~Serves(p) \/ actor[p].at = "list"
  <2>1. floor.program # "none"
    BY <1>1, <1>6 DEF FloorTypeOK
  <2> QED BY <1>6, <2>1 DEF PaneLost, Serves
<1>7. ASSUME NEW program, Runs(program) PROVE FALSE
  BY <1>1, <1>7 DEF Runs, FloorTypeOK, FloorPane
<1>8. ASSUME NEW p \in FloorActors, KeepPane(p)
      PROVE  \E w \in FloorActors : Serves(w)'
  <2>1. actor[p].at = "keep" /\ floorExcused' = floorExcused
    BY <1>8 DEF KeepPane
  <2>2. CASE PaneLost(p)
    BY <1>5, <1>6, <1>8, <2>1, <2>2 DEF KeepPane
  <2>3. CASE ~PaneLost(p)
    <3>1. /\ floor'.pane = floor.pane /\ floor'.dead = floor.dead /\ floor'.hook = floor.hook
          /\ To(p, "hook")
      BY <1>8, <2>3 DEF KeepPane, FloorTypeOK, FloorPane
    <3>2. PICK w \in FloorActors : Serves(w)
      BY <1>1, <2>1, <3>1 DEF DeadFloorIsServed
    <3>3. CASE w # p
      BY <3>1, <3>2, <3>3, GoesTo, StillServes DEF ActorPlaces
    <3>4. CASE w = p
      <4>1. actor'[p].at = "hook" /\ actor'[p].pane = actor[p].pane /\ actor'[p].takes = actor[p].takes
        BY <3>1, GoesTo DEF ActorPlaces
      <4>2. Serves(p)'
        BY <2>1, <3>1, <3>2, <3>4, <4>1 DEF Serves, Performing
      <4> QED BY <4>2
    <3> QED BY <3>3, <3>4
  <2> QED BY <2>2, <2>3
<1>9. ASSUME NEW p \in FloorActors, SetHook(p)
      PROVE  \E w \in FloorActors : Serves(w)'
  <2>1. actor[p].at = "hook"
    BY <1>9 DEF SetHook
  <2>2. CASE PaneLost(p)
    BY <1>5, <1>6, <1>9, <2>1, <2>2 DEF SetHook
  <2>3. CASE ~PaneLost(p)
    <3>1. floor'.pane = floor.pane /\ floor'.dead = floor.dead /\ floor.pane = actor[p].pane
      BY <1>9, <2>3 DEF SetHook, FloorTypeOK, FloorPane, PaneLost
    <3>2. actor[p].takes
      BY <1>1, <1>9, <2>3, <3>1 DEF SetHook
    <3>3. To(p, "clear")
      BY <1>9, <2>3, <3>2 DEF SetHook
    <3>4. actor'[p].at = "clear" /\ actor'[p].pane = actor[p].pane /\ actor'[p].takes = actor[p].takes
      BY <3>3, GoesTo DEF ActorPlaces
    <3>5. Serves(p)'
      BY <3>1, <3>2, <3>4 DEF Serves, Performing
    <3> QED BY <3>5
  <2> QED BY <2>2, <2>3
<1>10. ASSUME NEW p \in FloorActors, StartFirst(p)
      PROVE  \E w \in FloorActors : Serves(w)'
  <2>1. PaneLost(p) /\ floor' = floor /\ floorExcused' = floorExcused /\ ActorEnds(p)
        /\ actor[p].at = "first"
    BY <1>1, <1>7, <1>10 DEF StartFirst
  <2> QED BY <1>5, <1>6, <2>1
<1>11. ASSUME NEW p \in FloorActors, Unhook(p) \/ UnkeepPane(p) \/ StartShell(p)
       PROVE  \E w \in FloorActors : Serves(w)'
  <2>1. actor[p].at \in {"unhook", "unkeep", "shell"} /\ ~Serves(p) /\ floorExcused' = floorExcused
    BY <1>11 DEF Unhook, UnkeepPane, StartShell, Serves, Performing
  <2>2. \A q \in FloorActors : q # p => actor'[q] = actor[q]
    BY <1>11, Ends, GoesTo DEF Unhook, UnkeepPane, StartShell, ActorPlaces
  <2>3. floor'.pane = floor.pane /\ floor'.dead = floor.dead /\ floor'.hook = floor.hook
    <3>1. CASE Unhook(p)
      BY <1>1, <3>1 DEF Unhook, FloorTypeOK, FloorPane
    <3>2. CASE UnkeepPane(p)
      BY <3>2 DEF UnkeepPane, FloorTypeOK, FloorPane
    <3>3. CASE StartShell(p)
      BY <1>7, <3>3 DEF StartShell
    <3> QED BY <1>11, <3>1, <3>2, <3>3
  <2>4. PICK w \in FloorActors : Serves(w)
    BY <1>1, <2>1, <2>3 DEF DeadFloorIsServed
  <2> QED BY <2>1, <2>2, <2>3, <2>4, StillServes
<1>12. ASSUME NEW p \in FloorActors, ClearFiles(p)
       PROVE  \E w \in FloorActors : Serves(w)'
  <2>1. Serves(p) => actor[p].takes
    BY <1>12 DEF ClearFiles, Serves, Performing
  <2> QED BY <1>4, <1>12, <2>1 DEF ClearFiles, ActorPlaces
<1>13. ASSUME NEW p \in FloorActors, RemoveChoice(p) \/ Perform(p) \/ TakeLast(p)
       PROVE  \E w \in FloorActors : Serves(w)'
  <2>1. /\ floor' = floor /\ floorExcused' = floorExcused /\ actor[p].at # "list"
        /\ \E place \in {"last", "perform", "show", "back"} : To(p, place)
    BY <1>13 DEF RemoveChoice, Perform, TakeLast
  <2> QED BY <1>4, <2>1 DEF ActorPlaces
<1>14. ASSUME NEW p \in FloorActors, ReadChoice(p)
       PROVE  \E w \in FloorActors : Serves(w)'
  <2>1. floor' = floor /\ floorExcused' = floorExcused /\ actor[p].at = "read"
    BY <1>14 DEF ReadChoice
  <2>2. PICK w \in FloorActors : Serves(w)
    BY <1>1, <2>1 DEF DeadFloorIsServed
  <2>3. /\ actor'[p].pane = actor[p].pane /\ actor'[p].at \in {"last", "remove"}
        /\ \A q \in FloorActors : q # p => actor'[q] = actor[q]
    BY <1>14 DEF ReadChoice, FloorTypeOK, FloorActor
  <2>4. CASE w # p
    BY <2>1, <2>2, <2>3, <2>4, StillServes
  <2>5. CASE w = p
    <3>1. Serves(p)'
      BY <2>1, <2>2, <2>3, <2>5 DEF Serves, Performing
    <3> QED BY <3>1
  <2> QED BY <2>4, <2>5
<1>15. ASSUME NEW p \in FloorActors, Show(p)
       PROVE  \E w \in FloorActors : Serves(w)'
  <2>1. To(p, "back") /\ floor' = floor /\ floorExcused' = floorExcused /\ actor[p].at = "show"
    BY <1>7, <1>15 DEF Show
  <2> QED BY <1>4, <2>1 DEF ActorPlaces
<1>16. ASSUME NEW p \in FloorActors, Back(p)
       PROVE  \E w \in FloorActors : Serves(w)'
  <2>1. PaneLost(p) /\ floor' = floor /\ floorExcused' = floorExcused /\ ActorEnds(p)
        /\ actor[p].at = "back"
    BY <1>7, <1>16 DEF Back
  <2> QED BY <1>5, <1>6, <2>1
<1>17. ASSUME NEW p \in FloorActors, FloorFault(p) PROVE FALSE
  BY <1>1, <1>17 DEF FloorFault
<1>18. CASE FloorDies
  <2>1. floor' = [floor EXCEPT !.dead = TRUE] /\ floor.remains
    BY <1>1, <1>18 DEF FloorDies, NoFloor
  <2>2. floor.hook /\ floor'.pane = floor.pane
    BY <1>1, <2>1 DEF FloorTypeOK, FloorPane
  <2>3. PICK p \in FloorActors :
          actor' = [actor EXCEPT ![p] = [Off EXCEPT !.at = "read", !.pane = floor.pane]]
    BY <1>18, <2>1, <2>2 DEF FloorDies, Free
  <2>4. actor'[p].at = "read" /\ actor'[p].pane = floor'.pane
    BY <2>2, <2>3 DEF FloorTypeOK, Off
  <2>5. Serves(p)'
    BY <2>4 DEF Serves, Performing
  <2> QED BY <2>5
<1>19. CASE (\E s \in FloorSessions : SessionLeaves(s)) \/ UNCHANGED floorVars
  <2>1. UNCHANGED <<floor, actor, floorExcused>>
    BY <1>19 DEF SessionLeaves, floorVars
  <2>2. PICK w \in FloorActors : Serves(w)
    BY <1>1, <2>1 DEF DeadFloorIsServed
  <2> QED BY <2>1, <2>2, StillServes
<1> QED BY <1>2, <1>3, <1>8, <1>9, <1>10, <1>11, <1>12, <1>13, <1>14, <1>15, <1>16, <1>17, <1>18,
           <1>19 DEF FloorNext


-----------------------------------------------------------------------------
(* One performer                                                           *)

PerformPlaces == {"read", "remove", "perform", "show", "last", "back"}

(* Where no process becomes a performer and the pane is as it was.         *)
LEMMA PerformersKept ==
  ASSUME OnePerformer, overlapped' = overlapped,
         floor'.dead = floor.dead, floor'.pane = floor.pane,
         \A q \in FloorActors : actor'[q].at \in PerformPlaces =>
           actor[q].at \in PerformPlaces /\ actor'[q].pane = actor[q].pane
  PROVE  OnePerformer'
BY DEF OnePerformer, Performing, PerformPlaces

(* Where nobody performs any more.                                         *)
LEMMA NoPerformers ==
  ASSUME overlapped' \/ \A q \in FloorActors : actor'[q].at \notin PerformPlaces
  PROVE  OnePerformer'
BY DEF OnePerformer, Performing, PerformPlaces

(* The pane runs again: an attach that respawned it left no performer, or  *)
(* the performer that did is through.                                      *)
LEMMA AloneAfterRespawn ==
  ASSUME FloorTypeOK, OnePerformer, NEW p \in FloorActors, ActorEnds(p),
         \/ TakesOver(p) /\ ~PaneLost(p)
         \/ overlapped' = overlapped /\ Performing(p)
  PROVE  overlapped' \/ \A q \in FloorActors : actor'[q].at \notin PerformPlaces
<1>1. /\ actor'[p].at = "off"
      /\ \A q \in FloorActors : q # p => actor'[q] = actor[q]
  BY Ends
<1>2. CASE TakesOver(p)
  <2>1. SUFFICES ASSUME ~overlapped', NEW q \in FloorActors, actor'[q].at \in PerformPlaces
                 PROVE  FALSE
    OBVIOUS
  <2>2. ~overlapped /\ ~(Performing(q) /\ actor[q].pane = floor.pane)
    BY <1>2, <2>1 DEF TakesOver
  <2>3. Performing(q)
    BY <1>1, <2>1 DEF Performing, PerformPlaces
  <2> QED BY <2>2, <2>3 DEF OnePerformer
<1>3. CASE overlapped' = overlapped /\ Performing(p)
  BY <1>1, <1>3 DEF OnePerformer, Performing, PerformPlaces
<1> QED BY <1>2, <1>3

LEMMA FloorOnePerformer ==
  ASSUME FloorTypeOK, OnePerformer, [FloorNext]_floorVars
  PROVE  OnePerformer'
<1>1. ASSUME NEW p \in FloorActors, NEW e \in BOOLEAN, AttachIde(p, e)
      PROVE  OnePerformer'
  <2>1. /\ overlapped' = overlapped
        /\ actor' = [actor EXCEPT ![p] = [Off EXCEPT !.at = "list", !.enabled = e]]
    BY <1>1 DEF AttachIde
  <2>2. \A q \in FloorActors : actor'[q].at \in PerformPlaces => actor'[q] = actor[q]
    BY <2>1 DEF FloorTypeOK, PerformPlaces, Off
  <2>3. CASE floor.program = "none"
    <3>1. ~floor.dead
      BY <2>3 DEF FloorTypeOK
    <3> QED BY <2>1, <2>2, <3>1, NoPerformers DEF OnePerformer, Performing, PerformPlaces
  <2>4. CASE floor.program # "none"
    <3>1. floor' = floor
      BY <1>1, <2>4 DEF AttachIde
    <3> QED BY <2>1, <2>2, <3>1, PerformersKept
  <2> QED BY <2>3, <2>4
<1>2. ASSUME NEW p \in FloorActors, ListPanes(p)
      PROVE  OnePerformer'
  <2>1. floor' = floor /\ overlapped' = overlapped
    BY <1>2 DEF ListPanes
  <2>2. \A q \in FloorActors : actor'[q].at \in PerformPlaces => actor'[q] = actor[q]
    <3>1. CASE floor.program = "none" \/ (~actor[p].enabled /\ ~floor.marked)
      BY <1>2, <3>1, Ends DEF ListPanes, PerformPlaces
    <3>2. CASE floor.program # "none" /\ (actor[p].enabled \/ floor.marked)
      <4>1. PICK t \in BOOLEAN, place \in {"keep", "unhook"} :
              actor' = [actor EXCEPT ![p] = [@ EXCEPT !.at = place, !.pane = floor.pane,
                                                     !.back = floor.dead, !.takes = t]]
        BY <1>2, <3>2, Listed
      <4>2. actor'[p].at = place /\ \A q \in FloorActors : q # p => actor'[q] = actor[q]
        BY <4>1 DEF FloorTypeOK, FloorActor
      <4> QED BY <4>2 DEF PerformPlaces
    <3> QED BY <3>1, <3>2
  <2> QED BY <2>1, <2>2, PerformersKept
<1>3. ASSUME NEW p \in FloorActors,
             KeepPane(p) \/ SetHook(p) \/ ClearFiles(p) \/ Unhook(p) \/ UnkeepPane(p)
      PROVE  OnePerformer'
  <2>1. /\ overlapped' = overlapped
        /\ ActorEnds(p) \/ \E place \in {"hook", "clear", "first", "unkeep", "shell"} : To(p, place)
    BY <1>3 DEF KeepPane, SetHook, ClearFiles, Unhook, UnkeepPane
  <2>2. floor'.dead = floor.dead /\ floor'.pane = floor.pane
    BY <1>3 DEF KeepPane, SetHook, ClearFiles, Unhook, UnkeepPane, FloorTypeOK, FloorPane
  <2>3. \A q \in FloorActors : actor'[q].at \in PerformPlaces => actor'[q] = actor[q]
    BY <2>1, Ends, GoesTo, ZenonT(60) DEF ActorPlaces, PerformPlaces
  <2> QED BY <2>1, <2>2, <2>3, PerformersKept
<1>4. ASSUME NEW p \in FloorActors, FloorFault(p)
      PROVE  OnePerformer'
  <2>1. overlapped' = overlapped /\ floor' = floor /\ ActorEnds(p)
    BY <1>4 DEF FloorFault
  <2> QED BY <2>1, Ends, PerformersKept DEF PerformPlaces
<1>5. ASSUME NEW p \in FloorActors, StartFirst(p) \/ StartShell(p)
      PROVE  OnePerformer'
  <2>1. ActorEnds(p)
    BY <1>5 DEF StartFirst, StartShell
  <2>2. \/ ~PaneLost(p) /\ TakesOver(p)
        \/ UNCHANGED <<floor, overlapped>>
    <3>1. StartFirst(p) => (~PaneLost(p) /\ TakesOver(p)) \/ UNCHANGED <<floor, overlapped>>
      BY DEF StartFirst
    <3>2. StartShell(p) => (~PaneLost(p) /\ TakesOver(p)) \/ UNCHANGED <<floor, overlapped>>
      BY DEF StartShell
    <3> QED BY <1>5, <3>1, <3>2
  <2>3. CASE ~PaneLost(p) /\ TakesOver(p)
    BY <2>1, <2>3, AloneAfterRespawn, NoPerformers
  <2>4. CASE UNCHANGED <<floor, overlapped>>
    BY <2>1, <2>4, Ends, PerformersKept DEF PerformPlaces
  <2> QED BY <2>2, <2>3, <2>4
<1>6. ASSUME NEW p \in FloorActors, Show(p) \/ Back(p)
      PROVE  OnePerformer'
  <2>1. overlapped' = overlapped /\ Performing(p)
    BY <1>6 DEF Show, Back, Performing
  <2>2. ActorEnds(p) \/ (To(p, "back") /\ floor' = floor)
    BY <1>6 DEF Show, Back
  <2>3. CASE ActorEnds(p)
    BY <2>1, <2>3, AloneAfterRespawn, NoPerformers
  <2>4. CASE To(p, "back") /\ floor' = floor
    BY <2>1, <2>4, GoesTo, PerformersKept DEF ActorPlaces, PerformPlaces, Performing
  <2> QED BY <2>2, <2>3, <2>4
<1>7. ASSUME NEW p \in FloorActors, ReadChoice(p) \/ RemoveChoice(p) \/ Perform(p) \/ TakeLast(p)
      PROVE  OnePerformer'
  <2>1. overlapped' = overlapped /\ floor' = floor /\ actor[p].at \in PerformPlaces
    BY <1>7 DEF ReadChoice, RemoveChoice, Perform, TakeLast, PerformPlaces
  <2>2. /\ actor'[p].pane = actor[p].pane
        /\ \A q \in FloorActors : q # p => actor'[q] = actor[q]
    <3>1. CASE ReadChoice(p)
      BY <3>1 DEF ReadChoice, FloorTypeOK, FloorActor
    <3>2. CASE RemoveChoice(p) \/ Perform(p) \/ TakeLast(p)
      <4>1. \E place \in {"last", "perform", "show", "back"} : To(p, place)
        BY <3>2 DEF RemoveChoice, Perform, TakeLast
      <4> QED BY <4>1, GoesTo DEF ActorPlaces
    <3> QED BY <1>7, <3>1, <3>2
  <2> QED BY <2>1, <2>2, PerformersKept
<1>8. CASE FloorDies
  <2>1. ~floor.dead /\ overlapped' = overlapped
    BY <1>8 DEF FloorDies
  <2>2. ~overlapped => \A q \in FloorActors : actor[q].at \notin PerformPlaces
    BY <2>1 DEF OnePerformer, Performing, PerformPlaces
  <2>3. CASE actor' = actor
    BY <2>1, <2>2, <2>3, NoPerformers
  <2>4. CASE actor' # actor
    <3>1. PICK p \in FloorActors :
            actor' = [actor EXCEPT ![p] = [Off EXCEPT !.at = "read", !.pane = floor.pane]]
      BY <1>8, <2>4 DEF FloorDies, Free
    <3>2. floor' = [floor EXCEPT !.dead = TRUE]
      BY <1>8, <2>4 DEF FloorDies
    <3>3. floor'.dead /\ floor'.pane = floor.pane
      BY <3>2 DEF FloorTypeOK, FloorPane
    <3>4. /\ actor'[p].pane = floor.pane
          /\ \A q \in FloorActors : q # p => actor'[q] = actor[q]
      BY <3>1 DEF FloorTypeOK, Off
    <3> QED BY <2>1, <2>2, <3>3, <3>4 DEF OnePerformer, Performing, PerformPlaces
  <2> QED BY <2>3, <2>4
<1>9. CASE (\E s \in FloorSessions : SessionLeaves(s)) \/ UNCHANGED floorVars
  <2>1. UNCHANGED <<floor, actor, overlapped>>
    BY <1>9 DEF SessionLeaves, floorVars
  <2> QED BY <2>1, PerformersKept
<1> QED BY <1>1, <1>2, <1>3, <1>4, <1>5, <1>6, <1>7, <1>8, <1>9 DEF FloorNext


-----------------------------------------------------------------------------
(* Choices are performed once                                              *)

ReadPlaces == {"remove", "perform"}

(* Where no choice is made, read or performed; one may be removed.         *)
LEMMA PendingKept ==
  ASSUME FloorTypeOK, ChoicesPending, overlapped => overlapped', UNCHANGED performed,
         \A k \in Panes : choice'[k] = choice[k] \/ choice'[k] = 0,
         \A q \in FloorActors : actor'[q].at \in ReadPlaces => actor'[q] = actor[q]
  PROVE  ChoicesPending'
<1>1. SUFFICES ASSUME ~overlapped' PROVE ChoicesPending'
  BY DEF ChoicesPending
<1>2. /\ \A k \in Panes : choice[k] # 0 => performed[choice[k]] = 0
      /\ \A k, l \in Panes : choice[k] # 0 /\ choice[k] = choice[l] => k = l
      /\ \A n \in 1..Len(performed) : performed[n] <= 1
  BY <1>1 DEF ChoicesPending
<1>3. ASSUME NEW q \in FloorActors PROVE Pending(q)'
  <2>1. Pending(q) /\ Works(q)
    BY <1>1 DEF ChoicesPending, FloorTypeOK
  <2>2. actor[q].at \in ReadPlaces => actor[q].read # 0
    BY <2>1 DEF Works, ReadPlaces, FloorTypeOK
  <2> QED BY <2>1, <2>2 DEF Pending, ReadPlaces
<1> QED BY <1>2, <1>3 DEF ChoicesPending

LEMMA ChoicesOnce ==
  ASSUME FloorTypeOK, OnePerformer, ChoicesPending, [FloorNext]_floorVars
  PROVE  ChoicesPending'
<1>1. ASSUME NEW p \in FloorActors, NEW e \in BOOLEAN, AttachIde(p, e)
      PROVE  ChoicesPending'
  <2>1. /\ UNCHANGED <<overlapped, choice, performed>>
        /\ actor' = [actor EXCEPT ![p] = [Off EXCEPT !.at = "list", !.enabled = e]]
    BY <1>1 DEF AttachIde
  <2>2. \A q \in FloorActors : actor'[q].at \in ReadPlaces => actor'[q] = actor[q]
    BY <2>1 DEF FloorTypeOK, ReadPlaces, Off
  <2> QED BY <2>1, <2>2, PendingKept
<1>2. ASSUME NEW p \in FloorActors, ListPanes(p)
      PROVE  ChoicesPending'
  <2>1. UNCHANGED <<overlapped, choice, performed>>
    BY <1>2 DEF ListPanes
  <2>2. \A q \in FloorActors : actor'[q].at \in ReadPlaces => actor'[q] = actor[q]
    <3>1. CASE floor.program = "none" \/ (~actor[p].enabled /\ ~floor.marked)
      BY <1>2, <3>1, Ends DEF ListPanes, ReadPlaces
    <3>2. CASE floor.program # "none" /\ (actor[p].enabled \/ floor.marked)
      <4>1. PICK t \in BOOLEAN, place \in {"keep", "unhook"} :
              actor' = [actor EXCEPT ![p] = [@ EXCEPT !.at = place, !.pane = floor.pane,
                                                     !.back = floor.dead, !.takes = t]]
        BY <1>2, <3>2, Listed
      <4>2. actor'[p].at = place /\ \A q \in FloorActors : q # p => actor'[q] = actor[q]
        BY <4>1 DEF FloorTypeOK, FloorActor
      <4> QED BY <4>2 DEF ReadPlaces
    <3> QED BY <3>1, <3>2
  <2> QED BY <2>1, <2>2, PendingKept
<1>3. ASSUME NEW p \in FloorActors,
             \/ KeepPane(p) \/ SetHook(p) \/ ClearFiles(p) \/ StartFirst(p) \/ Unhook(p)
             \/ UnkeepPane(p) \/ StartShell(p) \/ Show(p) \/ Back(p) \/ TakeLast(p) \/ FloorFault(p)
      PROVE  ChoicesPending'
  <2>1. \/ ActorEnds(p)
        \/ \E place \in {"hook", "clear", "first", "unkeep", "shell", "back"} : To(p, place)
    BY <1>3 DEF KeepPane, SetHook, ClearFiles, StartFirst, Unhook, UnkeepPane, StartShell,
                Show, Back, TakeLast, FloorFault
  <2>2. \A q \in FloorActors : actor'[q].at \in ReadPlaces => actor'[q] = actor[q]
    BY <2>1, Ends, GoesTo, ZenonT(60) DEF ActorPlaces, ReadPlaces
  <2>3. UNCHANGED performed /\ \A k \in Panes : choice'[k] = choice[k] \/ choice'[k] = 0
    BY <1>3 DEF KeepPane, SetHook, ClearFiles, StartFirst, Unhook, UnkeepPane, StartShell,
                Show, Back, TakeLast, FloorFault, FloorTypeOK
  <2>4. overlapped => overlapped'
    BY <1>3 DEF KeepPane, SetHook, ClearFiles, StartFirst, Unhook, UnkeepPane, StartShell,
                Show, Back, TakeLast, FloorFault, TakesOver
  <2> QED BY <2>2, <2>3, <2>4, PendingKept
<1>4. ASSUME NEW p \in FloorActors, ReadChoice(p) PROVE ChoicesPending'
  <2>1. UNCHANGED <<overlapped, choice, performed>> /\ actor[p].at = "read"
    BY <1>4 DEF ReadChoice
  <2>2. actor[p].pane \in Panes
    BY <2>1 DEF FloorTypeOK, Works
  <2>3. /\ actor'[p].at \in {"last", "remove"} /\ actor'[p].pane = actor[p].pane
        /\ actor'[p].read = choice[actor[p].pane]
        /\ actor'[p].at = "remove" => choice[actor[p].pane] # 0
        /\ \A q \in FloorActors : q # p => actor'[q] = actor[q]
    BY <1>4 DEF ReadChoice, FloorTypeOK, FloorActor
  <2>4. ASSUME ~overlapped, NEW q \in FloorActors PROVE Pending(q)'
    <3>1. CASE q = p
      BY <2>1, <2>2, <2>3, <2>4, <3>1 DEF ChoicesPending, Pending
    <3>2. CASE q # p
      BY <2>1, <2>3, <2>4, <3>2 DEF ChoicesPending, Pending
    <3> QED BY <3>1, <3>2
  <2> QED BY <2>1, <2>4 DEF ChoicesPending
<1>5. ASSUME NEW p \in FloorActors, RemoveChoice(p) PROVE ChoicesPending'
  <2>1. /\ UNCHANGED <<overlapped, performed>> /\ actor[p].at = "remove"
        /\ choice' = [choice EXCEPT ![actor[p].pane] = 0]
        /\ To(p, "last") \/ (To(p, "perform") /\ choice[actor[p].pane] # 0)
    BY <1>5 DEF RemoveChoice
  <2>2. actor[p].pane \in Panes /\ actor[p].read # 0
    <3>1. Works(p) /\ Len(chosen) \in Nat
      BY DEF FloorTypeOK
    <3>2. actor[p].pane \in Panes /\ actor[p].read \in 1..Len(chosen)
      BY <2>1, <3>1 DEF Works
    <3> QED BY <3>1, <3>2
  <2>3. /\ actor'[p].at \in {"last", "perform"} /\ actor'[p].read = actor[p].read
        /\ \A q \in FloorActors : q # p => actor'[q] = actor[q]
    BY <2>1, GoesTo DEF ActorPlaces
  <2>4. /\ choice'[actor[p].pane] = 0
        /\ \A k \in Panes : k # actor[p].pane => choice'[k] = choice[k]
    BY <2>1, <2>2 DEF FloorTypeOK
  <2>5. ASSUME ~overlapped, NEW q \in FloorActors PROVE Pending(q)'
    <3>1. Pending(p) /\ Pending(q) /\ Works(q)
      BY <2>5 DEF ChoicesPending, FloorTypeOK
    <3>2. CASE q = p
      BY <2>1, <2>2, <2>3, <2>4, <3>1, <3>2 DEF Pending
    <3>3. CASE q # p
      <4>1. actor[q].at \in ReadPlaces => actor[q].read # 0
        BY <3>1 DEF Works, ReadPlaces, FloorTypeOK
      <4>2. actor'[q] = actor[q] /\ \A k \in Panes : choice'[k] = choice[k] \/ choice'[k] = 0
        BY <2>3, <2>4, <3>3
      <4> QED BY <2>1, <3>1, <4>1, <4>2 DEF Pending, ReadPlaces
    <3> QED BY <3>2, <3>3
  <2> QED BY <2>1, <2>4, <2>5 DEF ChoicesPending
<1>6. ASSUME NEW p \in FloorActors, Perform(p) PROVE ChoicesPending'
  <2>1. /\ UNCHANGED <<overlapped, choice>> /\ actor[p].at = "perform"
        /\ performed' = [performed EXCEPT ![actor[p].read] = @ + 1]
        /\ To(p, "show") \/ To(p, "back")
    BY <1>6 DEF Perform
  <2>2. SUFFICES ASSUME ~overlapped PROVE ChoicesPending'
    BY <2>1 DEF ChoicesPending
  <2>3. PICK r \in 1..Len(performed) : r = actor[p].read
    BY <2>1 DEF FloorTypeOK, Works
  <2>4. performed[r] = 0 /\ \A k \in Panes : choice[k] # r
    BY <2>1, <2>2, <2>3 DEF ChoicesPending, Pending
  <2>5. /\ Len(performed') = Len(performed) /\ performed'[r] = 1
        /\ \A n \in 1..Len(performed) : n # r => performed'[n] = performed[n]
    BY <2>1, <2>3, <2>4 DEF FloorTypeOK
  <2>6. /\ actor'[p].at \in {"show", "back"}
        /\ \A q \in FloorActors : q # p => actor'[q] = actor[q]
    BY <2>1, GoesTo DEF ActorPlaces
  <2>7. ASSUME NEW q \in FloorActors PROVE Pending(q)'
    <3>1. q # p => actor[q].at \notin ReadPlaces
      BY <2>1, <2>2 DEF OnePerformer, Performing, ReadPlaces
    <3> QED BY <2>6, <3>1 DEF Pending, ReadPlaces
  <2>8. ASSUME NEW k \in Panes, choice[k] # 0 PROVE performed'[choice[k]] = 0
    <3>1. choice[k] \in 1..Len(performed)
      BY <2>8 DEF FloorTypeOK
    <3> QED BY <2>2, <2>4, <2>5, <2>8, <3>1 DEF ChoicesPending
  <2>9. ASSUME NEW n \in 1..Len(performed') PROVE performed'[n] <= 1
    BY <2>2, <2>5 DEF ChoicesPending
  <2> QED BY <2>1, <2>2, <2>7, <2>8, <2>9 DEF ChoicesPending
<1>7. CASE FloorDies
  <2>1. overlapped' = overlapped
    BY <1>7 DEF FloorDies
  <2>2. \A q \in FloorActors : actor'[q].at \in ReadPlaces => actor'[q] = actor[q]
    <3>1. CASE actor' # actor
      <4>1. PICK p \in FloorActors :
              actor' = [actor EXCEPT ![p] = [Off EXCEPT !.at = "read", !.pane = floor.pane]]
        BY <1>7, <3>1 DEF FloorDies, Free
      <4> QED BY <4>1 DEF FloorTypeOK, Off, ReadPlaces
    <3> QED BY <3>1
  <2>3. CASE UNCHANGED <<chosen, performed>>
    <3>1. choice' \in {choice, [choice EXCEPT ![floor.pane] = 0]}
      BY <1>7, <2>3 DEF FloorDies, FloorTypeOK
    <3>2. \A k \in Panes : choice'[k] = choice[k] \/ choice'[k] = 0
      BY <3>1 DEF FloorTypeOK
    <3> QED BY <2>1, <2>2, <2>3, <3>2, PendingKept
  <2>4. CASE ~UNCHANGED <<chosen, performed>>
    <3>1. /\ \E a \in Actions : chosen' = Append(chosen, a)
          /\ performed' = Append(performed, 0)
          /\ choice' = [choice EXCEPT ![floor.pane] = Len(chosen) + 1]
          /\ floor.program # "none"
      BY <1>7, <2>4 DEF FloorDies
    <3>2. PICK last1 \in Nat : last1 = Len(chosen) + 1 /\ last1 \notin 1..Len(chosen) /\ last1 # 0
      BY DEF FloorTypeOK
    <3>3. /\ Len(performed') = last1 /\ performed'[last1] = 0 /\ Len(performed) = Len(chosen)
          /\ \A n \in 1..Len(chosen) : performed'[n] = performed[n]
      BY <3>1, <3>2, ChoiceMade DEF FloorTypeOK
    <3>4. floor.pane \in Panes
      BY <3>1, FloorAssumption DEF FloorTypeOK, FloorPane, Panes
    <3>5. /\ choice'[floor.pane] = last1
          /\ \A k \in Panes : k # floor.pane => choice'[k] = choice[k]
          /\ \A k \in Panes : choice[k] \in 0..Len(chosen) /\ choice[k] # last1
      BY <3>1, <3>2, <3>4 DEF FloorTypeOK
    <3>6. SUFFICES ASSUME ~overlapped PROVE ChoicesPending'
      BY <2>1 DEF ChoicesPending
    <3>7. ASSUME NEW q \in FloorActors PROVE Pending(q)'
      <4>1. Pending(q) /\ Works(q)
        BY <3>6 DEF ChoicesPending, FloorTypeOK
      <4>2. CASE actor'[q].at \in ReadPlaces
        <5>1. actor'[q] = actor[q] /\ actor[q].read \in 1..Len(chosen) /\ actor[q].read # last1
          BY <2>2, <3>2, <4>1, <4>2 DEF Works, ReadPlaces
        <5> QED BY <3>3, <3>5, <4>1, <5>1 DEF Pending
      <4>3. CASE actor'[q].at \notin ReadPlaces
        BY <4>3 DEF Pending, ReadPlaces
      <4> QED BY <4>2, <4>3
    <3>8. ASSUME NEW k \in Panes, choice'[k] # 0 PROVE performed'[choice'[k]] = 0
      <4>1. CASE k = floor.pane
        BY <3>3, <3>5, <4>1
      <4>2. CASE k # floor.pane
        <5>1. choice'[k] = choice[k] /\ choice[k] \in 1..Len(chosen)
          BY <3>5, <3>8, <4>2 DEF FloorTypeOK
        <5>2. performed[choice[k]] = 0
          BY <3>6, <3>8, <5>1 DEF ChoicesPending
        <5> QED BY <3>3, <5>1, <5>2
      <4> QED BY <4>1, <4>2
    <3>9. ASSUME NEW k \in Panes, NEW l \in Panes, choice'[k] # 0, choice'[k] = choice'[l]
          PROVE  k = l
      BY <3>5, <3>6, <3>9 DEF ChoicesPending
    <3>10. ASSUME NEW n \in 1..Len(performed') PROVE performed'[n] <= 1
      <4>1. n = last1 \/ n \in 1..Len(chosen)
        BY <3>2, <3>3 DEF FloorTypeOK
      <4>2. n \in 1..Len(chosen) => performed[n] <= 1
        BY <3>3, <3>6 DEF ChoicesPending
      <4> QED BY <3>3, <4>1, <4>2
    <3> QED BY <3>7, <3>8, <3>9, <3>10 DEF ChoicesPending
  <2> QED BY <2>3, <2>4
<1>8. CASE (\E s \in FloorSessions : SessionLeaves(s)) \/ UNCHANGED floorVars
  <2>1. UNCHANGED <<choice, performed, actor, overlapped>>
    BY <1>8 DEF SessionLeaves, floorVars
  <2> QED BY <2>1, PendingKept
<1> QED BY <1>1, <1>2, <1>3, <1>4, <1>5, <1>6, <1>7, <1>8 DEF FloorNext

-----------------------------------------------------------------------------
(* The inductive invariant of the floor.                                   *)
THEOREM FloorInvariance == FloorSpec => []FloorInv
<1>1. FloorInit => FloorInv
  <2>1. SUFFICES ASSUME FloorInit PROVE FloorInv
    OBVIOUS
  <2>2. /\ floor = [pane |-> 0, program |-> "none", dead |-> FALSE, remains |-> FALSE,
                    hook |-> FALSE, marked |-> FALSE]
        /\ choice = [k \in Panes |-> 0] /\ chosen = <<>> /\ performed = <<>> /\ attaches = 0
        /\ actor = [p \in FloorActors |-> Off]
    BY <2>1 DEF FloorInit, NoFloor
  <2>3. \A p \in FloorActors : actor[p].at = "off"
    BY <2>2 DEF Off
  <2>4. FloorTypeOK
    <3>1. floor \in FloorPane /\ actor \in [FloorActors -> FloorActor]
      BY <2>2 DEF FloorPane, FloorActor, Off, ActorPlaces
    <3>2. /\ chosen \in Seq(Actions) /\ performed \in Seq(Nat) /\ Len(performed) = Len(chosen)
          /\ Len(chosen) = 0
      BY <2>2
    <3> QED BY <2>2, <2>3, <3>1, <3>2, FloorAssumption DEF FloorTypeOK, Works
  <2>5. ChoicesPending
    BY <2>2, <2>3 DEF ChoicesPending, Pending
  <2> QED BY <2>2, <2>3, <2>4, <2>5 DEF FloorInv, DeadFloorIsServed, OnePerformer, Performing
<1>2. FloorInv /\ [FloorNext]_floorVars => FloorInv'
  BY FloorTyped, FloorServed, FloorOnePerformer, ChoicesOnce DEF FloorInv
<1> QED BY <1>1, <1>2, PTL DEF FloorSpec

(* A dead floor pane is served or replaced, and a choice made in the home  *)
(* is performed once (the pane-died hook, Performer, take).                *)
THEOREM FloorIsServed == FloorSpec => []FloorServes
<1>1. FloorInv => FloorServes
  BY DEF FloorInv, FloorTypeOK, ChoicesPending, FloorServes, ChoicesRunOnce
<1> QED BY <1>1, FloorInvariance, PTL

-----------------------------------------------------------------------------
(* The session editor: what it has still to write differs from what it     *)
(* showed.                                                                 *)

Differs(r, f, values) ==
  \/ f = 1 /\ values[1] # r.name
  \/ f = 2 /\ SplitTags(values[2]) # r.tags
  \/ f = 3 /\ Trim(values[3]) # r.group

IsRecord(r) == r = [name |-> r.name, tags |-> r.tags, group |-> r.group]

EditInv ==
  /\ IsRecord(record)
  /\ writes \in Seq(Fields) /\ others \in Nat
  /\ ~Open => \A i \in 1..Len(writes) : Differs(before, writes[i], edited.values)

LEMMA ChangedDiffers ==
  ASSUME NEW r, NEW values
  PROVE  /\ Changed(r, values) \in Seq(Fields)
         /\ \A i \in 1..Len(Changed(r, values)) : Differs(r, Changed(r, values)[i], values)
<1>1. PICK one : one = IF values[1] # r.name THEN <<1>> ELSE <<>>
  OBVIOUS
<1>2. PICK two : two = IF SplitTags(values[2]) # r.tags THEN <<2>> ELSE <<>>
  OBVIOUS
<1>3. PICK three : three = IF Trim(values[3]) # r.group THEN <<3>> ELSE <<>>
  OBVIOUS
<1>4. Changed(r, values) = one \o two \o three
  BY <1>1, <1>2, <1>3 DEF Changed
<1>5. one \in Seq(Fields) /\ \A i \in 1..Len(one) : Differs(r, one[i], values)
  <2>1. CASE values[1] # r.name
    <3>1. one = <<1>> /\ Len(one) = 1 /\ one[1] = 1
      BY <1>1, <2>1
    <3> QED BY <2>1, <3>1 DEF Fields, Differs
  <2>2. CASE ~(values[1] # r.name)
    <3>1. one = <<>>
      BY <1>1, <2>2
    <3> QED BY <3>1
  <2> QED BY <2>1, <2>2
<1>6. two \in Seq(Fields) /\ \A i \in 1..Len(two) : Differs(r, two[i], values)
  <2>1. CASE SplitTags(values[2]) # r.tags
    <3>1. two = <<2>> /\ Len(two) = 1 /\ two[1] = 2
      BY <1>2, <2>1
    <3> QED BY <2>1, <3>1 DEF Fields, Differs
  <2>2. CASE ~(SplitTags(values[2]) # r.tags)
    <3>1. two = <<>>
      BY <1>2, <2>2
    <3> QED BY <3>1
  <2> QED BY <2>1, <2>2
<1>7. three \in Seq(Fields) /\ \A i \in 1..Len(three) : Differs(r, three[i], values)
  <2>1. CASE Trim(values[3]) # r.group
    <3>1. three = <<3>> /\ Len(three) = 1 /\ three[1] = 3
      BY <1>3, <2>1
    <3> QED BY <2>1, <3>1 DEF Fields, Differs
  <2>2. CASE ~(Trim(values[3]) # r.group)
    <3>1. three = <<>>
      BY <1>3, <2>2
    <3> QED BY <3>1
  <2> QED BY <2>1, <2>2
<1>8. ASSUME NEW s \in Seq(Fields), NEW t \in Seq(Fields),
             \A i \in 1..Len(s) : Differs(r, s[i], values),
             \A i \in 1..Len(t) : Differs(r, t[i], values)
      PROVE  /\ s \o t \in Seq(Fields)
             /\ \A i \in 1..Len(s \o t) : Differs(r, (s \o t)[i], values)
  <2>1. s \o t \in Seq(Fields) /\ Len(s \o t) = Len(s) + Len(t)
    OBVIOUS
  <2>2. ASSUME NEW i \in 1..Len(s \o t)
        PROVE  Differs(r, (s \o t)[i], values)
    <3>1. CASE i <= Len(s)
      <4>1. (s \o t)[i] = s[i] /\ i \in 1..Len(s)
        BY <3>1, <2>1
      <4> QED BY <4>1, <1>8
    <3>2. CASE i > Len(s)
      <4>1. (s \o t)[i] = t[i - Len(s)] /\ i - Len(s) \in 1..Len(t)
        BY <3>2, <2>1
      <4> QED BY <4>1, <1>8
    <3> QED BY <3>1, <3>2, <2>1
  <2> QED BY <2>1, <2>2
<1>9. PICK both : both = one \o two
  OBVIOUS
<1>10. both \in Seq(Fields) /\ \A i \in 1..Len(both) : Differs(r, both[i], values)
  BY <1>5, <1>6, <1>8, <1>9
<1> QED BY <1>4, <1>7, <1>8, <1>9, <1>10

LEMMA PartWritten ==
  ASSUME NEW r, IsRecord(r), NEW f \in Fields, NEW values
  PROVE  /\ IsRecord(WritePart(r, f, values))
         /\ f # 1 => WritePart(r, f, values).name = r.name
         /\ f # 2 => WritePart(r, f, values).tags = r.tags
         /\ f # 3 => WritePart(r, f, values).group = r.group
<1>1. CASE f = 1
  <2>1. WritePart(r, f, values) = [r EXCEPT !.name = values[1]]
    BY <1>1 DEF WritePart
  <2> QED BY <2>1, <1>1 DEF IsRecord
<1>2. CASE f = 2
  <2>1. WritePart(r, f, values) = [r EXCEPT !.tags = SplitTags(values[2])]
    BY <1>2 DEF WritePart
  <2> QED BY <2>1, <1>2 DEF IsRecord
<1>3. CASE f = 3
  <2>1. WritePart(r, f, values) = [r EXCEPT !.group = Trim(values[3])]
    BY <1>3 DEF WritePart
  <2> QED BY <2>1, <1>3 DEF IsRecord
<1> QED BY <1>1, <1>2, <1>3 DEF Fields

LEMMA FirstPart ==
  ASSUME EditInv, writes # <<>>
  PROVE  /\ Head(writes) \in Fields /\ Tail(writes) \in Seq(Fields)
         /\ ~Open => Differs(before, Head(writes), edited.values)
         /\ ~Open => \A i \in 1..Len(Tail(writes)) :
                       Differs(before, Tail(writes)[i], edited.values)
<1>1. /\ Head(writes) = writes[1] /\ Tail(writes) \in Seq(Fields) /\ Len(writes) >= 1
      /\ Len(Tail(writes)) = Len(writes) - 1 /\ writes[1] \in Fields
      /\ \A i \in 1..Len(Tail(writes)) : Tail(writes)[i] = writes[i + 1] /\ i + 1 \in 1..Len(writes)
  BY DEF EditInv
<1>2. 1 \in 1..Len(writes)
  BY <1>1 DEF EditInv
<1> QED BY <1>1, <1>2 DEF EditInv

LEMMA EditKept ==
  ASSUME EditInv, [FormNext]_formVars
  PROVE  EditInv'
<1>1. ASSUME NEW key, FormKey(key)
      PROVE  EditInv'
  BY <1>1 DEF EditInv, FormKey, Open
<1>2. ASSUME SaveForm
      PROVE  EditInv'
  <2>1. /\ writes' = Changed(before, form.values) /\ edited'.values = form.values
        /\ before' = before /\ record' = record /\ others' = others
    BY <1>2 DEF SaveForm
  <2>2. /\ writes' \in Seq(Fields)
        /\ \A i \in 1..Len(writes') : Differs(before, writes'[i], form.values)
    BY <2>1, ChangedDiffers
  <2> QED BY <2>1, <2>2 DEF EditInv
<1>3. ASSUME ApplyPart
      PROVE  EditInv'
  <2>1. UNCHANGED <<before, edited, others>> /\ writes # <<>>
    BY <1>3 DEF ApplyPart
  <2>2. CASE record' = WritePart(record, Head(writes), edited.values) /\ writes' = Tail(writes)
    <3>1. IsRecord(record')
      BY <2>2, <2>1, FirstPart, PartWritten DEF EditInv
    <3>2. /\ writes' \in Seq(Fields)
          /\ ~Open => \A i \in 1..Len(writes') : Differs(before, writes'[i], edited.values)
      BY <2>2, <2>1, FirstPart
    <3> QED BY <2>1, <3>1, <3>2 DEF EditInv, Open
  <2>3. CASE writes' = <<>> /\ record' = record
    BY <2>1, <2>3 DEF EditInv
  <2> QED BY <1>3, <2>2, <2>3 DEF ApplyPart
<1>4. ASSUME NEW f \in Fields, NEW r \in Records, OtherWrites(f, r)
      PROVE  EditInv'
  <2>1. PICK values : values = <<r.name, JoinTags(r.tags), r.group>>
    OBVIOUS
  <2>2. record' = WritePart(record, f, values) /\ UNCHANGED <<before, edited, writes>>
    BY <1>4, <2>1 DEF OtherWrites
  <2>3. IsRecord(record') /\ others' \in Nat
    BY <1>4, <2>2, PartWritten DEF EditInv, OtherWrites
  <2> QED BY <2>2, <2>3 DEF EditInv, Open
<1>5. CASE UNCHANGED formVars
  BY <1>5 DEF EditInv, formVars, Open
<1> QED BY <1>1, <1>2, <1>3, <1>4, <1>5 DEF FormNext

LEMMA UntouchedDoNotDiffer ==
  ASSUME NEW r, ReadsBack(r), NEW f \in Fields, NEW values, values[f] = NewForm(r).values[f]
  PROVE  ~Differs(r, f, values)
<1>1. NewForm(r).values = <<r.name, JoinTags(r.tags), r.group>>
  BY DEF NewForm
<1>2. CASE f = 1
  BY <1>1, <1>2 DEF Differs
<1>3. CASE f = 2
  <2>1. values[2] = JoinTags(r.tags)
    BY <1>1, <1>3
  <2> QED BY <2>1, <1>3 DEF Differs, ReadsBack
<1>4. CASE f = 3
  <2>1. values[3] = r.group
    BY <1>1, <1>4
  <2> QED BY <2>1, <1>4 DEF Differs, ReadsBack
<1> QED BY <1>2, <1>3, <1>4 DEF Fields

LEMMA ShownAlike ==
  ASSUME NEW r, NEW s, NEW f \in Fields,
         f = 1 => s.name = r.name, f = 2 => s.tags = r.tags, f = 3 => s.group = r.group
  PROVE  NewForm(s).values[f] = NewForm(r).values[f]
<1>1. /\ NewForm(r).values = <<r.name, JoinTags(r.tags), r.group>>
      /\ NewForm(s).values = <<s.name, JoinTags(s.tags), s.group>>
  BY DEF NewForm
<1>2. CASE f = 1
  BY <1>1, <1>2
<1>3. CASE f = 2
  BY <1>1, <1>3
<1>4. CASE f = 3
  BY <1>1, <1>4
<1> QED BY <1>2, <1>3, <1>4 DEF Fields

LEMMA UntouchedSurvive ==
  ASSUME EditInv, [FormNext]_formVars, ~Open, others' = others, ReadsBack(before),
         NEW f \in Fields, edited.values[f] = NewForm(before).values[f]
  PROVE  NewForm(record').values[f] = NewForm(record).values[f]
<1>1. CASE record' = record
  BY <1>1
<1>2. CASE /\ writes # <<>>
           /\ record' = WritePart(record, Head(writes), edited.values)
  <2>1. Head(writes) \in Fields /\ Differs(before, Head(writes), edited.values)
    BY <1>2, FirstPart
  <2>2. Head(writes) # f
    BY <2>1, UntouchedDoNotDiffer
  <2>3. PICK h \in Fields : h = Head(writes)
    BY <2>1
  <2>4. /\ f = 1 => record'.name = record.name
        /\ f = 2 => record'.tags = record.tags
        /\ f = 3 => record'.group = record.group
    BY <1>2, <2>2, <2>3, PartWritten DEF EditInv
  <2> QED BY <2>4, ShownAlike
<1>3. ASSUME NEW g \in Fields, NEW r \in Records, OtherWrites(g, r)
      PROVE  FALSE
  BY <1>3 DEF EditInv, OtherWrites
<1> QED BY <1>1, <1>2, <1>3 DEF FormNext, formVars, FormKey, SaveForm, ApplyPart

(* What the editor has still to write is always something it differs in.   *)
THEOREM EditInvariance == FormSpec => []EditInv
<1>1. FormInit => EditInv
  BY EditorAssumption DEF FormInit, EditInv, Open, IsRecord
<1>2. EditInv /\ [FormNext]_formVars => EditInv'
  BY EditKept
<1> QED BY <1>1, <1>2, PTL DEF FormSpec

(* The parts of a session the operator left alone keep what others wrote to*)
(* them while the form was open.                                           *)
THEOREM OthersSurvive == FormSpec => OthersWritesSurvive
<1>1. EditInv /\ [FormNext]_formVars =>
        (~Open /\ others' = others /\ ReadsBack(before) =>
           \A f \in Fields :
             edited.values[f] = NewForm(before).values[f] =>
               NewForm(record').values[f] = NewForm(record).values[f])
  BY UntouchedSurvive
<1> QED BY <1>1, EditInvariance, PTL DEF FormSpec, OthersWritesSurvive

-----------------------------------------------------------------------------
(* The session editor: its cursors are on their texts, and the active one  *)
(* is painted inside the box.                                              *)

Text == Seq(Characters)
FormShape ==
  [values : [Fields -> Text], positions : [Fields -> Nat], offsets : [Fields -> Nat],
   active : Fields, mode : {"normal", "insert"}, error : BOOLEAN]

(* Every cursor, or every but the active field's, is on its text or after it*)
OnText(f, i) == f.positions[i] <= Len(f.values[i])
FormTyped(f) == f \in FormShape /\ \A i \in Fields : OnText(f, i)
FormBut(f) == f \in FormShape /\ \A i \in Fields \ {f.active} : OnText(f, i)

LEMMA LeastIsThere ==
  ASSUME NEW S \in SUBSET Nat, S # {}
  PROVE  \E i \in S : \A j \in S : i <= j
<1>1. PICK i \in S : \A j \in S : ~(<<j, i>> \in OpToRel(<, Nat))
  BY WFMin, NatLessThanWellFounded
<1>2. \A j \in S : ~(j < i)
  BY <1>1 DEF OpToRel
<1> QED BY <1>2

LEMMA NothingIsNarrow == TextWidth(<<>>) = 0
<1>1. {i \in DOMAIN <<>> : <<>>[i] = "w"} = {}
  OBVIOUS
<1> QED BY <1>1, FS_EmptySet DEF TextWidth

LEMMA ScrolledFits ==
  ASSUME NEW text \in Text, NEW offset \in Nat, NEW position \in Nat, NEW available \in Nat,
         available # 0, position <= Len(text)
  PROVE  /\ Scrolled(text, offset, position, available) \in 0..position
         /\ TextWidth(Between(text, Scrolled(text, offset, position, available), position)) < available
<1>1. PICK start \in 0..position : start = IF offset <= position THEN offset ELSE position
  OBVIOUS
<1>2. PICK fits : fits = {o \in start..position : TextWidth(Between(text, o, position)) < available}
  OBVIOUS
<1>3. Between(text, position, position) = <<>>
  BY DEF Between, Text
<1>4. position \in fits
  BY <1>1, <1>2, <1>3, NothingIsNarrow
<1>5. fits \in SUBSET Nat /\ fits # {}
  BY <1>2, <1>4
<1>6. \E o \in fits : \A other \in fits : o <= other
  BY <1>5, LeastIsThere
<1>7. PICK o \in fits : o = Scrolled(text, offset, position, available)
  BY <1>1, <1>2, <1>6 DEF Scrolled
<1> QED BY <1>1, <1>2, <1>7

LEMMA Joined ==
  ASSUME NEW s \in Text, NEW t \in Text
  PROVE  s \o t \in Text /\ Len(s \o t) = Len(s) + Len(t) /\ Len(s) \in Nat /\ Len(t) \in Nat
BY DEF Text

LEMMA TextCut ==
  ASSUME NEW text \in Text, NEW i \in 1..Len(text)
  PROVE  RemoveAt(text, i) \in Text /\ Len(RemoveAt(text, i)) = Len(text) - 1
<1>1. SubSeq(text, 1, i - 1) \in Text /\ Len(SubSeq(text, 1, i - 1)) = i - 1
  BY DEF Text
<1>2. SubSeq(text, i + 1, Len(text)) \in Text /\ Len(SubSeq(text, i + 1, Len(text))) = Len(text) - i
  BY DEF Text
<1>3. PICK left, right : left = SubSeq(text, 1, i - 1) /\ right = SubSeq(text, i + 1, Len(text))
  OBVIOUS
<1>4. RemoveAt(text, i) = left \o right
  BY <1>3 DEF RemoveAt
<1>5. left \o right \in Text /\ Len(left \o right) = Len(left) + Len(right) /\ Len(text) \in Nat
  BY <1>1, <1>2, <1>3, Joined
<1>6. Len(left) = i - 1 /\ Len(right) = Len(text) - i
  BY <1>1, <1>2, <1>3
<1>7. Len(left) + Len(right) = Len(text) - 1
  BY <1>5, <1>6
<1> QED BY <1>4, <1>5, <1>7

LEMMA TextGrown ==
  ASSUME NEW text \in Text, NEW i \in 1..(Len(text) + 1), NEW c \in Characters
  PROVE  InsertAt(text, i, c) \in Text /\ Len(InsertAt(text, i, c)) = Len(text) + 1
<1>1. SubSeq(text, 1, i - 1) \in Text /\ Len(SubSeq(text, 1, i - 1)) = i - 1
  BY DEF Text
<1>2. SubSeq(text, i, Len(text)) \in Text /\ Len(SubSeq(text, i, Len(text))) = Len(text) - i + 1
  BY DEF Text
<1>3. <<c>> \in Text /\ Len(<<c>>) = 1
  BY DEF Text
<1>4. PICK left, right, one :
        left = SubSeq(text, 1, i - 1) /\ right = SubSeq(text, i, Len(text)) /\ one = <<c>>
  OBVIOUS
<1>5. InsertAt(text, i, c) = (left \o one) \o right
  BY <1>4 DEF InsertAt
<1>6. PICK both : both = left \o one
  OBVIOUS
<1>7. both \in Text /\ Len(both) = Len(left) + 1
  BY <1>1, <1>3, <1>4, <1>6, Joined
<1>8. both \o right \in Text /\ Len(both \o right) = Len(both) + Len(right) /\ Len(text) \in Nat
  BY <1>2, <1>4, <1>7, Joined
<1>9. Len(left) = i - 1 /\ Len(right) = Len(text) - i + 1
  BY <1>1, <1>2, <1>4
<1>10. Len(left) + 1 + Len(right) = Len(text) + 1
  BY <1>8, <1>9
<1> QED BY <1>5, <1>6, <1>7, <1>8, <1>10

LEMMA PartOfText ==
  ASSUME NEW text \in Text, NEW from \in Nat, NEW to \in Nat, from <= to, to <= Len(text)
  PROVE  Between(text, from, to) \in Text /\ Len(Between(text, from, to)) = to - from
BY DEF Text, Between

LEMMA Moved ==
  ASSUME NEW f, FormTyped(f), NEW position \in Nat
  PROVE  /\ FormBut(Move(f, position))
         /\ Move(f, position).positions[f.active] = position
         /\ Move(f, position).values = f.values /\ Move(f, position).active = f.active
<1>1. PICK positions : positions = [f.positions EXCEPT ![f.active] = position]
  OBVIOUS
<1>2. /\ positions \in [Fields -> Nat] /\ positions[f.active] = position
      /\ \A i \in Fields : i # f.active => positions[i] = f.positions[i]
  BY <1>1 DEF FormTyped, FormShape
<1>3. Move(f, position) = [f EXCEPT !.positions = positions]
  BY <1>1 DEF Move, FormTyped, FormShape
<1> QED BY <1>2, <1>3 DEF FormTyped, FormBut, FormShape, OnText

LEMMA MovedOnText ==
  ASSUME NEW f, FormTyped(f), NEW position \in Nat, position <= Len(f.values[f.active])
  PROVE  FormTyped(Move(f, position))
BY Moved DEF FormTyped, FormBut, OnText

LEMMA Clamped ==
  ASSUME NEW f, FormBut(f), f.values[f.active] \in Text
  PROVE  FormTyped(ClampToText(f))
<1>1. PICK farthest \in Nat : farthest = LastChar(f.values[f.active]) /\ farthest <= Len(f.values[f.active])
  BY DEF LastChar, Text
<1>2. CASE f.positions[f.active] > farthest
  <2>1. ClampToText(f) = Move(f, farthest)
    BY <1>1, <1>2 DEF ClampToText
  <2>2. PICK positions : positions = [f.positions EXCEPT ![f.active] = farthest]
    OBVIOUS
  <2>3. /\ positions \in [Fields -> Nat] /\ positions[f.active] = farthest
        /\ \A i \in Fields : i # f.active => positions[i] = f.positions[i]
    BY <2>2 DEF FormBut, FormShape
  <2>4. Move(f, farthest) = [f EXCEPT !.positions = positions]
    BY <2>2 DEF Move, FormBut, FormShape
  <2>5. PICK g : g = ClampToText(f)
    OBVIOUS
  <2>6. g \in FormShape /\ g.positions = positions /\ g.values = f.values
    BY <2>1, <2>3, <2>4, <2>5 DEF FormBut, FormShape
  <2>7. \A i \in Fields : OnText(g, i)
    BY <1>1, <2>3, <2>6 DEF FormBut, OnText
  <2> QED BY <2>5, <2>6, <2>7 DEF FormTyped
<1>3. CASE ~(f.positions[f.active] > farthest)
  <2>1. ClampToText(f) = f
    BY <1>1, <1>3 DEF ClampToText
  <2>2. f.positions[f.active] \in Nat /\ Len(f.values[f.active]) \in Nat /\ f.active \in Fields
    BY DEF FormBut, FormShape, Text
  <2> QED BY <1>1, <1>3, <2>1, <2>2 DEF FormTyped, FormBut, OnText
<1> QED BY <1>2, <1>3

LEMMA Turned ==
  ASSUME NEW f, FormTyped(f), NEW by \in {1, 2}
  PROVE  FormTyped(Turn(f, by))
<1>1. PICK active \in Fields : active = ((f.active - 1 + by) % 3) + 1
  BY DEF FormTyped, FormShape, Fields
<1>2. Turn(f, by) = [f EXCEPT !.active = active]
  BY <1>1 DEF Turn, FormTyped, FormShape
<1> QED BY <1>2 DEF FormTyped, FormShape, OnText

(* What a field holds after it is typed in, and its cursor.                *)
LEMMA Edited ==
  ASSUME NEW f, FormTyped(f), NEW text \in Text, NEW position \in Nat, position <= Len(text)
  PROVE  /\ FormTyped(Move([f EXCEPT !.values[f.active] = text], position))
         /\ FormBut([f EXCEPT !.values[f.active] = text])
         /\ [f EXCEPT !.values[f.active] = text].values[f.active] = text
         /\ [f EXCEPT !.values[f.active] = text].active = f.active
         /\ f.positions[f.active] <= Len(text) => FormTyped([f EXCEPT !.values[f.active] = text])
<1>1. PICK values : values = [f.values EXCEPT ![f.active] = text]
  OBVIOUS
<1>2. /\ values \in [Fields -> Text] /\ values[f.active] = text /\ f.active \in Fields
      /\ \A i \in Fields : i # f.active => values[i] = f.values[i]
  BY <1>1 DEF FormTyped, FormShape
<1>3. PICK g : g = [f EXCEPT !.values[f.active] = text]
  OBVIOUS
<1>4. g = [f EXCEPT !.values = values]
  BY <1>1, <1>3 DEF FormTyped, FormShape
<1>5. g \in FormShape /\ g.values = values /\ g.positions = f.positions /\ g.active = f.active
  BY <1>2, <1>4 DEF FormTyped, FormShape
<1>6. FormBut(g)
  BY <1>2, <1>5 DEF FormTyped, FormBut, OnText
<1>7. PICK positions : positions = [g.positions EXCEPT ![g.active] = position]
  OBVIOUS
<1>8. /\ positions \in [Fields -> Nat] /\ positions[g.active] = position
      /\ \A i \in Fields : i # g.active => positions[i] = g.positions[i]
  BY <1>5, <1>7 DEF FormShape
<1>9. PICK h : h = Move(g, position)
  OBVIOUS
<1>10. h = [g EXCEPT !.positions = positions]
  BY <1>5, <1>7, <1>9 DEF Move, FormShape
<1>11. h \in FormShape /\ h.values = values /\ h.positions = positions
  BY <1>5, <1>8, <1>10 DEF FormShape
<1>12. \A i \in Fields : OnText(h, i)
  BY <1>2, <1>5, <1>6, <1>8, <1>11 DEF FormBut, OnText
<1>13. FormTyped(h)
  BY <1>11, <1>12 DEF FormTyped
<1>14. f.positions[f.active] <= Len(text) => FormTyped(g)
  BY <1>2, <1>5, <1>6 DEF FormBut, FormTyped, OnText
<1> QED BY <1>2, <1>3, <1>5, <1>6, <1>9, <1>13, <1>14

LEMMA SameTexts ==
  ASSUME NEW f, FormTyped(f), NEW g \in FormShape, g.values = f.values, g.positions = f.positions
  PROVE  FormTyped(g)
BY DEF FormTyped, OnText

(* Mode and error are of no concern to the texts.                          *)
LEMMA Marked ==
  ASSUME NEW f, FormTyped(f), NEW mode \in {"normal", "insert"}, NEW error \in BOOLEAN,
         NEW active \in Fields,
         NEW g, \/ g = [f EXCEPT !.mode = mode]
                \/ g = [f EXCEPT !.error = error]
                \/ g = [f EXCEPT !.mode = mode, !.error = error]
                \/ g = [f EXCEPT !.error = error, !.active = active]
  PROVE  FormTyped(g) /\ g.values = f.values /\ g.positions = f.positions
<1>1. g \in FormShape /\ g.values = f.values /\ g.positions = f.positions
  BY DEF FormTyped, FormShape
<1> QED BY <1>1, SameTexts

LEMMA TypedIsBut ==
  ASSUME NEW f, FormTyped(f)
  PROVE  FormBut(f) /\ f.values[f.active] \in Text /\ f.active \in Fields
         /\ f.positions[f.active] \in 0..Len(f.values[f.active]) /\ Len(f.values[f.active]) \in Nat
BY DEF FormTyped, FormBut, FormShape, OnText, Text

LEMMA MovedAndClamped ==
  ASSUME NEW f, FormTyped(f), NEW position \in Nat
  PROVE  FormTyped(ClampToText(Move(f, position)))
<1>1. PICK g : g = Move(f, position)
  OBVIOUS
<1>2. FormBut(g) /\ g.values[g.active] \in Text
  BY <1>1, Moved, TypedIsBut
<1> QED BY <1>1, <1>2, Clamped

LEMMA NormalKeyTyped ==
  ASSUME NEW f, FormTyped(f), NEW key
  PROVE  FormTyped(NormalKey(f, key))
<1>1. PICK at, length : at = f.positions[f.active] /\ length = Len(f.values[f.active])
  OBVIOUS
<1>2. at \in Nat /\ length \in Nat /\ at <= length
  BY <1>1, TypedIsBut
<1>3. \A by \in {1, 2} : FormTyped(ClampToText(Turn(f, by)))
  BY Turned, Clamped, TypedIsBut
<1>4. \A position \in Nat : FormTyped(ClampToText(Move(f, position)))
  BY MovedAndClamped
<1>5. ASSUME NEW position \in Nat, position <= length
      PROVE  FormTyped(Move([f EXCEPT !.mode = "insert"], position))
  <2>1. PICK g : g = [f EXCEPT !.mode = "insert"]
    OBVIOUS
  <2>2. FormTyped(g) /\ g.values = f.values
    BY <2>1, Marked, TypedIsBut
  <2>3. g.active = f.active
    BY <2>1 DEF FormTyped, FormShape
  <2> QED BY <1>1, <1>5, <2>1, <2>2, <2>3, MovedOnText
<1>6. ASSUME at < length
      PROVE  FormTyped(ClampToText(RemoveAtCursor(f, at + 1)))
  <2>1. PICK text \in Text : text = RemoveAt(f.values[f.active], at + 1)
    BY <1>1, <1>2, <1>6, TypedIsBut, TextCut
  <2>2. PICK g : g = [f EXCEPT !.values[f.active] = text]
    OBVIOUS
  <2>3. FormBut(g) /\ g.values[g.active] \in Text
    <3>1. 0 <= Len(text) /\ 0 \in Nat
      BY DEF Text
    <3> QED BY <2>2, <3>1, Edited
  <2>4. RemoveAtCursor(f, at + 1) = g
    BY <2>1, <2>2 DEF RemoveAtCursor
  <2> QED BY <2>3, <2>4, Clamped
<1>7. FormTyped(ClampToText(f))
  BY TypedIsBut, Clamped
<1>8. Less(at) \in Nat
  BY <1>2 DEF Less
<1>9. \/ \E by \in {1, 2} : NormalKey(f, key) = ClampToText(Turn(f, by))
      \/ \E position \in {Less(at), at + 1, 0, length} :
           NormalKey(f, key) = ClampToText(Move(f, position))
      \/ \E position \in {at, IF at < length THEN at + 1 ELSE length, length, 0} :
           NormalKey(f, key) = Move([f EXCEPT !.mode = "insert"], position)
      \/ at < length /\ NormalKey(f, key) = ClampToText(RemoveAtCursor(f, at + 1))
      \/ NormalKey(f, key) = ClampToText(f)
  BY <1>1 DEF NormalKey
<1>10. CASE \E position \in {Less(at), at + 1, 0, length} :
              NormalKey(f, key) = ClampToText(Move(f, position))
  BY <1>2, <1>4, <1>8, <1>10
<1>11. CASE \E position \in {at, IF at < length THEN at + 1 ELSE length, length, 0} :
              NormalKey(f, key) = Move([f EXCEPT !.mode = "insert"], position)
  <2>1. PICK position \in {at, IF at < length THEN at + 1 ELSE length, length, 0} :
          NormalKey(f, key) = Move([f EXCEPT !.mode = "insert"], position)
    BY <1>11
  <2>2. position \in Nat /\ position <= length
    BY <1>2
  <2> QED BY <1>5, <2>1, <2>2
<1> QED BY <1>3, <1>6, <1>7, <1>9, <1>10, <1>11

LEMMA InsertKeyTyped ==
  ASSUME NEW f, FormTyped(f), NEW key
  PROVE  FormTyped(InsertKey(f, key))
<1>1. PICK at, text : at = f.positions[f.active] /\ text = f.values[f.active]
  OBVIOUS
<1>2. at \in Nat /\ Len(text) \in Nat /\ at <= Len(text) /\ text \in Text /\ f.active \in Fields
  BY <1>1, TypedIsBut
<1>3. \A position \in Nat : position <= Len(text) => FormTyped(Move(f, position))
  BY <1>1, MovedOnText
<1>4. ASSUME NEW value \in Text, NEW position \in Nat, position <= Len(value)
      PROVE  FormTyped(Move([f EXCEPT !.values[f.active] = value], position))
  BY <1>4, Edited
<1>5. \/ InsertKey(f, key) = Move(f, Less(at))
      \/ InsertKey(f, key) = Move(f, IF at < Len(text) THEN at + 1 ELSE Len(text))
      \/ InsertKey(f, key) = Move(f, 0)
      \/ InsertKey(f, key) = Move(f, Len(text))
      \/ at > 0 /\ InsertKey(f, key) = Move(RemoveAtCursor(f, at), at - 1)
      \/ at < Len(text) /\ InsertKey(f, key) = RemoveAtCursor(f, at + 1)
      \/ InsertKey(f, key) = Move([f EXCEPT !.values[f.active] = Between(text, at, Len(text))], 0)
      \/ InsertKey(f, key) = Move([f EXCEPT !.values[f.active] = Between(text, 0, at)], at)
      \/ /\ key \in Printable
         /\ InsertKey(f, key) =
              Move([f EXCEPT !.values[f.active] = InsertAt(text, at + 1, Shown(key))], at + 1)
      \/ InsertKey(f, key) = f
  BY <1>1 DEF InsertKey, Printable, Letters
<1>6. /\ FormTyped(Move(f, Less(at))) /\ FormTyped(Move(f, 0)) /\ FormTyped(Move(f, Len(text)))
      /\ FormTyped(Move(f, IF at < Len(text) THEN at + 1 ELSE Len(text)))
  <2>1. ASSUME NEW position, \/ position = Less(at) \/ position = 0 \/ position = Len(text)
                             \/ position = IF at < Len(text) THEN at + 1 ELSE Len(text)
        PROVE  FormTyped(Move(f, position))
    <3>1. position \in Nat /\ position <= Len(text)
      BY <1>2, <2>1 DEF Less
    <3> QED BY <1>3, <3>1
  <2> QED BY <2>1
<1>7. CASE at > 0 /\ InsertKey(f, key) = Move(RemoveAtCursor(f, at), at - 1)
  <2>1. PICK cut \in Text : cut = RemoveAt(text, at) /\ Len(cut) = Len(text) - 1
    BY <1>2, <1>7, TextCut
  <2>2. RemoveAtCursor(f, at) = [f EXCEPT !.values[f.active] = cut]
    BY <1>1, <2>1 DEF RemoveAtCursor
  <2>3. at - 1 \in Nat /\ at - 1 <= Len(cut)
    BY <1>2, <1>7, <2>1
  <2> QED BY <1>4, <1>7, <2>2, <2>3
<1>8. CASE at < Len(text) /\ InsertKey(f, key) = RemoveAtCursor(f, at + 1)
  <2>1. PICK cut \in Text : cut = RemoveAt(text, at + 1) /\ Len(cut) = Len(text) - 1
    BY <1>2, <1>8, TextCut
  <2>2. RemoveAtCursor(f, at + 1) = [f EXCEPT !.values[f.active] = cut]
    BY <1>1, <2>1 DEF RemoveAtCursor
  <2>3. f.positions[f.active] <= Len(cut) /\ at \in Nat /\ at <= Len(cut)
    BY <1>1, <1>2, <1>8, <2>1
  <2>4. FormTyped([f EXCEPT !.values[f.active] = cut])
    BY <2>3, Edited
  <2> QED BY <1>8, <2>2, <2>4
<1>9. CASE InsertKey(f, key) = Move([f EXCEPT !.values[f.active] = Between(text, at, Len(text))], 0)
  <2>1. Between(text, at, Len(text)) \in Text /\ Len(Between(text, at, Len(text))) = Len(text) - at
    <3>1. PICK to \in Nat : to = Len(text) /\ at <= to /\ to <= Len(text)
      BY <1>2
    <3> QED BY <1>2, <3>1, PartOfText
  <2>2. PICK rest \in Text : rest = Between(text, at, Len(text)) /\ Len(rest) = Len(text) - at
    BY <2>1
  <2>3. 0 \in Nat /\ 0 <= Len(rest)
    BY <1>2, <2>2
  <2> QED BY <1>4, <1>9, <2>2, <2>3
<1>10. CASE InsertKey(f, key) = Move([f EXCEPT !.values[f.active] = Between(text, 0, at)], at)
  <2>1. PICK rest \in Text : rest = Between(text, 0, at) /\ at <= Len(rest)
    BY <1>2, PartOfText
  <2> QED BY <1>2, <1>4, <1>10, <2>1
<1>11. CASE /\ key \in Printable
            /\ InsertKey(f, key) =
                 Move([f EXCEPT !.values[f.active] = InsertAt(text, at + 1, Shown(key))], at + 1)
  <2>1. Shown(key) \in Characters
    BY <1>11 DEF Shown, Printable, Characters
  <2>2. PICK more \in Text : more = InsertAt(text, at + 1, Shown(key)) /\ Len(more) = Len(text) + 1
    BY <1>2, <2>1, TextGrown
  <2>3. at + 1 \in Nat /\ at + 1 <= Len(more)
    BY <1>2, <2>2
  <2> QED BY <1>4, <1>11, <2>2, <2>3
<1> QED BY <1>5, <1>6, <1>7, <1>8, <1>9, <1>10, <1>11

LEMMA HandledTyped ==
  ASSUME NEW f, FormTyped(f), NEW key
  PROVE  FormTyped(Handled(f, key))
<1>1. CASE key = "esc"
  <2>1. PICK g : g = [f EXCEPT !.mode = "normal", !.error = FALSE]
    OBVIOUS
  <2>2. FormTyped(g)
    <3>1. g \in FormShape /\ g.values = f.values /\ g.positions = f.positions
      BY <2>1 DEF FormTyped, FormShape, Fields
    <3> QED BY <3>1, SameTexts
  <2>3. PICK position : position = Less(f.positions[f.active])
    OBVIOUS
  <2>4. position \in Nat
    BY <2>3, TypedIsBut DEF Less
  <2>5. Handled(f, key) = ClampToText(Move(g, position))
    BY <1>1, <2>1, <2>3 DEF Handled, LeaveInsert
  <2> QED BY <2>2, <2>4, <2>5, MovedAndClamped
<1>2. CASE key = "enter"
  <2>1. PICK g : g = [f EXCEPT !.error = TRUE, !.active = 1]
    OBVIOUS
  <2>2. FormTyped(g)
    <3>0. PICK error \in BOOLEAN : error = TRUE
      OBVIOUS
    <3>1. PICK active \in Fields : active = 1
      BY DEF Fields
    <3>2. g = [f EXCEPT !.error = error, !.active = active]
      BY <2>1, <3>0, <3>1
    <3>3. g \in FormShape /\ g.values = f.values /\ g.positions = f.positions
      BY <3>2 DEF FormTyped, FormShape
    <3> QED BY <3>3, SameTexts
  <2> QED BY <1>2, <2>1, <2>2 DEF Handled
<1>3. CASE key \notin {"esc", "enter"}
  <2>1. PICK g : g = [f EXCEPT !.error = FALSE]
    OBVIOUS
  <2>2. FormTyped(g)
    BY <2>1, Marked, TypedIsBut
  <2>3. Handled(f, key) \in {f, Turn(g, 1), Turn(g, 2), NormalKey(g, key), InsertKey(g, key)}
    BY <1>3, <2>1 DEF Handled
  <2> QED BY <2>2, <2>3, Turned, NormalKeyTyped, InsertKeyTyped
<1> QED BY <1>1, <1>2, <1>3

Painted(f, available) ==
  available # 0 => \A i \in Fields :
    /\ f.offsets[i] <= f.positions[i] /\ f.positions[i] <= Len(f.values[i])
    /\ TextWidth(Between(f.values[i], f.offsets[i], f.positions[i])) < available

LEMMA Rendered ==
  ASSUME NEW f, FormTyped(f), NEW available \in Nat
  PROVE  FormTyped(Render(f, available)) /\ Painted(Render(f, available), available)
<1>1. CASE available = 0
  BY <1>1 DEF Render, Painted
<1>2. CASE available # 0
  <2>1. PICK offsets : offsets = [i \in Fields |->
                                    Scrolled(f.values[i], f.offsets[i], f.positions[i], available)]
    OBVIOUS
  <2>2. ASSUME NEW i \in Fields
        PROVE  /\ offsets[i] \in Nat /\ offsets[i] <= f.positions[i]
               /\ TextWidth(Between(f.values[i], offsets[i], f.positions[i])) < available
    <3>1. /\ f.values[i] \in Text /\ f.offsets[i] \in Nat /\ f.positions[i] \in Nat
          /\ f.positions[i] <= Len(f.values[i])
      BY DEF FormTyped, FormShape, OnText
    <3>2. offsets[i] = Scrolled(f.values[i], f.offsets[i], f.positions[i], available)
      BY <2>1
    <3>3. PICK text, offset, position :
            text = f.values[i] /\ offset = f.offsets[i] /\ position = f.positions[i]
      OBVIOUS
    <3>4. /\ offsets[i] \in 0..position
          /\ TextWidth(Between(text, offsets[i], position)) < available
      BY <1>2, <3>1, <3>2, <3>3, ScrolledFits
    <3> QED BY <3>1, <3>3, <3>4
  <2>3. offsets \in [Fields -> Nat]
    BY <2>1, <2>2
  <2>4. PICK g : g = [f EXCEPT !.offsets = offsets]
    OBVIOUS
  <2>5. g \in FormShape /\ g.values = f.values /\ g.positions = f.positions /\ g.offsets = offsets
    BY <2>3, <2>4 DEF FormTyped, FormShape
  <2>6. FormTyped(g)
    BY <2>5, SameTexts
  <2>7. Painted(g, available)
    BY <2>2, <2>5, <2>6 DEF Painted, FormTyped, OnText
  <2>8. Render(f, available) = g
    BY <1>2, <2>1, <2>4 DEF Render
  <2> QED BY <2>6, <2>7, <2>8
<1> QED BY <1>1, <1>2

FormInv == FormTyped(form) /\ Painted(form, columns) /\ columns \in Nat

LEMMA FormOpens ==
  ASSUME FormInit
  PROVE  FormInv
<1>1. PICK r \in Records, size \in Available : columns = size /\ form = Render(NewForm(r), size)
  BY DEF FormInit
<1>2. PICK values : values = <<r.name, JoinTags(r.tags), r.group>>
  OBVIOUS
<1>3. values \in [Fields -> Text]
  BY <1>2, EditorAssumption DEF Fields, Text
<1>4. PICK positions : positions = [i \in Fields |-> LastChar(values[i])]
  OBVIOUS
<1>5. positions \in [Fields -> Nat] /\ \A i \in Fields : positions[i] <= Len(values[i])
  BY <1>3, <1>4 DEF LastChar, Text
<1>6. PICK g : g = NewForm(r)
  OBVIOUS
<1>7. g = [values |-> values, positions |-> positions, offsets |-> [i \in Fields |-> 0],
           active |-> 1, mode |-> "normal", error |-> FALSE]
  BY <1>2, <1>4, <1>6 DEF NewForm
<1>8. FormTyped(g)
  BY <1>3, <1>5, <1>7 DEF FormTyped, FormShape, OnText, Fields
<1>9. size \in Nat
  BY EditorAssumption
<1> QED BY <1>1, <1>6, <1>8, <1>9, Rendered DEF FormInv

LEMMA FormKept ==
  ASSUME FormInv, [FormNext]_formVars
  PROVE  FormInv'
<1>1. ASSUME NEW key, FormKey(key)
      PROVE  FormInv'
  <2>1. PICK size \in Available : columns' = size /\ form' = Render(Handled(form, key), size)
    BY <1>1 DEF FormKey
  <2>2. PICK g : g = Handled(form, key)
    OBVIOUS
  <2>3. FormTyped(g)
    BY <2>2, HandledTyped DEF FormInv
  <2>4. size \in Nat
    BY EditorAssumption
  <2>5. FormTyped(form') /\ Painted(form', columns') /\ columns' \in Nat
    BY <2>1, <2>2, <2>3, <2>4, Rendered
  <2> QED BY <2>5 DEF FormInv
<1>2. CASE UNCHANGED <<form, columns>>
  BY <1>2 DEF FormInv
<1> QED BY <1>1, <1>2 DEF FormNext, formVars, SaveForm, ApplyPart, OtherWrites

(* Whatever keys and sizes come, the cursors are on their texts.           *)
THEOREM FormInvariance == FormSpec => []FormInv
<1>1. FormInit => FormInv
  BY FormOpens
<1>2. FormInv /\ [FormNext]_formVars => FormInv'
  BY FormKept
<1> QED BY <1>1, <1>2, PTL DEF FormSpec

(* Every painted cursor lies in its field and on its text, for texts of any*)
(* length, any widths of the screen and any keys.                          *)
THEOREM CursorsArePainted == FormSpec => []CursorInField
<1>1. FormInv => CursorInField
  BY DEF FormInv, Painted, CursorInField
<1> QED BY <1>1, FormInvariance, PTL

-----------------------------------------------------------------------------
(* Mockups: what the viewer shows is of the file that is current, and a    *)
(* client that show fetched goes back where it came from.                  *)

MockFile == [name : MockFiles, at : Nat, length : {1, 2}, draft : Drafts, whole : BOOLEAN]
MockSource == [name : MockFiles \cup {Nowhere}, at : Nat, length : {0, 1, 2}]

(* Names in content/ are different, nothing in it is of the future, and one*)
(* file is the newest.                                                     *)
FilesOK ==
  /\ mtime \in Nat /\ content \in Seq(MockFile)
  /\ \A i \in DOMAIN content : content[i].at <= mtime /\ (~content[i].whole => content[i].length = 1)
  /\ \A i, j \in DOMAIN content : content[i].name = content[j].name => i = j
  /\ content # <<>> => \E i \in DOMAIN content : \A j \in DOMAIN content : Later(i, j)

IsViewer(s) ==
  /\ s = [current |-> s.current, screen |-> s.screen, focus |-> s.focus, selected |-> s.selected,
          layout |-> s.layout, error |-> s.error, waiting |-> s.waiting]
  /\ s.current \in MockSource /\ s.error \in BOOLEAN /\ s.waiting \in BOOLEAN

AtWork == {"loop", "back", "notify"}
IsProcess(v) ==
  \/ v \in {[at |-> "none"], [at |-> "loop"], [at |-> "read"]}
  \/ v = [at |-> v.at, outcome |-> v.outcome] /\ v.at \in {"back", "notify"}

(* What is current is nothing, or was a file of content/ as it is or as it *)
(* began.                                                                  *)
CurrentOK ==
  shown.current = NoSource \/
    \E i \in DOMAIN content :
      content[i].name = shown.current.name /\ shown.current.length <= content[i].length

ReadingOK ==
  viewer.at = "read" =>
    /\ ~shown.waiting
    /\ \E i \in DOMAIN content : content[i].name = shown.current.name /\ ~content[i].draft.waiting

(* What the viewer shows of a file that is as it was when it was read.     *)
Shows(s, f) ==
  /\ s.waiting = f.draft.waiting
  /\ ~s.waiting =>
       IF s.error THEN ~(f.whole /\ Converts(f.draft))
       ELSE s.screen = [of |-> f.name, options |-> OptionsOf(f.draft)]
ShowsCurrent ==
  viewer.at \in AtWork =>
    \A i \in DOMAIN content : shown.current = SourceOf(content[i]) => Shows(shown, content[i])

(* A line of state/events of this viewer is of the file that is current,   *)
(* or from before it had shown one.                                        *)
LogOK ==
  /\ runs \in Nat /\ \E S : events \in Seq(S)
  /\ \A i \in 1..Len(events) :
       /\ events[i].run \in Nat /\ events[i].run <= runs
       /\ events[i].run = runs => events[i].screen \in {shown.current.name, Nowhere}

AnswerOK ==
  viewer.at \in {"back", "notify"} =>
    /\ events # <<>> /\ Last(events).screen = shown.current.name
    /\ Last(events).choice \in {Nowhere, viewer.outcome}
    /\ Last(events).choice = Nowhere => viewer.outcome \in {"confirmed", "dismissed"}

ViewerOK ==
  /\ IsViewer(shown) /\ IsProcess(viewer) /\ CurrentOK /\ ReadingOK /\ ShowsCurrent
  /\ LogOK /\ AnswerOK

(* While show has found a client and not moved it, no client it fetched    *)
(* shows the view, and the view is there.                                  *)
ClientsOK ==
  /\ view \in [is : {"absent", "alive", "dead"}, returnTo : Places \cup {Nowhere}]
  /\ on \in [MockClients -> Places \cup {ViewOf}]
  /\ fetchedFrom \in [MockClients -> Places \cup {Nowhere}]
  /\ showing \in {NoShow} \cup [client : MockClients, from : Places]
  /\ showing # NoShow => view.is # "absent"
  /\ \A c \in MockClients :
       /\ on[c] = ViewOf => view.is # "absent"
       /\ on[c] = ViewOf /\ fetchedFrom[c] # Nowhere =>
            showing = NoShow /\ view.returnTo = fetchedFrom[c]

MockInv == FilesOK /\ ViewerOK /\ ClientsOK

LEMMA NewestIsThere ==
  ASSUME FilesOK, content # <<>>
  PROVE  \E i \in DOMAIN content : Newest = content[i]
BY DEF FilesOK, Newest

FilesFollow ==
  /\ \A i \in DOMAIN content :
       /\ i \in DOMAIN content' /\ content'[i].name = content[i].name
       /\ content'[i].draft = content[i].draft /\ content[i].length <= content'[i].length
  /\ \A j \in DOMAIN content' :
       \/ j \in DOMAIN content /\ content'[j] = content[j]
       \/ j \in DOMAIN content /\ content[j].length < content'[j].length
       \/ content'[j].name \in MockFiles /\ \A i \in DOMAIN content : content[i].name # content'[j].name

LEMMA WriteFollows ==
  ASSUME FilesOK, NEW name \in MockFiles, NEW draft \in Drafts, NEW whole \in BOOLEAN,
         Write(name, draft, whole)
  PROVE  FilesOK' /\ FilesFollow
<1>1. PICK length \in {1, 2} : length = (IF whole THEN 2 ELSE 1)
  OBVIOUS
<1>2. PICK f : f = [name |-> name, at |-> mtime, length |-> length, draft |-> draft, whole |-> whole]
  OBVIOUS
<1>3. f \in MockFile /\ f.name = name /\ f.at = mtime /\ (~f.whole => f.length = 1)
  BY <1>1, <1>2 DEF MockFile, FilesOK
<1>4. content' = Append(content, f) /\ mtime' = mtime
  BY <1>1, <1>2 DEF Write, Writes
<1>5. PICK n : n = Len(content) + 1
  OBVIOUS
<1>6. /\ content' \in Seq(MockFile) /\ DOMAIN content' = DOMAIN content \cup {n}
      /\ DOMAIN content = 1..Len(content) /\ Len(content) \in Nat
      /\ content'[n] = f
      /\ \A i \in DOMAIN content : content'[i] = content[i]
  BY <1>3, <1>4, <1>5 DEF FilesOK
<1>7. \A i \in DOMAIN content : content[i].name # name
  BY DEF Write, Range
<1>8. \A i \in DOMAIN content : content[i] \in MockFile
  BY DEF FilesOK
<1>9. FilesFollow
  <2>1. \A i \in DOMAIN content : content[i].length \in {1, 2}
    BY <1>8 DEF MockFile
  <2>2. \A i \in DOMAIN content : i \in DOMAIN content' /\ content'[i] = content[i]
    BY <1>6
  <2>3. \A j \in DOMAIN content' : j \in DOMAIN content \/ content'[j] = f
    BY <1>6
  <2> QED BY <1>3, <1>7, <2>1, <2>2, <2>3 DEF FilesFollow
<1>10. ASSUME NEW j \in DOMAIN content'
      PROVE  Later(n, j)'
  <2>1. j \in Nat /\ j <= n /\ content'[n].at = mtime
    BY <1>3, <1>6, <1>5
  <2>2. content'[j].at \in Nat /\ content'[j].at <= mtime
    <3>1. CASE j = n
      BY <3>1, <2>1 DEF FilesOK
    <3>2. CASE j \in DOMAIN content
      BY <1>6, <1>8, <3>2 DEF FilesOK, MockFile
    <3> QED BY <1>6, <3>1, <3>2
  <2>3. mtime \in Nat /\ n \in Nat
    BY <1>6, <1>5 DEF FilesOK
  <2> QED BY <2>1, <2>2, <2>3 DEF Later
<1>11. \A i \in DOMAIN content' : content'[i].at <= mtime' /\ (~content'[i].whole => content'[i].length = 1)
  BY <1>3, <1>4, <1>6 DEF FilesOK
<1>12. \A i, j \in DOMAIN content' : content'[i].name = content'[j].name => i = j
  BY <1>3, <1>6, <1>7 DEF FilesOK
<1>13. \E i \in DOMAIN content' : \A j \in DOMAIN content' : Later(i, j)'
  <2>1. n \in DOMAIN content'
    BY <1>6
  <2> QED BY <1>10, <2>1 DEF Later
<1> QED BY <1>4, <1>6, <1>9, <1>11, <1>12, <1>13 DEF FilesOK

LEMMA CompletesFollows ==
  ASSUME FilesOK, NEW k \in DOMAIN content, Completes(k)
  PROVE  FilesOK' /\ FilesFollow
<1>1. content[k] \in MockFile /\ content[k].length = 1 /\ mtime' = mtime
      /\ content' = [content EXCEPT ![k].whole = TRUE, ![k].length = 2, ![k].at = mtime]
  BY DEF Completes, Writes, FilesOK
<1>2. PICK f : f = [content[k] EXCEPT !.whole = TRUE, !.length = 2, !.at = mtime]
  OBVIOUS
<1>3. /\ f \in MockFile /\ f.name = content[k].name /\ f.draft = content[k].draft
      /\ f.length = 2 /\ f.at = mtime /\ f.whole
  BY <1>1, <1>2 DEF MockFile, FilesOK
<1>4. content' = [content EXCEPT ![k] = f]
  BY <1>1, <1>2
<1>5. /\ content' \in Seq(MockFile) /\ DOMAIN content' = DOMAIN content
      /\ content'[k] = f /\ \A i \in DOMAIN content : i # k => content'[i] = content[i]
      /\ \A i \in DOMAIN content : i \in Nat
  BY <1>3, <1>4 DEF FilesOK
<1>6. \A i \in DOMAIN content : content[i] \in MockFile
  BY DEF FilesOK
<1>7. FilesFollow
  BY <1>1, <1>3, <1>5, <1>6 DEF FilesFollow, MockFile
<1>8. PICK n \in DOMAIN content : \A j \in DOMAIN content : Later(n, j)
  BY DEF FilesOK
<1>9. \E i \in DOMAIN content' : \A j \in DOMAIN content' : Later(i, j)'
  <2>1. CASE content[n].at = mtime /\ n >= k
    <3>1. \A j \in DOMAIN content' : Later(n, j)'
      BY <1>1, <1>3, <1>5, <1>6, <1>8, <2>1 DEF Later, FilesOK, MockFile
    <3> QED BY <1>5, <3>1
  <2>2. CASE ~(content[n].at = mtime /\ n >= k)
    <3>1. ASSUME NEW j \in DOMAIN content', j # k
          PROVE  Later(k, j)'
      <4>1. /\ content'[j] = content[j] /\ content'[k].at = mtime /\ j \in Nat /\ k \in Nat
            /\ n \in Nat /\ content[j].at \in Nat /\ content[n].at \in Nat
            /\ content[n].at <= mtime /\ mtime \in Nat /\ j \in DOMAIN content
        BY <1>3, <1>5, <1>6, <3>1 DEF FilesOK, MockFile
      <4>2. content[n].at > content[j].at \/ (content[n].at = content[j].at /\ n >= j)
        BY <1>8, <4>1 DEF Later
      <4> QED BY <4>1, <4>2, <2>2 DEF Later
    <3>2. Later(k, k)'
      BY <1>3, <1>5 DEF Later, FilesOK
    <3> QED BY <1>5, <3>1, <3>2
  <2> QED BY <2>1, <2>2
<1>10. \A i \in DOMAIN content' : content'[i].at <= mtime' /\ (~content'[i].whole => content'[i].length = 1)
  BY <1>1, <1>3, <1>5 DEF FilesOK
<1>11. \A i, j \in DOMAIN content' : content'[i].name = content'[j].name => i = j
  BY <1>3, <1>5 DEF FilesOK
<1> QED BY <1>1, <1>5, <1>7, <1>9, <1>10, <1>11 DEF FilesOK

LEMMA SameFilesFollow ==
  ASSUME FilesOK, content' = content, mtime' \in Nat, mtime <= mtime'
  PROVE  FilesOK' /\ FilesFollow
<1>1. \A i \in DOMAIN content : content[i] \in MockFile
  BY DEF FilesOK
<1>2. FilesFollow
  BY <1>1 DEF FilesFollow, MockFile
<1>3. content # <<>> => \E i \in DOMAIN content' : \A j \in DOMAIN content' : Later(i, j)'
  BY DEF FilesOK, Later
<1> QED BY <1>1, <1>2, <1>3 DEF FilesOK, MockFile

LEMMA FilesKept ==
  ASSUME FilesOK, [MockNext]_mockVars
  PROVE  FilesOK' /\ FilesFollow
<1>1. ASSUME NEW name \in MockFiles, NEW draft \in Drafts, NEW whole \in BOOLEAN,
             Write(name, draft, whole)
      PROVE  FilesOK' /\ FilesFollow
  BY <1>1, WriteFollows
<1>2. ASSUME NEW k \in DOMAIN content, Completes(k)
      PROVE  FilesOK' /\ FilesFollow
  BY <1>2, CompletesFollows
<1>3. CASE TimePasses
  <2>1. content' = content /\ mtime' \in Nat /\ mtime <= mtime'
    BY <1>3 DEF TimePasses, Writes, FilesOK
  <2> QED BY <2>1, SameFilesFollow
<1>4. CASE UNCHANGED <<content, mtime>>
  <2>1. content' = content /\ mtime' \in Nat /\ mtime <= mtime'
    BY <1>4 DEF FilesOK
  <2> QED BY <2>1, SameFilesFollow
<1> QED
  BY <1>1, <1>2, <1>3, <1>4
  DEF MockNext, mockVars, Poll, ReadScreen, Select, MoveFocus, Toggle, Enter, Escape, Keyed,
      SwitchesBack, Notify, ViewerFails, ViewerDies, StartMockup, ShowBegins, ShowSets,
      ShowSwitches, StopMockup, ClientMoves

-----------------------------------------------------------------------------
(* The operator's clients                                                  *)

LEMMA SwitchedBackPlace ==
  ASSUME ClientsOK, NEW c \in MockClients
  PROVE  /\ SwitchedBack(c) \in Places \cup {ViewOf}
         /\ SwitchedBack(c) = ViewOf => on[c] = ViewOf
BY MockAssumption DEF ClientsOK, SwitchedBack

LEMMA SwitchBackKeeps ==
  ASSUME ClientsOK, SwitchBack, showing' = showing,
         view' \in [is : {"absent", "alive", "dead"}, returnTo : Places \cup {Nowhere}],
         view'.returnTo = view.returnTo, view.is # "absent" => view'.is # "absent"
  PROVE  ClientsOK'
<1>1. \A c \in MockClients : on'[c] = SwitchedBack(c)
  BY DEF SwitchBack
<1>2. on' \in [MockClients -> Places \cup {ViewOf}]
  BY SwitchedBackPlace DEF SwitchBack
<1>3. \A c \in MockClients : fetchedFrom'[c] = IF on'[c] = ViewOf THEN fetchedFrom[c] ELSE Nowhere
  BY DEF SwitchBack
<1>4. fetchedFrom' \in [MockClients -> Places \cup {Nowhere}]
  BY <1>3 DEF SwitchBack, ClientsOK
<1>5. ASSUME NEW c \in MockClients, on'[c] = ViewOf
      PROVE  on[c] = ViewOf /\ fetchedFrom'[c] = fetchedFrom[c]
  BY <1>1, <1>3, <1>5, SwitchedBackPlace
<1> QED BY <1>2, <1>4, <1>5 DEF ClientsOK

LEMMA ViewEnsured ==
  ASSUME ClientsOK, EnsureView, on' = on, fetchedFrom' = fetchedFrom,
         showing' \in {NoShow} \cup [client : MockClients, from : Places],
         showing' # NoShow => \A c \in MockClients : on[c] # ViewOf
  PROVE  ClientsOK'
<1>1. /\ view' \in [is : {"absent", "alive", "dead"}, returnTo : Places \cup {Nowhere}]
      /\ view'.is # "absent"
      /\ view.is # "absent" => view'.returnTo = view.returnTo
  <2>1. CASE view.is = "absent"
    BY <2>1 DEF EnsureView
  <2>2. CASE view.is # "absent"
    BY <2>2 DEF EnsureView, ClientsOK
  <2> QED BY <2>1, <2>2
<1> QED BY <1>1 DEF ClientsOK

LEMMA ClientsKept ==
  ASSUME ClientsOK, [MockNext]_mockVars
  PROVE  ClientsOK'
<1>1. CASE UNCHANGED <<view, on, showing, fetchedFrom>>
  BY <1>1 DEF ClientsOK
<1>2. CASE SwitchesBack \/ ViewerFails
  <2>1. /\ view' \in [is : {"absent", "alive", "dead"}, returnTo : Places \cup {Nowhere}]
        /\ view'.returnTo = view.returnTo /\ (view.is # "absent" => view'.is # "absent")
        /\ showing' = showing /\ SwitchBack
    BY <1>2 DEF SwitchesBack, ViewerFails, ClientsOK
  <2> QED BY <2>1, SwitchBackKeeps
<1>3. CASE ViewerDies
  <2>1. view' = [view EXCEPT !.is = "dead"] /\ UNCHANGED <<on, showing, fetchedFrom>>
    BY <1>3 DEF ViewerDies
  <2> QED BY <2>1 DEF ClientsOK
<1>4. CASE StartMockup
  <2>1. EnsureView /\ UNCHANGED <<on, showing, fetchedFrom>> /\ showing = NoShow
    BY <1>4 DEF StartMockup, EnsureView
  <2> QED BY <2>1, ViewEnsured
<1>5. CASE ShowBegins
  <2>1. EnsureView /\ UNCHANGED <<on, fetchedFrom>> /\ showing = NoShow
    BY <1>5 DEF ShowBegins, EnsureView
  <2>2. /\ showing' \in {NoShow} \cup [client : MockClients, from : Places]
        /\ showing' # NoShow => \A c \in MockClients : on[c] # ViewOf
    <3>1. CASE showing' = showing
      BY <2>1, <3>1
    <3>2. ASSUME NEW c \in Picks, showing' = [client |-> c, from |-> on[c]],
                 \A d \in MockClients : on[d] # ViewOf
          PROVE  showing' \in [client : MockClients, from : Places]
      <4>1. c \in MockClients
        BY DEF Picks
      <4> QED BY <3>2, <4>1 DEF ClientsOK
    <3> QED BY <1>5, <3>1, <3>2 DEF ShowBegins
  <2> QED BY <2>1, <2>2, ViewEnsured
<1>6. CASE ShowSets
  <2>1. /\ showing # NoShow /\ view' = [view EXCEPT !.returnTo = showing.from]
        /\ UNCHANGED <<on, showing, fetchedFrom>>
    BY <1>6 DEF ShowSets
  <2>2. showing.from \in Places
    BY <2>1 DEF ClientsOK
  <2> QED BY <2>1, <2>2 DEF ClientsOK
<1>7. CASE ShowSwitches
  <2>1. /\ showing # NoShow /\ view.returnTo = showing.from /\ showing' = NoShow /\ view' = view
        /\ on' = [on EXCEPT ![showing.client] = ViewOf]
        /\ fetchedFrom' = [fetchedFrom EXCEPT
             ![showing.client] = IF on[showing.client] = showing.from THEN showing.from ELSE Nowhere]
    BY <1>7 DEF ShowSwitches
  <2>2. PICK client \in MockClients, from \in Places : showing.client = client /\ showing.from = from
    BY <2>1 DEF ClientsOK
  <2>3. /\ on' \in [MockClients -> Places \cup {ViewOf}]
        /\ fetchedFrom' \in [MockClients -> Places \cup {Nowhere}]
        /\ fetchedFrom'[client] \in {from, Nowhere}
        /\ \A c \in MockClients : c # client => on'[c] = on[c] /\ fetchedFrom'[c] = fetchedFrom[c]
    BY <2>1, <2>2 DEF ClientsOK
  <2> QED BY <2>1, <2>2, <2>3 DEF ClientsOK
<1>8. CASE StopMockup
  <2>1. PICK place \in Places :
          on' = [c \in MockClients |-> IF SwitchedBack(c) = ViewOf THEN place ELSE SwitchedBack(c)]
    BY <1>8 DEF StopMockup
  <2>2. on' \in [MockClients -> Places]
    BY <2>1, SwitchedBackPlace
  <2>3. \A c \in MockClients : on'[c] # ViewOf
    BY <2>2, MockAssumption
  <2>4. /\ view' = [is |-> "absent", returnTo |-> Nowhere] /\ showing' = NoShow
        /\ fetchedFrom' = [c \in MockClients |-> Nowhere]
    BY <1>8 DEF StopMockup
  <2> QED BY <2>2, <2>3, <2>4 DEF ClientsOK
<1>9. ASSUME NEW c \in MockClients, NEW place \in Places \cup {ViewOf}, ClientMoves(c, place)
      PROVE  ClientsOK'
  <2>1. /\ on' = [on EXCEPT ![c] = place] /\ fetchedFrom' = [fetchedFrom EXCEPT ![c] = Nowhere]
        /\ UNCHANGED <<view, showing>> /\ (place = ViewOf => view.is # "absent")
    BY <1>9 DEF ClientMoves
  <2> QED BY <2>1 DEF ClientsOK
<1> QED
  BY <1>1, <1>2, <1>3, <1>4, <1>5, <1>6, <1>7, <1>8, <1>9
  DEF MockNext, mockVars, Poll, ReadScreen, Select, MoveFocus, Toggle, Enter, Escape, Keyed,
      Notify, Write, Writes, Completes, TimePasses

-----------------------------------------------------------------------------
(* The viewer                                                              *)

(* Files that follow keep what is said of the current one.                 *)
LEMMA FollowingKeeps ==
  ASSUME FilesOK, FilesOK', FilesFollow, IsViewer(shown), CurrentOK, ReadingOK, ShowsCurrent,
         shown'.current = shown.current, shown'.screen = shown.screen,
         shown'.error = shown.error, shown'.waiting = shown.waiting,
         viewer'.at \in AtWork => viewer.at \in AtWork,
         viewer'.at = "read" => viewer.at = "read"
  PROVE  CurrentOK' /\ ReadingOK' /\ ShowsCurrent'
<1>1. \A i \in DOMAIN content : content[i] \in MockFile
  BY DEF FilesOK
<1>2. \A i \in DOMAIN content : content[i].length \in {1, 2} /\ content[i].name \in MockFiles
  BY <1>1 DEF MockFile
<1>3. shown.current.length \in Nat /\ \A i \in DOMAIN content' : content'[i].length \in Nat
  <2>1. \A i \in DOMAIN content' : content'[i] \in MockFile
    BY DEF FilesOK
  <2> QED BY <2>1 DEF MockFile, IsViewer, MockSource
<1>4. CurrentOK'
  <2>1. CASE shown.current = NoSource
    BY <2>1 DEF CurrentOK, NoSource
  <2>2. ASSUME NEW i \in DOMAIN content, content[i].name = shown.current.name,
               shown.current.length <= content[i].length
        PROVE  CurrentOK'
    <3>1. /\ i \in DOMAIN content' /\ content'[i].name = shown'.current.name
          /\ shown'.current = shown.current /\ content[i].length <= content'[i].length
      BY <2>2 DEF FilesFollow
    <3>2. shown'.current.length <= content'[i].length
      BY <1>2, <1>3, <2>2, <3>1
    <3> QED BY <3>1, <3>2 DEF CurrentOK
  <2> QED BY <2>1, <2>2 DEF CurrentOK
<1>5. ReadingOK'
  BY DEF ReadingOK, FilesFollow
<1>6. ASSUME viewer'.at \in AtWork, NEW j \in DOMAIN content', shown'.current = SourceOf(content'[j])
      PROVE  Shows(shown', content'[j])
  <2>1. shown.current.name = content'[j].name /\ shown.current.length = content'[j].length
    BY <1>6 DEF SourceOf
  <2>2. CASE j \in DOMAIN content /\ content'[j] = content[j]
    BY <1>6, <2>2 DEF ShowsCurrent, Shows, SourceOf
  <2>3. CASE j \in DOMAIN content /\ content[j].length < content'[j].length
    <3>1. content'[j].name = content[j].name /\ content[j].name # Nowhere
      BY <1>2, <2>3, MockAssumption DEF FilesFollow
    <3>2. PICK i \in DOMAIN content :
            content[i].name = shown.current.name /\ shown.current.length <= content[i].length
      BY <2>1, <3>1 DEF CurrentOK, NoSource
    <3>3. i = j
      BY <2>1, <2>3, <3>1, <3>2 DEF FilesOK
    <3> QED BY <1>2, <1>3, <2>1, <2>3, <3>2, <3>3
  <2>4. CASE content'[j].name \in MockFiles /\ \A i \in DOMAIN content : content[i].name # content'[j].name
    BY <2>1, <2>4, MockAssumption DEF CurrentOK, NoSource
  <2> QED BY <2>2, <2>3, <2>4 DEF FilesFollow
<1>7. ShowsCurrent'
  BY <1>6 DEF ShowsCurrent
<1> QED BY <1>4, <1>5, <1>7

LEMMA LogStays ==
  ASSUME LogOK, events' = events, runs' = runs, shown'.current = shown.current
  PROVE  LogOK'
BY DEF LogOK

LEMMA LogGrows ==
  ASSUME LogOK, NEW type, NEW what, AppendEvent(type, what), runs' = runs,
         shown'.current = shown.current
  PROVE  /\ LogOK' /\ events' # <<>>
         /\ Last(events').choice = what /\ Last(events').screen = shown.current.name
<1>1. PICK e : e = [type |-> type, choice |-> what, screen |-> shown.current.name, run |-> runs]
  OBVIOUS
<1>2. e.choice = what /\ e.screen = shown.current.name /\ e.run = runs /\ runs \in Nat
  BY <1>1 DEF LogOK
<1>3. PICK S : events \in Seq(S)
  BY DEF LogOK
<1>4. PICK T : T = S \cup {e}
  OBVIOUS
<1>5. events \in Seq(T) /\ e \in T
  BY <1>3, <1>4
<1>6. events' = Append(events, e)
  BY <1>1 DEF AppendEvent
<1>7. /\ events' \in Seq(T) /\ Len(events') = Len(events) + 1 /\ Len(events) \in Nat
      /\ events'[Len(events) + 1] = e
      /\ \A i \in 1..Len(events) : events'[i] = events[i]
  BY <1>5, <1>6
<1>8. \A i \in 1..Len(events') : i = Len(events) + 1 \/ i \in 1..Len(events)
  BY <1>7
<1>9. Last(events') = e /\ events' # <<>>
  BY <1>7 DEF Last
<1>10. LogOK'
  BY <1>2, <1>7, <1>8 DEF LogOK
<1> QED BY <1>2, <1>9, <1>10

(* A key changes neither what is current nor what is shown of it.          *)
SameScreen ==
  /\ IsViewer(shown') /\ shown'.current = shown.current /\ shown'.screen = shown.screen
  /\ shown'.error = shown.error /\ shown'.waiting = shown.waiting

LEMMA KeySame ==
  ASSUME IsViewer(shown), NEW focus, NEW selected, NEW layout,
         \/ shown' = [shown EXCEPT !.focus = focus]
         \/ shown' = [shown EXCEPT !.layout = layout]
         \/ shown' = [shown EXCEPT !.selected = selected, !.focus = focus]
         \/ shown' = shown
  PROVE  SameScreen
BY DEF IsViewer, SameScreen

LEMMA EnsureViewKeeps ==
  ASSUME FilesOK', ViewerOK, EnsureView, UNCHANGED <<content, events>>
  PROVE  ViewerOK'
<1>1. CASE UNCHANGED <<viewer, shown, runs>>
  BY <1>1 DEF ViewerOK, IsViewer, IsProcess, CurrentOK, ReadingOK, ShowsCurrent, LogOK, AnswerOK
<1>2. CASE viewer' = [at |-> "loop"] /\ shown' = NewViewer /\ runs' = runs + 1
  <2>1. /\ IsProcess(viewer') /\ viewer'.at = "loop" /\ shown'.current = NoSource
        /\ shown'.current.name = Nowhere
    BY <1>2 DEF IsProcess, NewViewer, NoSource
  <2>2. IsViewer(shown')
    BY <1>2 DEF IsViewer, NewViewer, MockSource, NoSource
  <2>3. ReadingOK' /\ CurrentOK' /\ AnswerOK'
    BY <2>1 DEF ReadingOK, CurrentOK, AnswerOK
  <2>4. \A j \in DOMAIN content' : content'[j] \in MockFile
    BY DEF FilesOK
  <2>5. ShowsCurrent'
    BY <2>1, <2>4, MockAssumption DEF ShowsCurrent, SourceOf, MockFile
  <2>6. LogOK'
    BY <1>2 DEF LogOK, ViewerOK
  <2> QED BY <2>1, <2>2, <2>3, <2>5, <2>6 DEF ViewerOK
<1> QED BY <1>1, <1>2 DEF EnsureView

LEMMA PollKeeps ==
  ASSUME FilesOK, ViewerOK, Poll
  PROVE  ViewerOK'
<1>1. PICK k \in DOMAIN content : Newest = content[k]
  BY NewestIsThere DEF Poll
<1>2. PICK f \in MockFile : f = Newest /\ f = content[k]
  BY <1>1 DEF FilesOK
<1>3. f.name \in MockFiles /\ f.name # Nowhere /\ f.draft.waiting \in BOOLEAN
  BY <1>2, MockAssumption DEF MockFile
<1>4. PICK new \in BOOLEAN : new = (shown.current.name # f.name)
  OBVIOUS
<1>5. PICK base : base = IF new THEN [NewViewer EXCEPT !.screen = shown.screen, !.layout = shown.layout]
                         ELSE shown
  OBVIOUS
<1>6. /\ events' = IF new /\ shown.current # NoSource THEN <<>> ELSE events
      /\ shown' = [base EXCEPT !.current = SourceOf(f), !.waiting = f.draft.waiting,
                               !.error = IF f.draft.waiting THEN FALSE ELSE @]
      /\ viewer' = [at |-> IF f.draft.waiting THEN "loop" ELSE "read"]
      /\ viewer = [at |-> "loop"] /\ UNCHANGED <<content, runs>>
  BY <1>2, <1>4, <1>5 DEF Poll
<1>7. IsViewer(base)
  <2>1. CASE new
    BY <1>5, <2>1 DEF IsViewer, NewViewer, NoSource, MockSource
  <2>2. CASE ~new
    BY <1>5, <2>2 DEF ViewerOK
  <2> QED BY <2>1, <2>2
<1>8. SourceOf(f) \in MockSource /\ SourceOf(f).name = f.name /\ SourceOf(f).length = f.length
  BY <1>2 DEF SourceOf, MockSource, MockFile
<1>9. /\ IsViewer(shown') /\ shown'.current = SourceOf(f) /\ shown'.waiting = f.draft.waiting
  BY <1>3, <1>6, <1>7, <1>8 DEF IsViewer
<1>10. IsProcess(viewer') /\ viewer'.at = IF f.draft.waiting THEN "loop" ELSE "read"
  BY <1>3, <1>6 DEF IsProcess
<1>11. CurrentOK'
  BY <1>1, <1>2, <1>6, <1>8, <1>9 DEF CurrentOK, MockFile
<1>12. ReadingOK'
  BY <1>1, <1>2, <1>3, <1>6, <1>8, <1>9, <1>10 DEF ReadingOK
<1>13. ShowsCurrent'
  <2>1. ASSUME viewer'.at \in AtWork, NEW j \in DOMAIN content', shown'.current = SourceOf(content'[j])
        PROVE  Shows(shown', content'[j])
    <3>1. f.draft.waiting
      BY <1>10, <2>1 DEF AtWork
    <3>2. content'[j].name = content[k].name /\ j \in DOMAIN content
      BY <1>2, <1>6, <1>9, <2>1 DEF SourceOf
    <3>3. content'[j] = f
      BY <1>2, <1>6, <3>2 DEF FilesOK
    <3> QED BY <1>9, <3>1, <3>3 DEF Shows
  <2> QED BY <2>1 DEF ShowsCurrent
<1>14. LogOK'
  <2>1. CASE events' = <<>>
    BY <1>6, <2>1 DEF ViewerOK, LogOK
  <2>2. CASE events' = events /\ shown.current.name \in {f.name, Nowhere}
    BY <1>6, <1>8, <1>9, <2>2 DEF ViewerOK, LogOK
  <2>3. CASE new /\ shown.current # NoSource
    BY <1>6, <2>1, <2>3
  <2>4. CASE ~new
    BY <1>4, <1>6, <2>2, <2>4
  <2>5. CASE shown.current = NoSource
    <3>1. shown.current.name = Nowhere
      BY <2>5 DEF NoSource
    <3> QED BY <1>6, <2>2, <2>5, <3>1
  <2> QED BY <2>3, <2>4, <2>5
<1>15. AnswerOK'
  BY <1>10 DEF AnswerOK
<1> QED BY <1>9, <1>10, <1>11, <1>12, <1>13, <1>14, <1>15 DEF ViewerOK

LEMMA ReadKeeps ==
  ASSUME FilesOK, ViewerOK, ReadScreen
  PROVE  ViewerOK'
<1>1. viewer = [at |-> "read"] /\ viewer' = [at |-> "loop"] /\ UNCHANGED <<content, events, runs>>
  BY DEF ReadScreen
<1>2. PICK k \in DOMAIN content : content[k].name = shown.current.name /\ ~content[k].draft.waiting
  BY <1>1 DEF ViewerOK, ReadingOK
<1>3. content[k] \in Range(content)
  BY DEF Range
<1>4. FileOf(shown.current.name) \in Range(content) /\ FileOf(shown.current.name).name = shown.current.name
  BY <1>2, <1>3 DEF FileOf
<1>5. FileOf(shown.current.name) = content[k]
  BY <1>2, <1>4 DEF Range, FilesOK
<1>6. PICK f : f = content[k]
  OBVIOUS
<1>7. shown' = IF f.whole /\ Converts(f.draft)
                 THEN [shown EXCEPT !.screen = [of |-> f.name, options |-> OptionsOf(f.draft)],
                                    !.error = FALSE]
                 ELSE [shown EXCEPT !.error = TRUE]
  BY <1>5, <1>6 DEF ReadScreen
<1>8. IsViewer(shown) /\ ~shown.waiting
  BY <1>1 DEF ViewerOK, ReadingOK
<1>9. /\ IsViewer(shown') /\ shown'.current = shown.current /\ ~shown'.waiting
      /\ IF f.whole /\ Converts(f.draft)
           THEN ~shown'.error /\ shown'.screen = [of |-> f.name, options |-> OptionsOf(f.draft)]
           ELSE shown'.error
  <2>1. CASE f.whole /\ Converts(f.draft)
    <3>1. PICK screen : screen = [of |-> f.name, options |-> OptionsOf(f.draft)]
      OBVIOUS
    <3>2. shown' = [shown EXCEPT !.screen = screen, !.error = FALSE]
      BY <1>7, <2>1, <3>1
    <3> QED BY <1>8, <2>1, <3>1, <3>2 DEF IsViewer
  <2>2. CASE ~(f.whole /\ Converts(f.draft))
    <3>1. shown' = [shown EXCEPT !.error = TRUE]
      BY <1>7, <2>2
    <3> QED BY <1>8, <2>2, <3>1 DEF IsViewer
  <2> QED BY <2>1, <2>2
<1>10. ShowsCurrent'
  <2>1. ASSUME NEW j \in DOMAIN content', shown'.current = SourceOf(content'[j])
        PROVE  Shows(shown', content'[j])
    <3>1. content'[j].name = content[k].name /\ j \in DOMAIN content
      BY <1>1, <1>2, <1>9, <2>1 DEF SourceOf
    <3>2. content'[j] = f
      BY <1>1, <1>6, <3>1 DEF FilesOK
    <3>3. f \in MockFile /\ ~f.draft.waiting
      BY <1>2, <1>6 DEF FilesOK
    <3>4. f.draft.waiting = FALSE /\ shown'.waiting = FALSE
      BY <1>9, <3>3, MockAssumption DEF MockFile, IsViewer
    <3> QED BY <1>9, <3>2, <3>4 DEF Shows
  <2> QED BY <2>1 DEF ShowsCurrent
<1>11. IsProcess(viewer') /\ CurrentOK' /\ ReadingOK' /\ AnswerOK'
  BY <1>1, <1>9 DEF IsProcess, CurrentOK, ReadingOK, AnswerOK, ViewerOK
<1>12. LogOK'
  BY <1>1, <1>9, LogStays DEF ViewerOK
<1> QED BY <1>9, <1>10, <1>11, <1>12 DEF ViewerOK

LEMMA KeyKeeps ==
  ASSUME FilesOK, FilesOK', FilesFollow, ViewerOK, UNCHANGED <<content, runs>>, viewer = [at |-> "loop"],
         SameScreen, viewer'.at \in AtWork, IsProcess(viewer'), LogOK', AnswerOK'
  PROVE  ViewerOK'
<1>1. CurrentOK' /\ ReadingOK' /\ ShowsCurrent'
  BY FollowingKeeps DEF ViewerOK, AtWork, SameScreen
<1> QED BY <1>1 DEF ViewerOK, SameScreen

LEMMA ViewerKept ==
  ASSUME FilesOK, FilesOK', FilesFollow, ViewerOK, [MockNext]_mockVars
  PROVE  ViewerOK'
<1>1. IsViewer(shown) /\ LogOK /\ IsProcess(viewer)
  BY DEF ViewerOK
<1>2. ASSUME NEW i \in 1..2, Select(i)
      PROVE  ViewerOK'
  <2>1. /\ viewer = [at |-> "loop"] /\ viewer' = viewer /\ UNCHANGED <<content, runs>>
    BY <1>2 DEF Select, Keyed
  <2>2. SameScreen /\ shown'.current = shown.current
    <3>1. shown' = [shown EXCEPT !.selected = i, !.focus = i] \/ shown' = shown
      BY <1>2 DEF Select
    <3> QED BY <1>1, <3>1, KeySame DEF SameScreen
  <2>3. LogOK'
    <3>1. CASE UNCHANGED <<shown, events>>
      BY <1>1, <2>1, <3>1, LogStays
    <3>2. CASE AppendEvent("select", Offers[i])
      BY <1>1, <2>1, <2>2, <3>2, LogGrows
    <3> QED BY <1>2, <3>1, <3>2 DEF Select
  <2>4. AnswerOK' /\ IsProcess(viewer') /\ viewer'.at \in AtWork
    BY <2>1 DEF AnswerOK, IsProcess, AtWork
  <2> QED BY <2>1, <2>2, <2>3, <2>4, KeyKeeps
<1>3. ASSUME NEW d \in {-1, 1}, MoveFocus(d) \/ Toggle
      PROVE  ViewerOK'
  <2>1. /\ viewer = [at |-> "loop"] /\ viewer' = viewer /\ UNCHANGED <<content, runs, events>>
    BY <1>3 DEF MoveFocus, Toggle, Keyed
  <2>2. PICK focus, layout :
          \/ shown' = [shown EXCEPT !.focus = focus]
          \/ shown' = [shown EXCEPT !.layout = layout]
    BY <1>3 DEF MoveFocus, Toggle
  <2>3. SameScreen /\ shown'.current = shown.current
    BY <1>1, <2>2, KeySame DEF SameScreen
  <2>4. LogOK'
    BY <1>1, <2>1, <2>3, LogStays
  <2>5. AnswerOK' /\ IsProcess(viewer') /\ viewer'.at \in AtWork
    BY <2>1 DEF AnswerOK, IsProcess, AtWork
  <2> QED BY <2>1, <2>3, <2>4, <2>5, KeyKeeps
<1>4. ASSUME NEW type, NEW what, NEW outcome,
             Keyed, AppendEvent(type, what), shown' = shown,
             viewer' = [at |-> "back", outcome |-> outcome],
             what \in {Nowhere, outcome},
             what = Nowhere => outcome \in {"confirmed", "dismissed"}
      PROVE  ViewerOK'
  <2>1. viewer = [at |-> "loop"] /\ UNCHANGED <<content, runs>> /\ shown'.current = shown.current
    BY <1>4 DEF Keyed
  <2>2. /\ LogOK' /\ events' # <<>>
        /\ Last(events').choice = what /\ Last(events').screen = shown.current.name
    BY <1>1, <1>4, <2>1, LogGrows
  <2>3. viewer'.at = "back" /\ viewer'.outcome = outcome /\ IsProcess(viewer')
    BY <1>4 DEF IsProcess
  <2>4. AnswerOK' /\ viewer'.at \in AtWork
    BY <1>4, <2>2, <2>3 DEF AnswerOK, AtWork
  <2>5. SameScreen
    BY <1>1, <1>4 DEF SameScreen
  <2> QED BY <2>1, <2>2, <2>3, <2>4, <2>5, KeyKeeps
<1>5. CASE Enter
  <2>1. PICK what : what = ChoiceAt(IF shown.selected # 0 THEN shown.selected ELSE shown.focus)
    OBVIOUS
  <2>2. PICK outcome : outcome = IF what = Nowhere THEN "confirmed" ELSE what
    OBVIOUS
  <2>3. /\ Keyed /\ AppendEvent("confirm", what) /\ shown' = shown
        /\ viewer' = [at |-> "back", outcome |-> outcome]
    BY <1>5, <2>1, <2>2 DEF Enter
  <2>4. /\ what \in {Nowhere, outcome}
        /\ what = Nowhere => outcome \in {"confirmed", "dismissed"}
    BY <2>2
  <2> QED BY <1>4, <2>3, <2>4
<1>6. CASE Escape
  <2>1. /\ Keyed /\ AppendEvent("dismiss", Nowhere) /\ shown' = shown
        /\ viewer' = [at |-> "back", outcome |-> "dismissed"]
    BY <1>6 DEF Escape
  <2> QED BY <1>4, <2>1
<1>7. CASE Poll
  BY <1>7, PollKeeps
<1>8. CASE ReadScreen
  BY <1>8, ReadKeeps
<1>9. CASE SwitchesBack
  <2>1. /\ viewer.at = "back" /\ viewer' = [viewer EXCEPT !.at = "notify"]
        /\ UNCHANGED <<content, events, shown, runs>>
    BY <1>9 DEF SwitchesBack
  <2>2. viewer'.at = "notify" /\ viewer'.outcome = viewer.outcome /\ IsProcess(viewer')
    BY <1>1, <2>1 DEF IsProcess
  <2>3. AnswerOK' /\ LogOK'
    BY <1>1, <2>1, <2>2, LogStays DEF AnswerOK, ViewerOK
  <2>4. CurrentOK' /\ ReadingOK' /\ ShowsCurrent'
    BY <2>1, <2>2, FollowingKeeps DEF ViewerOK, AtWork
  <2> QED BY <1>1, <2>1, <2>2, <2>3, <2>4 DEF ViewerOK
<1>10. ASSUME viewer' \in {[at |-> "none"], [at |-> "loop"]},
             viewer'.at = "loop" => viewer.at \in AtWork,
             UNCHANGED <<content, events, shown, runs>>
      PROVE  ViewerOK'
  <2>1. IsProcess(viewer') /\ AnswerOK' /\ LogOK'
    BY <1>1, <1>10, LogStays DEF IsProcess, AnswerOK
  <2>2. CurrentOK' /\ ReadingOK' /\ ShowsCurrent'
    BY <1>10, FollowingKeeps DEF ViewerOK, AtWork
  <2> QED BY <1>1, <1>10, <2>1, <2>2 DEF ViewerOK
<1>11. CASE Notify
  <2>1. /\ viewer' = [at |-> "loop"] /\ viewer.at \in AtWork
        /\ UNCHANGED <<content, events, shown, runs>>
    BY <1>11 DEF Notify, AtWork
  <2> QED BY <1>10, <2>1
<1>12. CASE ViewerFails \/ ViewerDies \/ StopMockup
  <2>1. viewer' = [at |-> "none"] /\ UNCHANGED <<content, events, shown, runs>>
    BY <1>12 DEF ViewerFails, ViewerDies, StopMockup
  <2> QED BY <1>10, <2>1
<1>13. CASE StartMockup \/ ShowBegins
  <2>1. EnsureView /\ UNCHANGED <<content, events>>
    BY <1>13 DEF StartMockup, ShowBegins
  <2> QED BY <2>1, EnsureViewKeeps
<1>14. CASE UNCHANGED <<viewer, shown, events, runs>>
  <2>1. CurrentOK' /\ ReadingOK' /\ ShowsCurrent'
    BY <1>14, FollowingKeeps DEF ViewerOK
  <2>2. AnswerOK' /\ LogOK'
    BY <1>1, <1>14, LogStays DEF AnswerOK, ViewerOK
  <2> QED BY <1>1, <1>14, <2>1, <2>2 DEF ViewerOK
<1>15. CASE ShowSets \/ ShowSwitches \/ TimePasses \/ UNCHANGED mockVars
  BY <1>14, <1>15 DEF ShowSets, ShowSwitches, TimePasses, Writes, mockVars
<1>16. ASSUME NEW name \in MockFiles, NEW draft \in Drafts, NEW whole \in BOOLEAN,
              Write(name, draft, whole)
       PROVE  ViewerOK'
  BY <1>14, <1>16 DEF Write, Writes
<1>17. ASSUME NEW k \in DOMAIN content, Completes(k)
       PROVE  ViewerOK'
  BY <1>14, <1>17 DEF Completes, Writes
<1>18. ASSUME NEW c \in MockClients, NEW place \in Places \cup {ViewOf}, ClientMoves(c, place)
       PROVE  ViewerOK'
  BY <1>14, <1>18 DEF ClientMoves
<1> QED
  BY <1>2, <1>3, <1>5, <1>6, <1>7, <1>8, <1>9, <1>11, <1>12, <1>13, <1>15, <1>16, <1>17, <1>18
  DEF MockNext

LEMMA MockBegins == MockInit => MockInv
<1> SUFFICES ASSUME MockInit PROVE MockInv
  OBVIOUS
<1>1. FilesOK
  BY DEF MockInit, FilesOK
<1>2. IsViewer(shown) /\ IsProcess(viewer) /\ viewer.at = "none" /\ shown.current = NoSource
  BY DEF MockInit, IsViewer, IsProcess, NewViewer, NoSource, MockSource
<1>3. CurrentOK /\ ReadingOK /\ ShowsCurrent /\ AnswerOK
  BY <1>2 DEF CurrentOK, ReadingOK, ShowsCurrent, AnswerOK, AtWork
<1>4. LogOK
  BY DEF MockInit, LogOK
<1>5. ClientsOK
  BY MockAssumption DEF MockInit, ClientsOK
<1> QED BY <1>1, <1>2, <1>3, <1>4, <1>5 DEF MockInv, ViewerOK

(* The viewer's current file is one of content/, its lines are of that file,*)
(* and a client fetched is where it can be sent back from.                 *)
THEOREM MockInvariance == MockSpec => []MockInv
<1>1. MockInv /\ [MockNext]_mockVars => MockInv'
  BY FilesKept, ViewerKept, ClientsKept DEF MockInv
<1> QED BY <1>1, MockBegins, PTL DEF MockSpec

(* The viewer shows the newest screen, answers are of the screen shown, and*)
(* a client goes back where it came from.                                  *)
THEOREM MockupServes == MockSpec => []MockupHolds
<1>1. MockInv => MockupHolds
  <2> SUFFICES ASSUME MockInv PROVE MockupHolds
    OBVIOUS
  <2>1. ShowsTheNewest
    <3>1. ASSUME viewer = [at |-> "loop"], content # <<>>, shown.current = SourceOf(Newest)
          PROVE  Shows(shown, Newest)
      <4>1. PICK k \in DOMAIN content : Newest = content[k]
        BY <3>1, NewestIsThere DEF MockInv
      <4>2. viewer.at \in AtWork
        BY <3>1 DEF AtWork
      <4> QED BY <3>1, <4>1, <4>2 DEF MockInv, ViewerOK, ShowsCurrent
    <3> QED BY <3>1 DEF ShowsTheNewest, Shows
  <2>2. \A e \in Range(events) : e.run = runs => e.screen \in {shown.current.name, Nowhere}
    <3>1. PICK S : events \in Seq(S)
      BY DEF MockInv, ViewerOK, LogOK
    <3>2. DOMAIN events = 1..Len(events)
      BY <3>1
    <3> QED BY <3>2 DEF Range, MockInv, ViewerOK, LogOK
  <2>3. AnswerOK
    BY DEF MockInv, ViewerOK
  <2>4. \A c \in MockClients :
          (on[c] = ViewOf /\ fetchedFrom[c] # Nowhere) => view.returnTo = fetchedFrom[c]
    BY DEF MockInv, ClientsOK
  <2> QED BY <2>1, <2>2, <2>3, <2>4 DEF MockupHolds, AnswerOK
<1> QED BY <1>1, MockInvariance, PTL

-----------------------------------------------------------------------------
(* The decoder of keys: what is decoded so far is what the bytes so far     *)
(* begin with, whatever follows.                                            *)

LEMMA LeastIsChosen ==
  ASSUME NEW S \in SUBSET Nat, NEW i \in S, \A j \in S : i <= j
  PROVE  (CHOOSE k \in S : \A j \in S : k <= j) = i
<1>1. PICK picked : picked = CHOOSE k \in S : \A j \in S : k <= j
  OBVIOUS
<1>2. picked \in S /\ \A j \in S : picked <= j
  BY <1>1
<1>3. picked \in Nat /\ i \in Nat /\ picked <= i /\ i <= picked
  BY <1>2
<1> QED BY <1>1, <1>3

(* Lists in pieces.                                                         *)
LEMMA AppendedThen ==
  ASSUME NEW S, NEW s \in Seq(S), NEW t \in Seq(S), NEW x \in S
  PROVE  /\ Append(s, x) \in Seq(S) /\ <<x>> \o t \in Seq(S)
         /\ Append(s, x) \o t = s \o (<<x>> \o t)
<1>1. <<x>> \in Seq(S) /\ Append(s, x) = s \o <<x>> /\ Append(s, x) \in Seq(S)
  OBVIOUS
<1> QED BY <1>1, ConcatProperties, ConcatAssociative

LEMMA AfterPart ==
  ASSUME NEW S, NEW s \in Seq(S), NEW t \in Seq(S), NEW n \in 0..Len(s)
  PROVE  /\ After(s, n) \in Seq(S) /\ After(s \o t, n) = After(s, n) \o t
         /\ SubSeq(s, 1, n) \in Seq(S) /\ SubSeq(s, 1, n) \o After(s, n) = s
<1>1. /\ s \o t \in Seq(S) /\ Len(s \o t) = Len(s) + Len(t) /\ Len(s) \in Nat /\ Len(t) \in Nat
      /\ \A i \in 1..Len(s) + Len(t) : (s \o t)[i] = IF i <= Len(s) THEN s[i] ELSE t[i - Len(s)]
  BY ConcatProperties, LenProperties
<1>2. /\ After(s, n) \in Seq(S) /\ Len(After(s, n)) = Len(s) - n
      /\ \A i \in 1..Len(s) - n : After(s, n)[i] = s[n + i]
  BY <1>1 DEF After
<1>3. /\ After(s \o t, n) \in Seq(S) /\ Len(After(s \o t, n)) = Len(s) + Len(t) - n
      /\ \A i \in 1..Len(s) + Len(t) - n : After(s \o t, n)[i] = (s \o t)[n + i]
  BY <1>1 DEF After
<1>4. After(s \o t, n) = After(s, n) \o t
  <2>1. PICK left \in Nat, more \in Nat : left = Len(s) - n /\ more = Len(t)
    BY <1>1
  <2>2. PICK tail \in Seq(S) : tail = After(s, n)
    BY <1>2
  <2>3. PICK one \in Seq(S) : one = After(s \o t, n)
    BY <1>3
  <2>4. PICK other \in Seq(S) : other = tail \o t
    BY <2>2, ConcatProperties
  <2>5. Len(tail) = left
    BY <1>2, <2>1, <2>2
  <2>6. /\ Len(other) = left + more
        /\ \A i \in 1..left + more : other[i] = IF i <= left THEN tail[i] ELSE t[i - left]
    <3>1. /\ Len(tail \o t) = Len(tail) + Len(t)
          /\ \A i \in 1..Len(tail) + Len(t) :
               (tail \o t)[i] = IF i <= Len(tail) THEN tail[i] ELSE t[i - Len(tail)]
      BY ConcatProperties
    <3> QED BY <2>1, <2>4, <2>5, <3>1
  <2>7. Len(one) = left + more /\ \A i \in 1..left + more : one[i] = (s \o t)[n + i]
    <3>1. Len(s) + Len(t) - n = left + more
      <4>1. Len(s) \in Nat /\ Len(t) \in Nat /\ n \in Nat
        BY <1>1
      <4> QED BY <2>1, <4>1
    <3> QED BY <1>3, <2>3, <3>1
  <2>8. ASSUME NEW i \in 1..left + more
        PROVE  one[i] = other[i]
    <3>1. n + i \in 1..Len(s) + Len(t) /\ i \in Nat /\ n \in Nat
      BY <1>1, <2>1
    <3>2. CASE i <= left
      <4>1. n + i <= Len(s) /\ i \in 1..Len(s) - n
        BY <1>1, <2>1, <3>1, <3>2
      <4>2. one[i] = s[n + i] /\ tail[i] = s[n + i]
        BY <1>1, <1>2, <2>2, <2>7, <3>1, <4>1
      <4> QED BY <2>6, <3>2, <4>2
    <3>3. CASE i > left
      <4>1. n + i > Len(s) /\ n + i - Len(s) = i - left
        <5>1. PICK l \in Nat : l = Len(s)
          BY <1>1
        <5>2. left = l - n
          BY <2>1, <5>1
        <5>3. n + i > l /\ n + i - l = i - left
          BY <3>1, <3>3, <5>1, <5>2
        <5> QED BY <5>1, <5>3
      <4>2. one[i] = t[i - left]
        <5>1. (s \o t)[n + i] = t[n + i - Len(s)]
          BY <1>1, <3>1, <4>1
        <5>2. one[i] = (s \o t)[n + i]
          BY <2>7
        <5> QED BY <4>1, <5>1, <5>2
      <4>3. ~(i <= left)
        BY <2>1, <3>1, <3>3
      <4> QED BY <2>6, <4>2, <4>3
    <3> QED BY <2>1, <3>1, <3>2, <3>3
  <2>9. one = other
    BY <2>6, <2>7, <2>8, SeqEqual
  <2> QED BY <2>2, <2>3, <2>4, <2>9
<1>5. /\ SubSeq(s, 1, n) \in Seq(S) /\ Len(SubSeq(s, 1, n)) = n
      /\ \A i \in 1..n : SubSeq(s, 1, n)[i] = s[i]
  BY <1>1
<1>6. SubSeq(s, 1, n) \o After(s, n) = s
  <2>1. PICK head \in Seq(S) : head = SubSeq(s, 1, n)
    BY <1>5
  <2>2. PICK tail \in Seq(S) : tail = After(s, n)
    BY <1>2
  <2>3. /\ head \o tail \in Seq(S) /\ Len(head \o tail) = Len(s)
        /\ \A i \in 1..Len(s) : (head \o tail)[i] = IF i <= n THEN head[i] ELSE tail[i - n]
    BY <1>1, <1>2, <1>5, <2>1, <2>2, ConcatProperties
  <2>4. \A i \in 1..Len(s) : (head \o tail)[i] = s[i]
    BY <1>1, <1>2, <1>5, <2>1, <2>2, <2>3
  <2> QED BY <1>1, <2>1, <2>2, <2>3, <2>4, SeqEqual
<1> QED BY <1>2, <1>4, <1>5, <1>6

ByteSeq == Seq(Bytes)

LEMMA BytesJoin ==
  ASSUME NEW s \in ByteSeq, NEW t \in ByteSeq
  PROVE  s \o t \in ByteSeq
BY ConcatProperties DEF ByteSeq

LEMMA BytesAssociate ==
  ASSUME NEW s \in ByteSeq, NEW t \in ByteSeq, NEW u \in ByteSeq
  PROVE  s \o t \o u = s \o (t \o u)
BY ConcatAssociative DEF ByteSeq

LEMMA ByteComes ==
  ASSUME NEW s \in ByteSeq, NEW t \in ByteSeq, NEW b \in Bytes
  PROVE  /\ Append(s, b) \in ByteSeq /\ <<b>> \o t \in ByteSeq
         /\ Append(s, b) \o t = s \o (<<b>> \o t)
<1>1. ASSUME NEW S, S = Bytes
      PROVE  /\ Append(s, b) \in Seq(S) /\ <<b>> \o t \in Seq(S)
             /\ Append(s, b) \o t = s \o (<<b>> \o t)
  <2>1. s \in Seq(S) /\ t \in Seq(S) /\ b \in S
    BY <1>1 DEF ByteSeq
  <2> QED BY <2>1, AppendedThen
<1> QED BY <1>1 DEF ByteSeq

LEMMA BytesCut ==
  ASSUME NEW s \in ByteSeq, NEW n \in 1..Len(s)
  PROVE  /\ SubSeq(s, 1, n) \in ByteSeq /\ After(s, n) \in ByteSeq
         /\ SubSeq(s, 1, n) \o After(s, n) = s
<1>1. n \in 0..Len(s)
  OBVIOUS
<1> QED BY <1>1, AfterPart DEF ByteSeq

(* A key takes at least a byte, and no more than there are.                 *)
LEMMA KeysTakeBytes ==
  ASSUME NEW bytes \in ByteSeq
  PROVE  Decode(bytes).used \in 0..Len(bytes)
<1>2. Csi(bytes).used \in 0..Len(bytes)
  <2>1. PICK ends : ends = {i \in 3..Len(bytes) : bytes[i] \in Final}
    OBVIOUS
  <2>2. CASE ends = {}
    BY <2>1, <2>2 DEF Csi, NoKey, ByteSeq
  <2>3. CASE ends # {}
    <3>1. ends \in SUBSET Nat
      BY <2>1 DEF ByteSeq
    <3>2. PICK end \in ends : \A j \in ends : end <= j
      BY <2>3, <3>1, LeastIsThere
    <3>3. end = CHOOSE i \in ends : \A j \in ends : i <= j
      BY <3>1, <3>2, LeastIsChosen
    <3>4. Csi(bytes).used = end
      BY <2>1, <2>3, <3>3 DEF Csi
    <3> QED BY <2>1, <3>2, <3>4 DEF ByteSeq
  <2> QED BY <2>2, <2>3
<1>3. CASE bytes = <<>>
  BY <1>3 DEF Decode, NoKey
<1>4. CASE bytes # <<>> /\ bytes[1] # "esc"
  <2>1. Len(bytes) \in Nat /\ Len(bytes) >= 1
    BY <1>4 DEF ByteSeq
  <2> QED BY <1>4, <2>1 DEF Decode, NoKey
<1>5. CASE bytes # <<>> /\ bytes[1] = "esc" /\ Len(bytes) = 1
  <2>1. bytes = <<"esc">>
    BY <1>5 DEF ByteSeq
  <2> QED BY <2>1 DEF Decode, NoKey
<1>6. CASE bytes[1] = "esc" /\ Len(bytes) > 1
  <2>1. Len(bytes) \in Nat /\ bytes # <<>> /\ bytes # <<"esc">>
    <3>1. PICK n \in Nat : n = Len(bytes)
      BY DEF ByteSeq
    <3>2. n > 1
      BY <1>6, <3>1
    <3>3. bytes = <<>> => n = 0
      BY <3>1
    <3>4. bytes = <<"esc">> => n = 1
      BY <3>1
    <3> QED BY <3>1, <3>2, <3>3, <3>4
  <2>2. Decode(bytes) =
          CASE bytes[2] = "[" -> Csi(bytes)
            [] bytes[2] = "O" /\ Len(bytes) = 2 -> NoKey
            [] bytes[2] = "O" /\ Len(bytes) > 2 ->
                 [key |-> IF bytes[3] = "A" THEN "up" ELSE "other", used |-> 3]
            [] bytes[2] \in Plain \ {"[", "O"} -> [key |-> "alt", used |-> 2]
            [] OTHER -> [key |-> "esc", used |-> 1]
    BY <1>6, <2>1 DEF Decode
  <2>3. CASE bytes[2] = "["
    BY <1>2, <2>2, <2>3 DEF Plain
  <2>4. CASE bytes[2] = "O"
    BY <1>6, <2>1, <2>2, <2>4 DEF NoKey
  <2>5. CASE bytes[2] \notin {"[", "O"}
    BY <1>6, <2>1, <2>2, <2>5 DEF Plain
  <2> QED BY <2>3, <2>4, <2>5
<1>7. Len(bytes) \in Nat /\ (bytes # <<>> => Len(bytes) = 1 \/ Len(bytes) > 1)
  <2>1. PICK n \in Nat : n = Len(bytes)
    BY DEF ByteSeq
  <2>2. bytes # <<>> => n >= 1
    BY <2>1 DEF ByteSeq
  <2> QED BY <2>1, <2>2
<1> QED BY <1>3, <1>4, <1>5, <1>6, <1>7

(* What follows a whole key does not change it.                             *)
LEMMA KeysAreWhole ==
  ASSUME NEW bytes \in ByteSeq, NEW more \in ByteSeq, Decode(bytes).used # 0
  PROVE  Decode(bytes \o more) = Decode(bytes)
<1>1. PICK all : all = bytes \o more
  OBVIOUS
<1>2. /\ all \in ByteSeq /\ Len(all) = Len(bytes) + Len(more)
      /\ Len(bytes) \in Nat /\ Len(more) \in Nat
      /\ \A i \in 1..Len(bytes) : all[i] = bytes[i]
  BY <1>1 DEF ByteSeq
<1>3. bytes # <<>> /\ bytes # <<"esc">> /\ Len(bytes) >= 1
  BY <1>2 DEF Decode, NoKey, ByteSeq
<1>4. all # <<>> /\ all[1] = bytes[1]
  BY <1>2, <1>3
<1>5. CASE bytes[1] # "esc"
  <2>1. all # <<"esc">>
    BY <1>4, <1>5
  <2>2. bytes[1] = "2" => Len(bytes) >= 2
    BY <1>2, <1>3, <1>5 DEF Decode, NoKey
  <2>3. bytes[1] = "2" => all[2] = bytes[2] /\ Len(all) >= 2
    BY <1>2, <2>2
  <2> QED BY <1>1, <1>2, <1>3, <1>4, <1>5, <2>1, <2>2, <2>3 DEF Decode
<1>6. CASE bytes[1] = "esc"
  <2>1. Len(bytes) > 1 /\ all # <<"esc">>
    <3>1. Len(bytes) = 1 => bytes = <<"esc">>
      BY <1>6 DEF ByteSeq
    <3>2. Len(bytes) > 1 /\ Len(all) # Len(<<"esc">>)
      BY <1>2, <1>3, <3>1
    <3> QED BY <3>2
  <2>2. all[2] = bytes[2]
    BY <1>2, <2>1
  <2>3. /\ Decode(bytes) =
             CASE bytes[2] = "[" -> Csi(bytes)
               [] bytes[2] = "O" /\ Len(bytes) = 2 -> NoKey
               [] bytes[2] = "O" /\ Len(bytes) > 2 ->
                    [key |-> IF bytes[3] = "A" THEN "up" ELSE "other", used |-> 3]
               [] bytes[2] \in Plain \ {"[", "O"} -> [key |-> "alt", used |-> 2]
               [] OTHER -> [key |-> "esc", used |-> 1]
        /\ Decode(all) =
             CASE all[2] = "[" -> Csi(all)
               [] all[2] = "O" /\ Len(all) = 2 -> NoKey
               [] all[2] = "O" /\ Len(all) > 2 ->
                    [key |-> IF all[3] = "A" THEN "up" ELSE "other", used |-> 3]
               [] all[2] \in Plain \ {"[", "O"} -> [key |-> "alt", used |-> 2]
               [] OTHER -> [key |-> "esc", used |-> 1]
    BY <1>3, <1>4, <1>6, <2>1 DEF Decode
  <2>4. CASE bytes[2] = "["
    <3>1. Decode(bytes) = Csi(bytes) /\ Decode(all) = Csi(all)
      BY <2>2, <2>3, <2>4 DEF Plain
    <3>2. PICK ends : ends = {i \in 3..Len(bytes) : bytes[i] \in Final}
      OBVIOUS
    <3>3. PICK allEnds : allEnds = {i \in 3..Len(all) : all[i] \in Final}
      OBVIOUS
    <3>4. ends # {} /\ ends \in SUBSET Nat
      <4>1. ends \in SUBSET Nat
        BY <3>2, <1>2
      <4>2. ends = {} => Csi(bytes) = NoKey
        BY <3>2 DEF Csi
      <4> QED BY <4>1, <4>2, <3>1 DEF NoKey
    <3>5. PICK end \in ends : \A j \in ends : end <= j
      BY <3>4, LeastIsThere
    <3>6. end = CHOOSE i \in ends : \A j \in ends : i <= j
      BY <3>4, <3>5, LeastIsChosen
    <3>7. end \in allEnds /\ \A j \in allEnds : end <= j
      BY <1>2, <3>2, <3>3, <3>5
    <3>8. allEnds \in SUBSET Nat
      BY <3>3, <1>2
    <3>9. end = CHOOSE i \in allEnds : \A j \in allEnds : i <= j
      BY <3>7, <3>8, LeastIsChosen
    <3>10. SubSeq(all, 3, end - 1) = SubSeq(bytes, 3, end - 1) /\ all[end] = bytes[end]
      BY <1>2, <3>2, <3>5 DEF ByteSeq
    <3>11. Csi(bytes) =
             [key |-> CASE SubSeq(bytes, 3, end - 1) = <<>> /\ bytes[end] = "A" -> "up"
                        [] SubSeq(bytes, 3, end - 1) = <<"3">> /\ bytes[end] = "~" -> "delete"
                        [] OTHER -> "other",
              used |-> end]
      BY <3>2, <3>4, <3>6 DEF Csi
    <3>12. Csi(all) =
             [key |-> CASE SubSeq(all, 3, end - 1) = <<>> /\ all[end] = "A" -> "up"
                        [] SubSeq(all, 3, end - 1) = <<"3">> /\ all[end] = "~" -> "delete"
                        [] OTHER -> "other",
              used |-> end]
      BY <3>3, <3>7, <3>9 DEF Csi
    <3> QED BY <1>1, <3>1, <3>10, <3>11, <3>12
  <2>5. CASE bytes[2] = "O"
    <3>1. Len(bytes) > 2
      <4>1. Len(bytes) = 2 => Decode(bytes) = NoKey
        BY <2>3, <2>5 DEF Plain
      <4>2. NoKey.used = 0
        BY DEF NoKey
      <4>3. Len(bytes) # 2
        BY <4>1, <4>2
      <4>4. PICK n \in Nat : n = Len(bytes)
        BY <1>2
      <4> QED BY <4>3, <4>4, <2>1
    <3>2. all[3] = bytes[3] /\ Len(all) > 2
      BY <1>2, <3>1
    <3> QED BY <1>1, <1>2, <2>2, <2>3, <2>5, <3>1, <3>2
  <2>6. CASE bytes[2] \notin {"[", "O"}
    BY <1>1, <2>2, <2>3, <2>6
  <2> QED BY <2>4, <2>5, <2>6
<1> QED BY <1>5, <1>6

(* What is left after a key is shorter.                                     *)
LEMMA RestIsShorter ==
  ASSUME NEW bytes \in ByteSeq, Decode(bytes).used # 0
  PROVE  /\ After(bytes, Decode(bytes).used) \in ByteSeq
         /\ Len(After(bytes, Decode(bytes).used)) \in Nat
         /\ Len(After(bytes, Decode(bytes).used)) < Len(bytes)
<1>1. PICK used : used = Decode(bytes).used
  OBVIOUS
<1>2. used \in 1..Len(bytes) /\ Len(bytes) \in Nat
  BY <1>1, KeysTakeBytes DEF ByteSeq
<1>3. After(bytes, used) \in ByteSeq /\ Len(After(bytes, used)) = Len(bytes) - used
  BY <1>2 DEF After, ByteSeq
<1> QED BY <1>1, <1>2, <1>3

(* KeysOf is defined by recursion: the functions that read bytes up to some *)
(* length exist and agree, so there is one that reads them all.             *)
Reads(g, bytes) ==
  IF Decode(bytes).used = 0 THEN <<>>
  ELSE <<Decode(bytes).key>> \o g[After(bytes, Decode(bytes).used)]
UpTo(n) == {bytes \in ByteSeq : Len(bytes) <= n}
ReadsUpTo(g, n) == g = [bytes \in UpTo(n) |-> Reads(g, bytes)]

LEMMA ReadersAgree ==
  ASSUME NEW n \in Nat, NEW m \in Nat, NEW g, NEW h, ReadsUpTo(g, n), ReadsUpTo(h, m),
         NEW bytes \in UpTo(n) \cap UpTo(m)
  PROVE  g[bytes] = h[bytes]
<1>1. PICK differ : differ = {k \in Nat : \E b \in UpTo(n) \cap UpTo(m) : Len(b) = k /\ g[b] # h[b]}
  OBVIOUS
<1>2. SUFFICES ASSUME differ # {} PROVE FALSE
  <2>1. Len(bytes) \in Nat
    BY DEF UpTo, ByteSeq
  <2> QED BY <1>1, <1>2, <2>1
<1>3. PICK k \in differ : \A j \in differ : k <= j
  <2>1. differ \in SUBSET Nat
    BY <1>1
  <2> QED BY <1>2, <2>1, LeastIsThere
<1>4. PICK b \in UpTo(n) \cap UpTo(m) : Len(b) = k /\ g[b] # h[b]
  BY <1>1, <1>3
<1>5. g[b] = Reads(g, b) /\ h[b] = Reads(h, b)
  BY <1>4 DEF ReadsUpTo
<1>6. Decode(b).used # 0
  BY <1>4, <1>5 DEF Reads
<1>7. PICK rest : rest = After(b, Decode(b).used)
  OBVIOUS
<1>8. rest \in ByteSeq /\ Len(rest) \in Nat /\ Len(rest) < k
  BY <1>4, <1>6, <1>7, RestIsShorter DEF UpTo
<1>9. rest \in UpTo(n) \cap UpTo(m)
  BY <1>1, <1>3, <1>4, <1>8 DEF UpTo
<1>10. g[rest] # h[rest]
  BY <1>4, <1>5, <1>6, <1>7 DEF Reads
<1>11. Len(rest) \in differ
  BY <1>1, <1>8, <1>9, <1>10
<1>12. k \in Nat /\ k <= Len(rest)
  BY <1>1, <1>3, <1>11
<1> QED BY <1>8, <1>12

LEMMA ReadersAre == \A n \in Nat : \E g : ReadsUpTo(g, n)
<1>1. PICK without : without = {n \in Nat : ~ \E g : ReadsUpTo(g, n)}
  OBVIOUS
<1>2. SUFFICES ASSUME without # {} PROVE FALSE
  BY <1>1
<1>3. PICK n \in without : \A j \in without : n <= j
  <2>1. without \in SUBSET Nat
    BY <1>1
  <2> QED BY <1>2, <2>1, LeastIsThere
<1>4. n \in Nat /\ ~ \E g : ReadsUpTo(g, n)
  BY <1>1, <1>3
<1>5. CASE n = 0
  <2>1. PICK g : g = [bytes \in UpTo(0) |-> <<>>]
    OBVIOUS
  <2>2. ASSUME NEW bytes \in UpTo(0)
        PROVE  Reads(g, bytes) = <<>>
    <3>1. bytes \in ByteSeq /\ Len(bytes) = 0
      BY DEF UpTo, ByteSeq
    <3>2. Decode(bytes).used = 0
      BY <3>1, KeysTakeBytes
    <3> QED BY <3>2 DEF Reads
  <2>3. ReadsUpTo(g, 0)
    BY <2>1, <2>2 DEF ReadsUpTo
  <2> QED BY <1>4, <1>5, <2>3
<1>6. CASE n # 0
  <2>1. n - 1 \in Nat /\ n - 1 \notin without
    BY <1>3, <1>4, <1>6
  <2>2. PICK g : ReadsUpTo(g, n - 1)
    BY <1>1, <2>1
  <2>3. PICK h : h = [bytes \in UpTo(n) |-> Reads(g, bytes)]
    OBVIOUS
  <2>4. ASSUME NEW bytes \in UpTo(n - 1)
        PROVE  h[bytes] = g[bytes]
    <3>1. bytes \in UpTo(n)
      BY <1>4 DEF UpTo, ByteSeq
    <3> QED BY <2>2, <2>3, <3>1 DEF ReadsUpTo
  <2>5. ASSUME NEW bytes \in UpTo(n)
        PROVE  Reads(g, bytes) = Reads(h, bytes)
    <3>1. CASE Decode(bytes).used # 0
      <4>1. PICK rest : rest = After(bytes, Decode(bytes).used)
        OBVIOUS
      <4>2. rest \in ByteSeq /\ Len(rest) \in Nat /\ Len(rest) < Len(bytes)
        BY <3>1, <4>1, RestIsShorter DEF UpTo
      <4>3. Len(bytes) \in Nat /\ Len(bytes) <= n
        BY DEF UpTo, ByteSeq
      <4>4. rest \in UpTo(n - 1)
        BY <1>4, <4>2, <4>3 DEF UpTo
      <4> QED BY <2>4, <4>1, <4>4 DEF Reads
    <3> QED BY <3>1 DEF Reads
  <2>6. ReadsUpTo(h, n)
    BY <2>3, <2>5 DEF ReadsUpTo
  <2> QED BY <1>4, <2>6
<1> QED BY <1>5, <1>6

LEMMA KeysAreRead ==
  ASSUME NEW bytes \in ByteSeq
  PROVE  KeysOf[bytes] = Reads(KeysOf, bytes)
<1>1. PICK reader : reader = [n \in Nat |-> CHOOSE g : ReadsUpTo(g, n)]
  OBVIOUS
<1>2. \A n \in Nat : ReadsUpTo(reader[n], n)
  BY <1>1, ReadersAre
<1>3. PICK f : f = [b \in ByteSeq |-> reader[Len(b)][b]]
  OBVIOUS
<1>4. ASSUME NEW b \in ByteSeq
      PROVE  f[b] = Reads(f, b)
  <2>1. PICK n \in Nat : n = Len(b)
    BY DEF ByteSeq
  <2>2. f[b] = reader[n][b] /\ b \in UpTo(n)
    BY <1>3, <2>1 DEF UpTo
  <2>3. reader[n][b] = Reads(reader[n], b)
    BY <1>2, <2>2 DEF ReadsUpTo
  <2>4. CASE Decode(b).used # 0
    <3>1. PICK rest : rest = After(b, Decode(b).used)
      OBVIOUS
    <3>2. rest \in ByteSeq /\ Len(rest) \in Nat /\ Len(rest) < n
      BY <2>1, <2>4, <3>1, RestIsShorter
    <3>3. rest \in UpTo(n) \cap UpTo(Len(rest))
      BY <3>2 DEF UpTo
    <3>4. reader[n][rest] = reader[Len(rest)][rest]
      BY <1>2, <3>2, <3>3, ReadersAgree
    <3>5. f[rest] = reader[n][rest]
      BY <1>3, <3>2, <3>4
    <3> QED BY <2>2, <2>3, <3>1, <3>5 DEF Reads
  <2>5. CASE Decode(b).used = 0
    BY <2>2, <2>3, <2>5 DEF Reads
  <2> QED BY <2>4, <2>5
<1>5. f = [b \in ByteSeq |-> Reads(f, b)]
  BY <1>3, <1>4
<1>6. KeysOf = CHOOSE g : g = [b \in ByteSeq |-> Reads(g, b)]
  BY DEF KeysOf, Reads, ByteSeq
<1>7. KeysOf = [b \in ByteSeq |-> Reads(KeysOf, b)]
  BY <1>5, <1>6
<1> QED BY <1>7

KeyNames == {"none", "up", "delete", "other", "alt", "esc", "char"}

LEMMA DecodedIsKey ==
  ASSUME NEW bytes \in ByteSeq
  PROVE  Decode(bytes).key \in KeyNames
<1>1. Csi(bytes).key \in KeyNames
  <2>1. PICK ends : ends = {i \in 3..Len(bytes) : bytes[i] \in Final}
    OBVIOUS
  <2>2. PICK end : end = CHOOSE i \in ends : \A j \in ends : i <= j
    OBVIOUS
  <2>3. CASE ends = {}
    BY <2>1, <2>3 DEF Csi, NoKey, KeyNames
  <2>4. CASE ends # {}
    <3>1. Csi(bytes).key =
            CASE SubSeq(bytes, 3, end - 1) = <<>> /\ bytes[end] = "A" -> "up"
              [] SubSeq(bytes, 3, end - 1) = <<"3">> /\ bytes[end] = "~" -> "delete"
              [] OTHER -> "other"
      BY <2>1, <2>2, <2>4 DEF Csi
    <3> QED BY <3>1 DEF KeyNames
  <2> QED BY <2>3, <2>4
<1>2. CASE bytes = <<>> \/ bytes = <<"esc">>
  BY <1>2 DEF Decode, NoKey, KeyNames
<1>3. CASE ~(bytes = <<>> \/ bytes = <<"esc">>) /\ bytes[1] # "esc"
  BY <1>3 DEF Decode, NoKey, KeyNames
<1>4. CASE ~(bytes = <<>> \/ bytes = <<"esc">>) /\ bytes[1] = "esc"
  <2>1. Decode(bytes) =
          CASE bytes[2] = "[" -> Csi(bytes)
            [] bytes[2] = "O" /\ Len(bytes) = 2 -> NoKey
            [] bytes[2] = "O" /\ Len(bytes) > 2 ->
                 [key |-> IF bytes[3] = "A" THEN "up" ELSE "other", used |-> 3]
            [] bytes[2] \in Plain \ {"[", "O"} -> [key |-> "alt", used |-> 2]
            [] OTHER -> [key |-> "esc", used |-> 1]
    BY <1>4 DEF Decode
  <2>2. CASE bytes[2] = "["
    BY <1>1, <2>1, <2>2 DEF Plain
  <2>3. CASE bytes[2] # "["
    BY <2>1, <2>3 DEF NoKey, KeyNames
  <2> QED BY <2>2, <2>3
<1> QED BY <1>2, <1>3, <1>4

LEMMA KeysOfAreKeys == \A bytes \in ByteSeq : KeysOf[bytes] \in Seq(KeyNames)
<1>1. PICK wrong : wrong = {k \in Nat : \E b \in ByteSeq : Len(b) = k /\ KeysOf[b] \notin Seq(KeyNames)}
  OBVIOUS
<1>2. SUFFICES ASSUME wrong # {} PROVE FALSE
  <2>1. \A bytes \in ByteSeq : Len(bytes) \in Nat
    BY DEF ByteSeq
  <2> QED BY <1>1, <1>2, <2>1
<1>3. PICK k \in wrong : \A j \in wrong : k <= j
  <2>1. wrong \in SUBSET Nat
    BY <1>1
  <2> QED BY <1>2, <2>1, LeastIsThere
<1>4. PICK b \in ByteSeq : Len(b) = k /\ KeysOf[b] \notin Seq(KeyNames)
  BY <1>1, <1>3
<1>5. KeysOf[b] = Reads(KeysOf, b)
  BY <1>4, KeysAreRead
<1>6. CASE Decode(b).used = 0
  <2>1. KeysOf[b] = <<>>
    BY <1>5, <1>6 DEF Reads
  <2> QED BY <1>4, <2>1
<1>7. CASE Decode(b).used # 0
  <2>1. PICK rest : rest = After(b, Decode(b).used)
    OBVIOUS
  <2>2. rest \in ByteSeq /\ Len(rest) \in Nat /\ Len(rest) < k
    BY <1>4, <1>7, <2>1, RestIsShorter
  <2>3. KeysOf[rest] \in Seq(KeyNames)
    <3>1. ASSUME KeysOf[rest] \notin Seq(KeyNames) PROVE FALSE
      <4>1. Len(rest) \in wrong
        BY <1>1, <2>2, <3>1
      <4> QED BY <1>1, <1>3, <2>2, <4>1
    <3> QED BY <3>1
  <2>4. PICK key \in KeyNames : key = Decode(b).key
    BY <1>4, DecodedIsKey
  <2>5. KeysOf[b] = <<key>> \o KeysOf[rest]
    BY <1>5, <1>7, <2>1, <2>4 DEF Reads
  <2>6. <<key>> \o KeysOf[rest] \in Seq(KeyNames)
    BY <2>3, <2>4
  <2> QED BY <1>4, <2>5, <2>6
<1> QED BY <1>6, <1>7

(* A whole key at the front is the first that is read, whatever follows it. *)
LEMMA FirstKeyFirst ==
  ASSUME NEW bytes \in ByteSeq, NEW more \in ByteSeq, Decode(bytes).used # 0
  PROVE  /\ After(bytes, Decode(bytes).used) \in ByteSeq
         /\ KeysOf[bytes \o more] =
              <<Decode(bytes).key>> \o KeysOf[After(bytes, Decode(bytes).used) \o more]
<1>1. PICK all : all = bytes \o more
  OBVIOUS
<1>2. PICK used : used = Decode(bytes).used
  OBVIOUS
<1>3. all \in ByteSeq /\ used \in 1..Len(bytes) /\ Decode(all) = Decode(bytes)
  BY <1>1, <1>2, ConcatProperties, KeysTakeBytes, KeysAreWhole DEF ByteSeq
<1>4. After(bytes, used) \in ByteSeq /\ After(all, used) = After(bytes, used) \o more
  <2>1. used \in 0..Len(bytes)
    BY <1>2, KeysTakeBytes
  <2> QED BY <1>1, <2>1, AfterPart DEF ByteSeq
<1>5. KeysOf[all] = <<Decode(bytes).key>> \o KeysOf[After(all, used)]
  BY <1>2, <1>3, KeysAreRead DEF Reads
<1> QED BY <1>1, <1>2, <1>4, <1>5

(* Whatever comes next, all that was sent decodes to what is decoded, and   *)
(* then to what the buffer, the bytes not read and the rest decode to.      *)
DecInv ==
  /\ sent \in ByteSeq /\ unread \in ByteSeq /\ pending \in ByteSeq /\ decoded \in Seq(KeyNames)
  /\ gaveUp \in BOOLEAN
  /\ ~gaveUp => \A more \in ByteSeq :
       KeysOf[sent \o more] = decoded \o KeysOf[pending \o unread \o more]

LEMMA DecoderKept ==
  ASSUME DecInv, [DecoderNext]_decoderVars
  PROVE  DecInv'
<1>1. ASSUME NEW b \in Bytes, SendByte(b)
      PROVE  DecInv'
  <2>1. sent \in ByteSeq /\ unread \in ByteSeq /\ pending \in ByteSeq
    BY DEF DecInv
  <2>2. /\ sent' = Append(sent, b) /\ unread' = Append(unread, b)
        /\ pending' = pending /\ decoded' = decoded /\ gaveUp' = gaveUp
    BY <1>1 DEF SendByte
  <2>3. sent' \in ByteSeq /\ unread' \in ByteSeq
    BY <2>2, ByteComes DEF DecInv
  <2>4. ASSUME ~gaveUp, NEW more \in ByteSeq
        PROVE  KeysOf[sent' \o more] = decoded' \o KeysOf[pending' \o unread' \o more]
    <3>1. PICK next : next = <<b>> \o more
      OBVIOUS
    <3>2. next \in ByteSeq /\ sent' \o more = sent \o next
      BY <2>2, <3>1, ByteComes DEF DecInv
    <3>3. pending' \o unread' \o more = pending \o unread \o next
      <4>1. pending \o Append(unread, b) \o more = pending \o (Append(unread, b) \o more)
        <5>1. PICK came \in ByteSeq : came = Append(unread, b)
          BY <2>2, <2>3
        <5>2. pending \o came \o more = pending \o (came \o more)
          BY <2>1, BytesAssociate
        <5> QED BY <5>1, <5>2
      <4>2. Append(unread, b) \o more = unread \o next
        BY <3>1, ByteComes DEF DecInv
      <4>3. pending \o (unread \o next) = pending \o unread \o next
        BY <2>1, <3>2, BytesAssociate
      <4> QED BY <2>2, <4>1, <4>2, <4>3
    <3> QED BY <2>2, <2>4, <3>1, <3>2, <3>3 DEF DecInv
  <2> QED BY <2>2, <2>3, <2>4 DEF DecInv
<1>2. ASSUME NextKey
      PROVE  DecInv'
  <2>1. Decode(pending).used # 0
    BY <1>2, KeysTakeBytes DEF NextKey, DecInv
  <2>2. PICK key \in KeyNames : key = Decode(pending).key
    BY DecodedIsKey DEF DecInv
  <2>3. PICK rest \in ByteSeq : rest = After(pending, Decode(pending).used)
    BY <2>1, RestIsShorter DEF DecInv
  <2>4. /\ decoded' = Append(decoded, key) /\ pending' = rest
        /\ sent' = sent /\ unread' = unread /\ gaveUp' = gaveUp
    BY <1>2, <2>2, <2>3 DEF NextKey
  <2>5. ASSUME ~gaveUp, NEW more \in ByteSeq
        PROVE  KeysOf[sent' \o more] = decoded' \o KeysOf[pending' \o unread' \o more]
    <3>1. PICK next : next = unread \o more
      OBVIOUS
    <3>2. /\ next \in ByteSeq
          /\ pending \o unread \o more = pending \o next
          /\ rest \o unread \o more = rest \o next
      <4>1. unread \in ByteSeq /\ pending \in ByteSeq
        BY DEF DecInv
      <4>2. next \in ByteSeq
        BY <4>1, <3>1, BytesJoin
      <4>3. pending \o unread \o more = pending \o (unread \o more)
        BY <4>1, BytesAssociate
      <4>4. rest \o unread \o more = rest \o (unread \o more)
        BY <4>1, BytesAssociate
      <4> QED BY <4>2, <4>3, <4>4, <3>1
    <3>3. KeysOf[pending \o next] = <<key>> \o KeysOf[rest \o next]
      BY <2>1, <2>2, <2>3, <3>2, FirstKeyFirst DEF DecInv
    <3>4. PICK later \in Seq(KeyNames) : later = KeysOf[rest \o next]
      <4>1. rest \o next \in ByteSeq
        BY <2>3, <3>2, BytesJoin
      <4> QED BY <4>1, KeysOfAreKeys
    <3>5. decoded \o (<<key>> \o later) = Append(decoded, key) \o later
      <4>1. PICK keys \in Seq(KeyNames) : keys = decoded
        BY DEF DecInv
      <4>2. ASSUME NEW S, S = KeyNames
            PROVE  keys \o (<<key>> \o later) = Append(keys, key) \o later
        <5>1. keys \in Seq(S) /\ later \in Seq(S) /\ key \in S
          BY <2>2, <3>4, <4>1, <4>2
        <5> QED BY <5>1, AppendedThen
      <4> QED BY <4>1, <4>2
    <3>6. KeysOf[sent \o more] = decoded \o KeysOf[pending \o next]
      BY <2>5, <3>2 DEF DecInv
    <3> QED BY <2>4, <3>2, <3>3, <3>4, <3>5, <3>6
  <2>6. decoded' \in Seq(KeyNames)
    BY <2>2, <2>4 DEF DecInv
  <2> QED BY <2>3, <2>4, <2>5, <2>6 DEF DecInv
<1>3. ASSUME ReadBytes
      PROVE  DecInv'
  <2>1. PICK n \in 1..Len(unread) :
          pending' = pending \o SubSeq(unread, 1, n) /\ unread' = After(unread, n)
    BY <1>3 DEF ReadBytes
  <2>2. sent' = sent /\ decoded' = decoded /\ gaveUp' = gaveUp
    BY <1>3 DEF ReadBytes
  <2>3. /\ pending' \in ByteSeq /\ unread' \in ByteSeq
        /\ pending' \o unread' = pending \o unread
    <3>1. PICK head : head = SubSeq(unread, 1, n)
      OBVIOUS
    <3>2. PICK tail : tail = After(unread, n)
      OBVIOUS
    <3>3. head \in ByteSeq /\ tail \in ByteSeq /\ head \o tail = unread
      BY <2>1, <3>1, <3>2, BytesCut DEF DecInv
    <3>4. (pending \o head) \o tail = pending \o (head \o tail) /\ pending \o head \in ByteSeq
      BY <3>3, BytesJoin, BytesAssociate DEF DecInv
    <3> QED BY <2>1, <3>1, <3>2, <3>3, <3>4
  <2> QED BY <2>2, <2>3 DEF DecInv
<1>4. ASSUME EscapeDelay
      PROVE  DecInv'
  BY <1>4 DEF EscapeDelay, DecInv, ByteSeq, KeyNames
<1>5. CASE UNCHANGED decoderVars
  BY <1>5 DEF DecInv, decoderVars
<1> QED BY <1>1, <1>2, <1>3, <1>4, <1>5 DEF DecoderNext

(* The inductive invariant of the decoder.                                  *)
THEOREM DecoderInvariance == DecoderSpec => []DecInv
<1>1. DecoderInit => DecInv
  <2>1. ASSUME NEW more \in ByteSeq
        PROVE  <<>> \o more = more /\ <<>> \o <<>> \o more = more
    BY DEF ByteSeq
  <2>2. ASSUME NEW more \in ByteSeq
        PROVE  <<>> \o KeysOf[more] = KeysOf[more]
    BY KeysOfAreKeys
  <2>3. <<>> \in ByteSeq /\ <<>> \in Seq(KeyNames)
    BY DEF ByteSeq
  <2> QED BY <2>1, <2>2, <2>3 DEF DecoderInit, DecInv
<1>2. DecInv /\ [DecoderNext]_decoderVars => DecInv'
  BY DecoderKept
<1> QED BY <1>1, <1>2, PTL DEF DecoderSpec

(* Bytes decode to the same keys however reads cut them, for any bytes and  *)
(* any number of them, while the escape delay has not run out.              *)
THEOREM CutsNeverMatter == DecoderSpec => []CutsDoNotMatter
<1>1. DecInv => CutsDoNotMatter
  <2>1. ASSUME DecInv
        PROVE  /\ sent \o <<>> = sent /\ pending \o unread \o <<>> = pending \o unread
               /\ <<>> \in ByteSeq
    BY <2>1 DEF DecInv, ByteSeq
  <2> QED BY <2>1 DEF DecInv, CutsDoNotMatter
<1> QED BY <1>1, DecoderInvariance, PTL

-----------------------------------------------------------------------------
(* The home's rows: lists of lists, joined.                                 *)

IsList(s) == \E S : s \in Seq(S)

LEMMA ListLength ==
  ASSUME NEW s, IsList(s)
  PROVE  Len(s) \in Nat /\ DOMAIN s = 1..Len(s)
<1>1. PICK S : s \in Seq(S)
  BY DEF IsList
<1> QED BY <1>1, LenProperties

LEMMA ListsJoin ==
  ASSUME NEW s, NEW t, IsList(s), IsList(t)
  PROVE  IsList(s \o t)
<1>1. PICK S : s \in Seq(S)
  BY DEF IsList
<1>2. PICK T : t \in Seq(T)
  BY DEF IsList
<1>3. PICK B : B = S \cup T
  OBVIOUS
<1>4. s \in Seq(B) /\ t \in Seq(B)
  BY <1>1, <1>2, <1>3, SeqMonotonic
<1>5. s \o t \in Seq(B)
  BY <1>4, ConcatProperties
<1> QED BY <1>5 DEF IsList

LEMMA ShortLists == IsList(<<>>) /\ \A x : IsList(<<x>>)
<1>1. <<>> \in Seq({})
  OBVIOUS
<1>2. ASSUME NEW x PROVE <<x>> \in Seq({x})
  OBVIOUS
<1> QED BY <1>1, <1>2 DEF IsList

LEMMA CountedIsList ==
  ASSUME NEW n \in Nat, NEW f, f = [i \in 1..n |-> f[i]]
  PROVE  IsList(f) /\ Len(f) = n
<1>1. PICK S : S = {f[i] : i \in 1..n}
  OBVIOUS
<1>2. f \in [1..n -> S]
  BY <1>1
<1>3. f \in Seq(S)
  BY <1>2, IsASeq
<1> QED BY <1>2, <1>3 DEF IsList

(* FlattenSeq is defined by recursion over the lists it joins.              *)
JoinedUpTo(f, lists, n) ==
  f = [i \in 1..n |-> IF i = 1 THEN lists[i] ELSE f[i - 1] \o lists[i]]

LEMMA JoinedIsThere ==
  ASSUME NEW lists, NEW n \in Nat
  PROVE  \E f : JoinedUpTo(f, lists, n)
<1>1. PICK without : without = {m \in Nat : ~ \E f : JoinedUpTo(f, lists, m)}
  OBVIOUS
<1>2. SUFFICES ASSUME without # {} PROVE FALSE
  BY <1>1
<1>3. PICK m \in without : \A j \in without : m <= j
  <2>1. without \in SUBSET Nat
    BY <1>1
  <2> QED BY <1>2, <2>1, LeastIsThere
<1>4. m \in Nat /\ ~ \E f : JoinedUpTo(f, lists, m)
  BY <1>1, <1>3
<1>5. m # 0
  <2>1. PICK f : f = [i \in 1..0 |-> lists[i]]
    OBVIOUS
  <2>2. JoinedUpTo(f, lists, 0)
    BY <2>1 DEF JoinedUpTo
  <2> QED BY <1>4, <2>2
<1>6. PICK k \in Nat : m = k + 1
  BY <1>4, <1>5
<1>7. k \notin without
  BY <1>3, <1>6
<1>8. PICK g : JoinedUpTo(g, lists, k)
  BY <1>1, <1>7
<1>9. PICK f : f = [i \in 1..m |-> IF i = 1 THEN lists[i] ELSE g[i - 1] \o lists[i]]
  OBVIOUS
<1>10. ASSUME NEW i \in 1..k
       PROVE  f[i] = g[i]
  <2>1. i \in 1..m
    BY <1>6
  <2>2. f[i] = IF i = 1 THEN lists[i] ELSE g[i - 1] \o lists[i]
    BY <1>9, <2>1
  <2>3. g[i] = IF i = 1 THEN lists[i] ELSE g[i - 1] \o lists[i]
    BY <1>8 DEF JoinedUpTo
  <2> QED BY <2>2, <2>3
<1>11. ASSUME NEW i \in 1..m
       PROVE  (IF i = 1 THEN lists[i] ELSE g[i - 1] \o lists[i])
                = IF i = 1 THEN lists[i] ELSE f[i - 1] \o lists[i]
  <2>1. CASE i = 1
    BY <2>1
  <2>2. CASE i # 1
    <3>1. i - 1 \in 1..k
      BY <1>6, <2>2
    <3>2. f[i - 1] = g[i - 1]
      BY <1>10, <3>1
    <3> QED BY <2>2, <3>2
  <2> QED BY <2>1, <2>2
<1>12. JoinedUpTo(f, lists, m)
  BY <1>9, <1>11 DEF JoinedUpTo
<1> QED BY <1>4, <1>12

LEMMA FlattenIsList ==
  ASSUME NEW lists, IsList(lists), \A i \in 1..Len(lists) : IsList(lists[i])
  PROVE  IsList(FlattenSeq(lists))
<1>1. PICK n \in Nat : n = Len(lists)
  BY ListLength
<1>2. CASE n = 0
  BY <1>1, <1>2 DEF FlattenSeq
<1>3. CASE n # 0
  <2>1. PICK f : JoinedUpTo(f, lists, n) /\ FlattenSeq(lists) = f[n]
    <3>1. PICK f : f = CHOOSE g : JoinedUpTo(g, lists, n)
      OBVIOUS
    <3>2. JoinedUpTo(f, lists, n)
      BY <3>1, JoinedIsThere
    <3>3. FlattenSeq(lists) = f[n]
      BY <1>1, <1>3, <3>1 DEF FlattenSeq, JoinedUpTo
    <3> QED BY <3>2, <3>3
  <2>2. PICK bad : bad = {i \in Nat : i \in 1..n /\ ~IsList(f[i])}
    OBVIOUS
  <2>3. bad = {}
    <3>1. SUFFICES ASSUME bad # {} PROVE FALSE
      OBVIOUS
    <3>2. PICK i \in bad : \A j \in bad : i <= j
      <4>1. bad \in SUBSET Nat
        BY <2>2
      <4> QED BY <3>1, <4>1, LeastIsThere
    <3>3. i \in 1..n /\ ~IsList(f[i])
      BY <2>2, <3>2
    <3>4. f[i] = IF i = 1 THEN lists[i] ELSE f[i - 1] \o lists[i]
      BY <2>1, <3>3 DEF JoinedUpTo
    <3>5. i # 1
      BY <1>1, <3>3, <3>4
    <3>6. i - 1 \in 1..n /\ i - 1 \in Nat /\ ~(i <= i - 1)
      BY <3>3, <3>5
    <3>7. IsList(f[i - 1])
      BY <2>2, <3>2, <3>6
    <3>8. IsList(lists[i])
      BY <1>1, <3>3
    <3> QED BY <3>3, <3>4, <3>5, <3>7, <3>8, ListsJoin
  <2> QED BY <1>1, <1>3, <2>1, <2>2, <2>3
<1> QED BY <1>2, <1>3

LEMMA ViewsRowIsList ==
  ASSUME NEW views, NEW p
  PROVE  IsList(ViewsRow(views, p))
BY ShortLists DEF ViewsRow

LEMMA AgentRowsAreList ==
  ASSUME NEW h, NEW a
  PROVE  IsList(AgentRows(h, a))
<1>1. PICK first : first = <<[kind |-> "agent", id |-> a.id, ended |-> a.ended, project |-> a.project]>>
  OBVIOUS
<1>2. PICK detail : detail = IF a.id \in h.unfolded THEN <<[kind |-> "detail"]>> ELSE <<>>
  OBVIOUS
<1>3. PICK views : views = ViewsRow(ViewsUnder(h.context, a.id), a.project)
  OBVIOUS
<1>4. IsList(first) /\ IsList(detail) /\ IsList(views)
  BY <1>1, <1>2, <1>3, ShortLists, ViewsRowIsList
<1>5. IsList(first \o detail \o views)
  BY <1>4, ListsJoin
<1> QED BY <1>1, <1>2, <1>3, <1>5 DEF AgentRows

(* What is kept of a list is finite, and not less than what of it is hidden. *)
LEMMA FewerOf ==
  ASSUME NEW n \in Nat, NEW S \in SUBSET (1..n), NEW T \in SUBSET S
  PROVE  /\ Cardinality(S) \in Nat /\ Cardinality(T) \in Nat /\ Cardinality(T) <= Cardinality(S)
<1>1. IsFiniteSet(1..n)
  BY FS_Interval
<1>2. IsFiniteSet(S)
  BY <1>1, FS_Subset
<1> QED BY <1>2, FS_Subset, FS_CardinalityType

LEMMA ProjectRowsAreList ==
  ASSUME NEW h, NEW p, IsList(h.context.agents)
  PROVE  IsList(ProjectRows(h, p))
<1>1. PICK all : all = h.context.agents
  OBVIOUS
<1>2. PICK n \in Nat : DOMAIN all = 1..n
  BY <1>1, ListLength
<1>3. PICK kept : kept = KeptOf(h, p)
  OBVIOUS
<1>4. PICK over : over = {i \in kept : all[i].ended}
  OBVIOUS
<1>5. PICK size \in Nat, ended \in Nat : size = Cardinality(kept) /\ ended = Cardinality(over) /\ ended <= size
  <2>1. kept \in SUBSET (1..n)
    BY <1>1, <1>2, <1>3 DEF KeptOf
  <2>2. over \in SUBSET kept
    BY <1>4
  <2> QED BY <2>1, <2>2, FewerOf
<1>6. PICK hidden : hidden = IF h.endedShown \/ ended <= EndedShown THEN 0 ELSE ended - EndedShown
  OBVIOUS
<1>7. size - hidden \in Nat
  BY <1>5, <1>6, HomeAssumption
<1>8. PICK order : order = AgentOrder(all, kept)
  OBVIOUS
<1>9. PICK each : each = [k \in 1..size - hidden |-> AgentRows(h, all[order[k]])]
  OBVIOUS
<1>10. IsList(FlattenSeq(each))
  <2>1. IsList(each) /\ Len(each) = size - hidden
    BY <1>7, <1>9, CountedIsList
  <2>2. \A i \in 1..Len(each) : IsList(each[i])
    BY <1>9, <2>1, AgentRowsAreList
  <2> QED BY <2>1, <2>2, FlattenIsList
<1>11. PICK loose : loose = ViewsRow(LooseViews(h, p), p)
  OBVIOUS
<1>12. PICK head, fold : head = <<[kind |-> "project"]>>
                         /\ fold = IF hidden > 0 THEN <<[kind |-> "fold"]>> ELSE <<>>
  OBVIOUS
<1>13. IsList(head) /\ IsList(fold) /\ IsList(loose)
  BY <1>11, <1>12, ShortLists, ViewsRowIsList
<1>14. PICK middle : middle = FlattenSeq(each)
  OBVIOUS
<1>15. IsList(head \o middle \o fold \o loose)
  BY <1>10, <1>13, <1>14, ListsJoin
<1>16. ProjectRows(h, p) = IF kept = {} /\ loose = <<>> THEN <<>> ELSE head \o middle \o fold \o loose
  BY <1>1, <1>3, <1>4, <1>5, <1>6, <1>8, <1>9, <1>11, <1>12, <1>14 DEF ProjectRows
<1> QED BY <1>15, <1>16, ShortLists

LEMMA ProjectsAreOrdered ==
  ASSUME NEW c, IsList(c.agents)
  PROVE  \E n \in Nat : DOMAIN ProjectOrder(c) = 1..n
<1>1. PICK m \in Nat : DOMAIN c.agents = 1..m
  BY ListLength
<1>2. IsFiniteSet(1..m)
  BY FS_Interval
<1>3. IsFiniteSet({c.agents[i].project : i \in 1..m})
  <2>1. PICK T : T = {c.agents[i].project : i \in 1..m}
    OBVIOUS
  <2>2. PICK f : f = [i \in 1..m |-> c.agents[i].project]
    OBVIOUS
  <2>3. f \in [1..m -> T] /\ \A t \in T : \E i \in 1..m : f[i] = t
    BY <2>1, <2>2
  <2>4. f \in Surjection(1..m, T)
    BY <2>3 DEF Surjection
  <2> QED BY <1>2, <2>1, <2>4, FS_Surjection
<1>4. Projects(c) = {c.agents[i].project : i \in 1..m}
  BY <1>1 DEF Projects
<1>5. Cardinality(Projects(c)) \in Nat
  BY <1>3, <1>4, FS_CardinalityType
<1>6. DOMAIN ProjectOrder(c) = 1..Cardinality(Projects(c))
  BY DEF ProjectOrder, Ranked
<1> QED BY <1>5, <1>6

LEMMA RowsAreList ==
  ASSUME NEW h, IsList(h.context.agents)
  PROVE  IsList(AllRows(h))
<1>1. CASE ~h.loaded
  BY <1>1, ShortLists DEF AllRows
<1>2. CASE h.loaded
  <2>1. PICK order : order = ProjectOrder(h.context)
    OBVIOUS
  <2>2. PICK n \in Nat : DOMAIN order = 1..n
    BY <2>1, ProjectsAreOrdered
  <2>3. PICK each : each = [i \in DOMAIN order |-> ProjectRows(h, order[i])]
    OBVIOUS
  <2>4. PICK middle : middle = FlattenSeq(each)
    OBVIOUS
  <2>5. IsList(middle)
    <3>1. IsList(each) /\ Len(each) = n
      BY <2>2, <2>3, CountedIsList
    <3>2. \A i \in 1..Len(each) : IsList(each[i])
      BY <2>2, <2>3, <3>1, ProjectRowsAreList
    <3> QED BY <2>4, <3>1, <3>2, FlattenIsList
  <2>6. PICK loose : loose = ViewsRow(LooseViews(h, NoAgent), NoAgent)
    OBVIOUS
  <2>7. PICK head : head = <<[kind |-> "project"]>>
    OBVIOUS
  <2>8. PICK below, welcome : /\ below = IF loose = <<>> THEN <<>> ELSE head \o loose
                           /\ welcome = IF IsFirstRun(h) THEN <<[kind |-> "first run"]>> ELSE <<>>
    OBVIOUS
  <2>9. IsList(below) /\ IsList(welcome)
    BY <2>6, <2>7, <2>8, ShortLists, ViewsRowIsList, ListsJoin
  <2>10. IsList(middle \o below \o welcome)
    BY <2>5, <2>9, ListsJoin
  <2>11. AllRows(h) = middle \o below \o welcome
    BY <1>2, <2>1, <2>3, <2>4, <2>6, <2>7, <2>8 DEF AllRows
  <2> QED BY <2>10, <2>11
<1> QED BY <1>1, <1>2

-----------------------------------------------------------------------------
(* The home's cursor.                                                       *)

LEMMA LeastIsOne ==
  ASSUME NEW S \in SUBSET Nat, S # {}
  PROVE  Least(S) \in S
<1>1. \E i \in S : \A j \in S : i <= j
  BY LeastIsThere
<1> QED BY <1>1 DEF Least

LEMMA GreatestIsOne ==
  ASSUME NEW n \in Nat, NEW S \in SUBSET (1..n), S # {}
  PROVE  Greatest(S) \in S
<1>1. PICK below : below = {n - i : i \in S}
  OBVIOUS
<1>2. below \in SUBSET Nat /\ below # {}
  <2>1. ASSUME NEW i \in S PROVE n - i \in Nat
    OBVIOUS
  <2> QED BY <1>1, <2>1
<1>3. PICK d \in below : \A e \in below : d <= e
  BY <1>2, LeastIsThere
<1>4. PICK i \in S : d = n - i
  BY <1>1, <1>3
<1>5. \A j \in S : j <= i
  <2>1. ASSUME NEW j \in S PROVE j <= i
    <3>1. n - i <= n - j
      BY <1>1, <1>3, <1>4
    <3>2. i \in Nat /\ j \in Nat
      OBVIOUS
    <3> QED BY <3>1, <3>2
  <2> QED BY <2>1
<1>6. \E k \in S : \A j \in S : j <= k
  BY <1>4, <1>5
<1> QED BY <1>6 DEF Greatest

(* A home's fields are these, and a context's.                              *)
IsHome(h) ==
  h = [context |-> h.context, loaded |-> h.loaded, cursor |-> h.cursor, unfolded |-> h.unfolded,
       endedShown |-> h.endedShown, filter |-> h.filter, view |-> h.view, confirm |-> h.confirm,
       input |-> h.input]
IsContext(c) ==
  /\ c = [agents |-> c.agents, views |-> c.views, details |-> c.details, assistant |-> c.assistant]
  /\ IsList(c.agents)

OnRow(h) == Selectables(Rows(h)) # {} => h.cursor \in Selectables(Rows(h))
HomeOK(h) == IsHome(h) /\ IsContext(h.context) /\ h.cursor \in Nat /\ OnRow(h)

LEMMA SelectablesAreCounted ==
  ASSUME NEW h, IsContext(h.context)
  PROVE  \E n \in Nat : Selectables(Rows(h)) \subseteq 1..n
<1>1. IsList(Rows(h))
  BY RowsAreList DEF Rows, RowData, IsContext
<1> QED BY <1>1, ListLength DEF Selectables

(* A change of what is not made into rows leaves the rows.                  *)
LEMMA RowsFollow ==
  ASSUME NEW h, NEW g, IsHome(h),
         g = [h EXCEPT !.cursor = g.cursor, !.view = g.view, !.confirm = g.confirm, !.input = g.input]
  PROVE  IsHome(g) /\ g.context = h.context /\ Rows(g) = Rows(h) /\ RowData(g) = RowData(h)
<1>1. /\ g.context = h.context /\ g.loaded = h.loaded /\ g.unfolded = h.unfolded
      /\ g.endedShown = h.endedShown /\ g.filter = h.filter /\ IsHome(g)
  BY DEF IsHome
<1>2. RowData(g) = RowData(h)
  BY <1>1 DEF RowData
<1> QED BY <1>1, <1>2 DEF Rows

(* reshape: the cursor comes to a row of its session's name if there is one *)
(* and in any case to a row that can be selected, if there is one.          *)
LEMMA AnchorsOnRow ==
  ASSUME NEW h, NEW name, IsContext(h.context), h.cursor \in Nat
  PROVE  /\ Anchor(h, name) \in Nat
         /\ Selectables(Rows(h)) # {} => Anchor(h, name) \in Selectables(Rows(h))
         /\ RowsNamed(Rows(h), name) # {} => Anchor(h, name) \in RowsNamed(Rows(h), name)
<1>1. PICK rows : rows = Rows(h)
  OBVIOUS
<1>2. PICK at : at = Selectables(rows)
  OBVIOUS
<1>3. at \in SUBSET Nat
  BY <1>1, <1>2, SelectablesAreCounted
<1>4. PICK named : named = {i \in at : Holds(rows[i], name)}
  OBVIOUS
<1>5. PICK away : away = [i \in Nat |-> IF i > h.cursor THEN i - h.cursor ELSE h.cursor - i]
  OBVIOUS
<1>6. PICK nearest : nearest = {i \in at : \A j \in at : away[i] <= away[j]}
  OBVIOUS
<1>7. Anchor(h, name) = IF named # {} THEN Least(named) ELSE IF at = {} THEN h.cursor ELSE Least(nearest)
  <2>1. nearest = {i \in at : \A j \in at : (IF i > h.cursor THEN i - h.cursor ELSE h.cursor - i)
                                              <= (IF j > h.cursor THEN j - h.cursor ELSE h.cursor - j)}
    BY <1>3, <1>5, <1>6
  <2> QED BY <1>1, <1>2, <1>4, <2>1 DEF Anchor
<1>8. named # {} => Least(named) \in named
  BY <1>3, <1>4, LeastIsOne
<1>9. at # {} => Least(nearest) \in nearest
  <2>1. SUFFICES ASSUME at # {} PROVE Least(nearest) \in nearest
    OBVIOUS
  <2>2. PICK ways : ways = {away[i] : i \in at}
    OBVIOUS
  <2>3. ways \in SUBSET Nat /\ ways # {}
    <3>1. ASSUME NEW i \in at PROVE away[i] \in Nat
      BY <1>3, <1>5
    <3> QED BY <2>1, <2>2, <3>1
  <2>4. PICK d \in ways : \A e \in ways : d <= e
    BY <2>3, LeastIsThere
  <2>5. nearest # {}
    BY <1>6, <2>2, <2>4
  <2> QED BY <1>3, <1>6, <2>5, LeastIsOne
<1>10. named \subseteq at /\ nearest \subseteq at
  BY <1>4, <1>6
<1> QED BY <1>1, <1>2, <1>3, <1>4, <1>7, <1>8, <1>9, <1>10 DEF RowsNamed

AtNamed(h, g) ==
  LET named == RowsNamed(Rows(g), SessionName(h)) IN named # {} => g.cursor \in named

LEMMA Reshaped ==
  ASSUME NEW h, NEW g, IsHome(g), IsContext(g.context), g.cursor \in Nat
  PROVE  /\ HomeOK(Reshape(h, g)) /\ Reshape(h, g).context = g.context
         /\ AtNamed(h, Reshape(h, g))
<1>1. PICK at : at = Anchor(g, SessionName(h))
  OBVIOUS
<1>2. PICK r : r = Reshape(h, g)
  OBVIOUS
<1>3. r = [g EXCEPT !.cursor = at] /\ r.cursor = at
  BY <1>1, <1>2 DEF Reshape, IsHome
<1>4. r = [g EXCEPT !.cursor = r.cursor, !.view = r.view, !.confirm = r.confirm, !.input = r.input]
  BY <1>3 DEF IsHome
<1>5. IsHome(r) /\ r.context = g.context /\ Rows(r) = Rows(g)
  BY <1>4, RowsFollow
<1> QED BY <1>1, <1>2, <1>3, <1>5, AnchorsOnRow DEF HomeOK, OnRow, AtNamed

LEMMA Stepped ==
  ASSUME NEW h, NEW forward, HomeOK(h)
  PROVE  HomeOK(Step(h, forward)) /\ RowData(Step(h, forward)) = RowData(h)
<1>1. PICK at : at = Selectables(Rows(h))
  OBVIOUS
<1>2. PICK n \in Nat : at \subseteq 1..n
  BY <1>1, SelectablesAreCounted DEF HomeOK
<1>3. PICK past : past = {i \in at : IF forward THEN i > h.cursor ELSE i < h.cursor}
  OBVIOUS
<1>4. PICK from : from = IF past = {} THEN at ELSE past
  OBVIOUS
<1>5. PICK to : to = IF h.cursor \notin at THEN Least(at)
                     ELSE IF forward THEN Least(from) ELSE Greatest(from)
  OBVIOUS
<1>6. Step(h, forward) = IF at = {} THEN h ELSE [h EXCEPT !.cursor = to]
  BY <1>1, <1>3, <1>4, <1>5 DEF Step
<1>7. CASE at = {}
  BY <1>6, <1>7
<1>8. CASE at # {}
  <2>1. from \subseteq at /\ from # {} /\ at \in SUBSET Nat
    BY <1>2, <1>3, <1>4, <1>8
  <2>2. Least(at) \in at /\ Least(from) \in from /\ Greatest(from) \in from
    BY <1>2, <1>8, <2>1, LeastIsOne, GreatestIsOne
  <2>3. to \in at
    BY <1>5, <2>1, <2>2
  <2>4. PICK g : g = [h EXCEPT !.cursor = to]
    OBVIOUS
  <2>5. g.cursor = to /\ g = [h EXCEPT !.cursor = g.cursor, !.view = g.view, !.confirm = g.confirm, !.input = g.input]
    BY <2>4 DEF HomeOK, IsHome
  <2>6. IsHome(g) /\ g.context = h.context /\ Rows(g) = Rows(h) /\ RowData(g) = RowData(h)
    BY <2>5, RowsFollow DEF HomeOK
  <2> QED BY <1>1, <1>6, <1>8, <2>1, <2>3, <2>4, <2>5, <2>6 DEF HomeOK, OnRow
<1> QED BY <1>7, <1>8

(* What a key may do to the home: nothing, another prompt or view, a step   *)
(* of the cursor, or other rows with the cursor anchored.                   *)
Anchored(h, g) ==
  \E r : /\ g = Reshape(h, r) /\ IsHome(r) /\ r.context = h.context /\ r.cursor = h.cursor
Prompted(h, g) ==
  g = [h EXCEPT !.cursor = g.cursor, !.view = g.view, !.confirm = g.confirm, !.input = g.input]
  /\ g.cursor = h.cursor

LEMMA KeyShowsThis ==
  ASSUME NEW h, NEW k, IsHome(h), NEW g, g = KeyShows(h, k)
  PROVE  g = h \/ Prompted(h, g) \/ Anchored(h, g) \/ (\E forward : g = Step(h, forward))
<1>1. \/ g = h
      \/ \E v : g = [h EXCEPT !.view = v] \/ g = [h EXCEPT !.confirm = v] \/ g = [h EXCEPT !.input = v]
      \/ g = Reshape(h, [h EXCEPT !.filter = "", !.input = "none"])
      \/ \E v : g = Reshape(h, [h EXCEPT !.filter = v])
      \/ g = Step(h, k = "j")
      \/ \E v : g = Reshape(h, [h EXCEPT !.unfolded = v])
      \/ g = Reshape(h, [h EXCEPT !.endedShown = ~@])
  <2>1. CASE h.view # "main" \/ h.confirm # NoAgent
    BY <2>1 DEF KeyShows
  <2>2. CASE g = FindShows(h, k)
    BY <2>2 DEF FindShows
  <2>3. CASE h.input = "ask" /\ g = IF k \in {"enter", "esc"} THEN [h EXCEPT !.input = "none"] ELSE h
    BY <2>3
  <2>4. CASE g = MainShows(h, k)
    BY <2>4 DEF MainShows
  <2> QED BY <2>1, <2>2, <2>3, <2>4 DEF KeyShows
<1>2. ASSUME NEW v, \/ g = [h EXCEPT !.view = v] \/ g = [h EXCEPT !.confirm = v]
                   \/ g = [h EXCEPT !.input = v]
      PROVE  Prompted(h, g)
  BY <1>2 DEF Prompted, IsHome
<1>3. ASSUME NEW v, NEW r, \/ r = [h EXCEPT !.filter = v] \/ r = [h EXCEPT !.unfolded = v]
                          \/ r = [h EXCEPT !.filter = "", !.input = "none"]
                          \/ r = [h EXCEPT !.endedShown = ~@]
      PROVE  IsHome(r) /\ r.context = h.context /\ r.cursor = h.cursor
  BY <1>3 DEF IsHome
<1> QED BY <1>1, <1>2, <1>3 DEF Anchored

LEMMA KeysKeepHome ==
  ASSUME NEW h, NEW k, HomeOK(h)
  PROVE  LET g == KeyShows(h, k) IN HomeOK(g) /\ (RowData(g) = RowData(h) \/ AtNamed(h, g))
<1>1. PICK g : g = KeyShows(h, k)
  OBVIOUS
<1>2. g = h \/ Prompted(h, g) \/ Anchored(h, g) \/ (\E forward : g = Step(h, forward))
  BY <1>1, KeyShowsThis DEF HomeOK
<1>3. CASE Prompted(h, g)
  <2>1. /\ IsHome(g) /\ g.context = h.context /\ Rows(g) = Rows(h) /\ g.cursor = h.cursor
        /\ RowData(g) = RowData(h)
    BY <1>3, RowsFollow DEF HomeOK, Prompted
  <2> QED BY <1>1, <2>1 DEF HomeOK, OnRow
<1>4. CASE Anchored(h, g)
  <2>1. PICK r : g = Reshape(h, r) /\ IsHome(r) /\ r.context = h.context /\ r.cursor = h.cursor
    BY <1>4 DEF Anchored
  <2>2. IsContext(r.context) /\ r.cursor \in Nat
    BY <2>1 DEF HomeOK
  <2> QED BY <1>1, <2>1, <2>2, Reshaped
<1>5. CASE \E forward : g = Step(h, forward)
  BY <1>1, <1>5, Stepped
<1> QED BY <1>1, <1>2, <1>3, <1>4, <1>5

(* What the worker gathers is a context.                                    *)
Worlds ==
  [running : SUBSET HomeAgents, gone : SUBSET HomeAgents, ended : SUBSET HomeAgents,
   views : SUBSET HomeViews, failed : BOOLEAN]

LEMMA AgentListIsList ==
  ASSUME NEW S \in SUBSET HomeAgents, NEW over, NEW known
  PROVE  IsList(AgentList(S, over, known))
<1>1. PICK n \in Nat : n = Cardinality(S)
  <2>1. IsFiniteSet(S)
    BY HomeAssumption, FS_Subset
  <2> QED BY <2>1, FS_CardinalityType
<1>2. PICK f : f = AgentList(S, over, known)
  OBVIOUS
<1>3. f = [i \in 1..n |-> f[i]]
  BY <1>1, <1>2 DEF AgentList
<1> QED BY <1>2, <1>3, CountedIsList

LEMMA GatheredIsContext ==
  ASSUME NEW w \in Worlds, NEW details, NEW known
  PROVE  IsContext(Gather(w, details, known))
<1>1. PICK running, gone, over : /\ running = AgentList(w.running, FALSE, known)
                              /\ gone = AgentList(w.gone, TRUE, known)
                              /\ over = AgentList(w.ended \cup w.gone, TRUE, known)
  OBVIOUS
<1>2. IsList(running) /\ IsList(gone) /\ IsList(over)
  BY <1>1, AgentListIsList DEF Worlds
<1>3. IsList(running \o gone \o over)
  BY <1>2, ListsJoin
<1>4. PICK c : c = Gather(w, details, known)
  OBVIOUS
<1>5. c.agents = running \o gone \o over
      /\ c = [agents |-> c.agents, views |-> c.views, details |-> c.details, assistant |-> c.assistant]
  BY <1>1, <1>4 DEF Gather
<1> QED BY <1>3, <1>4, <1>5 DEF IsContext

(* Every context on its way is a context, and the cursor is on a row that    *)
(* can be selected, if there is one.                                        *)
HomeInv ==
  /\ HomeOK(home) /\ IsContext(gathered)
  /\ IsList(replies) /\ \A i \in 1..Len(replies) : replies[i].failed \/ IsContext(replies[i].context)
  /\ world \in Worlds /\ homeKeys \in Nat

LEMMA HomeStarts ==
  ASSUME HomeInit
  PROVE  HomeInv
<1>1. IsContext(NoContext)
  BY ShortLists DEF NoContext, IsContext
<1>2. HomeOK(Loading)
  <2>1. PICK h : h = Loading
    OBVIOUS
  <2>2. h.context = NoContext /\ h.cursor = 1 /\ h.loaded = FALSE /\ IsHome(h)
    BY <2>1 DEF Loading, IsHome
  <2>3. Rows(h) = <<[kind |-> "loading"]>>
    BY <2>2 DEF Rows, RowData, AllRows
  <2>4. Selectables(Rows(h)) = {}
    BY <2>3 DEF Selectables, Selectable
  <2> QED BY <1>1, <2>1, <2>2, <2>4 DEF HomeOK, OnRow
<1>3. world \in Worlds
  BY HomeAssumption DEF HomeInit, Worlds
<1>4. replies = <<>> /\ Len(replies) = 0
  BY DEF HomeInit
<1> QED BY <1>1, <1>2, <1>3, <1>4, ShortLists DEF HomeInit, HomeInv

(* A reply, as HomeReceive takes it.                                        *)
LEMMA ReplyIsContext ==
  ASSUME HomeInv, replies # <<>>
  PROVE  /\ Head(replies).failed \/ IsContext(Head(replies).context)
         /\ IsList(Tail(replies))
         /\ \A i \in 1..Len(Tail(replies)) :
              Tail(replies)[i].failed \/ IsContext(Tail(replies)[i].context)
<1>1. PICK S : replies \in Seq(S)
  BY DEF HomeInv, IsList
<1>2. /\ Head(replies) = replies[1] /\ 1 \in 1..Len(replies)
      /\ Tail(replies) \in Seq(S) /\ Len(Tail(replies)) = Len(replies) - 1 /\ Len(replies) \in Nat
      /\ \A i \in 1..Len(Tail(replies)) : Tail(replies)[i] = replies[i + 1]
  BY <1>1
<1>3. \A i \in 1..Len(Tail(replies)) : i + 1 \in 1..Len(replies)
  BY <1>2
<1> QED BY <1>2, <1>3 DEF HomeInv, IsList

LEMMA ReplyComes ==
  ASSUME HomeInv, NEW r, r.failed \/ IsContext(r.context)
  PROVE  LET next == Append(replies, r) IN
         IsList(next) /\ \A i \in 1..Len(next) : next[i].failed \/ IsContext(next[i].context)
<1>1. PICK S : replies \in Seq(S)
  BY DEF HomeInv, IsList
<1>2. PICK T : T = S \cup {r}
  OBVIOUS
<1>3. replies \in Seq(T) /\ r \in T
  BY <1>1, <1>2, SeqMonotonic
<1>4. PICK next : next = Append(replies, r)
  OBVIOUS
<1>5. /\ next \in Seq(T) /\ Len(next) = Len(replies) + 1 /\ Len(replies) \in Nat
      /\ next[Len(replies) + 1] = r /\ \A i \in 1..Len(replies) : next[i] = replies[i]
  BY <1>3, <1>4
<1>6. \A i \in 1..Len(next) : i \in 1..Len(replies) \/ i = Len(replies) + 1
  BY <1>5
<1> QED BY <1>4, <1>5, <1>6 DEF HomeInv, IsList

(* What a step does to the home's cursor.                                   *)
Stays == home' # home => \A rows \in {Rows(home')} : CursorMoves(rows)

(* An agent that is listed is so under its name.                            *)
LEMMA OwnAreNamed ==
  ASSUME NEW rows, NEW row, AgentOf(row) # NoAgent, AgentsRows(rows, AgentOf(row)) # {}
  PROVE  RowsNamed(rows, NameIn(row)) # {}
<1>1. row.kind = "agent" /\ AgentOf(row) = row.id /\ NameIn(row) = NameOf[row.id]
  BY DEF AgentOf, NameIn
<1>2. PICK i \in Selectables(rows) : AgentOf(rows[i]) = row.id
  BY <1>1 DEF AgentsRows
<1>3. rows[i].kind = "agent" /\ rows[i].id = row.id
  BY <1>1, <1>2 DEF AgentOf
<1>4. Holds(rows[i], NameIn(row))
  BY <1>1, <1>3 DEF Holds
<1> QED BY <1>2, <1>4 DEF RowsNamed

(* It is enough that the cursor comes to a row of the name it should.       *)
LEMMA MovesByName ==
  ASSUME NEW rows, rows = Rows(home'),
         Selectables(rows) # {} => home'.cursor \in Selectables(rows),
         homeKeys' = homeKeys \/ RowData(home') # RowData(home) =>
           LET named == RowsNamed(rows, IF homeKeys' = homeKeys /\ RowsNamed(rows, returned) # {}
                                          THEN returned ELSE SessionName(home)) IN
           named # {} => home'.cursor \in named
  PROVE  CursorMoves(rows)
<1>1. PICK row : row = CursorRow(home)
  OBVIOUS
<1>2. SessionName(home) = NameIn(row)
  BY <1>1 DEF SessionName
<1>3. PICK own : own = AgentsRows(rows, AgentOf(row))
  OBVIOUS
<1>4. AgentOf(row) # NoAgent /\ own # {} => RowsNamed(rows, NameIn(row)) # {}
  BY <1>3, OwnAreNamed
<1> QED BY <1>1, <1>2, <1>3, <1>4 DEF CursorMoves

(* The step of an answer: the cursor is on the session, if it is listed.    *)
LEMMA ReceiveStays ==
  ASSUME HomeInv, HomeReceive
  PROVE  HomeInv' /\ Stays
<1>1. PICK reply : reply = Head(replies)
  OBVIOUS
<1>2. reply.failed \/ IsContext(reply.context)
  BY <1>1, ReplyIsContext DEF HomeReceive
<1>3. /\ IsList(replies') /\ gathered' = gathered /\ world' = world
      /\ \A i \in 1..Len(replies') : replies'[i].failed \/ IsContext(replies'[i].context)
      /\ homeKeys' = homeKeys
  BY ReplyIsContext DEF HomeReceive
<1>4. CASE reply.failed
  <2>1. home' = home
    BY <1>1, <1>4 DEF HomeReceive
  <2> QED BY <1>3, <2>1 DEF HomeInv, Stays
<1>5. CASE ~reply.failed
  <2>1. PICK changed : changed = [home EXCEPT !.context = reply.context, !.loaded = TRUE]
    OBVIOUS
  <2>2. IsHome(changed) /\ changed.context = reply.context /\ changed.cursor = home.cursor
    BY <2>1 DEF HomeInv, HomeOK, IsHome
  <2>3. PICK fresh : fresh = Reshape(home, changed)
    OBVIOUS
  <2>4. PICK rows : rows = Rows(fresh)
    OBVIOUS
  <2>5. HomeOK(fresh) /\ fresh.context = reply.context /\ AtNamed(home, fresh)
    BY <1>2, <1>5, <2>2, <2>3, <2>4, Reshaped DEF HomeInv, HomeOK
  <2>6. PICK back : back = RowsNamed(rows, returned)
    OBVIOUS
  <2>7. home' = IF back = {} THEN fresh ELSE [fresh EXCEPT !.cursor = Least(back)]
    BY <1>1, <1>5, <2>1, <2>3, <2>4, <2>6 DEF HomeReceive, RowsNamed
  <2>8. CASE back = {}
    <3>1. home' = fresh /\ Rows(home') = rows
      BY <2>4, <2>7, <2>8
    <3>2. HomeInv'
      BY <1>3, <2>5, <3>1 DEF HomeInv, HomeOK, OnRow
    <3>3. CursorMoves(rows)
      BY <2>4, <2>5, <2>6, <2>8, <3>1, MovesByName DEF HomeOK, OnRow, AtNamed
    <3> QED BY <3>1, <3>2, <3>3 DEF Stays
  <2>9. CASE back # {}
    <3>1. PICK g : g = [fresh EXCEPT !.cursor = Least(back)]
      OBVIOUS
    <3>2. g.cursor = Least(back)
          /\ g = [fresh EXCEPT !.cursor = g.cursor, !.view = g.view, !.confirm = g.confirm, !.input = g.input]
      BY <2>5, <3>1 DEF HomeOK, IsHome
    <3>3. IsHome(g) /\ g.context = fresh.context /\ Rows(g) = rows
      BY <2>4, <2>5, <3>2, RowsFollow DEF HomeOK
    <3>4. back \in SUBSET Nat
      BY <2>4, <2>5, <2>6, SelectablesAreCounted DEF HomeOK, RowsNamed
    <3>5. g.cursor \in back
      BY <2>9, <3>2, <3>4, LeastIsOne
    <3>6. HomeOK(g)
      BY <2>5, <2>6, <3>3, <3>4, <3>5 DEF HomeOK, OnRow, RowsNamed
    <3>7. home' = g
      BY <2>7, <2>9, <3>1
    <3>8. HomeInv'
      BY <1>3, <3>6, <3>7 DEF HomeInv, HomeOK, OnRow
    <3>9. CursorMoves(rows)
      <4>1. home'.cursor \in RowsNamed(rows, returned) /\ home'.cursor \in Selectables(rows)
        BY <2>6, <3>5, <3>7 DEF RowsNamed
      <4>2. homeKeys' = homeKeys /\ RowsNamed(rows, returned) # {} /\ rows = Rows(home')
        BY <2>6, <2>9, <3>3, <3>7 DEF HomeReceive
      <4> QED BY <4>1, <4>2, MovesByName
    <3> QED BY <3>3, <3>7, <3>8, <3>9 DEF Stays
  <2> QED BY <2>8, <2>9
<1> QED BY <1>4, <1>5

LEMMA WorkerKeeps ==
  ASSUME HomeInv, WorkerAnswers \/ WorkerFails
  PROVE  HomeInv' /\ home' = home
<1>1. CASE WorkerFails
  <2>1. PICK r : r = [failed |-> TRUE] /\ replies' = Append(replies, r)
    BY <1>1 DEF WorkerFails
  <2> QED BY <1>1, <2>1, ReplyComes DEF WorkerFails, HomeInv, HomeOK, OnRow
<1>2. CASE WorkerAnswers
  <2>1. PICK request : request = Head(requests)
    OBVIOUS
  <2>2. IsContext(gathered')
    <3>1. PICK kept : kept = [gathered EXCEPT !.details =
                                IF request.id \in world.running \cup world.gone \cup world.ended
                                  THEN @ \cup {request.id} ELSE @]
      OBVIOUS
    <3>2. IsContext(kept)
      BY <3>1 DEF HomeInv, IsContext
    <3>3. gathered' = kept \/ \E known : gathered' = Gather(world, gathered.details, known)
      BY <1>2, <2>1, <3>1 DEF WorkerAnswers
    <3> QED BY <3>2, <3>3, GatheredIsContext DEF HomeInv
  <2>3. PICK r, known : replies' = Append(replies, r) /\ r = Reply(gathered', known)
    BY <1>2 DEF WorkerAnswers
  <2>4. world' \in Worlds
    BY <1>2 DEF WorkerAnswers, HomeInv, Worlds
  <2>5. home' = home /\ homeKeys' = homeKeys
    BY <1>2 DEF WorkerAnswers
  <2>6. r.context = gathered'
    BY <2>3 DEF Reply
  <2> QED BY <2>2, <2>3, <2>4, <2>5, <2>6, ReplyComes DEF HomeInv, HomeOK, OnRow
<1> QED BY <1>1, <1>2

LEMMA HomeKept ==
  ASSUME HomeInv, HomeNext
  PROVE  HomeInv' /\ Stays
<1>1. ASSUME NEW k \in HomeKeySet, HomeKey(k)
      PROVE  HomeInv' /\ Stays
  <2>1. HomeOK(home') /\ (RowData(home') = RowData(home) \/ AtNamed(home, home'))
    BY <1>1, KeysKeepHome DEF HomeKey, HomeInv
  <2>2. homeKeys' \in Nat /\ homeKeys' # homeKeys
    BY <1>1 DEF HomeKey, HomeInv
  <2>3. HomeInv'
    BY <1>1, <2>1, <2>2 DEF HomeKey, HomeInv, HomeOK, OnRow
  <2>4. ASSUME NEW rows, rows = Rows(home') PROVE CursorMoves(rows)
    BY <2>1, <2>2, <2>4, MovesByName DEF AtNamed, HomeOK, OnRow
  <2> QED BY <2>3, <2>4 DEF Stays
<1>2. CASE HomeReceive
  BY <1>2, ReceiveStays
<1>3. CASE HomeRequest
  BY <1>3 DEF HomeRequest, HomeInv, HomeOK, OnRow, Stays
<1>4. CASE WorkerAnswers \/ WorkerFails
  BY <1>4, WorkerKeeps DEF Stays
<1>5. CASE WorldTurns
  <2>1. world' \in Worlds
    <3>1. CASE \E a \in world.running :
                 world' = [world EXCEPT !.running = @ \ {a}, !.gone = @ \cup {a}]
      <4>1. PICK a \in world.running :
              world' = [world EXCEPT !.running = @ \ {a}, !.gone = @ \cup {a}]
        BY <3>1
      <4>2. world.running \ {a} \in SUBSET HomeAgents /\ world.gone \cup {a} \in SUBSET HomeAgents
        BY DEF HomeInv, Worlds
      <4> QED BY <4>1, <4>2 DEF HomeInv, Worlds
    <3>2. CASE \E a \in HomeAgents :
                 world' = [world EXCEPT !.running = @ \cup {a}, !.ended = @ \ {a}]
      <4>1. PICK a \in HomeAgents :
              world' = [world EXCEPT !.running = @ \cup {a}, !.ended = @ \ {a}]
        BY <3>2
      <4>2. world.running \cup {a} \in SUBSET HomeAgents /\ world.ended \ {a} \in SUBSET HomeAgents
        BY DEF HomeInv, Worlds
      <4> QED BY <4>1, <4>2 DEF HomeInv, Worlds
    <3>3. CASE \E v \in HomeViews :
                 world' = [world EXCEPT !.views = IF v \in @ THEN @ \ {v} ELSE @ \cup {v}]
      BY <3>3 DEF HomeInv, Worlds
    <3>4. CASE world' = [world EXCEPT !.failed = ~@]
      BY <3>4 DEF HomeInv, Worlds
    <3> QED BY <1>5, <3>1, <3>2, <3>3, <3>4 DEF WorldTurns
  <2> QED BY <1>5, <2>1 DEF WorldTurns, HomeInv, HomeOK, OnRow, Stays
<1> QED BY <1>1, <1>2, <1>3, <1>4, <1>5 DEF HomeNext

(* In every state of the home the cursor is on a row that can be selected,  *)
(* while there is one, and every context under way is one (Home::anchor).   *)
THEOREM HomeInvariance == HomeSpec => []HomeInv
<1>1. HomeInit => HomeInv
  BY HomeStarts
<1>2. HomeInv /\ [HomeNext]_homeVars => HomeInv'
  <2>1. HomeInv /\ UNCHANGED homeVars => HomeInv'
    BY DEF HomeInv, homeVars, HomeOK, OnRow
  <2> QED BY <2>1, HomeKept
<1> QED BY <1>1, <1>2, PTL DEF HomeSpec

(* For any agents, views, finds and changes of the world: what changes the  *)
(* rows, and every answer, leaves the cursor on its agent unless a namesake *)
(* is listed, and on a row of the name then, or on the session the operator *)
(* returned from (Home::reshape, anchor, select_session).                   *)
THEOREM CursorAlwaysStays == HomeSpec => CursorStaysOnItsSession
<1>1. HomeInv /\ [HomeNext]_homeVars => [Stays]_homeVars
  BY HomeKept
<1>2. HomeSpec => [][Stays]_homeVars
  BY <1>1, HomeInvariance, PTL DEF HomeSpec
<1> QED BY <1>2 DEF CursorStaysOnItsSession, Stays

-----------------------------------------------------------------------------
(* The timeline's lists *)

LEMMA FirstInIsOne ==
  ASSUME NEW S \in SUBSET Nat, S # {}
  PROVE  FirstIn(S) \in S
<1>1. \E i \in S : \A j \in S : i <= j
  BY LeastIsThere
<1> QED BY <1>1 DEF FirstIn

LEMMA LastInIsOne ==
  ASSUME NEW n \in Nat, NEW S \in SUBSET (1..n), S # {}
  PROVE  LastIn(S) \in S
<1>1. PICK below : below = {n - i : i \in S}
  OBVIOUS
<1>2. below \in SUBSET Nat /\ below # {}
  <2>1. ASSUME NEW i \in S PROVE n - i \in Nat
    OBVIOUS
  <2> QED BY <1>1, <2>1
<1>3. PICK d \in below : \A e \in below : d <= e
  BY <1>2, LeastIsThere
<1>4. PICK i \in S : d = n - i
  BY <1>1, <1>3
<1>5. \A j \in S : j <= i
  <2>1. ASSUME NEW j \in S PROVE j <= i
    <3>1. n - i <= n - j
      BY <1>1, <1>3, <1>4
    <3> QED BY <3>1
  <2> QED BY <2>1
<1> QED BY <1>5 DEF LastIn

(* A set of positions in turn has each of them.                            *)
LEMMA TurnsAreThese ==
  ASSUME NEW n \in Nat, NEW S \in SUBSET (1..n)
  PROVE  /\ InTurn(S) \in Seq(S)
         /\ \A i \in S : \E k \in DOMAIN InTurn(S) : InTurn(S)[k] = i
<1>1. IsFiniteSet(S) /\ Cardinality(S) \in Nat
  <2>1. IsFiniteSet(1..n)
    BY FS_Interval
  <2>2. IsFiniteSet(S)
    BY <2>1, FS_Subset
  <2> QED BY <2>2, FS_CardinalityType
<1>2. PICK m \in Nat : m = Cardinality(S)
  BY <1>1
<1>3. PICK rank : rank = [i \in S |-> Cardinality({j \in S : j <= i})]
  OBVIOUS
<1>4. ASSUME NEW i \in S
      PROVE  rank[i] \in 1..m
  <2>1. PICK low : low = {j \in S : j <= i}
    OBVIOUS
  <2>2. low \subseteq S /\ i \in low
    BY <2>1
  <2>3. IsFiniteSet(low) /\ Cardinality(low) <= m /\ Cardinality(low) \in Nat
    BY <1>1, <1>2, <2>2, FS_Subset, FS_CardinalityType
  <2>4. Cardinality(low) # 0
    BY <2>2, <2>3, FS_EmptySet
  <2> QED BY <1>2, <1>3, <2>1, <2>3, <2>4
<1>5. ASSUME NEW i \in S, NEW k \in S, i < k
      PROVE  rank[i] # rank[k]
  <2>1. PICK low, high : low = {j \in S : j <= i} /\ high = {j \in S : j <= k}
    OBVIOUS
  <2>2. low \subseteq high /\ low # high /\ high \subseteq S
    <3>1. \A j \in S : j \in Nat
      OBVIOUS
    <3>2. k \in high /\ k \notin low
      BY <1>5, <2>1, <3>1
    <3>3. \A j \in S : j <= i => j <= k
      BY <1>5, <3>1
    <3> QED BY <2>1, <3>2, <3>3
  <2>3. IsFiniteSet(high)
    BY <1>1, <2>2, FS_Subset
  <2>4. /\ IsFiniteSet(low)
        /\ Cardinality(low) <= Cardinality(high)
        /\ Cardinality(low) = Cardinality(high) => low = high
    BY <2>2, <2>3, FS_Subset
  <2>5. Cardinality(low) \in Nat /\ Cardinality(high) \in Nat
    BY <2>3, <2>4, FS_CardinalityType
  <2> QED BY <1>3, <2>1, <2>2, <2>4, <2>5
<1>6. rank \in Injection(S, 1..m)
  <2>1. rank \in [S -> 1..m]
    BY <1>3, <1>4
  <2>2. \A i, k \in S : rank[i] = rank[k] => i = k
    BY <1>5
  <2> QED BY <2>1, <2>2 DEF Injection, IsInjective
<1>7. ASSUME NEW k \in 1..m
      PROVE  \E i \in S : rank[i] = k
  <2>1. IsFiniteSet(1..m) /\ Cardinality(1..m) = m
    BY FS_Interval
  <2>2. rank \in Surjection(S, 1..m)
    BY <1>2, <1>6, <2>1, FS_Injection
  <2> QED BY <2>2 DEF Surjection
<1>8. ASSUME NEW k \in 1..m, NEW i \in S, rank[i] = k
      PROVE  (CHOOSE j \in S : Cardinality({l \in S : l <= j}) = k) = i
  <2>1. PICK j : j = CHOOSE c \in S : Cardinality({l \in S : l <= c}) = k
    OBVIOUS
  <2>2. j \in S /\ rank[j] = k
    BY <1>3, <1>8, <2>1
  <2>3. ~(i < j) /\ ~(j < i)
    BY <1>5, <1>8, <2>2
  <2>4. i \in Nat /\ j \in Nat
    BY <2>2
  <2>5. i = j
    BY <2>3, <2>4
  <2> QED BY <2>1, <2>5
<1>9. DOMAIN InTurn(S) = 1..m /\ \A k \in 1..m :
        InTurn(S)[k] = CHOOSE j \in S : Cardinality({l \in S : l <= j}) = k
  BY <1>2 DEF InTurn
<1>10. \A k \in 1..m : InTurn(S)[k] \in S
  BY <1>7, <1>8, <1>9
<1>11. InTurn(S) \in [1..m -> S]
  BY <1>2, <1>10 DEF InTurn
<1>12. InTurn(S) \in Seq(S)
  BY <1>11, IsASeq
<1> QED BY <1>4, <1>8, <1>9, <1>12

LEMMA FlattenTyped ==
  ASSUME NEW S, NEW n \in Nat, NEW lists \in [1..n -> Seq(S)]
  PROVE  FlattenSeq(lists) \in Seq(S)
<1>1. lists \in Seq(Seq(S)) /\ Len(lists) = n
  BY IsASeq, LenProperties
<1>2. CASE n = 0
  BY <1>1, <1>2 DEF FlattenSeq
<1>3. CASE n # 0
  <2>1. PICK f : JoinedUpTo(f, lists, n) /\ FlattenSeq(lists) = f[n]
    <3>1. PICK f : f = CHOOSE g : JoinedUpTo(g, lists, n)
      OBVIOUS
    <3>2. JoinedUpTo(f, lists, n)
      BY <3>1, JoinedIsThere
    <3>3. FlattenSeq(lists) = f[n]
      BY <1>1, <1>3, <3>1 DEF FlattenSeq, JoinedUpTo
    <3> QED BY <3>2, <3>3
  <2>2. PICK bad : bad = {i \in Nat : i \in 1..n /\ f[i] \notin Seq(S)}
    OBVIOUS
  <2>3. bad = {}
    <3>1. SUFFICES ASSUME bad # {} PROVE FALSE
      OBVIOUS
    <3>2. PICK i \in bad : \A j \in bad : i <= j
      <4>1. bad \in SUBSET Nat
        BY <2>2
      <4> QED BY <3>1, <4>1, LeastIsThere
    <3>3. i \in 1..n /\ f[i] \notin Seq(S)
      BY <2>2, <3>2
    <3>4. f[i] = IF i = 1 THEN lists[i] ELSE f[i - 1] \o lists[i]
      BY <2>1, <3>3 DEF JoinedUpTo
    <3>5. i # 1
      BY <3>3, <3>4
    <3>6. i - 1 \in 1..n /\ i - 1 \in Nat /\ ~(i <= i - 1)
      BY <3>3, <3>5
    <3>7. f[i - 1] \in Seq(S)
      BY <2>2, <3>2, <3>6
    <3>8. lists[i] \in Seq(S)
      BY <3>3
    <3> QED BY <3>3, <3>4, <3>5, <3>7, <3>8, ConcatProperties
  <2> QED BY <1>3, <2>1, <2>2, <2>3
<1> QED BY <1>2, <1>3

-----------------------------------------------------------------------------
(* Items, lanes and messages of a screen.                                   *)

ScreenRows(p) == {<<"group", g>> : g \in DOMAIN p.groups} \cup {<<"lane", i>> : i \in DOMAIN p.lanes}

LEMMA RowsTyped ==
  ASSUME NEW x, IsPayload(x.payload)
  PROVE  RowsOn(x) \in Seq(ScreenRows(x.payload))
<1>1. PICK n \in Nat, m \in Nat : DOMAIN x.payload.groups = 1..n /\ DOMAIN x.payload.lanes = 1..m
  BY DEF IsPayload
<1>2. PICK Items : Items = ScreenRows(x.payload)
  OBVIOUS
<1>3. ASSUME NEW g \in 1..n
      PROVE  GroupRows(x, g) \in Seq(Items)
  <2>1. PICK S : S = LanesIn(x, x.payload.groups[g])
    OBVIOUS
  <2>2. S \in SUBSET (1..m)
    BY <1>1, <2>1 DEF LanesIn
  <2>3. PICK lanes \in Seq(S) : lanes = InTurn(S)
    BY <2>2, TurnsAreThese
  <2>4. PICK head, tail : head = <<<<"group", g>>>> /\ tail = [i \in DOMAIN lanes |-> <<"lane", lanes[i]>>]
    OBVIOUS
  <2>5. head \in Seq(Items)
    <3>1. <<"group", g>> \in Items
      BY <1>1, <1>2 DEF ScreenRows
    <3> QED BY <2>4, <3>1
  <2>6. tail \in Seq(Items)
    <3>1. PICK k \in Nat : k = Len(lanes) /\ DOMAIN lanes = 1..k
      BY <2>3, LenProperties
    <3>2. ASSUME NEW i \in 1..k
          PROVE  tail[i] \in Items
      <4>1. lanes[i] \in S
        BY <2>3, <3>1, ElementOfSeq
      <4>2. lanes[i] \in DOMAIN x.payload.lanes
        BY <1>1, <2>2, <4>1
      <4> QED BY <1>2, <2>4, <3>1, <4>2 DEF ScreenRows
    <3>3. tail \in [1..k -> Items]
      BY <2>4, <3>1, <3>2
    <3> QED BY <3>1, <3>3, IsASeq
  <2>7. head \o tail \in Seq(Items)
    BY <2>5, <2>6, ConcatProperties
  <2>8. GroupRows(x, g) = IF S = {} THEN <<>> ELSE head \o tail
    BY <2>1, <2>3, <2>4 DEF GroupRows
  <2> QED BY <2>7, <2>8
<1>4. PICK lists : lists = [g \in 1..n |-> GroupRows(x, g)]
  OBVIOUS
<1>5. lists \in [1..n -> Seq(Items)]
  BY <1>3, <1>4
<1>6. RowsOn(x) = FlattenSeq(lists)
  BY <1>1, <1>4 DEF RowsOn
<1> QED BY <1>2, <1>5, <1>6, FlattenTyped

(* The visible lanes are those of the rows.                                 *)
LEMMA LanesAreShown ==
  ASSUME NEW x, IsPayload(x.payload)
  PROVE  /\ VisibleLanes(x) \in Seq(DOMAIN x.payload.lanes)
         /\ \A k \in DOMAIN RowsOn(x), i \in DOMAIN x.payload.lanes :
              RowsOn(x)[k] = <<"lane", i>> => i \in Range(VisibleLanes(x))
         /\ \A i \in Range(VisibleLanes(x)) : \E k \in DOMAIN RowsOn(x) : RowsOn(x)[k] = <<"lane", i>>
<1>1. PICK rows \in Seq(ScreenRows(x.payload)) : rows = RowsOn(x)
  BY RowsTyped
<1>2. PICK n \in Nat : DOMAIN rows = 1..n
  BY <1>1, LenProperties
<1>3. PICK S : S = {i \in DOMAIN rows : rows[i][1] = "lane"}
  OBVIOUS
<1>4. S \in SUBSET (1..n)
  BY <1>2, <1>3
<1>5. PICK at \in Seq(S) : at = InTurn(S)
  BY <1>4, TurnsAreThese
<1>6. PICK m \in Nat : DOMAIN at = 1..m
  BY <1>5, LenProperties
<1>7. \A k \in 1..m : at[k] \in S
  BY <1>5, <1>6, ElementOfSeq
<1>8. VisibleLanes(x) = [k \in 1..m |-> rows[at[k]][2]]
  BY <1>1, <1>3, <1>5, <1>6 DEF VisibleLanes
<1>9. ASSUME NEW k \in S
      PROVE  rows[k][2] \in DOMAIN x.payload.lanes /\ rows[k] = <<"lane", rows[k][2]>>
  <2>1. rows[k] \in ScreenRows(x.payload) /\ rows[k][1] = "lane"
    BY <1>1, <1>3, ElementOfSeq
  <2>2. PICK i \in DOMAIN x.payload.lanes : rows[k] = <<"lane", i>>
    BY <2>1 DEF ScreenRows
  <2> QED BY <2>2
<1>10. VisibleLanes(x) \in Seq(DOMAIN x.payload.lanes)
  <2>1. VisibleLanes(x) \in [1..m -> DOMAIN x.payload.lanes]
    BY <1>7, <1>8, <1>9
  <2> QED BY <2>1, IsASeq
<1>11. ASSUME NEW k \in DOMAIN rows, NEW i \in DOMAIN x.payload.lanes, rows[k] = <<"lane", i>>
       PROVE  i \in Range(VisibleLanes(x))
  <2>1. k \in S
    BY <1>3, <1>11
  <2>2. PICK l \in 1..m : at[l] = k
    BY <1>4, <1>5, <1>6, <2>1, TurnsAreThese
  <2>3. VisibleLanes(x)[l] = i /\ l \in DOMAIN VisibleLanes(x)
    BY <1>8, <1>11, <2>2
  <2> QED BY <2>3 DEF Range
<1>12. ASSUME NEW i \in Range(VisibleLanes(x))
       PROVE  \E k \in DOMAIN rows : rows[k] = <<"lane", i>>
  <2>1. PICK l \in 1..m : VisibleLanes(x)[l] = i
    BY <1>8, <1>12 DEF Range
  <2>2. at[l] \in S /\ rows[at[l]][2] = i
    BY <1>7, <1>8, <2>1
  <2> QED BY <1>3, <1>9, <2>2
<1> QED BY <1>1, <1>10, <1>11, <1>12

LEMMA FirstIsShown ==
  ASSUME NEW x, IsPayload(x.payload)
  PROVE  /\ FirstVisible(x) \in {0} \cup Range(VisibleLanes(x))
         /\ (FirstVisible(x) = 0) = (VisibleLanes(x) = <<>>)
         /\ Range(VisibleLanes(x)) \subseteq DOMAIN x.payload.lanes
         /\ 0 \notin DOMAIN x.payload.lanes
<1>1. PICK lanes \in Seq(DOMAIN x.payload.lanes) : lanes = VisibleLanes(x)
  BY LanesAreShown
<1>2. PICK n \in Nat : n = Len(lanes) /\ DOMAIN lanes = 1..n
  BY <1>1, LenProperties
<1>3. 0 \notin DOMAIN x.payload.lanes
  BY DEF IsPayload
<1>4. \A i \in 1..n : lanes[i] \in DOMAIN x.payload.lanes
  BY <1>1, <1>2, ElementOfSeq
<1>5. Range(lanes) \subseteq DOMAIN x.payload.lanes
  BY <1>2, <1>4 DEF Range
<1>6. CASE lanes = <<>>
  BY <1>1, <1>3, <1>5, <1>6 DEF FirstVisible
<1>7. CASE lanes # <<>>
  <2>1. 1 \in 1..n
    BY <1>1, <1>2, <1>7, EmptySeq
  <2>2. FirstVisible(x) = lanes[1]
    BY <1>1, <1>7 DEF FirstVisible
  <2>3. lanes[1] \in Range(lanes) /\ lanes[1] # 0
    BY <1>2, <1>3, <1>4, <2>1 DEF Range
  <2> QED BY <1>1, <1>3, <1>5, <1>7, <2>2, <2>3
<1> QED BY <1>6, <1>7

LEMMA MessagesTyped ==
  ASSUME NEW x, IsPayload(x.payload)
  PROVE  /\ Messages(x) \in Seq(DOMAIN x.payload.edges)
         /\ Range(Messages(x)) \subseteq DOMAIN x.payload.edges
         /\ 0 \notin DOMAIN x.payload.edges
<1>1. PICK n \in Nat : DOMAIN x.payload.edges = 1..n
  BY DEF IsPayload
<1>2. PICK S : S = {i \in DOMAIN x.payload.edges :
                     x.payload.edges[i].kind = "message" /\ Observes(x, x.payload.edges[i].at)}
  OBVIOUS
<1>3. S \in SUBSET (1..n)
  BY <1>1, <1>2
<1>4. Messages(x) \in Seq(S)
  BY <1>2, <1>3, TurnsAreThese DEF Messages
<1>5. Messages(x) \in Seq(DOMAIN x.payload.edges)
  BY <1>1, <1>3, <1>4, SeqMonotonic
<1>6. Range(Messages(x)) \subseteq S
  BY <1>4, ElementOfSeq, LenProperties DEF Range
<1>7. S \subseteq DOMAIN x.payload.edges /\ 0 \notin DOMAIN x.payload.edges
  BY <1>1, <1>2
<1> QED BY <1>5, <1>6, <1>7

-----------------------------------------------------------------------------
(* What rows and messages depend on.                                       *)

LEMMA MessagesFollow ==
  ASSUME NEW x, NEW y, y.payload = x.payload, y.now = x.now
  PROVE  Messages(y) = Messages(x)
BY DEF Messages, Observes, ObservationStart

(* The moment and the zoom hide lanes only while idle ones are hidden.      *)
SameView(x, y) ==
  /\ y.payload = x.payload /\ y.now = x.now /\ y.showSys = x.showSys /\ y.hideIdle = x.hideIdle
  /\ x.hideIdle => /\ y.left = x.left /\ y.zoom = x.zoom /\ y.custom = x.custom
                   /\ y.canvas = x.canvas

LEMMA ScreenRowsFollow ==
  ASSUME NEW x, NEW y, SameView(x, y), IsPayload(x.payload)
  PROVE  RowsOn(y) = RowsOn(x) /\ VisibleLanes(y) = VisibleLanes(x)
<1>1. ASSUME NEW lane, x.hideIdle
      PROVE  LaneDim(y, lane) = LaneDim(x, lane)
  <2>1. MinutesPerColumn(y) = MinutesPerColumn(x) /\ Span(y) = Span(x) /\ y.left = x.left
    BY <1>1 DEF SameView, MinutesPerColumn, Fitted, Span
  <2>2. Right(y) = Right(x) /\ ShownSpans(y, lane) = ShownSpans(x, lane)
    BY <2>1 DEF Right, ShownSpans
  <2> QED BY <2>1, <2>2 DEF LaneDim
<1>2. ASSUME NEW group
      PROVE  LanesIn(y, group) = LanesIn(x, group)
  <2>1. ObservationStart(y) = ObservationStart(x)
    BY DEF SameView, ObservationStart
  <2>2. ASSUME NEW i
        PROVE  (y.hideIdle => ~LaneDim(y, y.payload.lanes[i])) <=> (x.hideIdle => ~LaneDim(x, x.payload.lanes[i]))
    BY <1>1 DEF SameView
  <2> QED BY <2>1, <2>2 DEF LanesIn, SameView
<1>3. \A g : GroupRows(y, g) = GroupRows(x, g)
  BY <1>2 DEF GroupRows, SameView
<1>4. RowsOn(y) = RowsOn(x)
  BY <1>3 DEF RowsOn, SameView
<1> QED BY <1>4 DEF VisibleLanes

-----------------------------------------------------------------------------
(* The screen's state.                                                     *)

IsApp(x) ==
  /\ x = [payload |-> x.payload, now |-> x.now, zoom |-> x.zoom, custom |-> x.custom,
          left |-> x.left, follow |-> x.follow, cursor |-> x.cursor, message |-> x.message,
          rowScroll |-> x.rowScroll, showSys |-> x.showSys, hideIdle |-> x.hideIdle,
          search |-> x.search, searching |-> x.searching, canvas |-> x.canvas,
          quit |-> x.quit, goto |-> x.goto, drag |-> x.drag]
  /\ x.now \in Int /\ x.zoom \in DOMAIN ZoomLevels /\ x.left \in Int /\ x.rowScroll \in Nat
  /\ x.custom \in BOOLEAN /\ x.follow \in BOOLEAN
  /\ x.canvas \in [width : 1..Window, height : Nat]
  /\ x.drag = <<>> \/ (x.drag[1] \in Int /\ x.drag[2] \in Int)

LEMMA ColumnsFit ==
  ASSUME NEW w \in Nat \ {0}, NEW n \in Nat, w <= n
  PROVE  /\ n \div w \in Nat \ {0}
         /\ w * (n \div w) <= n
         /\ \A k \in 1..n \div w : w * k \in Nat /\ w * k <= n
  OBVIOUS

LEMMA SpanFits ==
  ASSUME NEW x, IsApp(x)
  PROVE  /\ MinutesPerColumn(x) \in Nat \ {0}
         /\ Span(x) \in Nat /\ Span(x) <= Window /\ Window \in Nat
<1>1. PICK w \in 1..Window : w = x.canvas.width
  BY DEF IsApp
<1>2. PICK z \in Nat \ {0} : z = ZoomLevels[x.zoom]
  BY ScreenAssumption, ElementOfSeq, LenProperties DEF IsApp
<1>3. Window \in Nat /\ w \in Nat \ {0} /\ w <= Window
  BY <1>1, ScreenAssumption
<1>4. PICK f \in Nat \ {0} : f = Window \div w
  BY <1>3, ColumnsFit
<1>5. PICK k \in 1..f : k = MinutesPerColumn(x)
  BY <1>1, <1>2, <1>4 DEF MinutesPerColumn, Fitted, Smaller
<1>6. w * k \in Nat /\ w * k <= Window
  BY <1>3, <1>4, <1>5, ColumnsFit
<1> QED BY <1>1, <1>3, <1>4, <1>5, <1>6 DEF Span

-----------------------------------------------------------------------------
(* The window of time.                                                     *)

AtNow(x) == x.follow => Right(x) = x.now
Framed(x, y) ==
  /\ IsApp(y) /\ y.payload = x.payload /\ y.now = x.now /\ y.cursor = x.cursor
  /\ y.message = x.message /\ y.rowScroll = x.rowScroll /\ y.showSys = x.showSys
  /\ y.hideIdle = x.hideIdle /\ y.search = x.search /\ y.searching = x.searching
  /\ y.canvas = x.canvas /\ y.quit = x.quit /\ y.goto = x.goto /\ y.drag = x.drag
(* Another window of the same screen, at now if it follows.                 *)
Moves(x, y) == Framed(x, y) /\ y.left >= ObservationStart(y) /\ AtNow(y)

LEMMA Reframed ==
  ASSUME NEW x, IsApp(x), NEW y, NEW left \in Int, NEW follow \in BOOLEAN,
         y = [x EXCEPT !.left = left, !.follow = follow]
  PROVE  Framed(x, y) /\ y.left = left /\ y.follow = follow /\ Span(y) = Span(x)
<1>1. Framed(x, y) /\ y.left = left /\ y.follow = follow /\ y.zoom = x.zoom /\ y.custom = x.custom
  BY DEF IsApp, Framed
<1> QED BY <1>1 DEF Framed, Span, MinutesPerColumn, Fitted

LEMMA Rezoomed ==
  ASSUME NEW x, IsApp(x), NEW y, NEW zoom \in DOMAIN ZoomLevels, NEW custom \in BOOLEAN,
         NEW left \in Int, y = [x EXCEPT !.custom = custom, !.zoom = zoom, !.left = left]
  PROVE  Framed(x, y)
BY DEF IsApp, Framed

LEMMA JumpMoves ==
  ASSUME NEW x, IsApp(x)
  PROVE  Moves(x, JumpToNow(x)) /\ JumpToNow(x).follow
<1>1. PICK left \in Int : left = x.now - Span(x)
  BY SpanFits DEF IsApp
<1>2. PICK y : y = [x EXCEPT !.left = left, !.follow = TRUE]
  OBVIOUS
<1>3. y = JumpToNow(x)
  BY <1>1, <1>2 DEF JumpToNow
<1>4. Framed(x, y) /\ y.left = left /\ y.follow /\ Span(y) = Span(x)
  BY <1>2, Reframed
<1>5. y.now = x.now /\ x.now \in Int
  BY <1>4 DEF Framed, IsApp
<1>6. Right(y) = y.now /\ y.left >= ObservationStart(y)
  BY <1>1, <1>4, <1>5, SpanFits DEF Right, ObservationStart
<1> QED BY <1>3, <1>4, <1>6 DEF Moves, AtNow

LEMMA PanMoves ==
  ASSUME NEW x, IsApp(x), NEW minutes \in Int
  PROVE  Moves(x, Pan(x, minutes))
<1>1. PICK now \in Int, start \in Int, span \in Nat : now = x.now /\ start = x.left /\ span = Span(x)
  BY SpanFits DEF IsApp
<1>2. span <= Window /\ Window \in Nat
  BY <1>1, SpanFits
<1>3. PICK latest \in Int : latest = now - span
  BY <1>1
<1>4. PICK left \in Int : left = Greater(start + minutes, Smaller(now - Window, latest))
  BY <1>1, <1>2 DEF Greater, Smaller
<1>5. left >= now - Window /\ latest >= now - Window
  BY <1>1, <1>2, <1>3, <1>4 DEF Greater, Smaller
<1>6. PICK y : y = Pan(x, minutes)
  OBVIOUS
<1>7. y = IF left >= latest THEN [x EXCEPT !.left = latest, !.follow = TRUE]
          ELSE [x EXCEPT !.left = left, !.follow = FALSE]
  BY <1>1, <1>3, <1>4, <1>6 DEF Pan, ObservationStart
<1>8. CASE left >= latest
  <2>1. Framed(x, y) /\ y.left = latest /\ y.follow /\ Span(y) = span
    <3>1. y = [x EXCEPT !.left = latest, !.follow = TRUE]
      BY <1>7, <1>8
    <3>2. Framed(x, y) /\ y.left = latest /\ y.follow = TRUE /\ Span(y) = Span(x)
      BY <3>1, Reframed
    <3> QED BY <1>1, <3>2
  <2>2. Right(y) = y.now /\ y.left >= ObservationStart(y)
    BY <1>1, <1>3, <1>5, <2>1 DEF Right, ObservationStart, Framed
  <2> QED BY <1>6, <2>1, <2>2 DEF Moves, AtNow
<1>9. CASE ~(left >= latest)
  <2>1. Framed(x, y) /\ y.left = left /\ ~y.follow
    BY <1>7, <1>9, Reframed
  <2>2. y.left >= ObservationStart(y)
    BY <1>1, <1>5, <2>1 DEF ObservationStart, Framed
  <2> QED BY <1>6, <2>1, <2>2 DEF Moves, AtNow
<1> QED BY <1>8, <1>9

LEMMA FramedThen ==
  ASSUME NEW x, NEW y, NEW z, Framed(x, y), Moves(y, z)
  PROVE  Moves(x, z)
BY DEF Framed, Moves

LEMMA FitMoves ==
  ASSUME NEW x, IsApp(x)
  PROVE  Moves(x, FitInitial(x)) /\ FitInitial(x).follow
<1>1. PICK n \in Nat \ {0} : DOMAIN ZoomLevels = 1..n /\ Len(ZoomLevels) = n
  BY ScreenAssumption, LenProperties, EmptySeq
<1>2. PICK fits : fits = {z \in DOMAIN ZoomLevels : ZoomLevels[z] * x.canvas.width >= Window}
  OBVIOUS
<1>3. PICK zoom : zoom = IF fits = {} THEN Len(ZoomLevels) ELSE FirstIn(fits)
  OBVIOUS
<1>4. zoom \in DOMAIN ZoomLevels
  <2>1. fits \in SUBSET Nat /\ fits \subseteq DOMAIN ZoomLevels
    BY <1>1, <1>2
  <2>2. CASE fits = {}
    BY <1>1, <1>3, <2>2
  <2>3. CASE fits # {}
    <3>1. FirstIn(fits) \in fits
      BY <2>1, <2>3, FirstInIsOne
    <3> QED BY <1>3, <2>1, <2>3, <3>1
  <2> QED BY <2>2, <2>3
<1>5. PICK y : y = [x EXCEPT !.custom = FALSE, !.zoom = zoom]
  OBVIOUS
<1>6. Framed(x, y)
  BY <1>4, <1>5 DEF IsApp, Framed
<1>7. FitInitial(x) = JumpToNow(y)
  BY <1>2, <1>3, <1>5 DEF FitInitial
<1> QED BY <1>6, <1>7, JumpMoves, FramedThen DEF Framed

LEMMA ZoomMoves ==
  ASSUME NEW x, IsApp(x), NEW zoom \in DOMAIN ZoomLevels, NEW minute \in Int, NEW column \in Int
  PROVE  Moves(x, ZoomTo(x, zoom, minute, column))
<1>1. PICK y : y = [x EXCEPT !.zoom = zoom]
  OBVIOUS
<1>2. Framed(x, y)
  BY <1>1 DEF IsApp, Framed
<1>3. PICK z : z = [y EXCEPT !.custom = TRUE]
  OBVIOUS
<1>4. Framed(x, z)
  BY <1>1, <1>3 DEF IsApp, Framed
<1>5. PICK left \in Int : left = minute - column * MinutesPerColumn(z)
  BY <1>4, SpanFits DEF Framed
<1>6. PICK w : w = [z EXCEPT !.left = left]
  OBVIOUS
<1>7. Framed(x, w)
  BY <1>4, <1>6 DEF IsApp, Framed
<1>8. Moves(x, Pan(w, 0))
  BY <1>7, PanMoves, FramedThen DEF Framed
<1>9. Moves(x, FitInitial(y))
  BY <1>2, FitMoves, FramedThen DEF Framed
<1>10. ZoomTo(x, zoom, minute, column) =
         IF ZoomLevels[zoom] * x.canvas.width >= Window THEN FitInitial(y) ELSE Pan(w, 0)
  BY <1>1, <1>3, <1>5, <1>6 DEF ZoomTo
<1> QED BY <1>8, <1>9, <1>10

LEMMA ColumnsTyped ==
  ASSUME NEW x, IsApp(x), NEW m \in Int
  PROVE  ColumnOf(x, m) \in Int /\ MinuteAt(x, m) \in Int
<1>1. PICK per \in Nat \ {0}, width \in Nat, left \in Int :
         per = MinutesPerColumn(x) /\ width = x.canvas.width /\ left = x.left
  BY SpanFits DEF IsApp
<1>2. PICK c \in Int : c = (m - left) \div per
  <2>1. m - left \in Int
    BY <1>1
  <2> QED BY <1>1, <2>1
<1>3. Smaller(c, width - 1) \in Int
  BY <1>1, <1>2 DEF Smaller
<1>4. ColumnOf(x, m) = IF m <= Right(x) THEN Smaller(c, width - 1) ELSE c
  BY <1>1, <1>2 DEF ColumnOf
<1>5. MinuteAt(x, m) \in Int
  BY <1>1 DEF MinuteAt
<1> QED BY <1>2, <1>3, <1>4, <1>5

LEMMA ClampedZoom ==
  ASSUME NEW x, IsApp(x), NEW delta \in Int
  PROVE  ZoomClamped(x, delta) \in DOMAIN ZoomLevels
<1>1. PICK n \in Nat \ {0} : DOMAIN ZoomLevels = 1..n /\ Len(ZoomLevels) = n
  BY ScreenAssumption, LenProperties, EmptySeq
<1>2. PICK zoom \in 1..n : zoom = x.zoom
  BY <1>1 DEF IsApp
<1> QED BY <1>1, <1>2 DEF ZoomClamped, Clamp, Greater, Smaller

LEMMA ZoomByMoves ==
  ASSUME NEW x, IsApp(x), IsPayload(x.payload), NEW delta \in Int,
         x.message \in {0} \cup DOMAIN x.payload.edges
  PROVE  ZoomBy(x, delta) = x \/ Moves(x, ZoomBy(x, delta))
<1>1. PICK zoom \in DOMAIN ZoomLevels : zoom = ZoomClamped(x, delta)
  BY ClampedZoom
<1>2. PICK middle \in Int : middle = x.canvas.width \div 2
  BY DEF IsApp
<1>3. PICK at \in Int : at = IF x.message = 0 THEN 0 ELSE x.payload.edges[x.message].at
  BY DEF IsPayload
<1>4. PICK column \in Int, minute \in Int : column = ColumnOf(x, at) /\ minute = MinuteAt(x, middle)
  BY <1>2, <1>3, ColumnsTyped
<1>5. \/ ZoomBy(x, delta) = x
      \/ ZoomBy(x, delta) = ZoomTo(x, zoom, at, column)
      \/ ZoomBy(x, delta) = ZoomTo(x, zoom, minute, middle)
  BY <1>1, <1>2, <1>3, <1>4 DEF ZoomBy
<1> QED BY <1>1, <1>2, <1>3, <1>4, <1>5, ZoomMoves

LEMMA EnsureMoves ==
  ASSUME NEW x, IsApp(x), NEW minute \in Int
  PROVE  EnsureMinuteVisible(x, minute) = x \/ Moves(x, EnsureMinuteVisible(x, minute))
<1>1. PICK middle \in Int : middle = x.canvas.width \div 2
  BY DEF IsApp
<1>2. PICK there \in Int : there = minute - MinuteAt(x, middle)
  BY <1>1, ColumnsTyped
<1>3. EnsureMinuteVisible(x, minute) = x \/ EnsureMinuteVisible(x, minute) = Pan(x, there)
  BY <1>1, <1>2 DEF EnsureMinuteVisible
<1> QED BY <1>3, PanMoves

-----------------------------------------------------------------------------
(* Lists that are walked around.                                           *)

LEMMA AroundIsIn ==
  ASSUME NEW S, NEW list \in Seq(S), list # <<>>, NEW from, NEW delta \in Int,
         NEW start \in DOMAIN list
  PROVE  Around(list, from, delta, start) \in Range(list)
<1>1. PICK n \in Nat : n = Len(list) /\ DOMAIN list = 1..n
  BY LenProperties
<1>2. n # 0
  BY <1>1, EmptySeq
<1>3. PICK at : at = {i \in DOMAIN list : list[i] = from}
  OBVIOUS
<1>4. Around(list, from, delta, start) =
        IF at = {} THEN list[start] ELSE list[((FirstIn(at) - 1 + delta) % n) + 1]
  BY <1>1, <1>3 DEF Around
<1>5. CASE at = {}
  BY <1>4, <1>5 DEF Range
<1>6. CASE at # {}
  <2>1. PICK first \in 1..n : first = FirstIn(at)
    <3>1. at \in SUBSET Nat /\ at \subseteq 1..n
      BY <1>1, <1>3
    <3> QED BY <1>6, <3>1, FirstInIsOne
  <2>2. PICK k \in Int : k = first - 1 + delta
    OBVIOUS
  <2>3. (k % n) + 1 \in 1..n
    BY <1>2
  <2>4. Around(list, from, delta, start) = list[(k % n) + 1]
    BY <1>4, <1>6, <2>1, <2>2
  <2> QED BY <1>1, <2>3, <2>4 DEF Range
<1> QED BY <1>5, <1>6

(* The cursor's row comes into the view.                                   *)
LEMMA CursorRowShows ==
  ASSUME NEW x, IsApp(x), IsPayload(x.payload)
  PROVE  \E scroll \in Nat :
           /\ EnsureCursorRowVisible(x) = [x EXCEPT !.rowScroll = scroll]
           /\ (x.cursor \in Range(VisibleLanes(x)) /\ x.canvas.height > 1) =>
                \E i \in DOMAIN RowsOn(x) :
                  /\ RowsOn(x)[i] = <<"lane", x.cursor>>
                  /\ i > scroll /\ i <= scroll + x.canvas.height
<1>1. PICK rows \in Seq(ScreenRows(x.payload)) : rows = RowsOn(x)
  BY RowsTyped
<1>2. PICK n \in Nat : DOMAIN rows = 1..n
  BY <1>1, LenProperties
<1>3. PICK at : at = {i \in DOMAIN rows : rows[i] = <<"lane", x.cursor>>}
  OBVIOUS
<1>4. PICK height \in Nat, old \in Nat : height = x.canvas.height /\ old = x.rowScroll
  BY DEF IsApp
<1>5. EnsureCursorRowVisible(x) =
        IF x.cursor = 0 \/ at = {} THEN x
        ELSE CASE FirstIn(at) - 1 < old -> [x EXCEPT !.rowScroll = Greater(FirstIn(at) - 1 - 1, 0)]
               [] FirstIn(at) - 1 >= old + height ->
                    [x EXCEPT !.rowScroll = FirstIn(at) - 1 + 1 - height]
               [] OTHER -> x
  BY <1>1, <1>3, <1>4 DEF EnsureCursorRowVisible
<1>6. x = [x EXCEPT !.rowScroll = old]
  BY <1>4 DEF IsApp
<1>7. x.cursor \in Range(VisibleLanes(x)) => x.cursor # 0 /\ at # {}
  <2>1. SUFFICES ASSUME x.cursor \in Range(VisibleLanes(x)) PROVE x.cursor # 0 /\ at # {}
    OBVIOUS
  <2>2. \E i \in DOMAIN rows : rows[i] = <<"lane", x.cursor>>
    BY <1>1, <2>1, LanesAreShown
  <2> QED BY <1>3, <2>1, <2>2, FirstIsShown
<1>8. CASE x.cursor = 0 \/ at = {}
  BY <1>4, <1>5, <1>6, <1>7, <1>8
<1>9. CASE ~(x.cursor = 0 \/ at = {})
  <2>1. PICK first \in 1..n : first = FirstIn(at) /\ rows[first] = <<"lane", x.cursor>>
    <3>1. at \in SUBSET Nat /\ at \subseteq 1..n
      BY <1>2, <1>3
    <3> QED BY <1>3, <1>9, <3>1, FirstInIsOne
  <2>2. PICK scroll \in Nat :
          /\ EnsureCursorRowVisible(x) = [x EXCEPT !.rowScroll = scroll]
          /\ height > 1 => first > scroll /\ first <= scroll + height
    <3>1. CASE first - 1 < old
      <4>1. PICK scroll \in Nat : scroll = Greater(first - 1 - 1, 0)
        BY DEF Greater
      <4>2. EnsureCursorRowVisible(x) = [x EXCEPT !.rowScroll = scroll]
        BY <1>5, <1>9, <2>1, <3>1, <4>1
      <4>3. height > 1 => first > scroll /\ first <= scroll + height
        BY <4>1 DEF Greater
      <4> QED BY <4>2, <4>3
    <3>2. CASE first - 1 >= old + height
      <4>1. PICK scroll \in Nat : scroll = first - 1 + 1 - height
        BY <3>2
      <4>2. ~(first - 1 < old)
        BY <3>2
      <4>3. EnsureCursorRowVisible(x) = [x EXCEPT !.rowScroll = scroll]
        BY <1>5, <1>9, <2>1, <3>2, <4>1, <4>2
      <4>4. height > 1 => first > scroll /\ first <= scroll + height
        BY <4>1
      <4> QED BY <4>3, <4>4
    <3>3. CASE ~(first - 1 < old) /\ ~(first - 1 >= old + height)
      <4>1. EnsureCursorRowVisible(x) = [x EXCEPT !.rowScroll = old]
        BY <1>5, <1>6, <1>9, <2>1, <3>3
      <4>2. height > 1 => first > old /\ first <= old + height
        BY <3>3
      <4> QED BY <4>1, <4>2
    <3> QED BY <3>1, <3>2, <3>3
  <2> QED BY <1>1, <1>2, <1>4, <2>1, <2>2
<1> QED BY <1>8, <1>9

-----------------------------------------------------------------------------
(* What operations leave: all that is selected is of the payload, and the   *)
(* window in the observed time.                                             *)

Inside(x) ==
  /\ {x.cursor, x.goto} \subseteq {0} \cup DOMAIN x.payload.lanes
  /\ x.message \in {0} \cup Range(Messages(x))
  /\ x.left >= ObservationStart(x)
Sound(x) == IsApp(x) /\ IsPayload(x.payload) /\ Inside(x)
Seen(x) == ~x.hideIdle => x.cursor \in {0} \cup Range(VisibleLanes(x))
Goes(x, y) ==
  Sound(y) /\ y.payload = x.payload /\ (AtNow(x) => AtNow(y)) /\ (Seen(x) => Seen(y))

LEMMA MovesGo ==
  ASSUME NEW x, NEW y, Sound(x), Moves(x, y)
  PROVE  Goes(x, y) /\ AtNow(y)
<1>1. Framed(x, y) /\ y.payload = x.payload
  BY DEF Moves, Framed
<1>2. Messages(y) = Messages(x)
  BY <1>1, MessagesFollow DEF Framed
<1>3. Sound(y)
  BY <1>1, <1>2 DEF Sound, Inside, Moves, Framed
<1>4. ASSUME Seen(x), ~y.hideIdle
      PROVE  y.cursor \in {0} \cup Range(VisibleLanes(y))
  <2>1. SameView(x, y) /\ ~x.hideIdle
    BY <1>1, <1>4 DEF SameView, Framed
  <2>2. VisibleLanes(y) = VisibleLanes(x)
    BY <2>1, ScreenRowsFollow DEF Sound
  <2> QED BY <1>1, <1>4, <2>1, <2>2 DEF Seen, Framed
<1> QED BY <1>1, <1>3, <1>4 DEF Goes, Moves, Seen

(* The same window of the same lanes.                                       *)
Touches(x, y) ==
  /\ IsApp(y) /\ y.payload = x.payload /\ y.now = x.now /\ y.zoom = x.zoom /\ y.custom = x.custom
  /\ y.left = x.left /\ y.follow = x.follow /\ y.canvas = x.canvas

LEMMA TouchesGo ==
  ASSUME NEW x, NEW y, Sound(x), Touches(x, y),
         {y.cursor, y.goto} \subseteq {0} \cup DOMAIN x.payload.lanes,
         y.message \in {0} \cup Range(Messages(x))
  PROVE  Sound(y) /\ (AtNow(x) => AtNow(y)) /\ Messages(y) = Messages(x)
<1>1. Messages(y) = Messages(x)
  BY MessagesFollow DEF Touches
<1>2. Right(y) = Right(x) /\ ObservationStart(y) = ObservationStart(x)
  BY DEF Touches, Right, Span, MinutesPerColumn, Fitted, ObservationStart
<1> QED BY <1>1, <1>2 DEF Touches, Sound, Inside, AtNow

LEMMA TouchesShow ==
  ASSUME NEW x, NEW y, Sound(x), Touches(x, y), y.showSys = x.showSys, y.hideIdle = x.hideIdle
  PROVE  RowsOn(y) = RowsOn(x) /\ VisibleLanes(y) = VisibleLanes(x)
<1>1. SameView(x, y)
  BY DEF SameView, Touches
<1> QED BY <1>1, ScreenRowsFollow DEF Sound

(* What is of the payload is of no other kind.                              *)
LEMMA NumbersOfPayload ==
  ASSUME NEW x, Sound(x)
  PROVE  /\ x.message \in {0} \cup DOMAIN x.payload.edges
         /\ Range(Messages(x)) \subseteq DOMAIN x.payload.edges
         /\ Range(VisibleLanes(x)) \subseteq DOMAIN x.payload.lanes
BY MessagesTyped, FirstIsShown DEF Sound, Inside

(* Something else shown is chosen.                                          *)
LEMMA ChoiceGoes ==
  ASSUME NEW x, Sound(x), NEW y, Touches(x, y),
         y.cursor \in {0, x.cursor} \cup Range(VisibleLanes(x)), y.goto \in {0, x.goto, x.cursor},
         y.message \in {0, x.message} \cup Range(Messages(x)),
         y.showSys = x.showSys, y.hideIdle = x.hideIdle
  PROVE  Goes(x, y)
<1>1. {y.cursor, y.goto} \subseteq {0} \cup DOMAIN x.payload.lanes
  BY NumbersOfPayload DEF Sound, Inside
<1>2. y.message \in {0} \cup Range(Messages(x))
  BY DEF Sound, Inside
<1>3. Sound(y) /\ (AtNow(x) => AtNow(y))
  BY <1>1, <1>2, TouchesGo
<1>4. VisibleLanes(y) = VisibleLanes(x)
  BY TouchesShow
<1>5. Seen(x) => Seen(y)
  BY <1>4 DEF Seen
<1>6. y.payload = x.payload
  BY DEF Touches
<1> QED BY <1>3, <1>5, <1>6 DEF Goes

LEMMA CursorGoes ==
  ASSUME NEW x, Sound(x), NEW cursor \in {0} \cup Range(VisibleLanes(x)), NEW scroll \in Nat, NEW y,
         y = [x EXCEPT !.cursor = cursor, !.rowScroll = scroll]
  PROVE  Goes(x, y)
<1>1. /\ Touches(x, y) /\ y.cursor = cursor /\ y.goto = x.goto /\ y.message = x.message
      /\ y.showSys = x.showSys /\ y.hideIdle = x.hideIdle
  BY DEF Sound, IsApp, Touches
<1> QED BY <1>1, ChoiceGoes

LEMMA CursorStepGoes ==
  ASSUME NEW x, Sound(x), NEW delta \in Int
  PROVE  Goes(x, MoveCursor(x, delta))
<1>1. PICK lanes \in Seq(DOMAIN x.payload.lanes) : lanes = VisibleLanes(x)
  BY LanesAreShown DEF Sound
<1>2. CASE lanes = <<>>
  <2>1. PICK scroll \in Nat : scroll = x.rowScroll
    BY DEF Sound, IsApp
  <2>2. MoveCursor(x, delta) = [x EXCEPT !.cursor = 0, !.rowScroll = scroll]
    BY <1>1, <1>2, <2>1 DEF MoveCursor, Sound, IsApp
  <2> QED BY <2>2, CursorGoes
<1>3. CASE lanes # <<>>
  <2>1. 1 \in DOMAIN lanes
    BY <1>1, <1>3, LenProperties, EmptySeq
  <2>2. PICK cursor \in Range(lanes) : cursor = Around(lanes, x.cursor, delta, 1)
    BY <1>1, <1>3, <2>1, AroundIsIn
  <2>3. PICK z : z = [x EXCEPT !.cursor = cursor]
    OBVIOUS
  <2>4. IsApp(z) /\ IsPayload(z.payload)
    BY <2>3 DEF Sound, IsApp
  <2>5. PICK scroll \in Nat : EnsureCursorRowVisible(z) = [z EXCEPT !.rowScroll = scroll]
    BY <2>4, CursorRowShows
  <2>6. MoveCursor(x, delta) = [z EXCEPT !.rowScroll = scroll]
    BY <1>1, <1>3, <2>2, <2>3, <2>5 DEF MoveCursor
  <2>7. MoveCursor(x, delta) = [x EXCEPT !.cursor = cursor, !.rowScroll = scroll]
    BY <2>3, <2>6
  <2> QED BY <1>1, <2>7, CursorGoes
<1> QED BY <1>2, <1>3

LEMMA MessageGoes ==
  ASSUME NEW x, Sound(x), NEW message \in {0} \cup Range(Messages(x)), NEW y,
         y = [x EXCEPT !.message = message]
  PROVE  Goes(x, y)
<1>1. /\ Touches(x, y) /\ y.cursor = x.cursor /\ y.goto = x.goto /\ y.message = message
      /\ y.showSys = x.showSys /\ y.hideIdle = x.hideIdle
  BY DEF Sound, IsApp, Touches
<1> QED BY <1>1, ChoiceGoes

LEMMA GoesOn ==
  ASSUME NEW x, NEW y, NEW z, Goes(x, y), Goes(y, z)
  PROVE  Goes(x, z)
BY DEF Goes

LEMMA GoesNowhere ==
  ASSUME NEW x, Sound(x)
  PROVE  Goes(x, x)
BY DEF Goes

LEMMA MessagesGo ==
  ASSUME NEW x, Sound(x), NEW delta \in Int
  PROVE  Goes(x, SelectMessage(x, delta))
<1>1. PICK messages \in Seq(DOMAIN x.payload.edges) : messages = Messages(x)
  BY MessagesTyped DEF Sound
<1>2. PICK n \in Nat : n = Len(messages) /\ DOMAIN messages = 1..n
  BY <1>1, LenProperties
<1>3. CASE messages = <<>>
  <2>1. SelectMessage(x, delta) = [x EXCEPT !.message = 0]
    BY <1>1, <1>3 DEF SelectMessage
  <2> QED BY <2>1, MessageGoes
<1>4. CASE messages # <<>>
  <2>1. PICK earlier : earlier = {i \in DOMAIN messages : x.payload.edges[messages[i]].at <= Right(x)}
    OBVIOUS
  <2>2. PICK start \in 1..n : start = IF earlier = {} THEN Len(messages) ELSE LastIn(earlier)
    <3>1. n \in 1..n
      BY <1>2, <1>4, EmptySeq
    <3>2. CASE earlier = {}
      BY <1>2, <3>1, <3>2
    <3>3. CASE earlier # {}
      <4>1. earlier \in SUBSET (1..n)
        BY <1>2, <2>1
      <4>2. LastIn(earlier) \in earlier
        BY <3>3, <4>1, LastInIsOne
      <4> QED BY <3>3, <4>1, <4>2
    <3> QED BY <3>2, <3>3
  <2>3. PICK picked \in Range(messages) : picked = Around(messages, x.message, delta, start)
    BY <1>2, <1>4, <2>2, AroundIsIn
  <2>4. picked \in DOMAIN x.payload.edges
    BY <1>1, <2>3, NumbersOfPayload
  <2>5. PICK at \in Int : at = x.payload.edges[picked].at
    BY <2>4 DEF Sound, IsPayload
  <2>6. PICK y : y = [x EXCEPT !.message = picked]
    OBVIOUS
  <2>7. Goes(x, y)
    BY <1>1, <2>3, <2>6, MessageGoes
  <2>8. SelectMessage(x, delta) = EnsureMinuteVisible(y, at)
    BY <1>1, <1>2, <1>4, <2>1, <2>2, <2>3, <2>5, <2>6 DEF SelectMessage
  <2>9. Goes(y, EnsureMinuteVisible(y, at))
    BY <2>5, <2>7, EnsureMoves, MovesGo, GoesNowhere DEF Goes, Sound
  <2> QED BY <2>7, <2>8, <2>9, GoesOn
<1> QED BY <1>3, <1>4

-----------------------------------------------------------------------------
(* Keys and the mouse.                                                     *)

(* What a key leaves before a hidden cursor is repaired.                    *)
Continues(x, y) == Sound(y) /\ y.payload = x.payload /\ (AtNow(x) => AtNow(y))

LEMMA KeyContinues ==
  ASSUME NEW x, Sound(x), NEW key \in AllKeys
  PROVE  Continues(x, Key(x, key))
<1>1. PICK quarter \in Int : quarter = Span(x) \div 4
  BY SpanFits DEF Sound
<1>2. IsApp(x) /\ x.left \in Int
  BY DEF Sound, IsApp
<1>3. \A minutes \in Int : Goes(x, Pan(x, minutes))
  BY <1>2, PanMoves, MovesGo
<1>4. \A delta \in Int : Goes(x, ZoomBy(x, delta))
  <2>1. ASSUME NEW delta \in Int PROVE Goes(x, ZoomBy(x, delta))
    <3>1. ZoomBy(x, delta) = x \/ Moves(x, ZoomBy(x, delta))
      BY <1>2, ZoomByMoves, NumbersOfPayload DEF Sound
    <3> QED BY <3>1, MovesGo, GoesNowhere
  <2> QED BY <2>1
<1>5. CASE key \in {"H", "L", "h", "l", "g"}
  <2>1. PICK minutes \in Int : Key(x, key) = Pan(x, minutes)
    <3>1. -(4 * quarter) \in Int /\ 4 * quarter \in Int /\ -quarter \in Int /\ -x.left \in Int
      BY <1>1, <1>2
    <3> QED BY <1>1, <1>5, <3>1 DEF Key
  <2> QED BY <1>3, <2>1 DEF Goes, Continues
<1>6. CASE key \in {"+", "-"}
  <2>1. Key(x, key) = ZoomBy(x, -1) \/ Key(x, key) = ZoomBy(x, 1)
    BY <1>6 DEF Key
  <2> QED BY <1>4, <2>1 DEF Goes, Continues
<1>7. CASE key \in {"j", "k"}
  <2>1. Key(x, key) = MoveCursor(x, -1) \/ Key(x, key) = MoveCursor(x, 1)
    BY <1>7 DEF Key
  <2> QED BY <2>1, CursorStepGoes DEF Goes, Continues
<1>8. CASE key \in {"tab", "backtab"}
  <2>1. Key(x, key) = SelectMessage(x, -1) \/ Key(x, key) = SelectMessage(x, 1)
    BY <1>8 DEF Key
  <2> QED BY <2>1, MessagesGo DEF Goes, Continues
<1>9. CASE key = "n"
  <2>1. Key(x, key) = JumpToNow(x)
    BY <1>9 DEF Key
  <2> QED BY <1>2, <2>1, JumpMoves, MovesGo DEF Goes, Continues
<1>10. CASE key \in {"q", "enter", "esc", "/"}
  <2>1. PICK y : y = Key(x, key)
    OBVIOUS
  <2>2. \/ y = [x EXCEPT !.quit = TRUE]
        \/ y = [x EXCEPT !.goto = x.cursor]
        \/ y = [x EXCEPT !.message = 0]
        \/ y = [x EXCEPT !.search = ""]
        \/ y = [x EXCEPT !.searching = TRUE]
    BY <1>10, <2>1 DEF Key
  <2>3. /\ Touches(x, y) /\ y.cursor = x.cursor /\ y.goto \in {x.goto, x.cursor}
        /\ y.message \in {0, x.message} /\ y.showSys = x.showSys /\ y.hideIdle = x.hideIdle
    <3>1. CASE y = [x EXCEPT !.quit = TRUE]
      BY <1>2, <3>1 DEF IsApp, Touches
    <3>2. CASE y = [x EXCEPT !.goto = x.cursor]
      BY <1>2, <3>2 DEF IsApp, Touches
    <3>3. CASE y = [x EXCEPT !.message = 0]
      BY <1>2, <3>3 DEF IsApp, Touches
    <3>4. CASE y = [x EXCEPT !.search = ""]
      BY <1>2, <3>4 DEF IsApp, Touches
    <3>5. CASE y = [x EXCEPT !.searching = TRUE]
      BY <1>2, <3>5 DEF IsApp, Touches
    <3> QED BY <2>2, <3>1, <3>2, <3>3, <3>4, <3>5
  <2>4. Goes(x, y)
    BY <2>3, ChoiceGoes
  <2> QED BY <2>1, <2>4 DEF Goes, Continues
<1>11. CASE key \in {"s", "i"}
  <2>1. PICK y : y = Key(x, key)
    OBVIOUS
  <2>2. y = [x EXCEPT !.showSys = ~x.showSys] \/ y = [x EXCEPT !.hideIdle = ~x.hideIdle]
    BY <1>11, <2>1 DEF Key
  <2>3. Touches(x, y) /\ y.cursor = x.cursor /\ y.goto = x.goto /\ y.message = x.message
    BY <1>2, <2>2 DEF IsApp, Touches
  <2>4. {y.cursor, y.goto} \subseteq {0} \cup DOMAIN x.payload.lanes
        /\ y.message \in {0} \cup Range(Messages(x))
    BY <2>3 DEF Sound, Inside
  <2>5. Sound(y) /\ (AtNow(x) => AtNow(y))
    BY <2>3, <2>4, TouchesGo
  <2> QED BY <2>1, <2>3, <2>5 DEF Continues, Touches
<1> QED BY <1>5, <1>6, <1>7, <1>8, <1>9, <1>10, <1>11 DEF AllKeys

LEMMA RepairShows ==
  ASSUME NEW x, Sound(x)
  PROVE  Continues(x, Repaired(x)) /\ Seen(Repaired(x))
<1>1. CASE x.cursor # 0 /\ x.cursor \notin Range(VisibleLanes(x))
  <2>1. PICK first : first = FirstVisible(x) /\ first \in {0} \cup Range(VisibleLanes(x))
    BY FirstIsShown DEF Sound
  <2>2. PICK y : y = [x EXCEPT !.cursor = first, !.message = 0]
    OBVIOUS
  <2>3. y = Repaired(x)
    BY <1>1, <2>1, <2>2 DEF Repaired
  <2>4. /\ Touches(x, y) /\ y.cursor = first /\ y.goto = x.goto
        /\ y.message = 0 /\ y.showSys = x.showSys /\ y.hideIdle = x.hideIdle
    BY <2>2 DEF Sound, IsApp, Touches
  <2>5. Goes(x, y)
    BY <2>1, <2>4, ChoiceGoes
  <2>6. VisibleLanes(y) = VisibleLanes(x)
    BY <2>4, TouchesShow
  <2> QED BY <2>1, <2>3, <2>4, <2>5, <2>6 DEF Continues, Goes, Seen
<1>2. CASE ~(x.cursor # 0 /\ x.cursor \notin Range(VisibleLanes(x)))
  <2>1. Repaired(x) = x
    BY <1>2 DEF Repaired
  <2> QED BY <1>2, <2>1 DEF Continues, Seen
<1> QED BY <1>1, <1>2

LEMMA SearchGoes ==
  ASSUME NEW x, Sound(x), NEW key \in AllKeys
  PROVE  Goes(x, SearchKey(x, key))
<1>1. PICK y : y = SearchKey(x, key)
  OBVIOUS
<1>2. \/ y = [x EXCEPT !.search = "", !.searching = FALSE]
      \/ y = [x EXCEPT !.searching = FALSE]
      \/ y = [x EXCEPT !.search = "x"]
  BY <1>1 DEF SearchKey
<1>3. /\ Touches(x, y) /\ y.cursor = x.cursor /\ y.goto = x.goto
      /\ y.message = x.message /\ y.showSys = x.showSys /\ y.hideIdle = x.hideIdle
  <2>1. CASE y = [x EXCEPT !.search = "", !.searching = FALSE]
    BY <2>1 DEF Sound, IsApp, Touches
  <2>2. CASE y = [x EXCEPT !.searching = FALSE]
    BY <2>2 DEF Sound, IsApp, Touches
  <2>3. CASE y = [x EXCEPT !.search = "x"]
    BY <2>3 DEF Sound, IsApp, Touches
  <2> QED BY <1>2, <2>1, <2>2, <2>3
<1> QED BY <1>1, <1>3, ChoiceGoes

LEMMA ClickGoes ==
  ASSUME NEW x, Sound(x), NEW row \in Range(RowsOn(x)), NEW column \in Int
  PROVE  Goes(x, Clicked(x, row, column)) /\ Clicked(x, row, column).left = x.left
<1>1. PICK y : y = Clicked(x, row, column)
  OBVIOUS
<1>2. CASE row[1] = "group"
  <2>1. PICK text : y = [x EXCEPT !.search = text]
    BY <1>1, <1>2 DEF Clicked
  <2>2. /\ Touches(x, y) /\ y.cursor = x.cursor /\ y.goto = x.goto
        /\ y.message = x.message /\ y.showSys = x.showSys /\ y.hideIdle = x.hideIdle
    BY <2>1 DEF Sound, IsApp, Touches
  <2> QED BY <1>1, <2>2, ChoiceGoes DEF Touches
<1>3. CASE row[1] # "group"
  <2>1. row[2] \in Range(VisibleLanes(x))
    <3>1. PICK rows \in Seq(ScreenRows(x.payload)) : rows = RowsOn(x)
      BY RowsTyped DEF Sound
    <3>2. PICK k \in DOMAIN rows : row = rows[k]
      BY <3>1 DEF Range
    <3>3. row \in ScreenRows(x.payload)
      BY <3>1, <3>2, ElementOfSeq
    <3>4. PICK i \in DOMAIN x.payload.lanes : row = <<"lane", i>>
      BY <1>3, <3>3 DEF ScreenRows
    <3>5. i \in Range(VisibleLanes(x))
      BY <3>1, <3>2, <3>4, LanesAreShown DEF Sound
    <3> QED BY <3>4, <3>5
  <2>2. PICK messages \in Seq(DOMAIN x.payload.edges) : messages = Messages(x)
    BY MessagesTyped DEF Sound
  <2>3. PICK n \in Nat : n = Len(messages) /\ DOMAIN messages = 1..n
    BY <2>2, LenProperties
  <2>4. PICK hit : hit = {i \in DOMAIN messages : ColumnOf(x, x.payload.edges[messages[i]].at) = column}
    OBVIOUS
  <2>5. PICK message : message = IF column = -1 \/ hit = {} THEN 0 ELSE messages[FirstIn(hit)]
    OBVIOUS
  <2>6. message \in {0} \cup Range(messages)
    <3>1. hit \in SUBSET Nat /\ hit \subseteq DOMAIN messages
      BY <2>3, <2>4
    <3>2. hit # {} => FirstIn(hit) \in DOMAIN messages
      BY <3>1, FirstInIsOne
    <3> QED BY <2>5, <3>2 DEF Range
  <2>7. y = [x EXCEPT !.cursor = row[2], !.message = message]
    BY <1>1, <1>3, <2>2, <2>4, <2>5 DEF Clicked
  <2>8. /\ Touches(x, y) /\ y.cursor = row[2] /\ y.goto = x.goto
        /\ y.message = message /\ y.showSys = x.showSys /\ y.hideIdle = x.hideIdle
    BY <2>7 DEF Sound, IsApp, Touches
  <2> QED BY <1>1, <2>1, <2>2, <2>6, <2>8, ChoiceGoes DEF Touches
<1> QED BY <1>2, <1>3

-----------------------------------------------------------------------------
(* A new payload.                                                          *)

(* Where the cursor and the message go are lanes and messages of the new    *)
(* payload, those they were on if these are shown.                          *)
LEMMA PlacesFound ==
  ASSUME NEW z, IsPayload(z.payload), NEW sid
  PROVE  /\ CursorFor(z, sid) \in {0} \cup Range(VisibleLanes(z))
         /\ (CursorFor(z, sid) = 0) = (VisibleLanes(z) = <<>>)
         /\ \A i \in Range(VisibleLanes(z)) :
              z.payload.lanes[i].sid = sid => z.payload.lanes[CursorFor(z, sid)].sid = sid
<1>1. PICK n \in Nat : DOMAIN z.payload.lanes = 1..n
  BY DEF IsPayload
<1>2. PICK lanes : lanes = {i \in DOMAIN z.payload.lanes : z.payload.lanes[i].sid = sid}
  OBVIOUS
<1>3. CursorFor(z, sid) = IF lanes # {} /\ FirstIn(lanes) \in Range(VisibleLanes(z))
                            THEN FirstIn(lanes) ELSE FirstVisible(z)
  BY <1>2 DEF CursorFor
<1>4. lanes # {} => FirstIn(lanes) \in lanes
  <2>1. lanes \in SUBSET Nat
    BY <1>1, <1>2
  <2> QED BY <2>1, FirstInIsOne
<1>5. /\ FirstVisible(z) \in {0} \cup Range(VisibleLanes(z))
      /\ (FirstVisible(z) = 0) = (VisibleLanes(z) = <<>>)
      /\ Range(VisibleLanes(z)) \subseteq DOMAIN z.payload.lanes /\ 0 \notin DOMAIN z.payload.lanes
  BY FirstIsShown
<1>6. ASSUME NEW i \in Range(VisibleLanes(z)), z.payload.lanes[i].sid = sid
      PROVE  CursorFor(z, sid) = i
  <2>1. i \in lanes
    BY <1>2, <1>5, <1>6
  <2>2. FirstIn(lanes) \in DOMAIN z.payload.lanes /\ z.payload.lanes[FirstIn(lanes)].sid = sid
    BY <1>2, <1>4, <2>1
  <2>3. FirstIn(lanes) = i
    BY <1>5, <1>6, <2>2 DEF IsPayload
  <2> QED BY <1>3, <2>1, <2>3
<1>7. CASE lanes # {} /\ FirstIn(lanes) \in Range(VisibleLanes(z))
  <2>1. CursorFor(z, sid) = FirstIn(lanes)
    BY <1>3, <1>7
  <2>2. VisibleLanes(z) # <<>>
    BY <1>7 DEF Range
  <2>3. CursorFor(z, sid) # 0
    BY <1>5, <1>7, <2>1
  <2> QED BY <1>6, <1>7, <2>1, <2>2, <2>3
<1>8. CASE ~(lanes # {} /\ FirstIn(lanes) \in Range(VisibleLanes(z)))
  <2>1. CursorFor(z, sid) = FirstVisible(z)
    BY <1>3, <1>8
  <2> QED BY <1>5, <1>6, <2>1
<1> QED BY <1>7, <1>8

AtTime(z, at) == {k \in DOMAIN Messages(z) : z.payload.edges[Messages(z)[k]].at = at}

MessageAt(z, at) == IF AtTime(z, at) = {} THEN 0 ELSE Messages(z)[FirstIn(AtTime(z, at))]

LEMMA MessageFound ==
  ASSUME NEW z, IsPayload(z.payload), NEW at
  PROVE  /\ MessageAt(z, at) \in {0} \cup Range(Messages(z))
         /\ \A i \in Range(Messages(z)) : z.payload.edges[i].at = at =>
              MessageAt(z, at) # 0 /\ z.payload.edges[MessageAt(z, at)].at = at
<1>0. PICK same, message : /\ same = AtTime(z, at) /\ message = MessageAt(z, at)
                           /\ message = IF same = {} THEN 0 ELSE Messages(z)[FirstIn(same)]
  BY DEF MessageAt
<1>1. PICK messages \in Seq(DOMAIN z.payload.edges) : messages = Messages(z)
  BY MessagesTyped
<1>2. PICK n \in Nat : DOMAIN messages = 1..n
  BY <1>1, LenProperties
<1>3. same = {k \in DOMAIN messages : z.payload.edges[messages[k]].at = at}
  BY <1>0, <1>1 DEF AtTime
<1>4. same # {} => FirstIn(same) \in same
  <2>1. same \in SUBSET Nat
    BY <1>2, <1>3
  <2> QED BY <2>1, FirstInIsOne
<1>5. message \in {0} \cup Range(messages)
  BY <1>0, <1>1, <1>3, <1>4 DEF Range
<1>6. ASSUME NEW i \in Range(messages), z.payload.edges[i].at = at
      PROVE  message # 0 /\ z.payload.edges[message].at = at
  <2>1. same # {}
    BY <1>3, <1>6 DEF Range
  <2>2. message = messages[FirstIn(same)] /\ FirstIn(same) \in DOMAIN messages
    BY <1>0, <1>1, <1>3, <1>4, <2>1
  <2>3. z.payload.edges[message].at = at
    BY <1>3, <1>4, <2>1, <2>2
  <2>4. message # 0
    BY <1>1, <2>2, ElementOfSeq, LenProperties, MessagesTyped
  <2> QED BY <2>3, <2>4
<1> QED BY <1>0, <1>1, <1>5, <1>6

LEMMA RefreshTakes ==
  ASSUME NEW x, IsApp(x), NEW payload, NEW t
  PROVE  Refreshed(x, payload, t).payload = payload
<1>1. PICK y : y = [x EXCEPT !.payload = payload, !.now = t - payload.epoch]
  OBVIOUS
<1>2. "payload" \in DOMAIN y /\ y.payload = payload
  BY <1>1 DEF IsApp
<1>3. PICK z : z = Renewed(x, payload, t)
  OBVIOUS
<1>4. "payload" \in DOMAIN z /\ z.payload = payload
  <2>1. z = JumpToNow(y) \/ z = Pan(y, 0)
    BY <1>1, <1>3 DEF Renewed
  <2> QED BY <1>2, <2>1 DEF JumpToNow, Pan
<1>5. PICK w : w = Placed(x, z)
  OBVIOUS
<1>6. "payload" \in DOMAIN w /\ w.payload = payload
  <2>1. PICK cursor, message : w = [z EXCEPT !.cursor = cursor, !.message = message]
    BY <1>5 DEF Placed
  <2> QED BY <1>4, <2>1
<1>7. PICK scroll : scroll = Smaller(w.rowScroll, Greater(Len(RowsOn(w)) - w.canvas.height, 0))
  OBVIOUS
<1>8. PICK v : v = [w EXCEPT !.rowScroll = scroll]
  OBVIOUS
<1>9. "payload" \in DOMAIN v /\ v.payload = payload
  BY <1>6, <1>8
<1>10. Refreshed(x, payload, t) = EnsureCursorRowVisible(v)
  BY <1>3, <1>5, <1>7, <1>8 DEF Refreshed
<1>11. EnsureCursorRowVisible(v).payload = v.payload
  BY <1>9 DEF EnsureCursorRowVisible
<1> QED BY <1>9, <1>10, <1>11

LEMMA RefreshKeeps ==
  ASSUME NEW x, Sound(x), x.goto = 0, NEW payload, IsPayload(payload), NEW t \in Int
  PROVE  LET y == Refreshed(x, payload, t) IN
         Sound(y) /\ Seen(y) /\ AtNow(y) /\ KeepsPlace(x, y)
<1>1. PICK now \in Int : now = t - payload.epoch
  BY DEF IsPayload
<1>2. PICK y : y = [x EXCEPT !.payload = payload, !.now = now]
  OBVIOUS
<1>3. /\ IsApp(y) /\ y.payload = payload /\ y.follow = x.follow /\ y.cursor = x.cursor
      /\ y.message = x.message /\ y.goto = 0
  BY <1>2 DEF Sound, IsApp
<1>4. PICK z : z = IF y.follow THEN JumpToNow(y) ELSE Pan(y, 0)
  OBVIOUS
<1>5. Moves(y, z) /\ (x.follow => z.follow)
  BY <1>3, <1>4, JumpMoves, PanMoves
<1>6. /\ IsApp(z) /\ z.payload = payload /\ z.goto = 0 /\ AtNow(z)
      /\ z.left >= ObservationStart(z)
  BY <1>3, <1>5 DEF Moves, Framed
<1>7. PICK same : same = AtTime(z, x.payload.edges[x.message].at)
  OBVIOUS
<1>8. PICK cursor : cursor = IF x.cursor = 0 THEN FirstVisible(z)
                             ELSE CursorFor(z, x.payload.lanes[x.cursor].sid)
  OBVIOUS
<1>9. PICK message : message = IF x.message = 0 \/ same = {} THEN 0 ELSE Messages(z)[FirstIn(same)]
  OBVIOUS
<1>10. /\ cursor \in {0} \cup Range(VisibleLanes(z))
       /\ (cursor = 0) = (VisibleLanes(z) = <<>>)
       /\ x.cursor # 0 => \A i \in Range(VisibleLanes(z)) :
            payload.lanes[i].sid = x.payload.lanes[x.cursor].sid
              => payload.lanes[cursor].sid = x.payload.lanes[x.cursor].sid
  BY <1>6, <1>8, PlacesFound, FirstIsShown
<1>11. /\ message \in {0} \cup Range(Messages(z))
       /\ x.message # 0 => \A i \in Range(Messages(z)) :
            payload.edges[i].at = x.payload.edges[x.message].at
              => message # 0 /\ payload.edges[message].at = x.payload.edges[x.message].at
  <2>1. CASE x.message = 0
    BY <1>9, <2>1
  <2>2. CASE x.message # 0
    <3>1. PICK at : at = x.payload.edges[x.message].at
      OBVIOUS
    <3>2. message = MessageAt(z, at)
      BY <1>7, <1>9, <2>2, <3>1 DEF MessageAt
    <3>3. IsPayload(z.payload)
      BY <1>6
    <3>4. /\ message \in {0} \cup Range(Messages(z))
          /\ \A i \in Range(Messages(z)) : z.payload.edges[i].at = at =>
               message # 0 /\ z.payload.edges[message].at = at
      BY <3>2, <3>3, MessageFound
    <3> QED BY <1>6, <3>1, <3>4
  <2> QED BY <2>1, <2>2
<1>12. PICK w : w = [z EXCEPT !.cursor = cursor, !.message = message]
  OBVIOUS
<1>13. PICK scroll \in Nat : scroll = Smaller(w.rowScroll, Greater(Len(RowsOn(w)) - w.canvas.height, 0))
  <2>1. IsApp(w) /\ IsPayload(w.payload)
    BY <1>6, <1>12 DEF IsApp
  <2>2. PICK n \in Nat, height \in Nat, old \in Nat :
          n = Len(RowsOn(w)) /\ height = w.canvas.height /\ old = w.rowScroll
    BY <2>1, RowsTyped, LenProperties DEF IsApp
  <2> QED BY <2>2 DEF Smaller, Greater
<1>14. PICK v : v = [w EXCEPT !.rowScroll = scroll]
  OBVIOUS
<1>15. Refreshed(x, payload, t) = EnsureCursorRowVisible(v)
  <2>1. z = Renewed(x, payload, t)
    BY <1>1, <1>2, <1>4 DEF Renewed
  <2>2. w = Placed(x, z)
    BY <1>7, <1>8, <1>9, <1>12 DEF Placed, AtTime
  <2> QED BY <1>13, <1>14, <2>1, <2>2 DEF Refreshed
<1>16. IsApp(v) /\ IsPayload(v.payload) /\ v.cursor = cursor
  BY <1>6, <1>12, <1>14 DEF IsApp
<1>17. PICK lowest \in Nat :
         /\ EnsureCursorRowVisible(v) = [v EXCEPT !.rowScroll = lowest]
         /\ (v.cursor \in Range(VisibleLanes(v)) /\ v.canvas.height > 1) =>
              \E i \in DOMAIN RowsOn(v) :
                RowsOn(v)[i] = <<"lane", v.cursor>> /\ i > lowest /\ i <= lowest + v.canvas.height
  BY <1>16, CursorRowShows
<1>18. PICK r : r = [v EXCEPT !.rowScroll = lowest]
  OBVIOUS
<1>19. PICK blank : blank = [z EXCEPT !.cursor = 0, !.message = 0]
  OBVIOUS
<1>20. /\ Touches(z, blank) /\ blank.cursor = 0 /\ blank.message = 0 /\ blank.goto = 0
       /\ blank.showSys = z.showSys /\ blank.hideIdle = z.hideIdle
  BY <1>6, <1>19 DEF IsApp, Touches
<1>21. /\ Touches(z, v) /\ v.cursor = cursor /\ v.message = message /\ v.goto = 0
       /\ v.showSys = z.showSys /\ v.hideIdle = z.hideIdle
  BY <1>6, <1>12, <1>14 DEF IsApp, Touches
<1>22. /\ Touches(v, r) /\ r.cursor = v.cursor /\ r.message = v.message /\ r.goto = v.goto
       /\ r.showSys = v.showSys /\ r.hideIdle = v.hideIdle /\ r.rowScroll = lowest
  BY <1>16, <1>18 DEF IsApp, Touches
<1>23. VisibleLanes(blank) = VisibleLanes(z) /\ Messages(blank) = Messages(z)
  BY <1>6, <1>20, ScreenRowsFollow, MessagesFollow DEF Touches, SameView
<1>24. Sound(blank) /\ AtNow(blank) /\ Seen(blank)
  <2>1. ObservationStart(blank) = ObservationStart(z) /\ Right(blank) = Right(z)
    BY <1>20 DEF Touches, Right, Span, MinutesPerColumn, Fitted, ObservationStart
  <2> QED BY <1>6, <1>20, <2>1 DEF Sound, Inside, AtNow, Seen, Touches
<1>25. /\ Touches(blank, r) /\ r.cursor = cursor /\ r.message = message /\ r.goto = 0
       /\ r.showSys = blank.showSys /\ r.hideIdle = blank.hideIdle
  BY <1>20, <1>21, <1>22 DEF Touches
<1>26. Goes(blank, r)
  BY <1>10, <1>11, <1>23, <1>24, <1>25, ChoiceGoes
<1>27. Sound(r) /\ Seen(r) /\ AtNow(r)
  BY <1>24, <1>26 DEF Goes
<1>28. VisibleLanes(r) = VisibleLanes(z) /\ Messages(r) = Messages(z)
  BY <1>23, <1>24, <1>25, TouchesShow, MessagesFollow DEF Touches
<1>29. RowsOn(r) = RowsOn(v) /\ VisibleLanes(r) = VisibleLanes(v)
  BY <1>16, <1>22, ScreenRowsFollow DEF Touches, SameView
<1>30. r.payload = payload /\ r.follow = z.follow /\ r.canvas = v.canvas
  BY <1>6, <1>21, <1>22 DEF Touches
<1>31. r.cursor # 0 /\ r.canvas.height > 1 =>
         \E i \in DOMAIN RowsOn(r) :
           /\ RowsOn(r)[i] = <<"lane", r.cursor>>
           /\ i > r.rowScroll /\ i <= r.rowScroll + r.canvas.height
  BY <1>10, <1>17, <1>22, <1>25, <1>28, <1>29, <1>30
<1>32. KeepsPlace(x, r)
  BY <1>5, <1>10, <1>11, <1>25, <1>28, <1>30, <1>31 DEF KeepsPlace
<1> QED BY <1>15, <1>17, <1>18, <1>27, <1>32

-----------------------------------------------------------------------------
(* The screen's invariant: what is selected is of the payload, and shown,  *)
(* and a view that follows ends now unless a resize is to be handled.      *)

ScreenInv ==
  /\ clock \in Int
  /\ Sound(app) /\ Seen(app)
  /\ ~resized => AtNow(app)

LEMMA GoesKeeps ==
  ASSUME ScreenInv, Goes(app, app'), clock' = clock, resized' = resized
  PROVE  ScreenInv'
<1>1. Sound(app') /\ Seen(app') /\ (AtNow(app) => AtNow(app'))
  BY DEF ScreenInv, Goes
<1> QED BY <1>1 DEF ScreenInv

LEMMA FirstScreen ==
  ASSUME NEW s \in FirstScenes, NEW canvas \in Canvases, ScreenInit(s, canvas), PayloadTyped
  PROVE  ScreenInv
<1>1. PICK payload : payload = Payload(s, StartsAt)
  OBVIOUS
<1>2. PICK now : now = StartsAt - payload.epoch
  OBVIOUS
<1>3. PICK x : x = [payload |-> payload, now |-> now, zoom |-> 1, custom |-> FALSE,
                    left |-> 0, follow |-> TRUE, cursor |-> 0, message |-> 0, rowScroll |-> 0,
                    showSys |-> FALSE, hideIdle |-> FALSE, search |-> "", searching |-> FALSE,
                    canvas |-> canvas, quit |-> FALSE, goto |-> 0, drag |-> <<>>]
  OBVIOUS
<1>4. PICK cursor : cursor = FirstVisible(x)
  OBVIOUS
<1>5. PICK y : y = [x EXCEPT !.cursor = cursor]
  OBVIOUS
<1>6. app = FitInitial(y) /\ clock = StartsAt
  BY <1>1, <1>2, <1>3, <1>4, <1>5 DEF ScreenInit, NewApp
<1>7. FitInitial(y).payload = payload
  BY <1>3, <1>5 DEF FitInitial, JumpToNow
<1>8. IsPayload(payload)
  BY <1>6, <1>7 DEF PayloadTyped
<1>9. now \in Int /\ canvas \in [width : 1..Window, height : Nat]
  BY <1>2, <1>8, ScreenAssumption DEF IsPayload
<1>10. 1 \in DOMAIN ZoomLevels
  BY ScreenAssumption, LenProperties, EmptySeq
<1>11. IsApp(x) /\ x.payload = payload /\ x.goto = 0 /\ x.message = 0 /\ ~x.hideIdle /\ x.follow
  <2>1. /\ x.payload = payload /\ x.goto = 0 /\ x.message = 0 /\ ~x.hideIdle /\ x.follow
        /\ x.now = now /\ x.zoom = 1 /\ x.left = 0 /\ x.rowScroll = 0 /\ x.custom = FALSE
        /\ x.follow = TRUE /\ x.canvas = canvas /\ x.drag = <<>>
    BY <1>3
  <2>2. x = [payload |-> x.payload, now |-> x.now, zoom |-> x.zoom, custom |-> x.custom,
             left |-> x.left, follow |-> x.follow, cursor |-> x.cursor, message |-> x.message,
             rowScroll |-> x.rowScroll, showSys |-> x.showSys, hideIdle |-> x.hideIdle,
             search |-> x.search, searching |-> x.searching, canvas |-> x.canvas,
             quit |-> x.quit, goto |-> x.goto, drag |-> x.drag]
    BY <1>3
  <2>3. x.now \in Int /\ x.left \in Int /\ x.rowScroll \in Nat
    BY <1>9, <2>1
  <2>4. x.zoom \in DOMAIN ZoomLevels /\ x.canvas \in [width : 1..Window, height : Nat]
    BY <1>9, <1>10, <2>1, Zenon
  <2>5. x.custom \in BOOLEAN /\ x.follow \in BOOLEAN
    BY <2>1
  <2>6. IsApp(x)
    BY <2>1, <2>2, <2>3, <2>4, <2>5, Zenon DEF IsApp
  <2> QED BY <2>1, <2>6
<1>12. cursor \in {0} \cup Range(VisibleLanes(x))
       /\ Range(VisibleLanes(x)) \subseteq DOMAIN payload.lanes
  BY <1>4, <1>8, <1>11, FirstIsShown
<1>13. /\ IsApp(y) /\ y.payload = payload /\ y.goto = 0 /\ y.message = 0 /\ y.cursor = cursor
       /\ SameView(x, y) /\ ~y.hideIdle
  BY <1>5, <1>11 DEF IsApp, SameView
<1>14. Moves(y, FitInitial(y))
  BY <1>13, FitMoves
<1>15. /\ IsApp(app) /\ app.payload = payload /\ app.goto = 0 /\ app.message = 0
       /\ app.cursor = cursor /\ SameView(y, app) /\ app.left >= ObservationStart(app) /\ AtNow(app)
  BY <1>6, <1>13, <1>14 DEF Moves, Framed, SameView
<1>16. VisibleLanes(app) = VisibleLanes(x)
  BY <1>8, <1>11, <1>13, <1>15, ScreenRowsFollow
<1>17. Sound(app) /\ Seen(app)
  BY <1>8, <1>12, <1>15, <1>16 DEF Sound, Inside, Seen
<1> QED BY <1>6, <1>15, <1>17, ScreenAssumption DEF ScreenInv

LEMMA ScreenKept ==
  ASSUME ScreenInv, PayloadTyped', [ScreenNext]_screenVars
  PROVE  /\ ScreenInv'
         /\ app.payload # app'.payload => KeepsPlace(app, app')
<1> USE DEF Screened
<1>0. IsApp(app) /\ Sound(app) /\ IsPayload(app.payload)
  BY DEF ScreenInv, Sound
<1>1. ASSUME NEW key \in AllKeys, HandleKey(key)
      PROVE  Goes(app, app') /\ clock' = clock /\ resized' = resized
  <2>1. CASE app.searching
    BY <1>0, <1>1, <2>1, SearchGoes DEF HandleKey
  <2>2. CASE ~app.searching
    <3>1. PICK y : y = Key(app, key) /\ app' = Repaired(y)
      BY <1>1, <2>2 DEF HandleKey
    <3>2. Continues(app, y)
      BY <1>0, <3>1, KeyContinues
    <3>3. Continues(y, app') /\ Seen(app')
      BY <3>1, <3>2, RepairShows DEF Continues
    <3>4. Goes(app, app')
      BY <3>2, <3>3 DEF Continues, Goes
    <3> QED BY <1>1, <3>4 DEF HandleKey
  <2> QED BY <2>1, <2>2
<1>2. ASSUME NEW d \in {-1, 1}, WheelPan(d)
      PROVE  Goes(app, app') /\ clock' = clock /\ resized' = resized
  <2>1. PICK minutes \in Int : minutes = d * 3 * MinutesPerColumn(app)
    BY <1>0, SpanFits
  <2>2. app' = Pan(app, minutes)
    BY <1>2, <2>1 DEF WheelPan
  <2>3. Goes(app, app')
    BY <1>0, <2>2, PanMoves, MovesGo
  <2> QED BY <1>2, <2>3 DEF WheelPan
<1>3. ASSUME NEW d \in {-1, 1}, NEW c \in 0..3, WheelZoom(d, c)
      PROVE  Goes(app, app') /\ clock' = clock /\ resized' = resized
  <2>1. PICK zoom \in DOMAIN ZoomLevels, minute \in Int :
          zoom = ZoomClamped(app, d) /\ minute = MinuteAt(app, c)
    BY <1>0, ClampedZoom, ColumnsTyped
  <2>2. app' = ZoomTo(app, zoom, minute, c)
    BY <1>3, <2>1 DEF WheelZoom
  <2>3. Goes(app, app')
    BY <1>0, <2>2, ZoomMoves, MovesGo
  <2> QED BY <1>3, <2>3 DEF WheelZoom
<1>4. ASSUME NEW d \in {-1, 1}, WheelRows(d)
      PROVE  Goes(app, app') /\ clock' = clock /\ resized' = resized
  <2>1. PICK n \in Nat, height \in Nat, old \in Nat :
          n = Len(RowsOn(app)) /\ height = app.canvas.height /\ old = app.rowScroll
    BY <1>0, RowsTyped, LenProperties DEF IsApp
  <2>2. PICK scroll \in Nat : scroll = Clamp(0, Greater(n - height, 0), old + d)
    <3>1. PICK most \in Nat : most = Greater(n - height, 0)
      BY DEF Greater
    <3>2. PICK low \in Int : low = Smaller(most, old + d)
      BY DEF Smaller
    <3> QED BY <3>1, <3>2 DEF Clamp, Greater
  <2>3. app' = [app EXCEPT !.rowScroll = scroll]
    BY <1>4, <2>1, <2>2 DEF WheelRows
  <2>4. PICK y : y = app' /\ y = [app EXCEPT !.rowScroll = scroll]
    BY <2>3
  <2>5. /\ Touches(app, y) /\ y.cursor = app.cursor /\ y.goto = app.goto
        /\ y.message = app.message /\ y.showSys = app.showSys /\ y.hideIdle = app.hideIdle
    BY <1>0, <2>4 DEF IsApp, Touches
  <2>6. Goes(app, y)
    BY <1>0, <2>5, ChoiceGoes
  <2> QED BY <1>4, <2>4, <2>6 DEF WheelRows
<1>5. ASSUME NEW row \in 1..4, NEW c \in -1..3, Click(row, c)
      PROVE  Goes(app, app') /\ clock' = clock /\ resized' = resized
  <2>1. PICK x : /\ x = app \/ \E r \in Range(RowsOn(app)) : x = Clicked(app, r, c)
                 /\ app' = [x EXCEPT !.drag = IF c = -1 THEN x.drag ELSE <<c, x.left>>]
    BY <1>5 DEF Click, Range
  <2>2. Goes(app, x) /\ IsApp(x)
    BY <1>0, <2>1, ClickGoes, GoesNowhere DEF Goes, Sound
  <2>3. PICK drag : drag = IF c = -1 THEN x.drag ELSE <<c, x.left>>
    OBVIOUS
  <2>4. drag = <<>> \/ (drag[1] \in Int /\ drag[2] \in Int)
    BY <2>2, <2>3 DEF IsApp
  <2>5. PICK y : y = app' /\ y = [x EXCEPT !.drag = drag]
    BY <2>1, <2>3
  <2>6. /\ Touches(x, y) /\ y.cursor = x.cursor /\ y.goto = x.goto
        /\ y.message = x.message /\ y.showSys = x.showSys /\ y.hideIdle = x.hideIdle
    BY <2>2, <2>4, <2>5 DEF IsApp, Touches
  <2>7. Goes(x, y)
    BY <2>2, <2>6, ChoiceGoes DEF Goes
  <2>8. Goes(app, y)
    BY <2>2, <2>7, GoesOn
  <2> QED BY <1>5, <2>5, <2>8 DEF Click
<1>6. ASSUME NEW c \in 0..3, Drag(c)
      PROVE  Goes(app, app') /\ clock' = clock /\ resized' = resized
  <2>1. PICK minutes \in Int :
          minutes = app.drag[2] + (app.drag[1] - c) * MinutesPerColumn(app) - app.left
    <3>1. PICK from \in Int, start \in Int, per \in Int, left \in Int :
            /\ from = app.drag[2] /\ start = app.drag[1] /\ left = app.left
            /\ per = MinutesPerColumn(app)
      BY <1>0, <1>6, SpanFits DEF IsApp, Drag
    <3> QED BY <3>1
  <2>2. app' = Pan(app, minutes)
    BY <1>6, <2>1 DEF Drag
  <2>3. Goes(app, app')
    BY <1>0, <2>2, PanMoves, MovesGo
  <2> QED BY <1>6, <2>3 DEF Drag
<1>7. ASSUME Release \/ Goto \/ Detach
      PROVE  Goes(app, app') /\ clock' = clock /\ resized' = resized
  <2>1. PICK y : y = app' /\ \/ y = [app EXCEPT !.drag = <<>>]
                             \/ y = [app EXCEPT !.goto = 0]
                             \/ y = [app EXCEPT !.quit = FALSE]
    BY <1>7 DEF Release, Goto, Detach
  <2>2. /\ Touches(app, y) /\ y.cursor = app.cursor /\ y.goto \in {0, app.goto}
        /\ y.message = app.message /\ y.showSys = app.showSys /\ y.hideIdle = app.hideIdle
    <3>1. CASE y = [app EXCEPT !.drag = <<>>]
      BY <1>0, <3>1 DEF IsApp, Touches
    <3>2. CASE y = [app EXCEPT !.goto = 0]
      BY <1>0, <3>2 DEF IsApp, Touches
    <3>3. CASE y = [app EXCEPT !.quit = FALSE]
      BY <1>0, <3>3 DEF IsApp, Touches
    <3> QED BY <2>1, <3>1, <3>2, <3>3
  <2>3. Goes(app, y)
    BY <1>0, <2>2, ChoiceGoes
  <2> QED BY <1>7, <2>1, <2>3 DEF Release, Goto, Detach
<1>8. ASSUME Goes(app, app'), clock' = clock, resized' = resized
      PROVE  ScreenInv' /\ app'.payload = app.payload
  BY <1>8, GoesKeeps DEF Goes
<1>9. ASSUME NEW canvas \in Canvases, Redraw(canvas)
      PROVE  ScreenInv' /\ app'.payload = app.payload
  <2>1. PICK y : y = app' /\ y = [app EXCEPT !.canvas = canvas]
    BY <1>9 DEF Redraw
  <2>2. canvas \in [width : 1..Window, height : Nat]
    BY ScreenAssumption
  <2>3. /\ IsApp(y) /\ y.payload = app.payload /\ y.now = app.now /\ y.cursor = app.cursor
        /\ y.goto = app.goto /\ y.message = app.message /\ y.left = app.left
        /\ y.showSys = app.showSys /\ y.hideIdle = app.hideIdle
    BY <1>0, <2>1, <2>2 DEF IsApp
  <2>4. Messages(y) = Messages(app) /\ ObservationStart(y) = ObservationStart(app)
    BY <2>3, MessagesFollow DEF ObservationStart
  <2>5. Sound(y)
    BY <1>0, <2>3, <2>4 DEF Sound, Inside
  <2>6. Seen(y)
    <3>1. SUFFICES ASSUME ~y.hideIdle PROVE y.cursor \in {0} \cup Range(VisibleLanes(y))
      BY DEF Seen
    <3>2. VisibleLanes(y) = VisibleLanes(app)
      BY <1>0, <2>3, <3>1, ScreenRowsFollow DEF SameView
    <3> QED BY <2>3, <3>1, <3>2 DEF ScreenInv, Seen
  <2>7. clock' = clock /\ resized'
    BY <1>9 DEF Redraw
  <2> QED BY <2>1, <2>3, <2>5, <2>6, <2>7 DEF ScreenInv
<1>10. ASSUME HandleResize
       PROVE  ScreenInv' /\ app'.payload = app.payload
  <2>1. \/ app' = FitInitial(app)
        \/ app' = JumpToNow(app)
        \/ app' = app /\ ~app.follow
    <3>1. PICK prod \in Int : prod = ZoomLevels[app.zoom] * app.canvas.width
      <4>1. ZoomLevels[app.zoom] \in Nat \ {0}
        BY <1>0, ScreenAssumption, ElementOfSeq, LenProperties DEF IsApp
      <4>2. app.canvas.width \in Nat
        BY <1>0, ScreenAssumption DEF IsApp
      <4> QED BY <4>1, <4>2
    <3>2. app' = CASE ~app.custom \/ prod >= Window -> FitInitial(app)
                   [] app.custom /\ prod < Window /\ app.follow -> JumpToNow(app)
                   [] OTHER -> app
      BY <1>10, <3>1 DEF HandleResize, Resized
    <3>3. prod >= Window \/ prod < Window
      BY ScreenAssumption
    <3> QED BY <1>0, <3>2, <3>3 DEF IsApp
  <2>2. Goes(app, app') /\ AtNow(app')
    BY <1>0, <2>1, FitMoves, JumpMoves, MovesGo, GoesNowhere DEF AtNow
  <2>3. clock' = clock
    BY <1>10 DEF HandleResize
  <2>4. Sound(app') /\ Seen(app') /\ app'.payload = app.payload
    BY <2>2 DEF Goes, ScreenInv
  <2> QED BY <2>2, <2>3, <2>4 DEF ScreenInv
<1>11. ASSUME Tick
       PROVE  ScreenInv' /\ KeepsPlace(app, app')
  <2>1. PICK payload : app' = Refreshed(app, payload, clock) /\ app.goto = 0 /\ clock' = clock
                       /\ Refreshed(app, payload, clock).payload = payload
    <3>1. PICK payload : app' = Refreshed(app, payload, clock) /\ app.goto = 0 /\ clock' = clock
      BY <1>11 DEF Tick
    <3> QED BY <1>0, <3>1, RefreshTakes
  <2>2. IsPayload(payload) /\ clock \in Int
    BY <2>1 DEF PayloadTyped, ScreenInv
  <2>3. PICK y : y = app' /\ Sound(y) /\ Seen(y) /\ AtNow(y) /\ KeepsPlace(app, y)
    BY <1>0, <2>1, <2>2, RefreshKeeps
  <2> QED BY <2>1, <2>2, <2>3 DEF ScreenInv
<1>12. ASSUME NEW s, NEW minutes \in {0, 1, DayLength}, Changes(s, minutes)
       PROVE  ScreenInv' /\ app'.payload = app.payload
  <2>1. app' = app /\ resized' = resized /\ clock' = clock + minutes
    BY <1>12 DEF Changes
  <2>2. minutes \in Int
    BY ScreenAssumption
  <2> QED BY <2>1, <2>2 DEF ScreenInv
<1>13. CASE UNCHANGED screenVars
  BY <1>13 DEF screenVars, ScreenInv
<1>14. CASE ScreenNext
  BY <1>1, <1>2, <1>3, <1>4, <1>5, <1>6, <1>7, <1>8, <1>9, <1>10, <1>11, <1>12, <1>14 DEF ScreenNext
<1> QED BY <1>13, <1>14

(* Given payloads as Build makes them, what the screen selects is always of *)
(* its payload and shown, a view that follows ends now, and every new      *)
(* payload leaves the operator where they were (App's operations).          *)
THEOREM ScreenServes == ScreenSpec /\ []PayloadTyped => ScreenKeeps
<1>1. (\E s \in FirstScenes, canvas \in Canvases : ScreenInit(s, canvas)) /\ PayloadTyped => ScreenInv
  BY FirstScreen
<1>2. ScreenInv /\ PayloadTyped' /\ [ScreenNext]_screenVars => ScreenInv'
  BY ScreenKept
<1>3. ScreenInv => ScreenHolds
  BY DEF ScreenInv, Sound, Seen, Inside, AtNow, ScreenHolds
<1>4. ScreenInv /\ PayloadTyped' /\ [ScreenNext]_screenVars
        => [\A x \in {app'} : app.payload # x.payload => KeepsPlace(app, x)]_app
  BY ScreenKept
<1> QED BY <1>1, <1>2, <1>3, <1>4, PTL DEF ScreenSpec, ScreenKeeps, TicksKeepPlace
=============================================================================
