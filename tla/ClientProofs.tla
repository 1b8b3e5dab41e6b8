---------------------------- MODULE ClientProofs ----------------------------
(***************************************************************************)
(* The proofs about the client's verbs, for any number of processes, names *)
(* and steps between their tmux calls.  tx ui install: between two         *)
(* installs a server holds exactly the words the last one recorded.  View  *)
(* verbs: what is killed is the view that was judged.  Views of an         *)
(* artifact: a temporary worktree has one view and one name, and is        *)
(* awaited until that view's end.                                          *)
(***************************************************************************)
EXTENDS Install, ClientViews, ArtifactViews, TLAPS, WellFoundedInduction

InstallPlaces == {"idle", "write", "conf", "list", "drop", "source", "record"}
Words == UNION {WordsOf(Ships[b]) : b \in DOMAIN Ships}
Builds == {Ships[b] : b \in DOMAIN Ships}
AnInstaller ==
  [at : InstallPlaces, build : DOMAIN Ships, previous : Builds \cup {Missing},
   left : SUBSET Fragments, alone : BOOLEAN, met : BOOLEAN]

New(p) == Ships[installer[p].build]
Old(p) == installer[p].previous

InstallTypeOK ==
  /\ linkedTo = "untouched"
  /\ keyFiles \in [Fragments -> (SUBSET Words) \cup {Missing, Link}]
  /\ conf = Missing \/ conf \subseteq Fragments
  /\ installed \in Builds \cup {Missing}
  /\ server \in [up : BOOLEAN, bound : SUBSET Words]
  /\ installer \in [Installers -> AnInstaller]
  /\ \A p \in Installers : InstallAt(p, "write") => installer[p].left \subseteq DOMAIN New(p)
  /\ dirty \in BOOLEAN /\ tainted \in BOOLEAN

ConfIs(record) == conf = IF record = Missing THEN Missing ELSE DOMAIN record
Written(p, f) == keyFiles[f] = New(p)[f]

(* An install that met no other one knows the record as it is; the others  *)
(* leave the files to be mistrusted.                                       *)
AloneKnown ==
  \A p \in Installers : ~InstallAt(p, "idle") =>
    /\ installer[p].alone => Installing = {p} /\ Old(p) = installed
    /\ ~installer[p].alone => dirty

(* What is on disk while no install is under way, and while one is alone.  *)
FilesAtRest ==
  ~dirty /\ Installing = {} =>
    /\ ConfIs(installed)
    /\ installed # Missing => \A f \in DOMAIN installed : keyFiles[f] = installed[f]

FilesOf(p) ==
  /\ InstallAt(p, "write") =>
       /\ \A f \in DOMAIN New(p) \ installer[p].left : Written(p, f)
       /\ ~dirty =>
            /\ ConfIs(Old(p))
            /\ Old(p) # Missing =>
                 \A f \in DOMAIN Old(p) :
                   keyFiles[f] = Old(p)[f] \/ (f \in DOMAIN New(p) /\ Written(p, f))
  /\ InstallAt(p, "conf") =>
       /\ \A f \in DOMAIN New(p) : Written(p, f)
       /\ ~dirty =>
            /\ ConfIs(Old(p))
            /\ \A f \in Fragments \ DOMAIN New(p) : keyFiles[f] = Missing
  /\ installer[p].at \in {"list", "drop", "source", "record"} =>
       conf = DOMAIN New(p) /\ \A f \in DOMAIN New(p) : Written(p, f)

FilesKnown ==
  FilesAtRest /\ \A p \in Installers : ~InstallAt(p, "idle") /\ installer[p].alone => FilesOf(p)

(* What the server holds before an install touches it, and of an install   *)
(* that is alone.                                                          *)
Untouched(p) == installer[p].at \in {"idle", "write", "conf", "list", "drop"} /\ ~installer[p].met
KeysAtRest ==
  server.up /\ ~tainted /\ installed # Missing
    /\ (\A p \in Installers : InstallAt(p, "idle") \/ Untouched(p))
      => server.bound = WordsOf(installed)

KeysOf(p) ==
  /\ installer[p].at \in {"write", "conf", "list"} /\ Old(p) # Missing =>
       server.bound \subseteq WordsOf(Old(p)) \cup WordsOf(New(p))
  /\ InstallAt(p, "drop") => server.bound \ Dropped(p) \subseteq WordsOf(New(p))
  /\ InstallAt(p, "source") => server.bound \subseteq WordsOf(New(p))
  /\ InstallAt(p, "record") => server.bound = WordsOf(New(p))

KeysKnown ==
  /\ KeysAtRest
  /\ server.up /\ ~tainted =>
       \A p \in Installers : ~InstallAt(p, "idle") /\ installer[p].alone => KeysOf(p)

InstallInv == InstallTypeOK /\ AloneKnown /\ FilesKnown /\ KeysKnown

-----------------------------------------------------------------------------
(* Builds, and what the steps do to an install                              *)

LEMMA BuildsHoldTexts ==
  ASSUME NEW r \in Builds
  PROVE  /\ DOMAIN r \subseteq Fragments /\ DOMAIN r # Missing /\ r # Missing
         /\ \A f \in DOMAIN r : r[f] \notin {Missing, Link} /\ r[f] \subseteq WordsOf(r)
         /\ WordsOf(r) \subseteq Words
<1>1. PICK b \in DOMAIN Ships : r = Ships[b]
  BY DEF Builds
<1>2. /\ DOMAIN r \subseteq Fragments /\ DOMAIN r # Missing /\ r # Missing
      /\ \A f \in DOMAIN r : r[f] \notin {Missing, Link}
  BY <1>1, ShipsAssumption
<1>3. \A f \in DOMAIN r : r[f] \subseteq WordsOf(r)
  BY DEF WordsOf
<1>4. WordsOf(r) \subseteq Words
  BY <1>1 DEF Words
<1> QED BY <1>2, <1>3, <1>4

LEMMA NewIsShipped ==
  ASSUME InstallTypeOK, NEW p \in Installers
  PROVE  New(p) \in Builds
BY DEF InstallTypeOK, AnInstaller, New, Builds

LEMMA InstallMoves ==
  ASSUME InstallTypeOK, NEW p \in Installers, NEW place \in InstallPlaces, InstallTo(p, place)
  PROVE  /\ installer' \in [Installers -> AnInstaller]
         /\ installer'[p] = [installer[p] EXCEPT !.at = place]
         /\ installer'[p].at = place /\ installer'[p].build = installer[p].build
         /\ installer'[p].previous = installer[p].previous /\ installer'[p].left = installer[p].left
         /\ installer'[p].alone = installer[p].alone /\ installer'[p].met = installer[p].met
         /\ \A q \in Installers : q # p => installer'[q] = installer[q]
BY DEF InstallTypeOK, AnInstaller, InstallTo

LEMMA IdleIsTyped == NotInstalling \in AnInstaller /\ NotInstalling.at = "idle"
BY ShipsAssumption DEF NotInstalling, AnInstaller, InstallPlaces

LEMMA InstallEnds ==
  ASSUME InstallTypeOK, NEW p \in Installers, installer' = [installer EXCEPT ![p] = NotInstalling]
  PROVE  /\ installer' \in [Installers -> AnInstaller] /\ installer'[p].at = "idle"
         /\ \A q \in Installers : q # p => installer'[q] = installer[q]
BY IdleIsTyped DEF InstallTypeOK

(* What is bound by sourcing the conf of a build all of whose fragments are *)
(* written.                                                                *)
LEMMA SourcedIsShipped ==
  ASSUME NEW r \in Builds, conf = DOMAIN r, \A f \in DOMAIN r : keyFiles[f] = r[f]
  PROVE  Sourced = WordsOf(r)
<1>1. /\ DOMAIN r # Missing /\ \A f \in DOMAIN r : r[f] \notin {Missing, Link}
  BY BuildsHoldTexts
<1>2. {g \in conf : keyFiles[g] \notin {Missing, Link}} = DOMAIN r
  BY <1>1
<1>3. Sourced = UNION {keyFiles[f] : f \in DOMAIN r}
  BY <1>1, <1>2 DEF Sourced
<1>4. {keyFiles[f] : f \in DOMAIN r} = {r[f] : f \in DOMAIN r}
  OBVIOUS
<1> QED BY <1>3, <1>4 DEF WordsOf

LEMMA SourcedAreWords ==
  ASSUME InstallTypeOK
  PROVE  Sourced \subseteq Words
<1>1. CASE conf = Missing
  BY <1>1 DEF Sourced
<1>2. CASE conf # Missing
  <2>1. ASSUME NEW f \in conf, keyFiles[f] \notin {Missing, Link} PROVE keyFiles[f] \subseteq Words
    <3>1. f \in Fragments
      BY <1>2 DEF InstallTypeOK
    <3>2. keyFiles[f] \in (SUBSET Words) \cup {Missing, Link}
      BY <3>1 DEF InstallTypeOK
    <3> QED BY <2>1, <3>2
  <2> QED BY <1>2, <2>1 DEF Sourced
<1> QED BY <1>1, <1>2

-----------------------------------------------------------------------------
(* Types *)

LEMMA InstallTyped ==
  ASSUME InstallTypeOK, InstallNext PROVE InstallTypeOK'
<1>1. ASSUME NEW p \in Installers, NEW b \in DOMAIN Ships, BeginInstall(p, b) PROVE InstallTypeOK'
  <2>1. Ships[b] \in Builds
    BY DEF Builds
  <2>2. DOMAIN Ships[b] \subseteq Fragments
    BY <2>1, BuildsHoldTexts
  <2>3. PICK t \in BOOLEAN : t = (Installing = {})
    OBVIOUS
  <2>4. installer' = [q \in Installers |->
          IF q = p THEN [at |-> "write", build |-> b, previous |-> installed,
                         left |-> DOMAIN Ships[b], alone |-> t, met |-> FALSE]
          ELSE [installer[q] EXCEPT !.alone = FALSE]]
    BY <1>1, <2>3 DEF BeginInstall
  <2>5. [at |-> "write", build |-> b, previous |-> installed,
         left |-> DOMAIN Ships[b], alone |-> t, met |-> FALSE] \in AnInstaller
    BY <2>2 DEF AnInstaller, InstallPlaces, InstallTypeOK
  <2>6. \A q \in Installers : [installer[q] EXCEPT !.alone = FALSE] \in AnInstaller
    BY ZenonT(60) DEF InstallTypeOK, AnInstaller
  <2>7. installer' \in [Installers -> AnInstaller]
    BY <2>4, <2>5, <2>6
  <2>8. \A q \in Installers : InstallAt(q, "write")' => installer'[q].left \subseteq DOMAIN New(q)'
    BY <2>4 DEF InstallTypeOK, InstallAt, New, AnInstaller
  <2>9. dirty' \in BOOLEAN
    BY <1>1 DEF BeginInstall, InstallTypeOK
  <2> QED BY <1>1, <2>7, <2>8, <2>9 DEF BeginInstall, InstallTypeOK
<1>2. ASSUME NEW p \in Installers, NEW f \in Fragments, WriteFragment(p, f) PROVE InstallTypeOK'
  <2>1. installer[p].left \ {f} \subseteq Fragments /\ f \in installer[p].left
    BY <1>2 DEF WriteFragment, InstallTypeOK, AnInstaller
  <2>2. /\ installer' \in [Installers -> AnInstaller]
        /\ \A q \in Installers : /\ installer'[q].at = installer[q].at
                                 /\ installer'[q].build = installer[q].build
                                 /\ installer'[q].left \subseteq installer[q].left
    BY <1>2, <2>1 DEF WriteFragment, InstallTypeOK, AnInstaller
  <2>3. \A q \in Installers : InstallAt(q, "write")' => installer'[q].left \subseteq DOMAIN New(q)'
    BY <2>2 DEF InstallTypeOK, InstallAt, New
  <2>4. f \in DOMAIN New(p)
    BY <1>2, <2>1 DEF WriteFragment, InstallTypeOK
  <2>5. New(p)[f] \in SUBSET Words
    BY <2>4, NewIsShipped, BuildsHoldTexts
  <2>6. keyFiles' = [keyFiles EXCEPT ![f] = New(p)[f]]
    BY <1>2 DEF WriteFragment, New
  <2>7. keyFiles' \in [Fragments -> (SUBSET Words) \cup {Missing, Link}]
    BY <2>5, <2>6 DEF InstallTypeOK
  <2> QED BY <1>2, <2>2, <2>3, <2>7 DEF WriteFragment, InstallTypeOK
<1>3. ASSUME NEW p \in Installers, NEW place \in InstallPlaces \ {"write"}, InstallTo(p, place)
      PROVE /\ installer' \in [Installers -> AnInstaller]
            /\ \A q \in Installers :
                 InstallAt(q, "write")' => installer'[q].left \subseteq DOMAIN New(q)'
  <2>1. /\ installer' \in [Installers -> AnInstaller] /\ installer'[p].at = place
        /\ \A q \in Installers : q # p => installer'[q] = installer[q]
    BY <1>3, InstallMoves
  <2> QED BY <2>1 DEF InstallTypeOK, InstallAt, New
<1>4. ASSUME NEW p \in Installers, installer' = [installer EXCEPT ![p] = NotInstalling]
      PROVE /\ installer' \in [Installers -> AnInstaller]
            /\ \A q \in Installers :
                 InstallAt(q, "write")' => installer'[q].left \subseteq DOMAIN New(q)'
  <2>1. /\ installer' \in [Installers -> AnInstaller] /\ installer'[p].at = "idle"
        /\ \A q \in Installers : q # p => installer'[q] = installer[q]
    BY <1>4, InstallEnds
  <2> QED BY <2>1 DEF InstallTypeOK, InstallAt, New
<1>5. ASSUME NEW p \in Installers, PruneFragments(p) PROVE InstallTypeOK'
  <2>1. keyFiles' \in [Fragments -> (SUBSET Words) \cup {Missing, Link}]
    BY <1>5 DEF PruneFragments, InstallTypeOK
  <2>2. InstallTo(p, "conf")
    BY <1>5 DEF PruneFragments
  <2> QED BY <1>5, <1>3, <2>1, <2>2 DEF PruneFragments, InstallTypeOK, InstallPlaces
<1>6. ASSUME NEW p \in Installers, WriteConf(p) PROVE InstallTypeOK'
  <2>1. conf' \subseteq Fragments
    BY <1>6, NewIsShipped, BuildsHoldTexts DEF WriteConf, New
  <2>2. InstallTo(p, "list")
    BY <1>6 DEF WriteConf
  <2> QED BY <1>6, <1>3, <2>1, <2>2 DEF WriteConf, InstallTypeOK, InstallPlaces
<1>7. ASSUME NEW p \in Installers, ListSessions(p) PROVE InstallTypeOK'
  <2>1. tainted' \in BOOLEAN
    BY <1>7 DEF ListSessions, InstallTypeOK
  <2>2. PICK place \in {"drop", "record"} : InstallTo(p, place)
    BY <1>7 DEF ListSessions
  <2>3. place \in InstallPlaces \ {"write"}
    BY DEF InstallPlaces
  <2> QED BY <1>7, <1>3, <2>1, <2>2, <2>3 DEF ListSessions, InstallTypeOK
<1>8. ASSUME NEW p \in Installers, UndoDropped(p) PROVE InstallTypeOK'
  <2>1. server' \in [up : BOOLEAN, bound : SUBSET Words]
    BY <1>8 DEF UndoDropped, InstallTypeOK
  <2>2. InstallTo(p, "source")
    BY <1>8 DEF UndoDropped
  <2> QED BY <1>8, <1>3, <2>1, <2>2 DEF UndoDropped, InstallTypeOK, InstallPlaces
<1>9. ASSUME NEW p \in Installers, SourceConf(p) PROVE InstallTypeOK'
  <2>1. Sourced \subseteq Words
    BY SourcedAreWords
  <2>2. server' \in [up : BOOLEAN, bound : SUBSET Words] /\ dirty' \in BOOLEAN
    BY <1>9, <2>1 DEF SourceConf, InstallTypeOK
  <2>3. /\ installer' \in [Installers -> AnInstaller]
        /\ \A q \in Installers : InstallAt(q, "write")' => installer'[q].left \subseteq DOMAIN New(q)'
    BY <1>9, <1>3, <1>4 DEF SourceConf, InstallPlaces
  <2> QED BY <1>9, <2>2, <2>3 DEF SourceConf, InstallTypeOK
<1>10. ASSUME NEW p \in Installers, SourceFails(p) PROVE InstallTypeOK'
  <2>1. PICK some \in SUBSET Sourced : server' = [server EXCEPT !.bound = @ \cup some]
    BY <1>10 DEF SourceFails
  <2>2. some \subseteq Words
    BY SourcedAreWords
  <2>3. server' \in [up : BOOLEAN, bound : SUBSET Words]
    BY <2>1, <2>2 DEF InstallTypeOK
  <2> QED BY <1>10, <1>4, <2>3 DEF SourceFails, InstallTypeOK
<1>11. ASSUME NEW p \in Installers, WriteInstalled(p) PROVE InstallTypeOK'
  <2>1. installed' \in Builds /\ dirty' \in BOOLEAN /\ tainted' \in BOOLEAN
    BY <1>11, NewIsShipped DEF WriteInstalled, New, InstallTypeOK, AnInstaller
  <2> QED BY <1>11, <1>4, <2>1 DEF WriteInstalled, InstallTypeOK
<1>12. ASSUME NEW p \in Installers, InstallDies(p) PROVE InstallTypeOK'
  <2>1. dirty' \in BOOLEAN /\ tainted' \in BOOLEAN
    BY <1>12 DEF InstallDies, InstallTypeOK
  <2> QED BY <1>12, <1>4, <2>1 DEF InstallDies, InstallTypeOK
<1>13. CASE ServerStarts
  <2>1. Sourced \subseteq Words
    BY SourcedAreWords
  <2>2. server' \in [up : BOOLEAN, bound : SUBSET Words]
    BY <1>13, <2>1 DEF ServerStarts
  <2>3. /\ installer' \in [Installers -> AnInstaller]
        /\ \A q \in Installers : /\ installer'[q].at = installer[q].at
                                 /\ installer'[q].build = installer[q].build
                                 /\ installer'[q].left = installer[q].left
    BY <1>13, ZenonT(60) DEF ServerStarts, InstallTypeOK, AnInstaller, InstallAt
  <2>4. \A q \in Installers : InstallAt(q, "write")' => installer'[q].left \subseteq DOMAIN New(q)'
    BY <2>3 DEF InstallTypeOK, InstallAt, New
  <2>5. tainted' \in BOOLEAN
    BY <1>13 DEF ServerStarts, InstallTypeOK
  <2> QED BY <1>13, <2>2, <2>3, <2>4, <2>5 DEF ServerStarts, InstallTypeOK
<1>14. CASE ServerExits
  <2>1. server' \in [up : BOOLEAN, bound : SUBSET Words] /\ tainted' \in BOOLEAN
    BY <1>14 DEF ServerExits
  <2> QED BY <1>14, <2>1 DEF ServerExits, InstallTypeOK, InstallAt, New
<1> QED
  BY <1>1, <1>2, <1>5, <1>6, <1>7, <1>8, <1>9, <1>10, <1>11, <1>12, <1>13, <1>14 DEF InstallNext

-----------------------------------------------------------------------------
(* Who is alone *)

(* A step that starts and ends no install leaves alone who was alone.      *)
LEMMA AloneKept ==
  ASSUME InstallTypeOK, AloneKnown, UNCHANGED <<installed, dirty>>,
         \A q \in Installers :
           /\ (installer'[q].at = "idle") <=> (installer[q].at = "idle")
           /\ installer'[q].alone = installer[q].alone
           /\ installer'[q].previous = installer[q].previous
  PROVE  AloneKnown' /\ Installing' = Installing
<1>1. Installing' = Installing
  BY DEF Installing, InstallAt
<1> QED BY <1>1 DEF AloneKnown, InstallAt, Old

(* One that ends an install p that was not alone leaves the files dirty.   *)
LEMMA AloneAfterEnd ==
  ASSUME InstallTypeOK, AloneKnown, NEW p \in Installers, ~InstallAt(p, "idle"),
         installer' = [installer EXCEPT ![p] = NotInstalling],
         installer[p].alone \/ dirty'
  PROVE  AloneKnown' /\ (installer[p].alone => Installing' = {})
<1>1. /\ installer'[p].at = "idle"
      /\ \A q \in Installers : q # p => installer'[q] = installer[q]
  BY InstallEnds
<1>2. p \in Installing
  BY DEF Installing
<1>3. ASSUME NEW q \in Installers, q # p, ~InstallAt(q, "idle")
      PROVE  ~installer[q].alone /\ ~installer[p].alone
  <2>1. q \in Installing
    BY <1>3 DEF Installing
  <2> QED BY <1>2, <1>3, <2>1 DEF AloneKnown
<1>4. ASSUME NEW q \in Installers, ~InstallAt(q, "idle")'
      PROVE  ~installer'[q].alone /\ dirty' /\ ~installer[p].alone
  <2>1. q # p /\ installer'[q] = installer[q]
    BY <1>1, <1>4 DEF InstallAt
  <2>2. ~InstallAt(q, "idle")
    BY <1>4, <2>1 DEF InstallAt
  <2> QED BY <1>3, <2>1, <2>2
<1>5. AloneKnown'
  BY <1>4 DEF AloneKnown
<1> QED BY <1>4, <1>5 DEF Installing

LEMMA AloneHolds ==
  ASSUME InstallTypeOK, AloneKnown, InstallNext PROVE AloneKnown'
<1>1. ASSUME NEW p \in Installers, NEW b \in DOMAIN Ships, BeginInstall(p, b) PROVE AloneKnown'
  <2>1. PICK t \in BOOLEAN : t = (Installing = {})
    OBVIOUS
  <2>2. installer' = [q \in Installers |->
          IF q = p THEN [at |-> "write", build |-> b, previous |-> installed,
                         left |-> DOMAIN Ships[b], alone |-> t, met |-> FALSE]
          ELSE [installer[q] EXCEPT !.alone = FALSE]]
    BY <1>1, <2>1 DEF BeginInstall
  <2>3. /\ installer'[p].at = "write" /\ installer'[p].alone = t /\ installer'[p].previous = installed
        /\ \A q \in Installers : q # p => installer'[q].at = installer[q].at /\ ~installer'[q].alone
    BY <2>2 DEF InstallTypeOK, AnInstaller
  <2>4. installed' = installed /\ dirty' = (dirty \/ Installing # {})
    BY <1>1 DEF BeginInstall
  <2>5. ~t => dirty'
    BY <2>1, <2>4
  <2>6. t => Installing' = {p}
    BY <2>1, <2>3 DEF Installing, InstallAt
  <2>7. ASSUME NEW q \in Installers, q # p, ~InstallAt(q, "idle")' PROVE dirty' /\ ~installer'[q].alone
    <3>1. q \in Installing
      BY <2>3, <2>7 DEF Installing, InstallAt
    <3> QED BY <2>3, <2>4, <2>7, <3>1
  <2> QED BY <2>3, <2>4, <2>5, <2>6, <2>7 DEF AloneKnown, Old
<1>2. ASSUME NEW p \in Installers, NEW f \in Fragments, WriteFragment(p, f) PROVE AloneKnown'
  <2>1. /\ UNCHANGED <<installed, dirty>>
        /\ installer' = [installer EXCEPT ![p].left = @ \ {f}]
    BY <1>2 DEF WriteFragment
  <2>2. \A q \in Installers : /\ installer'[q].at = installer[q].at
                              /\ installer'[q].alone = installer[q].alone
                              /\ installer'[q].previous = installer[q].previous
    BY <2>1 DEF InstallTypeOK, AnInstaller
  <2> QED BY <2>1, <2>2, AloneKept
<1>3. ASSUME NEW p \in Installers, NEW place \in InstallPlaces \ {"idle"}, InstallTo(p, place),
             ~InstallAt(p, "idle"), UNCHANGED <<installed, dirty>>
      PROVE  AloneKnown'
  <2>0. /\ installer'[p].at = place /\ installer'[p].previous = installer[p].previous
        /\ installer'[p].alone = installer[p].alone
        /\ \A q \in Installers : q # p => installer'[q] = installer[q]
    BY <1>3, InstallMoves
  <2>1. \A q \in Installers :
           /\ (installer'[q].at = "idle") <=> (installer[q].at = "idle")
           /\ installer'[q].alone = installer[q].alone
           /\ installer'[q].previous = installer[q].previous
    BY <1>3, <2>0 DEF InstallAt
  <2> QED BY <1>3, <2>1, AloneKept
<1>4. ASSUME NEW p \in Installers,
             PruneFragments(p) \/ WriteConf(p) \/ ListSessions(p) \/ UndoDropped(p)
      PROVE AloneKnown'
  <2>1. /\ ~InstallAt(p, "idle") /\ UNCHANGED <<installed, dirty>>
        /\ \E place \in {"conf", "list", "drop", "record", "source"} : InstallTo(p, place)
    BY <1>4 DEF PruneFragments, WriteConf, ListSessions, UndoDropped, InstallAt
  <2> QED BY <1>3, <2>1 DEF InstallPlaces
<1>5. ASSUME NEW p \in Installers, SourceConf(p) PROVE AloneKnown'
  <2>1. CASE server.up
    BY <1>5, <2>1, <1>3 DEF SourceConf, InstallPlaces, InstallAt
  <2>2. CASE ~server.up
    <3>1. /\ ~InstallAt(p, "idle") /\ dirty' = TRUE
          /\ installer' = [installer EXCEPT ![p] = NotInstalling]
      BY <1>5, <2>2 DEF SourceConf, InstallAt
    <3> QED BY <3>1, AloneAfterEnd
  <2> QED BY <2>1, <2>2
<1>6. ASSUME NEW p \in Installers, SourceFails(p) \/ InstallDies(p) PROVE AloneKnown'
  <2>1. /\ ~InstallAt(p, "idle") /\ dirty' = TRUE
        /\ installer' = [installer EXCEPT ![p] = NotInstalling]
    BY <1>6 DEF SourceFails, InstallDies, InstallAt, Installing
  <2> QED BY <2>1, AloneAfterEnd
<1>7. ASSUME NEW p \in Installers, WriteInstalled(p) PROVE AloneKnown'
  <2>1. /\ ~InstallAt(p, "idle") /\ dirty' = ~installer[p].alone
        /\ installer' = [installer EXCEPT ![p] = NotInstalling]
    BY <1>7 DEF WriteInstalled, InstallAt
  <2> QED BY <2>1, AloneAfterEnd
<1>8. CASE ServerStarts
  <2>1. /\ UNCHANGED <<installed, dirty>>
        /\ \A q \in Installers : /\ installer'[q].at = installer[q].at
                                 /\ installer'[q].alone = installer[q].alone
                                 /\ installer'[q].previous = installer[q].previous
    BY <1>8 DEF ServerStarts, InstallTypeOK, AnInstaller, InstallAt
  <2> QED BY <2>1, AloneKept
<1>9. CASE ServerExits
  <2>1. UNCHANGED <<installed, dirty, installer>>
    BY <1>9 DEF ServerExits
  <2> QED BY <2>1, AloneKept
<1> QED BY <1>1, <1>2, <1>4, <1>5, <1>6, <1>7, <1>8, <1>9 DEF InstallNext

-----------------------------------------------------------------------------
(* Files *)

LEMMA AloneMeansOnly ==
  ASSUME AloneKnown, NEW p \in Installers, ~InstallAt(p, "idle"),
         NEW q \in Installers, ~InstallAt(q, "idle"), installer[q].alone
  PROVE  p = q
BY DEF AloneKnown, Installing

LEMMA FilesKept ==
  ASSUME NEW q \in Installers, FilesOf(q), UNCHANGED <<keyFiles, conf>>, dirty => dirty',
         installer'[q].at = installer[q].at, installer'[q].build = installer[q].build,
         installer'[q].previous = installer[q].previous, installer'[q].left = installer[q].left
  PROVE  FilesOf(q)'
BY DEF FilesOf, InstallAt, New, Old, ConfIs, Written

(* The other installs of a step of p are not alone, and neither is p beside *)
(* them.                                                                   *)
LEMMA FilesOfOne ==
  ASSUME InstallTypeOK, AloneKnown, NEW p \in Installers, ~InstallAt(p, "idle"),
         ~InstallAt(p, "idle")',
         \A q \in Installers : q # p => installer'[q] = installer[q],
         installer[p].alone => installer'[p].alone,
         installer'[p].alone => FilesOf(p)'
  PROVE  FilesKnown'
<1>1. p \in Installing'
  BY DEF Installing
<1>2. FilesAtRest'
  BY <1>1 DEF FilesAtRest
<1>3. ASSUME NEW q \in Installers, ~InstallAt(q, "idle")', installer'[q].alone PROVE q = p
  BY <1>3, AloneMeansOnly DEF InstallAt
<1> QED BY <1>2, <1>3 DEF FilesKnown

LEMMA FilesAfterEnd ==
  ASSUME InstallTypeOK, AloneKnown, NEW p \in Installers, ~InstallAt(p, "idle"),
         installer' = [installer EXCEPT ![p] = NotInstalling], FilesAtRest'
  PROVE  FilesKnown'
<1>1. /\ installer'[p].at = "idle"
      /\ \A q \in Installers : q # p => installer'[q] = installer[q]
  BY InstallEnds
<1>2. ASSUME NEW q \in Installers, ~InstallAt(q, "idle")', installer'[q].alone PROVE FALSE
  <2>1. q # p /\ installer'[q] = installer[q]
    BY <1>1, <1>2 DEF InstallAt
  <2> QED BY <1>2, <2>1, AloneMeansOnly DEF InstallAt
<1> QED BY <1>2 DEF FilesKnown

LEMMA FilesHeld ==
  ASSUME InstallTypeOK, AloneKnown, FilesKnown, InstallNext PROVE FilesKnown'
<1>1. ASSUME NEW p \in Installers, NEW b \in DOMAIN Ships, BeginInstall(p, b) PROVE FilesKnown'
  <2>1. PICK t \in BOOLEAN : t = (Installing = {})
    OBVIOUS
  <2>2. installer' = [q \in Installers |->
          IF q = p THEN [at |-> "write", build |-> b, previous |-> installed,
                         left |-> DOMAIN Ships[b], alone |-> t, met |-> FALSE]
          ELSE [installer[q] EXCEPT !.alone = FALSE]]
    BY <1>1, <2>1 DEF BeginInstall
  <2>3. /\ installer'[p].at = "write" /\ installer'[p].alone = t /\ installer'[p].previous = installed
        /\ installer'[p].build = b /\ installer'[p].left = DOMAIN Ships[b]
        /\ \A q \in Installers : q # p => ~installer'[q].alone
    BY <2>2 DEF InstallTypeOK, AnInstaller
  <2>4. UNCHANGED <<keyFiles, conf, installed>> /\ dirty' = (dirty \/ Installing # {})
    BY <1>1 DEF BeginInstall
  <2>5. FilesAtRest'
    BY <2>3 DEF FilesAtRest, Installing, InstallAt
  <2>6. ASSUME t PROVE FilesOf(p)'
    <3>1. ~dirty' => /\ ConfIs(installed)
                     /\ installed # Missing => \A f \in DOMAIN installed : keyFiles[f] = installed[f]
      BY <2>1, <2>4, <2>6 DEF FilesKnown, FilesAtRest
    <3> QED BY <2>3, <2>4, <3>1 DEF FilesOf, InstallAt, New, Old, ConfIs, Written
  <2> QED BY <2>3, <2>5, <2>6 DEF FilesKnown
<1>2. ASSUME NEW p \in Installers, NEW f \in Fragments, WriteFragment(p, f) PROVE FilesKnown'
  <2>1. /\ InstallAt(p, "write") /\ f \in installer[p].left /\ UNCHANGED <<conf, dirty>>
        /\ keyFiles' = [keyFiles EXCEPT ![f] = New(p)[f]]
        /\ installer' = [installer EXCEPT ![p].left = @ \ {f}]
    BY <1>2 DEF WriteFragment, New
  <2>2. /\ installer'[p].at = "write" /\ installer'[p].alone = installer[p].alone
        /\ installer'[p].previous = installer[p].previous /\ installer'[p].build = installer[p].build
        /\ installer'[p].left = installer[p].left \ {f}
        /\ \A q \in Installers : q # p => installer'[q] = installer[q]
    BY <2>1 DEF InstallTypeOK, AnInstaller, InstallAt
  <2>3. f \in DOMAIN New(p)
    BY <2>1 DEF InstallTypeOK
  <2>4. keyFiles'[f] = New(p)[f] /\ \A g \in Fragments : g # f => keyFiles'[g] = keyFiles[g]
    BY <2>1 DEF InstallTypeOK
  <2>5. DOMAIN New(p) \subseteq Fragments /\ (Old(p) # Missing => DOMAIN Old(p) \subseteq Fragments)
    BY NewIsShipped, BuildsHoldTexts DEF InstallTypeOK, AnInstaller, Old
  <2>6. ASSUME installer[p].alone PROVE FilesOf(p)'
    <3>1. FilesOf(p)
      BY <2>1, <2>6 DEF FilesKnown, InstallAt
    <3>2. New(p)' = New(p) /\ Old(p)' = Old(p) /\ InstallAt(p, "write")'
      BY <2>2 DEF New, Old, InstallAt
    <3>3. \A g \in DOMAIN New(p) \ installer'[p].left : keyFiles'[g] = New(p)[g]
      BY <2>1, <2>2, <2>4, <2>5, <3>1 DEF FilesOf, Written
    <3>4. ASSUME ~dirty'
          PROVE  /\ ConfIs(Old(p))
                 /\ Old(p) # Missing =>
                      \A g \in DOMAIN Old(p) :
                        keyFiles'[g] = Old(p)[g] \/ (g \in DOMAIN New(p) /\ keyFiles'[g] = New(p)[g])
      BY <2>1, <2>3, <2>4, <2>5, <3>1, <3>4 DEF FilesOf, Written
    <3> QED BY <2>1, <2>2, <3>2, <3>3, <3>4 DEF FilesOf, Written, ConfIs, InstallAt
  <2> QED BY <2>1, <2>2, <2>6, FilesOfOne DEF InstallAt
<1>3. ASSUME NEW p \in Installers, PruneFragments(p) PROVE FilesKnown'
  <2>1. /\ InstallAt(p, "write") /\ installer[p].left = {} /\ UNCHANGED <<conf, dirty>>
        /\ keyFiles' = [f \in Fragments |-> IF f \in DOMAIN New(p) THEN keyFiles[f] ELSE Missing]
        /\ InstallTo(p, "conf")
    BY <1>3 DEF PruneFragments, New
  <2>2. /\ installer'[p].at = "conf" /\ installer'[p].alone = installer[p].alone
        /\ installer'[p].previous = installer[p].previous /\ installer'[p].build = installer[p].build
        /\ \A q \in Installers : q # p => installer'[q] = installer[q]
    BY <2>1, InstallMoves DEF InstallPlaces
  <2>3. DOMAIN New(p) \subseteq Fragments
    BY NewIsShipped, BuildsHoldTexts
  <2>4. ASSUME installer[p].alone PROVE FilesOf(p)'
    <3>1. FilesOf(p)
      BY <2>1, <2>4 DEF FilesKnown, InstallAt
    <3>2. New(p)' = New(p) /\ Old(p)' = Old(p)
      BY <2>2 DEF New, Old
    <3>3. \A f \in DOMAIN New(p) : keyFiles'[f] = New(p)[f]
      BY <2>1, <2>3, <3>1 DEF FilesOf, Written
    <3>4. \A f \in Fragments \ DOMAIN New(p) : keyFiles'[f] = Missing
      BY <2>1
    <3> QED BY <2>1, <2>2, <3>1, <3>2, <3>3, <3>4 DEF FilesOf, Written, ConfIs, InstallAt
  <2> QED BY <2>1, <2>2, <2>4, FilesOfOne DEF InstallAt
<1>4. ASSUME NEW p \in Installers, WriteConf(p) PROVE FilesKnown'
  <2>1. /\ InstallAt(p, "conf") /\ UNCHANGED <<keyFiles, dirty>> /\ conf' = DOMAIN New(p)
        /\ InstallTo(p, "list")
    BY <1>4 DEF WriteConf, New
  <2>2. /\ installer'[p].at = "list" /\ installer'[p].alone = installer[p].alone
        /\ installer'[p].previous = installer[p].previous /\ installer'[p].build = installer[p].build
        /\ \A q \in Installers : q # p => installer'[q] = installer[q]
    BY <2>1, InstallMoves DEF InstallPlaces
  <2>3. ASSUME installer[p].alone PROVE FilesOf(p)'
    <3>1. FilesOf(p)
      BY <2>1, <2>3 DEF FilesKnown, InstallAt
    <3> QED BY <2>1, <2>2, <3>1 DEF FilesOf, Written, New, InstallAt
  <2> QED BY <2>1, <2>2, <2>3, FilesOfOne DEF InstallAt
<1>5. ASSUME NEW p \in Installers,
             ListSessions(p) \/ UndoDropped(p) \/ (SourceConf(p) /\ server.up)
      PROVE  FilesKnown'
  <2>1. /\ installer[p].at \in {"list", "drop", "source"} /\ UNCHANGED <<keyFiles, conf, dirty>>
        /\ \E place \in {"drop", "source", "record"} : InstallTo(p, place)
    BY <1>5 DEF ListSessions, UndoDropped, SourceConf, InstallAt
  <2>2. PICK place \in {"drop", "source", "record"} : InstallTo(p, place)
    BY <2>1
  <2>3. /\ installer'[p].at = place /\ installer'[p].alone = installer[p].alone
        /\ installer'[p].previous = installer[p].previous /\ installer'[p].build = installer[p].build
        /\ \A q \in Installers : q # p => installer'[q] = installer[q]
    BY <2>2, InstallMoves DEF InstallPlaces
  <2>4. ASSUME installer[p].alone PROVE FilesOf(p)'
    <3>1. FilesOf(p)
      BY <2>1, <2>4 DEF FilesKnown, InstallAt
    <3> QED BY <2>1, <2>3, <3>1 DEF FilesOf, Written, New, InstallAt
  <2> QED BY <2>1, <2>3, <2>4, FilesOfOne DEF InstallAt
<1>6. ASSUME NEW p \in Installers,
             (SourceConf(p) /\ ~server.up) \/ SourceFails(p) \/ InstallDies(p)
      PROVE  FilesKnown'
  <2>1. /\ ~InstallAt(p, "idle") /\ dirty' = TRUE
        /\ installer' = [installer EXCEPT ![p] = NotInstalling]
    BY <1>6 DEF SourceConf, SourceFails, InstallDies, InstallAt, Installing
  <2>2. FilesAtRest'
    BY <2>1 DEF FilesAtRest
  <2> QED BY <2>1, <2>2, FilesAfterEnd
<1>7. ASSUME NEW p \in Installers, WriteInstalled(p) PROVE FilesKnown'
  <2>1. /\ InstallAt(p, "record") /\ dirty' = ~installer[p].alone /\ installed' = New(p)
        /\ installer' = [installer EXCEPT ![p] = NotInstalling] /\ UNCHANGED <<keyFiles, conf>>
    BY <1>7 DEF WriteInstalled, New
  <2>2. ASSUME installer[p].alone
        PROVE  conf = DOMAIN New(p) /\ \A f \in DOMAIN New(p) : keyFiles[f] = New(p)[f]
    BY <2>1, <2>2 DEF FilesKnown, FilesOf, Written, InstallAt
  <2>3. New(p) # Missing
    BY NewIsShipped, BuildsHoldTexts
  <2>4. FilesAtRest'
    BY <2>1, <2>2, <2>3 DEF FilesAtRest, ConfIs
  <2> QED BY <2>1, <2>4, FilesAfterEnd DEF InstallAt
<1>8. CASE ServerStarts \/ ServerExits
  <2>1. /\ UNCHANGED <<keyFiles, conf, installed, dirty>>
        /\ \A q \in Installers :
             /\ installer'[q].at = installer[q].at /\ installer'[q].build = installer[q].build
             /\ installer'[q].previous = installer[q].previous /\ installer'[q].left = installer[q].left
             /\ installer'[q].alone = installer[q].alone
    BY <1>8 DEF ServerStarts, ServerExits, InstallTypeOK, AnInstaller, InstallAt
  <2>2. Installing' = Installing
    BY <2>1 DEF Installing, InstallAt
  <2>3. FilesAtRest'
    BY <2>1, <2>2 DEF FilesKnown, FilesAtRest, ConfIs
  <2>4. ASSUME NEW q \in Installers, ~InstallAt(q, "idle")', installer'[q].alone PROVE FilesOf(q)'
    <3>1. FilesOf(q)
      BY <2>1, <2>4 DEF FilesKnown, InstallAt
    <3> QED BY <2>1, <3>1, FilesKept
  <2> QED BY <2>3, <2>4 DEF FilesKnown
<1> QED BY <1>1, <1>2, <1>3, <1>4, <1>5, <1>6, <1>7, <1>8 DEF InstallNext

-----------------------------------------------------------------------------
(* What the server holds *)

LEMMA DroppedLeavesNew ==
  ASSUME NEW p \in Installers, Old(p) # Missing
  PROVE  (WordsOf(Old(p)) \cup WordsOf(New(p))) \ Dropped(p) \subseteq WordsOf(New(p))
<1>1. Dropped(p) =
        UNION {Old(p)[f] \ (IF f \in DOMAIN New(p) THEN New(p)[f] ELSE {}) : f \in DOMAIN Old(p)}
  BY DEF Dropped, Old, New
<1>2. ASSUME NEW f \in DOMAIN Old(p), NEW w \in Old(p)[f], w \notin Dropped(p)
      PROVE  w \in WordsOf(New(p))
  <2>1. f \in DOMAIN New(p) /\ w \in New(p)[f]
    BY <1>1, <1>2
  <2> QED BY <2>1 DEF WordsOf
<1> QED BY <1>2 DEF WordsOf

(* What a server finds that starts while the files are being written.      *)
LEMMA SourcedUnderway ==
  ASSUME InstallTypeOK, NEW p \in Installers, FilesOf(p), ~dirty, Old(p) # Missing,
         installer[p].at \in {"write", "conf"}
  PROVE  Sourced \subseteq WordsOf(Old(p)) \cup WordsOf(New(p))
<1>1. conf = DOMAIN Old(p)
  BY DEF FilesOf, ConfIs, InstallAt
<1>2. conf \subseteq Fragments /\ conf # Missing
  BY <1>1, BuildsHoldTexts DEF InstallTypeOK, AnInstaller, Old
<1>3. ASSUME NEW f \in conf, keyFiles[f] \notin {Missing, Link}
      PROVE  \/ f \in DOMAIN Old(p) /\ keyFiles[f] = Old(p)[f]
             \/ f \in DOMAIN New(p) /\ keyFiles[f] = New(p)[f]
  <2>1. CASE InstallAt(p, "write")
    BY <1>1, <1>3, <2>1 DEF FilesOf, Written
  <2>2. CASE InstallAt(p, "conf")
    BY <1>2, <1>3, <2>2 DEF FilesOf, Written
  <2> QED BY <2>1, <2>2 DEF InstallAt
<1>4. ASSUME NEW f \in conf, keyFiles[f] \notin {Missing, Link}
      PROVE  keyFiles[f] \subseteq WordsOf(Old(p)) \cup WordsOf(New(p))
  BY <1>3, <1>4 DEF WordsOf
<1> QED BY <1>2, <1>4 DEF Sourced

LEMMA KeysAfterEnd ==
  ASSUME InstallTypeOK, AloneKnown, NEW p \in Installers, ~InstallAt(p, "idle"),
         installer' = [installer EXCEPT ![p] = NotInstalling], KeysAtRest'
  PROVE  KeysKnown'
<1>1. /\ installer'[p].at = "idle"
      /\ \A q \in Installers : q # p => installer'[q] = installer[q]
  BY InstallEnds
<1>2. ASSUME NEW q \in Installers, ~InstallAt(q, "idle")', installer'[q].alone PROVE FALSE
  <2>1. q # p /\ installer'[q] = installer[q]
    BY <1>1, <1>2 DEF InstallAt
  <2> QED BY <1>2, <2>1, AloneMeansOnly DEF InstallAt
<1> QED BY <1>2 DEF KeysKnown

LEMMA KeysOfOne ==
  ASSUME InstallTypeOK, AloneKnown, NEW p \in Installers, ~InstallAt(p, "idle"),
         \A q \in Installers : q # p => installer'[q] = installer[q],
         installer'[p].alone => installer[p].alone,
         server'.up /\ ~tainted' /\ installer[p].alone => KeysOf(p)',
         KeysAtRest'
  PROVE  KeysKnown'
<1>1. ASSUME NEW q \in Installers, ~InstallAt(q, "idle")', installer'[q].alone PROVE q = p
  BY <1>1, AloneMeansOnly DEF InstallAt
<1> QED BY <1>1 DEF KeysKnown

LEMMA KeysHeld ==
  ASSUME InstallTypeOK, AloneKnown, FilesKnown, KeysKnown, InstallNext PROVE KeysKnown'
<1>1. ASSUME NEW p \in Installers, NEW b \in DOMAIN Ships, BeginInstall(p, b) PROVE KeysKnown'
  <2>1. PICK t \in BOOLEAN : t = (Installing = {})
    OBVIOUS
  <2>2. installer' = [q \in Installers |->
          IF q = p THEN [at |-> "write", build |-> b, previous |-> installed,
                         left |-> DOMAIN Ships[b], alone |-> t, met |-> FALSE]
          ELSE [installer[q] EXCEPT !.alone = FALSE]]
    BY <1>1, <2>1 DEF BeginInstall
  <2>3. /\ installer'[p].at = "write" /\ installer'[p].alone = t /\ installer'[p].previous = installed
        /\ \A q \in Installers : q # p => /\ ~installer'[q].alone /\ installer'[q].at = installer[q].at
                                          /\ installer'[q].met = installer[q].met
    BY <2>2 DEF InstallTypeOK, AnInstaller
  <2>4. UNCHANGED <<server, tainted, installed>> /\ InstallAt(p, "idle")
    BY <1>1 DEF BeginInstall
  <2>5. KeysAtRest'
    BY <2>3, <2>4 DEF KeysKnown, KeysAtRest, Untouched, InstallAt
  <2>6. ASSUME t, server.up, ~tainted PROVE KeysOf(p)'
    <3>1. \A q \in Installers : InstallAt(q, "idle")
      BY <2>1, <2>6 DEF Installing
    <3>2. installed # Missing => server.bound = WordsOf(installed)
      BY <2>6, <3>1 DEF KeysKnown, KeysAtRest
    <3> QED BY <2>3, <2>4, <3>2 DEF KeysOf, InstallAt, Old
  <2> QED BY <2>3, <2>4, <2>5, <2>6 DEF KeysKnown
<1>2. ASSUME NEW p \in Installers,
             \/ \E f \in Fragments : WriteFragment(p, f)
             \/ PruneFragments(p) \/ WriteConf(p)
      PROVE  KeysKnown'
  <2>1. /\ UNCHANGED <<server, tainted, installed>> /\ installer[p].at \in {"write", "conf"}
        /\ \/ \E f \in Fragments : installer' = [installer EXCEPT ![p].left = @ \ {f}]
           \/ \E place \in {"conf", "list"} : InstallTo(p, place)
    BY <1>2 DEF WriteFragment, PruneFragments, WriteConf, InstallAt
  <2>2. /\ installer'[p].at \in {"write", "conf", "list"} /\ installer'[p].alone = installer[p].alone
        /\ installer'[p].previous = installer[p].previous /\ installer'[p].build = installer[p].build
        /\ installer'[p].met = installer[p].met
        /\ \A q \in Installers : q # p => installer'[q] = installer[q]
    <3>1. CASE \E f \in Fragments : installer' = [installer EXCEPT ![p].left = @ \ {f}]
      BY <2>1, <3>1 DEF InstallTypeOK, AnInstaller
    <3>2. CASE \E place \in {"conf", "list"} : InstallTo(p, place)
      <4>1. PICK place \in {"conf", "list"} : InstallTo(p, place)
        BY <3>2
      <4> QED BY <4>1, InstallMoves DEF InstallPlaces
    <3> QED BY <2>1, <3>1, <3>2
  <2>3. KeysAtRest'
    BY <2>1, <2>2 DEF KeysKnown, KeysAtRest, Untouched, InstallAt
  <2>4. ASSUME server'.up, ~tainted', installer[p].alone PROVE KeysOf(p)'
    <3>1. KeysOf(p)
      BY <2>1, <2>4 DEF KeysKnown, InstallAt
    <3> QED BY <2>1, <2>2, <3>1 DEF KeysOf, InstallAt, New, Old
  <2> QED BY <2>1, <2>2, <2>3, <2>4, KeysOfOne DEF InstallAt
<1>3. ASSUME NEW p \in Installers, ListSessions(p) PROVE KeysKnown'
  <2>1. /\ InstallAt(p, "list") /\ UNCHANGED <<server, installed>>
        /\ tainted' = (tainted \/ (server.up /\ Old(p) = Missing))
        /\ server.up => InstallTo(p, "drop")
    BY <1>3 DEF ListSessions, Old
  <2>2. CASE ~server.up
    BY <2>1, <2>2 DEF KeysKnown, KeysAtRest
  <2>3. CASE server.up
    <3>1. /\ installer'[p].at = "drop" /\ installer'[p].alone = installer[p].alone
          /\ installer'[p].previous = installer[p].previous /\ installer'[p].build = installer[p].build
          /\ installer'[p].met = installer[p].met
          /\ \A q \in Installers : q # p => installer'[q] = installer[q]
      BY <2>1, <2>3, InstallMoves DEF InstallPlaces
    <3>2. KeysAtRest'
      BY <2>1, <3>1 DEF KeysKnown, KeysAtRest, Untouched, InstallAt
    <3>3. ASSUME ~tainted', installer[p].alone PROVE KeysOf(p)'
      <4>1. Old(p) # Missing /\ ~tainted
        BY <2>1, <2>3, <3>3
      <4>2. server.bound \subseteq WordsOf(Old(p)) \cup WordsOf(New(p))
        BY <2>1, <2>3, <3>3, <4>1 DEF KeysKnown, KeysOf, InstallAt
      <4>3. server.bound \ Dropped(p) \subseteq WordsOf(New(p))
        BY <4>1, <4>2, DroppedLeavesNew
      <4>4. Dropped(p)' = Dropped(p) /\ New(p)' = New(p)
        BY <3>1 DEF Dropped, New
      <4> QED BY <2>1, <3>1, <4>3, <4>4 DEF KeysOf, InstallAt
    <3> QED BY <2>1, <2>3, <3>1, <3>2, <3>3, KeysOfOne DEF InstallAt
  <2> QED BY <2>2, <2>3
<1>4. ASSUME NEW p \in Installers, UndoDropped(p) PROVE KeysKnown'
  <2>1. /\ InstallAt(p, "drop") /\ UNCHANGED <<tainted, installed>> /\ InstallTo(p, "source")
        /\ server' = [server EXCEPT !.bound = @ \ Dropped(p)]
    BY <1>4 DEF UndoDropped
  <2>2. /\ installer'[p].at = "source" /\ installer'[p].alone = installer[p].alone
        /\ installer'[p].build = installer[p].build
        /\ \A q \in Installers : q # p => installer'[q] = installer[q]
    BY <2>1, InstallMoves DEF InstallPlaces
  <2>3. server'.up = server.up /\ server'.bound = server.bound \ Dropped(p)
    BY <2>1 DEF InstallTypeOK
  <2>4. KeysAtRest'
    BY <2>2 DEF KeysAtRest, Untouched, InstallAt
  <2>5. ASSUME server'.up, ~tainted', installer[p].alone PROVE KeysOf(p)'
    <3>1. server.bound \ Dropped(p) \subseteq WordsOf(New(p))
      BY <2>1, <2>3, <2>5 DEF KeysKnown, KeysOf, InstallAt
    <3> QED BY <2>2, <2>3, <3>1 DEF KeysOf, InstallAt, New
  <2> QED BY <2>1, <2>2, <2>4, <2>5, KeysOfOne DEF InstallAt
<1>5. ASSUME NEW p \in Installers, SourceConf(p) PROVE KeysKnown'
  <2>1. CASE ~server.up
    BY <1>5, <2>1 DEF SourceConf, KeysKnown, KeysAtRest
  <2>2. CASE server.up
    <3>1. /\ InstallAt(p, "source") /\ UNCHANGED <<tainted, installed>> /\ InstallTo(p, "record")
          /\ server' = [server EXCEPT !.bound = @ \cup Sourced]
      BY <1>5, <2>2 DEF SourceConf
    <3>2. /\ installer'[p].at = "record" /\ installer'[p].alone = installer[p].alone
          /\ installer'[p].build = installer[p].build
          /\ \A q \in Installers : q # p => installer'[q] = installer[q]
      BY <3>1, InstallMoves DEF InstallPlaces
    <3>3. server'.up = server.up /\ server'.bound = server.bound \cup Sourced
      BY <3>1 DEF InstallTypeOK
    <3>4. KeysAtRest'
      BY <3>2 DEF KeysAtRest, Untouched, InstallAt
    <3>5. ASSUME ~tainted', installer[p].alone PROVE KeysOf(p)'
      <4>1. server.bound \subseteq WordsOf(New(p))
        BY <2>2, <3>1, <3>5 DEF KeysKnown, KeysOf, InstallAt
      <4>2. conf = DOMAIN New(p) /\ \A f \in DOMAIN New(p) : keyFiles[f] = New(p)[f]
        BY <3>1, <3>5 DEF FilesKnown, FilesOf, Written, InstallAt
      <4>3. Sourced = WordsOf(New(p))
        BY <4>2, NewIsShipped, SourcedIsShipped
      <4> QED BY <3>2, <3>3, <4>1, <4>3 DEF KeysOf, InstallAt, New
    <3> QED BY <3>1, <3>2, <3>4, <3>5, KeysOfOne DEF InstallAt
  <2> QED BY <2>1, <2>2
<1>6. ASSUME NEW p \in Installers, SourceFails(p) PROVE KeysKnown'
  BY <1>6 DEF SourceFails, KeysKnown, KeysAtRest
<1>7. ASSUME NEW p \in Installers, WriteInstalled(p) PROVE KeysKnown'
  <2>1. /\ InstallAt(p, "record") /\ dirty' = ~installer[p].alone /\ installed' = New(p)
        /\ tainted' = (tainted \/ (server.up /\ ~installer[p].alone))
        /\ installer' = [installer EXCEPT ![p] = NotInstalling] /\ UNCHANGED server
    BY <1>7 DEF WriteInstalled, New
  <2>2. ASSUME server.up, ~tainted' PROVE server.bound = WordsOf(New(p))
    BY <2>1, <2>2 DEF KeysKnown, KeysOf, InstallAt
  <2>3. KeysAtRest'
    BY <2>1, <2>2 DEF KeysAtRest
  <2> QED BY <2>1, <2>3, KeysAfterEnd DEF InstallAt
<1>8. ASSUME NEW p \in Installers, InstallDies(p) PROVE KeysKnown'
  <2>1. /\ ~InstallAt(p, "idle") /\ UNCHANGED <<server, installed>>
        /\ tainted' = (tainted \/ (server.up /\ (installer[p].met \/ InstallAt(p, "record")
                                               \/ InstallAt(p, "source"))))
        /\ installer' = [installer EXCEPT ![p] = NotInstalling]
    BY <1>8 DEF InstallDies, Installing
  <2>2. \A q \in Installers : q # p => installer'[q] = installer[q]
    BY <2>1, InstallEnds
  <2>3. server.up /\ ~tainted' => Untouched(p) /\ ~tainted
    BY <2>1 DEF Untouched, InstallAt, InstallTypeOK, AnInstaller, InstallPlaces
  <2>4. KeysAtRest'
    BY <2>1, <2>2, <2>3 DEF KeysKnown, KeysAtRest, Untouched, InstallAt
  <2> QED BY <2>1, <2>4, KeysAfterEnd
<1>9. CASE ServerStarts
  <2>1. /\ server' = [up |-> TRUE, bound |-> Sourced] /\ tainted' = dirty /\ UNCHANGED installed
        /\ \A q \in Installers :
             /\ installer'[q].at = installer[q].at /\ installer'[q].build = installer[q].build
             /\ installer'[q].previous = installer[q].previous
             /\ installer'[q].alone = installer[q].alone
             /\ installer'[q].met = ~InstallAt(q, "idle")
    BY <1>9 DEF ServerStarts, InstallTypeOK, AnInstaller, InstallAt
  <2>2. server'.bound = Sourced
    BY <2>1
  <2>3. KeysAtRest'
    <3>1. ASSUME ~dirty, installed # Missing, \A q \in Installers : InstallAt(q, "idle")
          PROVE  Sourced = WordsOf(installed)
      <4>1. installed \in Builds /\ conf = DOMAIN installed
        BY <3>1 DEF FilesKnown, FilesAtRest, Installing, ConfIs, InstallTypeOK
      <4>2. \A f \in DOMAIN installed : keyFiles[f] = installed[f]
        BY <3>1 DEF FilesKnown, FilesAtRest, Installing
      <4> QED BY <4>1, <4>2, SourcedIsShipped
    <3>2. \A q \in Installers : InstallAt(q, "idle")' \/ Untouched(q)' => InstallAt(q, "idle")
      BY <2>1 DEF Untouched, InstallAt
    <3> QED BY <2>1, <2>2, <3>1, <3>2 DEF KeysAtRest
  <2>4. ASSUME ~tainted', NEW q \in Installers, ~InstallAt(q, "idle")', installer'[q].alone
        PROVE  KeysOf(q)'
    <3>1. FilesOf(q) /\ ~dirty
      BY <2>1, <2>4 DEF FilesKnown, InstallAt
    <3>2. New(q)' = New(q) /\ Old(q)' = Old(q) /\ Dropped(q)' = Dropped(q)
      BY <2>1, ZenonT(60) DEF New, Old, Dropped
    <3>3. installer[q].at \in {"write", "conf"} /\ Old(q) # Missing =>
            Sourced \subseteq WordsOf(Old(q)) \cup WordsOf(New(q))
      BY <3>1, SourcedUnderway
    <3>4. installer[q].at \in {"list", "drop", "source", "record"} => Sourced = WordsOf(New(q))
      BY <3>1, NewIsShipped, SourcedIsShipped DEF FilesOf, Written
    <3> QED BY <2>1, <2>2, <3>2, <3>3, <3>4 DEF KeysOf, InstallAt
  <2> QED BY <2>3, <2>4 DEF KeysKnown
<1>10. CASE ServerExits
  BY <1>10 DEF ServerExits, KeysKnown, KeysAtRest
<1> QED BY <1>1, <1>2, <1>3, <1>4, <1>5, <1>6, <1>7, <1>8, <1>9, <1>10 DEF InstallNext

-----------------------------------------------------------------------------
(* What an install leaves is exact, however many installs, failures and    *)
(* servers there are: the inductive invariant of install.                  *)
THEOREM InstallInvariance == InstallSpec => []InstallInv
<1>1. InstallInit => InstallInv
  <2> SUFFICES ASSUME InstallInit PROVE InstallInv
    OBVIOUS
  <2>1. \A p \in Installers : installer[p] = NotInstalling
    BY DEF InstallInit
  <2>2. InstallTypeOK
    BY <2>1, IdleIsTyped DEF InstallInit, InstallTypeOK, InstallAt
  <2>3. AloneKnown /\ Installing = {}
    BY <2>1, IdleIsTyped DEF AloneKnown, InstallAt, Installing
  <2>4. FilesKnown
    BY <2>1, IdleIsTyped DEF InstallInit, FilesKnown, FilesAtRest, ConfIs, InstallAt
  <2>5. KeysKnown
    BY DEF InstallInit, KeysKnown, KeysAtRest
  <2> QED BY <2>2, <2>3, <2>4, <2>5 DEF InstallInv
<1>2. InstallInv /\ [InstallNext]_installVars => InstallInv'
  <2> SUFFICES ASSUME InstallInv, [InstallNext]_installVars PROVE InstallInv'
    OBVIOUS
  <2>1. CASE InstallNext
    BY <2>1, InstallTyped, AloneHolds, FilesHeld, KeysHeld DEF InstallInv
  <2>2. CASE UNCHANGED installVars
    <3>1. InstallTypeOK' /\ AloneKnown'
      BY <2>2 DEF installVars, InstallInv, InstallTypeOK, AloneKnown, InstallAt, Installing, New, Old
    <3>2. FilesKnown'
      BY <2>2 DEF installVars, InstallInv, FilesKnown, FilesAtRest, FilesOf, ConfIs, Written,
                  InstallAt, Installing, New, Old
    <3>3. KeysKnown'
      BY <2>2 DEF installVars, InstallInv, KeysKnown, KeysAtRest, KeysOf, Untouched, Dropped,
                  InstallAt, New, Old
    <3> QED BY <3>1, <3>2, <3>3 DEF InstallInv
  <2> QED BY <2>1, <2>2
<1> QED BY <1>1, <1>2, PTL DEF InstallSpec

(* Between installs a running server holds the words of the last recorded  *)
(* install and no others, and no file of the operator's is written through *)
(* a link (install, dropped, materialise).                                 *)
THEOREM KeysAreRecorded == InstallSpec => []KeysAreTheRecorded
<1>1. InstallInv => KeysAreTheRecorded
  <2> SUFFICES ASSUME InstallInv PROVE KeysAreTheRecorded
    OBVIOUS
  <2>1. ASSUME server.up, ~tainted, Installing = {}, installed # Missing
        PROVE  server.bound = WordsOf(installed)
    BY <2>1 DEF InstallInv, KeysKnown, KeysAtRest, Installing
  <2> QED BY <2>1 DEF InstallInv, InstallTypeOK, KeysAreTheRecorded
<1> QED BY <1>1, InstallInvariance, PTL

-----------------------------------------------------------------------------
(* Views and nested clients                                                *)

ViewPlaces == {"idle", "create", "options", "guard", "kill", "rename", "next"}
TmuxSession ==
  [uid : Nat, agent : ViewAgents \cup {Nobody}, marked : BOOLEAN, kind : BOOLEAN,
   parent : ViewAgents \cup {Nobody}, owner : ViewAgents \cup {Nobody}, strange : BOOLEAN]
Listing == [name : SessionNames, uid : 0 .. uids, parent : ViewAgents \cup {Nobody}]
ViewVerb ==
  [at : ViewPlaces, name : SessionNames \cup {Nobody}, new : SessionNames \cup {Nobody},
   parent : ViewAgents \cup {Nobody}, set : Seq({"view", "kind", "parent"}),
   left : SUBSET Listing, uid : 0 .. uids, fresh : BOOLEAN, over : BOOLEAN]

ViewsTypeOK ==
  /\ uids \in Nat
  /\ tmux \in [SessionNames -> TmuxSession]
  /\ launching \in [ViewAgents -> SessionNames \cup {Nobody}]
  /\ \A n \in SessionNames : Exists(n) => tmux[n].uid \in 1 .. uids
  /\ verb \in [ViewActors -> ViewVerb]
  /\ \A p \in ViewActors : verb[p].at \notin {"idle", "next"} => verb[p].name \in SessionNames

(* The session of a launch was marked by an open that had made another one. *)
LaunchedIsNoView ==
  \A n \in SessionNames : tmux[n].owner # Nobody /\ tmux[n].marked => tmux[n].strange

(* An open has made a session before it sets any option, and none of a     *)
(* launch.                                                                 *)
Opened ==
  \A p \in ViewActors : VerbAt(p, "options") =>
    /\ verb[p].uid # 0
    /\ \A n \in SessionNames : tmux[n].uid = verb[p].uid => tmux[n].owner = Nobody

(* No two names have one session.                                          *)
OneName ==
  \A m, n \in SessionNames : Exists(m) /\ tmux[m].uid = tmux[n].uid => m = n

(* The session a verb is about to kill or rename is still a view, under    *)
(* whatever name, and had no @tx-id when the verb judged it.               *)
JudgedIsView(p) ==
  verb[p].at \in {"kill", "rename"} =>
    /\ verb[p].fresh
    /\ \A n \in SessionNames : Exists(n) /\ tmux[n].uid = verb[p].uid => tmux[n].marked

(* What clients show and run in, and when each was last active.            *)
ViewClient ==
  [on : SessionNames \cup {Nobody}, shows : SessionNames \cup {Nobody}, active : 0 .. turns]
ClientsTypeOK == turns \in Nat /\ clients \in [ViewClients -> ViewClient]

ViewsInv ==
  /\ ViewsTypeOK
  /\ OneName
  /\ Opened
  /\ LaunchedIsNoView
  /\ \A p \in ViewActors : JudgedIsView(p)
  /\ OnlyViewsClose
  /\ ClientsTypeOK

-----------------------------------------------------------------------------
(* What a step does to the sessions, and to the verbs                      *)

(* A session of this uid is new; one that changes stays what it was to the *)
(* guard; one ends; one gets another name.                                 *)
SessionsStep ==
  \/ uids' = uids /\ tmux' = tmux
  \/ \E n \in SessionNames, s \in TmuxSession :
       /\ ~Exists(n) /\ uids' = uids + 1 /\ s.uid = uids + 1 /\ ~s.marked
       /\ tmux' = [tmux EXCEPT ![n] = s]
  \/ \E n \in SessionNames, s \in TmuxSession :
       /\ Exists(n) /\ uids' = uids /\ s.uid = tmux[n].uid
       /\ s.owner = tmux[n].owner
       /\ tmux[n].marked => s.marked
       /\ tmux[n].strange => s.strange
       /\ s.marked /\ ~tmux[n].marked => s.strange \/ s.owner = Nobody
       /\ tmux' = [tmux EXCEPT ![n] = s]
  \/ \E n \in SessionNames : uids' = uids /\ tmux' = [tmux EXCEPT ![n] = NoSession]
  \/ \E n, m \in SessionNames :
       /\ Exists(n) /\ ~Exists(m) /\ uids' = uids
       /\ tmux' = [tmux EXCEPT ![m] = tmux[n], ![n] = NoSession]

(* A verb that goes on to the kill has just judged the session of the name *)
(* it kills, or knows that it is not the one it was to close; an open that *)
(* sets options has made a session, now or before.                         *)
VerbStep(p) ==
  \E v \in ViewVerb' :
    /\ verb' = [verb EXCEPT ![p] = v]
    /\ v.at \notin {"idle", "next"} => v.name \in SessionNames
    /\ v.at \in {"kill", "rename"} =>
         /\ tmux' = tmux /\ uids' = uids /\ v.fresh
         /\ v.uid = 0 \/ (Guard(v.name) /\ v.uid = tmux[v.name].uid)
    /\ v.at = "options" =>
         \/ verb[p].at = "options" /\ v.uid = verb[p].uid
         \/ /\ v.uid = uids + 1 /\ uids' = uids + 1
            /\ \A n \in SessionNames : tmux'[n].uid = v.uid => tmux'[n].owner = Nobody
VerbsStep == UNCHANGED verb \/ \E p \in ViewActors : VerbStep(p)

LEMMA NoSessionTyped ==
  /\ NoSession \in TmuxSession /\ NoSession.uid = 0
  /\ ~NoSession.marked /\ NoSession.owner = Nobody
BY DEF NoSession, TmuxSession

LEMMA NoVerbTyped ==
  ASSUME uids \in Nat
  PROVE  NoVerb \in ViewVerb /\ NoVerb.at = "idle"
BY DEF NoVerb, ViewVerb, ViewPlaces

LEMMA SessionsSteps ==
  ASSUME ViewsTypeOK, Opened, ViewsNext
  PROVE  SessionsStep
<1> USE NoSessionTyped
<1>0. uids \in Nat
  BY DEF ViewsTypeOK
<1>1. ASSUME NEW p \in ViewActors, NEW n \in SessionNames, NEW a \in ViewAgents \cup {Nobody}, BeginOpen(p, n, a)
      PROVE  SessionsStep
  BY <1>1 DEF BeginOpen, BeginVerb, SessionsStep
<1>2. ASSUME NEW p \in ViewActors, NEW n \in SessionNames, BeginClose(p, n)
      PROVE  SessionsStep
  BY <1>2 DEF BeginClose, BeginVerb, SessionsStep
<1>3. ASSUME NEW p \in ViewActors, NEW n \in SessionNames, NEW m \in SessionNames, BeginRename(p, n, m)
      PROVE  SessionsStep
  BY <1>3 DEF BeginRename, BeginVerb, SessionsStep
<1>4. ASSUME NEW p \in ViewActors, BeginLs(p) \/ EndLs(p) \/ GuardView(p)
      PROVE  SessionsStep
  BY <1>4 DEF BeginLs, BeginVerb, EndLs, GuardView, viewBounds, SessionsStep
<1>5. ASSUME NEW p \in ViewActors, NEW l \in verb[p].left, JudgeParent(p, l)
      PROVE  SessionsStep
  BY <1>5 DEF JudgeParent, viewBounds, SessionsStep
<1>6. ASSUME NEW p \in ViewActors, CreateSession(p)
      PROVE  SessionsStep
  <2>1. CASE Exists(verb[p].name)
    BY <1>6, <2>1 DEF CreateSession, SessionsStep
  <2>2. CASE ~Exists(verb[p].name)
    <3> DEFINE s == [NoSession EXCEPT !.uid = uids + 1]
    <3>1. verb[p].name \in SessionNames
      BY <1>6 DEF CreateSession, VerbAt, ViewsTypeOK
    <3>2. s \in TmuxSession /\ s.uid = uids + 1 /\ ~s.marked
      BY <1>0 DEF TmuxSession
    <3>3. uids' = uids + 1 /\ tmux' = [tmux EXCEPT ![verb[p].name] = s]
      BY <1>6, <2>2 DEF CreateSession
    <3> QED BY <2>2, <3>1, <3>2, <3>3 DEF SessionsStep
  <2> QED BY <2>1, <2>2
<1>7. ASSUME NEW p \in ViewActors, SetOption(p)
      PROVE  SessionsStep
  <2> DEFINE v == verb[p]  s == tmux[v.name]
  <2>1. CASE v.set = <<>> \/ ~Exists(v.name)
    BY <1>7, <2>1 DEF SetOption, viewBounds, SessionsStep
  <2>2. CASE v.set # <<>> /\ Exists(v.name)
    <3>1. v \in ViewVerb /\ v.name \in SessionNames /\ s \in TmuxSession
      BY <1>7 DEF SetOption, VerbAt, ViewsTypeOK
    <3>2. Head(v.set) \in {"view", "kind", "parent"}
      BY <3>1, <2>2 DEF ViewVerb
    <3>3. PICK t : /\ tmux' = [tmux EXCEPT ![v.name] = t]
                   /\ t = CASE Head(v.set) = "view" ->
                              [s EXCEPT !.marked = TRUE, !.strange = @ \/ v.uid \notin {0, s.uid}]
                            [] Head(v.set) = "kind" -> [s EXCEPT !.kind = TRUE]
                            [] Head(v.set) = "parent" -> [s EXCEPT !.parent = v.parent]
      BY <1>7, <2>2 DEF SetOption
    <3>4. v.parent \in ViewAgents \cup {Nobody}
      BY <3>1 DEF ViewVerb
    <3>5. /\ t \in TmuxSession /\ t.uid = s.uid /\ t.owner = s.owner
          /\ s.marked => t.marked
          /\ s.strange => t.strange
          /\ t.marked /\ ~s.marked => t.strange \/ t.owner = Nobody
      <4>1. CASE Head(v.set) = "view"
        <5>1. t = [s EXCEPT !.marked = TRUE, !.strange = @ \/ v.uid \notin {0, s.uid}]
          BY <3>3, <4>1
        <5>2. v.uid # 0 /\ (v.uid = s.uid => s.owner = Nobody)
          BY <1>7, <3>1 DEF SetOption, Opened, VerbAt
        <5> QED BY <3>1, <5>1, <5>2 DEF TmuxSession
      <4>2. CASE Head(v.set) = "kind"
        BY <3>1, <3>3, <4>2 DEF TmuxSession
      <4>3. CASE Head(v.set) = "parent"
        BY <3>1, <3>3, <3>4, <4>3 DEF TmuxSession
      <4> QED BY <3>2, <4>1, <4>2, <4>3
    <3>6. uids' = uids
      BY <1>7 DEF SetOption, viewBounds
    <3> QED BY <2>2, <3>1, <3>3, <3>5, <3>6 DEF SessionsStep
  <2> QED BY <2>1, <2>2
<1>8. ASSUME NEW p \in ViewActors, KillView(p)
      PROVE  SessionsStep
  <2>1. verb[p].name \in SessionNames
    BY <1>8 DEF KillView, VerbAt, ViewsTypeOK
  <2> QED BY <1>8, <2>1 DEF KillView, Ends, viewBounds, SessionsStep
<1>9. ASSUME NEW p \in ViewActors, RenameView(p)
      PROVE  SessionsStep
  <2> DEFINE v == verb[p]
  <2>1. v.name \in SessionNames /\ v \in ViewVerb
    BY <1>9 DEF RenameView, VerbAt, ViewsTypeOK
  <2>2. CASE ~Exists(v.name) \/ Exists(v.new)
    BY <1>9, <2>2 DEF RenameView, viewBounds, SessionsStep
  <2>3. CASE Exists(v.name) /\ ~Exists(v.new)
    <3>1. /\ uids' = uids
          /\ tmux' = [tmux EXCEPT ![v.new] = tmux[v.name], ![v.name] = NoSession]
      BY <1>9, <2>3 DEF RenameView, viewBounds
    <3>2. CASE v.new \in SessionNames
      BY <2>1, <2>3, <3>1, <3>2 DEF SessionsStep
    <3>3. CASE v.new \notin SessionNames
      <4>1. tmux' = [tmux EXCEPT ![v.name] = NoSession]
        BY <3>1, <3>3 DEF ViewsTypeOK
      <4> QED BY <2>1, <3>1, <4>1 DEF SessionsStep
    <3> QED BY <3>2, <3>3
  <2> QED BY <2>2, <2>3
<1>10. ASSUME NEW n \in SessionNames, NEW a \in ViewAgents, ParentStarts(a, n)
       PROVE  SessionsStep
  <2> DEFINE r == [NoSession EXCEPT !.uid = uids + 1]  s == [r EXCEPT !.owner = a]
  <2>0. r \in TmuxSession /\ r.uid = uids + 1 /\ ~r.marked
    BY <1>0 DEF TmuxSession
  <2>1. s \in TmuxSession /\ s.uid = uids + 1 /\ ~s.marked
    <3> HIDE DEF r
    <3> QED BY <2>0 DEF TmuxSession
  <2>2. ~Exists(n) /\ uids' = uids + 1 /\ tmux' = [tmux EXCEPT ![n] = s]
    BY <1>10 DEF ParentStarts
  <2> QED BY <2>1, <2>2 DEF SessionsStep
<1>11. ASSUME NEW n \in SessionNames, ViewEnds(n)
       PROVE  SessionsStep
  BY <1>11 DEF ViewEnds, Ends, SessionsStep
<1>12. ASSUME NEW n \in SessionNames, NEW c \in ViewClients, NEW on \in SessionNames \cup {Nobody},
              Attach(c, on, n)
       PROVE  SessionsStep
  BY <1>12 DEF Attach, SessionsStep
<1>13. ASSUME NEW a \in ViewAgents, ParentLinks(a)
       PROVE  SessionsStep
  <2> DEFINE n == launching[a]  s == tmux[n]  t == [s EXCEPT !.agent = a]
  <2>1. CASE ~Exists(n)
    BY <1>13, <2>1 DEF ParentLinks, viewBounds, SessionsStep
  <2>2. CASE Exists(n)
    <3>1. n \in SessionNames /\ s \in TmuxSession
      BY <1>13 DEF ParentLinks, ViewsTypeOK
    <3>2. /\ t \in TmuxSession /\ t.uid = s.uid /\ t.owner = s.owner
          /\ t.marked = s.marked /\ t.strange = s.strange
      <4> HIDE DEF s
      <4> QED BY <3>1 DEF TmuxSession
    <3>3. tmux' = [tmux EXCEPT ![n] = t] /\ uids' = uids
      BY <1>13, <2>2, <3>1 DEF ParentLinks, viewBounds, ViewsTypeOK
    <3> HIDE DEF t
    <3> QED BY <2>2, <3>1, <3>2, <3>3 DEF SessionsStep
  <2> QED BY <2>1, <2>2
<1> HIDE NoSessionTyped
<1> QED
  BY <1>1, <1>2, <1>3, <1>4, <1>5, <1>6, <1>7, <1>8, <1>9, <1>10, <1>11, <1>12, <1>13, ViewsNext
     DEF ViewsNext

LEMMA VerbsSteps ==
  ASSUME ViewsTypeOK, Opened, ViewsNext
  PROVE  VerbsStep
<1>0. /\ uids \in Nat /\ uids' \in Nat /\ uids <= uids'
      /\ \A p \in ViewActors : verb[p] \in ViewVerb
  BY SessionsSteps DEF SessionsStep, ViewsTypeOK
<1>i. NoVerb \in ViewVerb' /\ NoVerb.at = "idle"
  BY <1>0 DEF NoVerb, ViewVerb, ViewPlaces
<1>a. ASSUME NEW v \in ViewVerb PROVE v \in ViewVerb'
  <2>1. Listing \subseteq Listing'
    BY <1>0 DEF Listing
  <2> QED BY <1>0, <2>1 DEF ViewVerb
<1>b. ASSUME NEW p \in ViewActors, VerbEnds(p) PROVE VerbsStep
  BY <1>i, <1>b DEF VerbEnds, VerbsStep, VerbStep
<1>1. ASSUME NEW p \in ViewActors, NEW n \in SessionNames, NEW a \in ViewAgents \cup {Nobody}, BeginOpen(p, n, a)
      PROVE  VerbsStep
  <2> DEFINE o == <<"view", "kind">> \o (IF a = Nobody THEN <<>> ELSE <<"parent">>)
             v == [NoVerb EXCEPT !.at = "create", !.name = n, !.parent = a, !.set = o]
  <2> DEFINE o1 == <<"view", "kind">>  o2 == IF a = Nobody THEN <<>> ELSE <<"parent">>
  <2>0. o1 \in Seq({"view", "kind", "parent"}) /\ o2 \in Seq({"view", "kind", "parent"})
    <3>1. CASE a = Nobody
      BY <3>1
    <3>2. CASE a # Nobody
      BY <3>2
    <3> QED BY <3>1, <3>2
  <2>1. o \in Seq({"view", "kind", "parent"})
    <3> HIDE DEF o1, o2
    <3>1. o1 \o o2 \in Seq({"view", "kind", "parent"})
      BY <2>0
    <3> QED BY <3>1 DEF o1, o2
  <2> HIDE DEF o
  <2>2. v \in ViewVerb' /\ v.at = "create" /\ v.name = n
    BY <1>0, <1>i, <2>1 DEF ViewVerb, ViewPlaces
  <2>3. verb' = [verb EXCEPT ![p] = v]
    BY <1>1 DEF BeginOpen, BeginVerb, o
  <2> QED BY <2>2, <2>3 DEF VerbsStep, VerbStep
<1>2. ASSUME NEW p \in ViewActors, NEW n \in SessionNames, BeginClose(p, n)
      PROVE  VerbsStep
  <2> DEFINE v == [NoVerb EXCEPT !.at = "guard", !.name = n]
  <2>1. v \in ViewVerb' /\ v.at = "guard" /\ v.name = n
    BY <1>0, <1>i DEF ViewVerb, ViewPlaces
  <2> QED BY <1>2, <2>1 DEF BeginClose, BeginVerb, VerbsStep, VerbStep
<1>3. ASSUME NEW p \in ViewActors, NEW n \in SessionNames, NEW m \in SessionNames, BeginRename(p, n, m)
      PROVE  VerbsStep
  <2> DEFINE v == [NoVerb EXCEPT !.at = "guard", !.name = n, !.new = m]
  <2>1. v \in ViewVerb' /\ v.at = "guard" /\ v.name = n
    BY <1>0, <1>i DEF ViewVerb, ViewPlaces
  <2> QED BY <1>3, <2>1 DEF BeginRename, BeginVerb, VerbsStep, VerbStep
<1>4. ASSUME NEW p \in ViewActors, BeginLs(p)
      PROVE  VerbsStep
  <2> DEFINE L == {[name |-> n, uid |-> tmux[n].uid, parent |-> tmux[n].parent] :
                   n \in {m \in SessionNames : Listed(tmux[m]) /\ tmux[m].parent # Nobody}}
             v == [NoVerb EXCEPT !.at = "next", !.left = L]
  <2>1. uids' = uids /\ verb' = [verb EXCEPT ![p] = v]
    BY <1>4 DEF BeginLs, BeginVerb
  <2>2. \A m \in SessionNames : Listed(tmux[m]) => tmux[m].uid \in 0 .. uids /\ tmux[m] \in TmuxSession
    BY DEF Listed, Exists, NoSession, ViewsTypeOK
  <2>3. L \subseteq Listing'
    BY <2>1, <2>2 DEF Listing, TmuxSession
  <2> HIDE DEF L
  <2>4. v \in ViewVerb' /\ v.at = "next"
    BY <1>0, <1>i, <2>3 DEF ViewVerb, ViewPlaces
  <2> QED BY <2>1, <2>4 DEF VerbsStep, VerbStep
<1>5. ASSUME NEW p \in ViewActors, NEW l \in verb[p].left, JudgeParent(p, l)
      PROVE  VerbsStep
  <2> DEFINE over == OverNow(l.parent)
             v == [verb[p] EXCEPT !.left = @ \ {l}, !.at = IF over THEN "guard" ELSE "next",
                                  !.name = l.name, !.uid = l.uid, !.over = over]
  <2>1. verb' = [verb EXCEPT ![p] = v] /\ uids' = uids
    BY <1>5 DEF JudgeParent, viewBounds, ViewsTypeOK
  <2>2. l \in Listing /\ over \in BOOLEAN
    BY <1>0 DEF ViewVerb, OverNow
  <2> HIDE DEF over
  <2> DEFINE w == [verb[p] EXCEPT !.left = @ \ {l}, !.at = IF over THEN "guard" ELSE "next"]
  <2>3. w \in ViewVerb /\ w.at \in {"guard", "next"} /\ v = [w EXCEPT !.name = l.name, !.uid = l.uid, !.over = over]
    BY <1>0 DEF ViewVerb, ViewPlaces
  <2>4. l.name \in SessionNames /\ l.uid \in 0 .. uids
    BY <2>2 DEF Listing
  <2>5. v \in ViewVerb /\ v.at \in {"guard", "next"} /\ v.name \in SessionNames
    <3> HIDE DEF w
    <3> QED BY <2>2, <2>3, <2>4 DEF ViewVerb
  <2> QED BY <1>a, <2>1, <2>5 DEF VerbsStep, VerbStep
<1>6. ASSUME NEW p \in ViewActors, EndLs(p)
      PROVE  VerbsStep
  BY <1>b, <1>6 DEF EndLs
<1>7. ASSUME NEW p \in ViewActors, CreateSession(p)
      PROVE  VerbsStep
  <2> DEFINE v == [verb[p] EXCEPT !.at = "options", !.uid = uids + 1]
             s == [NoSession EXCEPT !.uid = uids + 1]
  <2>1. verb[p].name \in SessionNames
    BY <1>7 DEF CreateSession, VerbAt, ViewsTypeOK
  <2>2. CASE Exists(verb[p].name)
    BY <1>b, <1>7, <2>2 DEF CreateSession
  <2>3. CASE ~Exists(verb[p].name)
    <3>1. /\ uids' = uids + 1 /\ verb' = [verb EXCEPT ![p] = v]
          /\ tmux' = [tmux EXCEPT ![verb[p].name] = s]
      BY <1>7, <2>3 DEF CreateSession, ViewsTypeOK
    <3>3. v \in ViewVerb' /\ v.at = "options" /\ v.name = verb[p].name /\ v.uid = uids + 1
      <4> DEFINE w == [verb[p] EXCEPT !.at = "options"]
      <4>1. w \in ViewVerb' /\ w.at = "options" /\ w.name = verb[p].name
        BY <1>0, <1>a DEF ViewVerb, ViewPlaces
      <4>2. v = [w EXCEPT !.uid = uids + 1]
        BY <1>0 DEF ViewVerb
      <4>3. uids + 1 \in 0 .. uids'
        BY <1>0, <3>1
      <4> HIDE DEF w
      <4> QED BY <4>1, <4>2, <4>3 DEF ViewVerb
    <3>4. s.owner = Nobody
      BY NoSessionTyped DEF TmuxSession
    <3>5. \A n \in SessionNames : tmux[n].uid # uids + 1
      BY <1>0, NoSessionTyped DEF ViewsTypeOK, Exists
    <3>6. \A n \in SessionNames : tmux'[n].uid = uids + 1 => tmux'[n].owner = Nobody
      <4> HIDE DEF s
      <4> QED BY <2>1, <3>1, <3>4, <3>5 DEF ViewsTypeOK
    <3> HIDE DEF v, s
    <3>7. VerbStep(p)
      BY <2>1, <3>1, <3>3, <3>6 DEF VerbStep
    <3> QED BY <3>7 DEF VerbsStep
  <2> QED BY <2>2, <2>3
<1>8. ASSUME NEW p \in ViewActors, SetOption(p)
      PROVE  VerbsStep
  <2> DEFINE v == [verb[p] EXCEPT !.set = Tail(@)]
  <2>1. verb[p].at = "options" /\ verb[p].name \in SessionNames
    BY <1>8 DEF SetOption, VerbAt, ViewsTypeOK
  <2>2. CASE VerbEnds(p)
    BY <1>b, <2>2
  <2>3. CASE ~VerbEnds(p)
    <3>1. verb[p].set # <<>> /\ verb' = [verb EXCEPT ![p] = v]
      BY <1>8, <2>3 DEF SetOption, ViewsTypeOK
    <3>2. Tail(verb[p].set) \in Seq({"view", "kind", "parent"})
      BY <1>0, <3>1 DEF ViewVerb
    <3>3. /\ v \in ViewVerb /\ v.at = "options" /\ v.name \in SessionNames
          /\ v.uid = verb[p].uid
      BY <1>0, <2>1, <3>2 DEF ViewVerb, ViewPlaces
    <3> HIDE DEF v
    <3> QED BY <1>a, <2>1, <3>1, <3>3 DEF VerbsStep, VerbStep
  <2> QED BY <2>2, <2>3
<1>9. ASSUME NEW p \in ViewActors, GuardView(p)
      PROVE  VerbsStep
  <2> DEFINE u == tmux[verb[p].name].uid
             w == IF verb[p].uid \in {0, u} THEN u ELSE 0
             a == IF verb[p].new = Nobody THEN "kill" ELSE "rename"
             f == tmux[verb[p].name].agent = Nobody
             v == [verb[p] EXCEPT !.at = a, !.fresh = f, !.uid = w]
  <2>1. verb[p].name \in SessionNames /\ tmux' = tmux /\ uids' = uids
    BY <1>9 DEF GuardView, VerbAt, ViewsTypeOK, viewBounds
  <2>2. CASE ~Guard(verb[p].name)
    BY <1>b, <1>9, <2>2 DEF GuardView
  <2>3. CASE Guard(verb[p].name)
    <3>1. verb' = [verb EXCEPT ![p] = v]
      BY <1>9, <2>3 DEF GuardView, ViewsTypeOK
    <3>2. u \in 0 .. uids
      BY <2>1, <2>3 DEF Guard, ViewsTypeOK
    <3>3. w \in 0 .. uids /\ (w = 0 \/ w = u) /\ a \in {"kill", "rename"} /\ f = TRUE
      BY <3>2, <1>0, <2>3 DEF Guard
    <3> HIDE DEF w, a, u, f
    <3>4. v \in ViewVerb /\ v.name = verb[p].name /\ v.uid = w /\ v.fresh /\ v.at = a
      BY <1>0, <3>3 DEF ViewVerb, ViewPlaces
    <3> HIDE DEF v
    <3> QED BY <1>a, <2>1, <2>3, <3>1, <3>3, <3>4 DEF VerbsStep, VerbStep, u
  <2> QED BY <2>2, <2>3
<1>10. ASSUME NEW p \in ViewActors, KillView(p)
       PROVE  VerbsStep
  <2> DEFINE v == [verb[p] EXCEPT !.at = "next", !.over = FALSE]
  <2>1. v \in ViewVerb /\ v.at = "next"
    BY <1>0 DEF ViewVerb, ViewPlaces
  <2>2. VerbEnds(p) \/ verb' = [verb EXCEPT ![p] = v]
    BY <1>10 DEF KillView, ViewsTypeOK
  <2> QED BY <1>a, <1>b, <2>1, <2>2 DEF VerbsStep, VerbStep
<1>11. ASSUME NEW p \in ViewActors, RenameView(p)
       PROVE  VerbsStep
  BY <1>b, <1>11 DEF RenameView
<1>12. ASSUME NEW n \in SessionNames,
              \/ \E a \in ViewAgents : ParentStarts(a, n)
              \/ ViewEnds(n)
              \/ \E c \in ViewClients, on \in SessionNames \cup {Nobody} : Attach(c, on, n)
       PROVE  VerbsStep
  BY <1>12 DEF ParentStarts, ViewEnds, Attach, VerbsStep
<1>13. ASSUME NEW a \in ViewAgents, ParentLinks(a)
       PROVE  VerbsStep
  BY <1>13 DEF ParentLinks, VerbsStep
<1> QED
  BY <1>1, <1>2, <1>3, <1>4, <1>5, <1>6, <1>7, <1>8, <1>9, <1>10, <1>11, <1>12, <1>13, ViewsNext
     DEF ViewsNext

-----------------------------------------------------------------------------
(* The inductive invariant                                                 *)

(* What a launch waits for is a name of a session, and every other step    *)
(* leaves launches and hits alone.                                         *)
LEMMA LaunchSteps ==
  ASSUME ViewsNext
  PROVE  /\ (\E p \in ViewActors : KillView(p) \/ RenameView(p)) \/ UNCHANGED hits
         /\ \/ UNCHANGED launching
            \/ \E a \in ViewAgents, n \in SessionNames \cup {Nobody} :
                 launching' = [launching EXCEPT ![a] = n]
<1>1. ASSUME NEW p \in ViewActors, NEW v, BeginVerb(p, v) PROVE UNCHANGED <<hits, launching>>
  BY <1>1 DEF BeginVerb
<1>2. ASSUME NEW p \in ViewActors,
             \/ \E n \in SessionNames :
                  \/ \E a \in ViewAgents \cup {Nobody} : BeginOpen(p, n, a)
                  \/ BeginClose(p, n)
                  \/ \E m \in SessionNames : BeginRename(p, n, m)
             \/ BeginLs(p)
      PROVE  UNCHANGED <<hits, launching>>
  BY <1>1, <1>2 DEF BeginOpen, BeginClose, BeginRename, BeginLs
<1>3. ASSUME NEW p \in ViewActors,
             \/ CreateSession(p) \/ SetOption(p) \/ GuardView(p) \/ EndLs(p)
             \/ \E l \in verb[p].left : JudgeParent(p, l)
      PROVE  UNCHANGED <<hits, launching>>
  BY <1>3 DEF CreateSession, SetOption, GuardView, EndLs, JudgeParent
<1>4. ASSUME NEW p \in ViewActors, KillView(p) \/ RenameView(p) PROVE UNCHANGED launching
  BY <1>4 DEF KillView, RenameView
<1>5. ASSUME NEW n \in SessionNames,
             ViewEnds(n) \/ \E c \in ViewClients, on \in SessionNames \cup {Nobody} : Attach(c, on, n)
      PROVE  UNCHANGED <<hits, launching>>
  BY <1>5 DEF ViewEnds, Attach
<1>6. ASSUME NEW n \in SessionNames, NEW a \in ViewAgents, ParentStarts(a, n)
      PROVE  UNCHANGED hits /\ launching' = [launching EXCEPT ![a] = n]
  BY <1>6 DEF ParentStarts
<1>7. ASSUME NEW a \in ViewAgents, ParentLinks(a)
      PROVE  UNCHANGED hits /\ launching' = [launching EXCEPT ![a] = Nobody]
  BY <1>7 DEF ParentLinks
<1> QED BY <1>2, <1>3, <1>4, <1>5, <1>6, <1>7, ViewsNext DEF ViewsNext

LEMMA ViewsTyped ==
  ASSUME ViewsTypeOK, Opened, ViewsNext
  PROVE  ViewsTypeOK'
<1>1. uids' \in Nat /\ tmux' \in [SessionNames -> TmuxSession]
  BY SessionsSteps, NoSessionTyped DEF SessionsStep, ViewsTypeOK
<1>2. \A n \in SessionNames : tmux'[n] # NoSession => tmux'[n].uid \in 1 .. uids'
  BY SessionsSteps, NoSessionTyped DEF SessionsStep, ViewsTypeOK, Exists
<1>3. uids <= uids'
  BY SessionsSteps DEF SessionsStep, ViewsTypeOK
<1>4. ViewVerb \subseteq ViewVerb'
  BY <1>1, <1>3 DEF ViewVerb, Listing, ViewsTypeOK
<1>5. /\ verb' \in [ViewActors -> ViewVerb']
      /\ \A p \in ViewActors : verb'[p].at \notin {"idle", "next"} => verb'[p].name \in SessionNames
  BY VerbsSteps, <1>4 DEF VerbsStep, VerbStep, ViewsTypeOK
<1>6. launching' \in [ViewAgents -> SessionNames \cup {Nobody}]
  BY LaunchSteps DEF ViewsTypeOK
<1> QED BY <1>1, <1>2, <1>5, <1>6 DEF ViewsTypeOK, Exists

LEMMA NamesApart ==
  ASSUME ViewsTypeOK, Opened, OneName, ViewsNext
  PROVE  OneName'
<1> SUFFICES ASSUME NEW m \in SessionNames, NEW n \in SessionNames,
                    tmux'[m] # NoSession, tmux'[m].uid = tmux'[n].uid
             PROVE  m = n
  BY DEF OneName, Exists
<1>1. \A k \in SessionNames : Exists(k) => tmux[k].uid \in 1 .. uids
  BY DEF ViewsTypeOK
<1>2. \A k \in SessionNames : ~Exists(k) => tmux[k].uid = 0
  BY NoSessionTyped DEF Exists
<1>3. uids \in Nat /\ tmux \in [SessionNames -> TmuxSession]
  BY DEF ViewsTypeOK
<1>4. tmux'[n] # NoSession
  BY ViewsTyped, NoSessionTyped DEF ViewsTypeOK, Exists
<1> QED BY SessionsSteps, <1>1, <1>2, <1>3, <1>4, NoSessionTyped DEF SessionsStep, OneName, Exists

(* A step leaves the session of a uid a view if it was one.                *)
LEMMA SessionsFollow ==
  ASSUME ViewsTypeOK, Opened, ViewsNext, NEW n \in SessionNames, tmux'[n] # NoSession, tmux'[n].uid <= uids
  PROVE  \E m \in SessionNames :
           /\ Exists(m) /\ tmux[m].uid = tmux'[n].uid
           /\ tmux'[n].owner = tmux[m].owner /\ (tmux[m].marked => tmux'[n].marked)
BY SessionsSteps, NoSessionTyped DEF SessionsStep, ViewsTypeOK, Exists

(* The sessions of launches stay what they were to the opens.              *)
LEMMA OpenedStays ==
  ASSUME ViewsTypeOK, Opened, ViewsNext
  PROVE  Opened'
<1> SUFFICES ASSUME NEW p \in ViewActors, verb'[p].at = "options"
             PROVE  /\ verb'[p].uid # 0
                    /\ \A n \in SessionNames : tmux'[n].uid = verb'[p].uid => tmux'[n].owner = Nobody
  BY DEF Opened, VerbAt
<1>1. verb[p] \in ViewVerb /\ uids \in Nat
  BY DEF ViewsTypeOK
<1>2. CASE verb[p].at = "options" /\ verb'[p].uid = verb[p].uid
  <2>1. verb[p].uid # 0 /\ verb[p].uid <= uids
    BY <1>1, <1>2 DEF Opened, VerbAt, ViewVerb
  <2>2. ASSUME NEW n \in SessionNames, tmux'[n].uid = verb[p].uid PROVE tmux'[n].owner = Nobody
    <3>1. tmux'[n] # NoSession
      BY <2>1, <2>2, NoSessionTyped
    <3>2. PICK m \in SessionNames : tmux[m].uid = tmux'[n].uid /\ tmux'[n].owner = tmux[m].owner
      BY <2>1, <2>2, <3>1, SessionsFollow
    <3> QED BY <1>2, <2>2, <3>2 DEF Opened, VerbAt
  <2> QED BY <1>2, <2>1, <2>2
<1>3. CASE ~(verb[p].at = "options" /\ verb'[p].uid = verb[p].uid)
  <2>1. verb'[p] # verb[p]
    BY <1>3
  <2>2. /\ verb'[p].uid = uids + 1
        /\ \A n \in SessionNames : tmux'[n].uid = verb'[p].uid => tmux'[n].owner = Nobody
    BY <1>3, <2>1, VerbsSteps DEF VerbsStep, VerbStep, ViewsTypeOK
  <2> QED BY <1>1, <2>2
<1> QED BY <1>2, <1>3

LEMMA LaunchedStays ==
  ASSUME ViewsTypeOK, Opened, LaunchedIsNoView, ViewsNext
  PROVE  LaunchedIsNoView'
BY SessionsSteps DEF SessionsStep, LaunchedIsNoView, ViewsTypeOK, NoSession, Exists

LEMMA JudgedStays ==
  ASSUME ViewsTypeOK, Opened, OneName, NEW p \in ViewActors, JudgedIsView(p), ViewsNext
  PROVE  JudgedIsView(p)'
<1> SUFFICES ASSUME verb'[p].at \in {"kill", "rename"}
             PROVE  /\ verb'[p].fresh
                    /\ \A n \in SessionNames :
                         tmux'[n] # NoSession /\ tmux'[n].uid = verb'[p].uid => tmux'[n].marked
  BY DEF JudgedIsView, Exists
<1>1. verb[p] \in ViewVerb /\ uids \in Nat
  BY DEF ViewsTypeOK
<1>2. CASE verb'[p] = verb[p]
  <2>1. verb[p].uid <= uids
    BY <1>1 DEF ViewVerb
  <2> QED BY <1>2, <2>1, SessionsFollow DEF JudgedIsView
<1>3. CASE verb'[p] # verb[p]
  <2>1. PICK v : /\ v.at \in {"kill", "rename"} => tmux' = tmux /\ v.fresh
                 /\ v.at \in {"kill", "rename"} =>
                      v.uid = 0 \/ (Guard(v.name) /\ v.uid = tmux[v.name].uid)
                 /\ v.at \in {"kill", "rename"} => v.name \in SessionNames
                 /\ verb'[p] = v
    BY <1>3, VerbsSteps DEF VerbsStep, VerbStep, ViewsTypeOK
  <2>2. ASSUME NEW n \in SessionNames, tmux'[n] # NoSession, tmux'[n].uid = verb'[p].uid
        PROVE  tmux'[n].marked
    <3>1. tmux[n].uid # 0
      BY <2>1, <2>2 DEF ViewsTypeOK, Exists
    <3> QED BY <2>1, <2>2, <3>1 DEF OneName, Guard, Exists
  <2> QED BY <2>1, <2>2
<1> QED BY <1>2, <1>3

LEMMA KillsAreViews ==
  ASSUME ViewsTypeOK, Opened, LaunchedIsNoView, \A p \in ViewActors : JudgedIsView(p),
         OnlyViewsClose, ViewsNext
  PROVE  OnlyViewsClose'
<1>1. ASSUME NEW p \in ViewActors, KillView(p) \/ RenameView(p)
      PROVE  OnlyViewsClose'
  <2>1. verb[p].name \in SessionNames /\ verb[p].at \in {"kill", "rename"}
    BY <1>1 DEF KillView, RenameView, VerbAt, ViewsTypeOK
  <2>2. CASE UNCHANGED hits
    BY <2>2 DEF OnlyViewsClose
  <2>3. CASE ~UNCHANGED hits
    <3>1. Exists(verb[p].name) /\ hits' = hits \cup {Hit(verb[p], tmux[verb[p].name])}
      BY <1>1, <2>3 DEF KillView, RenameView
    <3>2. ASSUME verb[p].uid = tmux[verb[p].name].uid
          PROVE  /\ tmux[verb[p].name].marked
                 /\ tmux[verb[p].name].owner # Nobody =>
                      verb[p].fresh /\ tmux[verb[p].name].strange
      <4>1. JudgedIsView(p)
        OBVIOUS
      <4>2. verb[p].fresh /\ tmux[verb[p].name].marked
        BY <2>1, <3>1, <3>2, <4>1 DEF JudgedIsView
      <4> QED BY <2>1, <4>2 DEF LaunchedIsNoView
    <3>3. PICK h : h = Hit(verb[p], tmux[verb[p].name])
      OBVIOUS
    <3>4. h.judged => h.marked /\ (h.owner # Nobody => h.fresh /\ h.strange)
      BY <3>2, <3>3 DEF Hit
    <3> QED BY <3>1, <3>3, <3>4 DEF OnlyViewsClose
  <2> QED BY <2>2, <2>3
<1>2. CASE UNCHANGED hits
  BY <1>2 DEF OnlyViewsClose
<1> QED BY <1>1, <1>2, LaunchSteps

-----------------------------------------------------------------------------
(* The clients, and the walk from a nested one to its terminal             *)

LEMMA LeastIsThere ==
  ASSUME NEW S \in SUBSET Nat, S # {}
  PROVE  \E i \in S : \A j \in S : i <= j
<1>1. PICK i \in S : \A j \in S : ~(<<j, i>> \in OpToRel(<, Nat))
  BY WFMin, NatLessThanWellFounded
<1>2. \A j \in S : ~(j < i)
  BY <1>1 DEF OpToRel
<1> QED BY <1>2

LEMMA ClientsStay ==
  ASSUME ClientsTypeOK, turns' = turns, clients' = clients
  PROVE  ClientsTypeOK'
BY DEF ClientsTypeOK, ViewClient

LEMMA ClientsGo ==
  ASSUME ClientsTypeOK, turns' \in {turns, turns + 1}, NEW names, clients' = Gone(names)
  PROVE  ClientsTypeOK'
<1>1. turns \in Nat /\ turns' \in Nat /\ turns <= turns'
  BY DEF ClientsTypeOK
<1>2. ASSUME NEW c \in ViewClients
      PROVE  clients'[c] \in ViewClient'
  <2>1. clients[c] \in ViewClient
    BY DEF ClientsTypeOK
  <2>2. clients[c] \in ViewClient'
    BY <1>1, <2>1 DEF ViewClient
  <2>3. [on |-> Nobody, shows |-> Nobody, active |-> 0] \in ViewClient'
    BY <1>1 DEF ViewClient
  <2> QED BY <2>2, <2>3 DEF Gone
<1>3. clients' \in [ViewClients -> ViewClient']
  BY <1>2 DEF Gone
<1> QED BY <1>1, <1>3 DEF ClientsTypeOK

LEMMA ClientsTyped ==
  ASSUME ClientsTypeOK, [ViewsNext]_viewVars,
         \A p \in ViewActors : verb[p].new \in SessionNames \cup {Nobody}
  PROVE  ClientsTypeOK'
<1>1. CASE UNCHANGED viewVars
  BY <1>1, ClientsStay DEF viewVars
<1>2. ASSUME NEW p \in ViewActors,
             \/ \E n \in SessionNames :
                  \/ \E a \in ViewAgents \cup {Nobody} : BeginOpen(p, n, a)
                  \/ BeginClose(p, n)
                  \/ \E m \in SessionNames : BeginRename(p, n, m)
             \/ BeginLs(p) \/ CreateSession(p) \/ SetOption(p) \/ GuardView(p) \/ EndLs(p)
             \/ \E l \in verb[p].left : JudgeParent(p, l)
      PROVE  ClientsTypeOK'
  <2>1. turns' = turns /\ clients' = clients
    BY <1>2 DEF BeginOpen, BeginClose, BeginRename, BeginLs, BeginVerb, CreateSession, SetOption,
                GuardView, EndLs, JudgeParent, viewBounds
  <2> QED BY <2>1, ClientsStay
<1>3. ASSUME NEW p \in ViewActors, KillView(p)
      PROVE  ClientsTypeOK'
  <2>1. turns' = turns /\ (clients' = clients \/ clients' = Gone({verb[p].name}))
    BY <1>3 DEF KillView, Ends, viewBounds
  <2> QED BY <2>1, ClientsStay, ClientsGo
<1>4. ASSUME NEW p \in ViewActors, RenameView(p)
      PROVE  ClientsTypeOK'
  <2>1. turns' = turns
    BY <1>4 DEF RenameView, viewBounds
  <2>2. PICK old : old = verb[p].name
    OBVIOUS
  <2>3. PICK new \in SessionNames \cup {Nobody} : new = verb[p].new
    OBVIOUS
  <2>4. CASE clients' = clients
    BY <2>1, <2>4, ClientsStay
  <2>5. CASE clients' = [c \in ViewClients |->
               [clients[c] EXCEPT !.shows = IF @ = old THEN new ELSE @,
                                  !.on = IF @ = old THEN new ELSE @]]
    <3>1. ASSUME NEW c \in ViewClients
          PROVE  clients'[c] \in ViewClient
      <4>1. PICK client \in ViewClient : client = clients[c]
        BY DEF ClientsTypeOK
      <4>2. clients'[c] = [client EXCEPT !.shows = IF client.shows = old THEN new ELSE client.shows,
                                         !.on = IF client.on = old THEN new ELSE client.on]
        BY <2>5, <4>1
      <4> QED BY <4>2 DEF ViewClient
    <3>2. clients' \in [ViewClients -> ViewClient]
      BY <2>5, <3>1
    <3> QED BY <2>1, <3>2 DEF ClientsTypeOK, ViewClient
  <2>6. \/ clients' = clients
        \/ clients' = [c \in ViewClients |->
             [clients[c] EXCEPT !.shows = IF @ = old THEN new ELSE @,
                                !.on = IF @ = old THEN new ELSE @]]
    BY <1>4, <2>2, <2>3 DEF RenameView
  <2> QED BY <2>4, <2>5, <2>6
<1>5. ASSUME NEW n \in SessionNames, NEW a \in ViewAgents, ParentStarts(a, n)
      PROVE  ClientsTypeOK'
  <2>1. turns' = turns + 1 /\ clients' = clients
    BY <1>5 DEF ParentStarts, Turn
  <2> QED BY <2>1 DEF ClientsTypeOK, ViewClient
<1>6. ASSUME NEW n \in SessionNames, ViewEnds(n)
      PROVE  ClientsTypeOK'
  BY <1>6, ClientsGo DEF ViewEnds, Turn, Ends
<1>7. ASSUME NEW n \in SessionNames, NEW c \in ViewClients, NEW host \in SessionNames \cup {Nobody},
             Attach(c, host, n)
      PROVE  ClientsTypeOK'
  <2>1. PICK client : client = [on |-> host, shows |-> n, active |-> turns + 1]
    OBVIOUS
  <2>2. turns' = turns + 1 /\ clients' = [clients EXCEPT ![c] = client]
    BY <1>7, <2>1 DEF Attach, Turn
  <2>3. turns \in Nat /\ turns' \in Nat /\ client \in ViewClient'
    BY <2>1, <2>2 DEF ViewClient, ClientsTypeOK
  <2>4. \A d \in ViewClients : clients[d] \in ViewClient'
    BY <2>2, <2>3 DEF ViewClient, ClientsTypeOK
  <2>5. clients' \in [ViewClients -> ViewClient']
    BY <2>2, <2>3, <2>4 DEF ClientsTypeOK
  <2> QED BY <2>3, <2>5 DEF ClientsTypeOK
<1>8. ASSUME NEW a \in ViewAgents, ParentLinks(a)
      PROVE  ClientsTypeOK'
  BY <1>8, ClientsStay DEF ParentLinks, viewBounds
<1> QED BY <1>1, <1>2, <1>3, <1>4, <1>5, <1>6, <1>7, <1>8 DEF ViewsNext

-----------------------------------------------------------------------------
(* The most active of some clients is one of them.                         *)
LEMMA MostActiveIsOne ==
  ASSUME ClientsTypeOK, NEW C \in SUBSET ViewClients, C # {}
  PROVE  MostActive(C) \in C
<1>1. PICK idle : idle = {k \in Nat : \E d \in C : k = turns - clients[d].active}
  OBVIOUS
<1>2. \A d \in C : clients[d].active \in 0 .. turns /\ turns \in Nat
  BY DEF ClientsTypeOK, ViewClient
<1>3. idle \in SUBSET Nat /\ idle # {}
  <2>1. PICK d \in C : TRUE
    OBVIOUS
  <2>2. PICK a \in 0 .. turns : a = clients[d].active
    BY <1>2, <2>1
  <2>3. turns \in Nat /\ turns - a \in Nat
    BY <1>2, <2>1, <2>2
  <2>4. turns - a \in idle
    BY <1>1, <2>1, <2>2, <2>3
  <2> QED BY <1>1, <2>4
<1>4. PICK k \in idle : \A j \in idle : k <= j
  BY <1>3, LeastIsThere
<1>5. PICK d \in C : k = turns - clients[d].active
  BY <1>1, <1>4
<1>6. ASSUME NEW e \in C
      PROVE  clients[e].active <= clients[d].active
  <2>1. PICK a \in 0 .. turns : a = clients[e].active
    BY <1>2
  <2>2. turns \in Nat /\ turns - a \in Nat
    BY <1>2, <2>1
  <2>3. turns - a \in idle
    BY <1>1, <2>1, <2>2
  <2>4. turns - clients[d].active <= turns - a
    BY <1>4, <1>5, <2>3
  <2> QED BY <1>2, <2>1, <2>2, <2>4
<1> QED BY <1>6 DEF MostActive

(* The client that shows the host of a nested one is attached to it.       *)
LEMMA HostIsShown ==
  ASSUME ClientsTypeOK, NEW c \in ViewClients
  PROVE  \/ HostingClient(c) = Nobody /\ \A d \in ViewClients : ~(Attached(d) /\ clients[d].shows = clients[c].on)
         \/ /\ HostingClient(c) \in ViewClients
            /\ Attached(HostingClient(c))
            /\ clients[HostingClient(c)].shows = clients[c].on
<1>1. PICK showing : showing = {d \in ViewClients : Attached(d) /\ clients[d].shows = clients[c].on}
  OBVIOUS
<1>2. HostingClient(c) = IF showing = {} THEN Nobody ELSE MostActive(showing)
  BY <1>1 DEF HostingClient
<1>3. CASE showing = {}
  BY <1>1, <1>2, <1>3
<1>4. CASE showing # {}
  <2>1. HostingClient(c) \in showing
    BY <1>1, <1>2, <1>4, MostActiveIsOne
  <2> QED BY <1>1, <2>1
<1> QED BY <1>3, <1>4

-----------------------------------------------------------------------------
(* The walk                                                                *)

(* Where a walk of so many steps ends, from where one of a step less does. *)
Farther(n, nearer) ==
  [d \in ViewClients \cup {Nobody} |->
     IF d = Nobody \/ n = 0 THEN Nobody
     ELSE IF clients[d].on = Nobody THEN d
     ELSE nearer[HostingClient(d)]]
WalkOf(walk, n) == walk = [k \in 0..n |-> Farther(k, walk[k - 1])]

LEMMA NowhereAtFirst ==
  ASSUME NEW w, NEW v
  PROVE  Farther(0, w) = Farther(0, v)
BY DEF Farther

LEMMA WalkIsThere ==
  ASSUME NEW n \in Nat
  PROVE  \E walk : WalkOf(walk, n)
<1>1. PICK without : without = {m \in Nat : ~ \E walk : WalkOf(walk, m)}
  OBVIOUS
<1>2. SUFFICES ASSUME without # {} PROVE FALSE
  BY <1>1
<1>3. PICK m \in without : \A j \in without : m <= j
  <2>1. without \in SUBSET Nat
    BY <1>1
  <2> QED BY <1>2, <2>1, LeastIsThere
<1>4. m \in Nat /\ ~ \E walk : WalkOf(walk, m)
  BY <1>1, <1>3
<1>5. m # 0
  <2>1. PICK walk : walk = [k \in 0..0 |-> Farther(0, 0)]
    OBVIOUS
  <2>2. ASSUME NEW k \in 0..0
        PROVE  Farther(0, 0) = Farther(k, walk[k - 1])
    BY NowhereAtFirst
  <2>3. WalkOf(walk, 0)
    BY <2>1, <2>2 DEF WalkOf
  <2> QED BY <1>4, <2>3
<1>6. PICK l \in Nat : m = l + 1
  BY <1>4, <1>5
<1>7. l \notin without
  BY <1>3, <1>6
<1>8. PICK shorter : WalkOf(shorter, l)
  BY <1>1, <1>7
<1>9. PICK walk : walk = [k \in 0..m |-> Farther(k, shorter[k - 1])]
  OBVIOUS
<1>10. ASSUME NEW k \in 0..l
       PROVE  walk[k] = shorter[k]
  <2>1. k \in 0..m
    BY <1>6
  <2> QED BY <1>8, <1>9, <2>1 DEF WalkOf
<1>11. ASSUME NEW k \in 0..m
       PROVE  Farther(k, shorter[k - 1]) = Farther(k, walk[k - 1])
  <2>1. CASE k = 0
    BY <2>1, NowhereAtFirst
  <2>2. CASE k # 0
    <3>1. k - 1 \in 0..l
      BY <1>6, <2>2
    <3> QED BY <1>10, <3>1
  <2> QED BY <2>1, <2>2
<1>12. WalkOf(walk, m)
  BY <1>9, <1>11 DEF WalkOf
<1> QED BY <1>4, <1>12

(* Wherever a walk from an attached client ends, a terminal is attached    *)
(* there.                                                                  *)
LEMMA EndsAtTerminal ==
  ASSUME ClientsTypeOK, NEW n \in Nat, NEW walk, WalkOf(walk, n),
         NEW k \in 0..n, NEW c \in ViewClients, Attached(c), walk[k][c] # Nobody
  PROVE  walk[k][c] \in ViewClients /\ clients[walk[k][c]].on = Nobody /\ Attached(walk[k][c])
<1> DEFINE Strays(j) == \E d \in ViewClients :
             /\ Attached(d) /\ walk[j][d] # Nobody
             /\ ~(walk[j][d] \in ViewClients /\ clients[walk[j][d]].on = Nobody /\ Attached(walk[j][d]))
<1>1. PICK bad : bad = {j \in Nat : j \in 0..n /\ Strays(j)}
  OBVIOUS
<1>2. SUFFICES ASSUME bad # {} PROVE FALSE
  <2>1. k \in Nat /\ k \notin bad
    BY <1>2
  <2>2. ~Strays(k)
    BY <1>1, <2>1
  <2> QED BY <2>2
<1> HIDE DEF Strays
<1>3. PICK j \in bad : \A i \in bad : j <= i
  <2>1. bad \in SUBSET Nat
    BY <1>1
  <2> QED BY <1>2, <2>1, LeastIsThere
<1>4. j \in Nat /\ j \in 0..n /\ Strays(j)
  BY <1>1, <1>3
<1>5. PICK d \in ViewClients :
         /\ Attached(d) /\ walk[j][d] # Nobody
         /\ ~(walk[j][d] \in ViewClients /\ clients[walk[j][d]].on = Nobody /\ Attached(walk[j][d]))
  BY <1>4 DEF Strays
<1>6. walk[j] = Farther(j, walk[j - 1])
  BY <1>4 DEF WalkOf
<1>7. walk[j][d] = IF d = Nobody \/ j = 0 THEN Nobody
                   ELSE IF clients[d].on = Nobody THEN d ELSE walk[j - 1][HostingClient(d)]
  BY <1>6 DEF Farther
<1>8. d # Nobody
  BY ClientsAssumption
<1>9. j # 0 /\ clients[d].on # Nobody /\ walk[j][d] = walk[j - 1][HostingClient(d)]
  BY <1>5, <1>7, <1>8
<1>10. j - 1 \in Nat /\ j - 1 \in 0..n /\ ~(j <= j - 1)
  <2>1. j \in 1..n
    BY <1>4, <1>9
  <2> QED BY <2>1
<1>11. HostingClient(d) # Nobody
  <2>1. walk[j - 1] = Farther(j - 1, walk[j - 1 - 1])
    BY <1>10 DEF WalkOf
  <2>2. walk[j - 1][Nobody] = Nobody
    BY <2>1 DEF Farther
  <2> QED BY <1>5, <1>9, <2>2
<1>12. HostingClient(d) \in ViewClients /\ Attached(HostingClient(d))
  BY <1>11, HostIsShown
<1>13. Strays(j - 1)
  BY <1>5, <1>9, <1>12 DEF Strays
<1> QED BY <1>1, <1>3, <1>10, <1>13

(* A walk from an attached client reaches one when every host is shown and *)
(* it has more steps left than there are deeper ranks.                     *)
LEMMA ReachesOne ==
  ASSUME ClientsTypeOK, NEW walk, WalkOf(walk, Hops),
         NEW rank \in [SessionNames -> 1..Hops], Deepens(rank),
         \A d \in Nested : \E e \in ViewClients : clients[e].shows = clients[d].on,
         NEW k \in 0..Hops, NEW c \in ViewClients, Attached(c), rank[clients[c].shows] > Hops - k
  PROVE  walk[k][c] # Nobody
<1> DEFINE Stops(j) == \E d \in ViewClients :
             Attached(d) /\ rank[clients[d].shows] > Hops - j /\ walk[j][d] = Nobody
<1>1. PICK bad : bad = {j \in Nat : j \in 0..Hops /\ Stops(j)}
  OBVIOUS
<1>2. SUFFICES ASSUME bad # {} PROVE FALSE
  <2>1. k \in Nat /\ k \notin bad
    BY <1>2
  <2>2. ~Stops(k)
    BY <1>1, <2>1
  <2> QED BY <2>2
<1> HIDE DEF Stops
<1>3. PICK j \in bad : \A i \in bad : j <= i
  <2>1. bad \in SUBSET Nat
    BY <1>1
  <2> QED BY <1>2, <2>1, LeastIsThere
<1>4. j \in Nat /\ j \in 0..Hops /\ Stops(j)
  BY <1>1, <1>3
<1>5. PICK d \in ViewClients :
         Attached(d) /\ rank[clients[d].shows] > Hops - j /\ walk[j][d] = Nobody
  BY <1>4 DEF Stops
<1>6. walk[j] = Farther(j, walk[j - 1])
  BY <1>4 DEF WalkOf
<1>7. walk[j][d] = IF d = Nobody \/ j = 0 THEN Nobody
                   ELSE IF clients[d].on = Nobody THEN d ELSE walk[j - 1][HostingClient(d)]
  BY <1>6 DEF Farther
<1>8. d # Nobody /\ Hops \in Nat
  BY ClientsAssumption
<1>9. /\ clients[d].shows \in SessionNames
      /\ clients[d].on \in SessionNames \cup {Nobody}
  BY <1>5 DEF Attached, ClientsTypeOK, ViewClient
<1>10. rank[clients[d].shows] \in 1..Hops
  BY <1>9
<1>11. j # 0
  BY <1>4, <1>5, <1>8, <1>10
<1>12. clients[d].on # Nobody /\ walk[j - 1][HostingClient(d)] = Nobody
  BY <1>5, <1>7, <1>8, <1>11
<1>13. d \in Nested
  BY <1>5, <1>12 DEF Nested
<1>14. clients[d].on \in SessionNames /\ rank[clients[d].on] \in 1..Hops
  BY <1>9, <1>12
<1>15. rank[clients[d].shows] < rank[clients[d].on]
  BY <1>13 DEF Deepens
<1>16. PICK e \in ViewClients : clients[e].shows = clients[d].on
  BY <1>13
<1>17. Attached(e)
  BY <1>12, <1>16 DEF Attached
<1>18. /\ HostingClient(d) \in ViewClients /\ Attached(HostingClient(d))
       /\ clients[HostingClient(d)].shows = clients[d].on
  BY <1>16, <1>17, HostIsShown
<1>19. j - 1 \in Nat /\ j - 1 \in 0..Hops /\ ~(j <= j - 1)
  <2>1. j \in 1..Hops
    BY <1>4, <1>8, <1>11
  <2> QED BY <1>8, <2>1
<1>20. rank[clients[d].on] > Hops - (j - 1)
  <2>1. PICK r \in 1..Hops : r = rank[clients[d].shows]
    BY <1>10
  <2>2. PICK s \in 1..Hops : s = rank[clients[d].on]
    BY <1>14
  <2>3. r > Hops - j /\ r < s
    BY <1>5, <1>15, <2>1, <2>2
  <2>4. s > Hops - (j - 1)
    BY <1>4, <1>8, <2>3
  <2> QED BY <2>2, <2>4
<1>21. Stops(j - 1)
  BY <1>12, <1>18, <1>20 DEF Stops
<1> QED BY <1>1, <1>3, <1>19, <1>21

LEMMA WalksEndOutside ==
  ASSUME ClientsTypeOK
  PROVE  WalkEndsOutside
<1>1. PICK walk : WalkOf(walk, Hops) /\ \A c \in ViewClients : OuterClient(c) = walk[Hops][c]
  <2>1. PICK walk : walk = CHOOSE w : WalkOf(w, Hops)
    OBVIOUS
  <2>2. WalkOf(walk, Hops)
    BY <2>1, WalkIsThere, ClientsAssumption
  <2>3. ASSUME NEW c \in ViewClients
        PROVE  OuterClient(c) = walk[Hops][c]
    BY <2>1 DEF OuterClient, WalkOf, Farther
  <2> QED BY <2>2, <2>3
<1>2. Hops \in Nat /\ Hops \in 0..Hops
  BY ClientsAssumption
<1>3. SUFFICES ASSUME NEW c \in Nested
      PROVE  /\ OuterClient(c) # Nobody => clients[OuterClient(c)].on = Nobody /\ Attached(OuterClient(c))
             /\ OuterClient(c) = Nobody /\ (\E rank \in [SessionNames -> 1..Hops] : Deepens(rank)) =>
                  \E d \in Nested : \A e \in ViewClients : clients[e].shows # clients[d].on
  BY DEF WalkEndsOutside
<1>4. c \in ViewClients /\ Attached(c) /\ OuterClient(c) = walk[Hops][c]
  BY <1>1, <1>3 DEF Nested
<1>5. OuterClient(c) # Nobody => clients[OuterClient(c)].on = Nobody /\ Attached(OuterClient(c))
  BY <1>1, <1>2, <1>4, EndsAtTerminal
<1>6. ASSUME NEW rank \in [SessionNames -> 1..Hops], Deepens(rank),
             \A d \in Nested : \E e \in ViewClients : clients[e].shows = clients[d].on
      PROVE  OuterClient(c) # Nobody
  <2>1. clients[c].shows \in SessionNames
    BY <1>4 DEF Attached, ClientsTypeOK, ViewClient
  <2>2. rank[clients[c].shows] > Hops - Hops
    <3>1. rank[clients[c].shows] \in 1..Hops
      BY <1>6, <2>1
    <3> QED BY <1>2, <3>1
  <2> QED BY <1>1, <1>2, <1>4, <1>6, <2>2, ReachesOne
<1> QED BY <1>5, <1>6

-----------------------------------------------------------------------------
(* The views' invariant                                                    *)

(* Whatever verbs, agents, users and clients do between the steps of a     *)
(* verb, what it is about to kill is the view it judged or has changed     *)
(* hands: the inductive invariant of the views (view_verb.rs, views.rs).   *)
THEOREM ViewsInvariance == ViewsSpec => []ViewsInv
<1>1. ViewsInit => ViewsInv
  <2>1. ViewsInit => ClientsTypeOK
    BY DEF ViewsInit, ClientsTypeOK, ViewClient
  <2>2. ViewsInit => OneName /\ Opened /\ LaunchedIsNoView
    BY NoSessionTyped, NoVerbTyped DEF ViewsInit, OneName, Opened, LaunchedIsNoView, Exists, VerbAt
  <2> QED BY <2>1, <2>2, NoSessionTyped, NoVerbTyped
       DEF ViewsInit, ViewsInv, ViewsTypeOK, JudgedIsView, OnlyViewsClose, Exists
<1>2. ViewsInv /\ [ViewsNext]_viewVars => ViewsInv'
  <2> SUFFICES ASSUME ViewsInv, [ViewsNext]_viewVars PROVE ViewsInv'
    OBVIOUS
  <2>1. ClientsTypeOK'
    <3>1. \A p \in ViewActors : verb[p].new \in SessionNames \cup {Nobody}
      BY DEF ViewsInv, ViewsTypeOK, ViewVerb
    <3> QED BY <3>1, ClientsTyped DEF ViewsInv
  <2>2. CASE ViewsNext
    BY <2>1, <2>2, ViewsTyped, NamesApart, OpenedStays, LaunchedStays, JudgedStays,
       KillsAreViews DEF ViewsInv
  <2>3. CASE UNCHANGED viewVars
    BY <2>1, <2>3 DEF viewVars, ViewsInv, ViewsTypeOK, ViewVerb, Listing, OneName, Opened,
                      LaunchedIsNoView, JudgedIsView, OnlyViewsClose, Exists, VerbAt
  <2> QED BY <2>2, <2>3
<1> QED BY <1>1, <1>2, PTL DEF ViewsSpec

(* A view verb kills and renames only what was marked a view, but for a    *)
(* name that changed hands since the verb judged it; and a session made    *)
(* for an agent only if it was judged before the launch set its @tx-id,    *)
(* and marked by an open whose own session was gone. And the walk from a   *)
(* nested client ends at an attached terminal, whenever there is one to    *)
(* find within its bound (guard, close, rename, close_orphans, open,       *)
(* walk_to_outer_client; core's start_locked).                             *)
THEOREM ViewsServe == ViewsSpec => []ViewsHold
<1>1. ViewsInv => ViewsHold
  BY WalksEndOutside DEF ViewsInv, ViewsHold
<1> QED BY <1>1, ViewsInvariance, PTL

-----------------------------------------------------------------------------
(* The views of one artifact and their worktrees                           *)

ViewPlaced == {"forget", "start", "bind", "record"}
NamesTypeOK ==
  /\ made \in Nat /\ trees \subseteq 1 .. made /\ made <= MaxTrees
  /\ session \in [Names -> Session \cup {None}]
  /\ cleanup \in [Names -> Trees \cup {None}]
  /\ lock \in Procs \cup {None}
  /\ pc \in [Procs -> PCs] /\ DOMAIN job = Procs
  /\ \A p \in Procs : pc[p] # "idle" => job[p] \in Job
  /\ \A p \in Procs : pc[p] \in ViewPlaced => job[p].name \in Names
  /\ \A p \in Procs : pc[p] \in {"judge", "closing", "forget", "tree"} => job[p].tree = None
  /\ uses \in [Names -> Nat]

(* A session in a temporary worktree; a process that has made one, and one *)
(* whose view has started.                                                 *)
ShowsTree(n) == HasSession(n) /\ session[n].tree # None
HoldsTree(p) ==
  pc[p] \in {"apply", "name", "start", "bind", "record"} /\ job[p].tree # None
Serves(p) == pc[p] \in {"bind", "record"}

(* A worktree has one view: the session in it, the process that opens it   *)
(* and the step that removes it go by one name.                            *)
TreesApart ==
  /\ \A n \in Names : ShowsTree(n) => session[n].tree <= made
  /\ \A n \in Names : cleanup[n] # None => cleanup[n] <= made
  /\ \A p \in Procs : HoldsTree(p) => job[p].tree <= made
  /\ \A m, n \in Names : ShowsTree(m) /\ ShowsTree(n) /\ session[m].tree = session[n].tree => m = n
  /\ \A m, n \in Names : ShowsTree(n) /\ cleanup[m] = session[n].tree => m = n
  /\ \A p, q \in Procs : HoldsTree(p) /\ HoldsTree(q) /\ job[p].tree = job[q].tree => p = q
  /\ \A p \in Procs, n \in Names :
       HoldsTree(p) /\ ShowsTree(n) /\ job[p].tree = session[n].tree => Serves(p) /\ job[p].name = n
  /\ \A p \in Procs, n \in Names : HoldsTree(p) => cleanup[n] # job[p].tree

(* A name with a step, or with a view about to record one, has been used;  *)
(* with two of these, twice.                                               *)
UsesCounted ==
  /\ \A n \in Names : cleanup[n] # None => uses[n] >= 1
  /\ \A p \in Procs : Serves(p) =>
       /\ uses[job[p].name] >= 1
       /\ cleanup[job[p].name] # None => uses[job[p].name] >= 2
       /\ \A q \in Procs \ {p} : Serves(q) /\ job[q].name = job[p].name => uses[job[p].name] >= 2

(* A step found stale is of a view that is over.                           *)
StaleIsOver ==
  \A p \in Procs : pc[p] \in {"closing", "forget"} /\ job[p].op # "close" =>
    \A n \in job[p].todo : uses[n] >= 1 /\ (ShowsTree(n) => uses[n] >= 2)

(* A step is forgotten once its worktree is gone, and nobody records one   *)
(* under its name in between.                                              *)
ForgetsGone ==
  \A p \in Procs :
    /\ pc[p] \in {"apply", "forget"} => lock = p
    /\ pc[p] = "forget" => cleanup[job[p].name] \notin trees

Awaited(t) ==
  \/ \E n \in Names : cleanup[n] = t
  \/ \E p \in Procs : HoldsTree(p) /\ job[p].tree = t
TreesAwaited ==
  trouble = {} /\ (\A n \in Names : uses[n] <= 1) => \A t \in trees : Awaited(t)

ArtifactViewsInv ==
  NamesTypeOK /\ TreesApart /\ UsesCounted /\ StaleIsOver /\ ForgetsGone /\ TreesAwaited

-----------------------------------------------------------------------------
(* What a step does to the worktrees' invariant                            *)

LEMMA LeaveFacts ==
  ASSUME NamesTypeOK, NEW p \in Procs, Leave(p)
  PROVE  /\ pc' \in [Procs -> PCs] /\ pc'[p] = "idle" /\ DOMAIN job' = Procs
         /\ \A q \in Procs \ {p} : pc'[q] = pc[q] /\ job'[q] = job[q]
         /\ lock' \in Procs \cup {None} /\ \A q \in Procs \ {p} : lock = q => lock' = q
BY DEF NamesTypeOK, Leave, Go, PCs

LEMMA NamesTyped ==
  ASSUME NamesTypeOK, ArtifactViewsNext
  PROVE  NamesTypeOK'
<1> USE ViewsAssumption
    DEF NamesTypeOK, Job, Session, Ops, PCs, ViewPlaced, HasSession, Trees, Unbound, Pending
<1>1. ASSUME NEW p \in Procs, Open(p) PROVE NamesTypeOK'
  BY <1>1 DEF Open, Begin, Go
<1>2. ASSUME NEW p \in Procs, Close(p) PROVE NamesTypeOK'
  BY <1>2 DEF Close, Begin, Go
<1>3. ASSUME NEW p \in Procs, RepairCleanups(p) PROVE NamesTypeOK'
  BY <1>3 DEF RepairCleanups, Begin, Go
<1>4. ASSUME NEW p \in Procs, Judge(p) PROVE NamesTypeOK'
  BY <1>4 DEF Judge, Go
<1>5. ASSUME NEW p \in Procs, RemoveTree(p) PROVE NamesTypeOK'
  <2>1. PICK n \in job[p].todo \cap Pending :
          job' = [job EXCEPT ![p].todo = @ \ {n}, ![p].name = n]
    BY <1>5 DEF RemoveTree
  <2>2. job[p] \in Job /\ n \in Names
    BY <1>5, <2>1 DEF RemoveTree
  <2>3. /\ job'[p] = [job[p] EXCEPT !.todo = @ \ {n}, !.name = n] /\ DOMAIN job' = Procs
        /\ \A q \in Procs \ {p} : job'[q] = job[q]
    BY <2>1
  <2> DEFINE j == [job[p] EXCEPT !.todo = @ \ {n}]
  <2>4. j \in Job /\ j.tree = job[p].tree /\ job'[p] = [j EXCEPT !.name = n]
    BY <2>2, <2>3
  <2>5. job'[p] \in Job /\ job'[p].name \in Names /\ job'[p].tree = job[p].tree
    <3> HIDE DEF j
    <3> QED BY <2>2, <2>4
  <2> QED BY <1>5, <2>3, <2>5 DEF RemoveTree, Go
<1>6. ASSUME NEW p \in Procs, NothingPending(p) PROVE NamesTypeOK'
  BY <1>6 DEF NothingPending, Go
<1>7. ASSUME NEW p \in Procs, Forget(p) PROVE NamesTypeOK'
  BY <1>7 DEF Forget, Go
<1>8. ASSUME NEW p \in Procs, ClosesOver(p) PROVE NamesTypeOK'
  BY <1>8, LeaveFacts DEF ClosesOver, Go
<1>9. ASSUME NEW p \in Procs, OpenPlain(p) PROVE NamesTypeOK'
  BY <1>9 DEF OpenPlain, Go
<1>10. ASSUME NEW p \in Procs, AddTree(p) PROVE NamesTypeOK'
  BY <1>10 DEF AddTree, Go
<1>11. ASSUME NEW p \in Procs, ApplyDiff(p) PROVE NamesTypeOK'
  BY <1>11 DEF ApplyDiff, Go
<1>12. ASSUME NEW p \in Procs, ViewName(p) PROVE NamesTypeOK'
  BY <1>12 DEF ViewName, Go
<1>13. ASSUME NEW p \in Procs, Start(p) PROVE NamesTypeOK'
  BY <1>13 DEF Start, Go
<1>14. ASSUME NEW p \in Procs, OpenFails(p) PROVE NamesTypeOK'
  BY <1>14, LeaveFacts DEF OpenFails
<1>15. ASSUME NEW p \in Procs, Bind(p) PROVE NamesTypeOK'
  <2>1. session[job[p].name] \in Session /\ job[p].name \in Names
    BY <1>15 DEF Bind
  <2>2. session' \in [Names -> Session \cup {None}]
    BY <1>15, <2>1 DEF Bind
  <2>3. CASE job[p].tree = None
    BY <1>15, <2>2, <2>3, LeaveFacts DEF Bind
  <2>4. CASE job[p].tree # None
    BY <1>15, <2>2, <2>4 DEF Bind, Go
  <2> QED BY <2>3, <2>4
<1>16. ASSUME NEW p \in Procs, RecordCleanup(p) PROVE NamesTypeOK'
  BY <1>16, LeaveFacts DEF RecordCleanup
<1>17. ASSUME NEW p \in Procs, Breaks(p) PROVE NamesTypeOK'
  BY <1>17, LeaveFacts DEF Breaks
<1>18. ASSUME NEW n \in Names, SessionEnds(n) PROVE NamesTypeOK'
  BY <1>18 DEF SessionEnds
<1>19. ASSUME NEW n \in Names, AgentStarts(n) PROVE NamesTypeOK'
  BY <1>19 DEF AgentStarts
<1> HIDE ViewsAssumption
    DEF NamesTypeOK, Job, Session, Ops, PCs, ViewPlaced, HasSession, Trees, Unbound, Pending
<1> QED
  BY <1>1, <1>2, <1>3, <1>4, <1>5, <1>6, <1>7, <1>8, <1>9, <1>10, <1>11, <1>12, <1>13, <1>14,
     <1>15, <1>16, <1>17, <1>18, <1>19
  DEF ArtifactViewsNext, Step

LEMMA TreesStayApart ==
  ASSUME NamesTypeOK, TreesApart, ArtifactViewsNext
  PROVE  TreesApart'
<1> USE ViewsAssumption
    DEF NamesTypeOK, TreesApart, ShowsTree, HoldsTree, Serves, HasSession, Unbound, Session,
          Trees, Job, PCs, Ops, ViewPlaced
<1>1. ASSUME NEW p \in Procs, Open(p) PROVE TreesApart'
  BY <1>1 DEF Open, Begin, Go
<1>2. ASSUME NEW p \in Procs, Close(p) PROVE TreesApart'
  BY <1>2 DEF Close, Begin, Go
<1>3. ASSUME NEW p \in Procs, RepairCleanups(p) PROVE TreesApart'
  BY <1>3 DEF RepairCleanups, Begin, Go
<1>4. ASSUME NEW p \in Procs, Judge(p) PROVE TreesApart'
  BY <1>4 DEF Judge, Go
<1>5. ASSUME NEW p \in Procs, RemoveTree(p) PROVE TreesApart'
  BY <1>5 DEF RemoveTree, Go
<1>6. ASSUME NEW p \in Procs, NothingPending(p) PROVE TreesApart'
  BY <1>6 DEF NothingPending, Go
<1>7. ASSUME NEW p \in Procs, Forget(p) PROVE TreesApart'
  BY <1>7 DEF Forget, Go
<1>8. ASSUME NEW p \in Procs, ClosesOver(p) PROVE TreesApart'
  BY <1>8, LeaveFacts DEF ClosesOver, Go
<1>9. ASSUME NEW p \in Procs, OpenPlain(p) PROVE TreesApart'
  BY <1>9 DEF OpenPlain, Go
<1>10. ASSUME NEW p \in Procs, AddTree(p) PROVE TreesApart'
  BY <1>10 DEF AddTree, Go
<1>11. ASSUME NEW p \in Procs, ApplyDiff(p) PROVE TreesApart'
  BY <1>11 DEF ApplyDiff, Go
<1>12. ASSUME NEW p \in Procs, ViewName(p) PROVE TreesApart'
  BY <1>12 DEF ViewName, Go
<1>13. ASSUME NEW p \in Procs, Start(p) PROVE TreesApart'
  BY <1>13 DEF Start, Go
<1>14. ASSUME NEW p \in Procs, OpenFails(p) PROVE TreesApart'
  <2>1. UNCHANGED <<session, cleanup, made>>
    BY <1>14 DEF OpenFails
  <2>2. \A q \in Procs : HoldsTree(q)' => q # p /\ HoldsTree(q) /\ job'[q] = job[q] /\ pc'[q] = pc[q]
    BY <1>14, LeaveFacts DEF OpenFails
  <2> QED BY <2>1, <2>2
<1>15. ASSUME NEW p \in Procs, Bind(p) PROVE TreesApart'
  <2>1. UNCHANGED <<cleanup, made>>
    BY <1>15 DEF Bind
  <2>2. \A q \in Procs : HoldsTree(q)' => HoldsTree(q) /\ job'[q] = job[q] /\ (Serves(q) => Serves(q)')
    BY <1>15, LeaveFacts DEF Bind, Go
  <2>3. session' = [session EXCEPT ![job[p].name].bound = TRUE] /\ HasSession(job[p].name)
    BY <1>15 DEF Bind
  <2>4. \A n \in Names : ShowsTree(n)' => ShowsTree(n) /\ session'[n].tree = session[n].tree
    BY <1>15, <2>3 DEF Bind
  <2> QED BY <2>1, <2>2, <2>4
<1>16. ASSUME NEW p \in Procs, RecordCleanup(p) PROVE TreesApart'
  <2>1. /\ UNCHANGED <<session, made>> /\ pc[p] = "record" /\ job[p].name \in Names
        /\ cleanup' = [cleanup EXCEPT ![job[p].name] = job[p].tree]
    BY <1>16 DEF RecordCleanup
  <2>2. \A q \in Procs : HoldsTree(q)' => q # p /\ HoldsTree(q) /\ job'[q] = job[q] /\ pc'[q] = pc[q]
    BY <1>16, LeaveFacts DEF RecordCleanup
  <2>3. \A n \in Names : cleanup'[n] = IF n = job[p].name THEN job[p].tree ELSE cleanup[n]
    BY <2>1
  <2>4. job[p].tree # None => HoldsTree(p)
    BY <2>1
  <2> QED BY <2>1, <2>2, <2>3, <2>4
<1>17. ASSUME NEW p \in Procs, Breaks(p) PROVE TreesApart'
  <2>1. UNCHANGED <<session, cleanup, made>>
    BY <1>17 DEF Breaks
  <2>2. \A q \in Procs : HoldsTree(q)' => q # p /\ HoldsTree(q) /\ job'[q] = job[q] /\ pc'[q] = pc[q]
    BY <1>17, LeaveFacts DEF Breaks
  <2> QED BY <2>1, <2>2
<1>18. ASSUME NEW n \in Names, SessionEnds(n) PROVE TreesApart'
  BY <1>18 DEF SessionEnds
<1>19. ASSUME NEW n \in Names, AgentStarts(n) PROVE TreesApart'
  BY <1>19 DEF AgentStarts
<1> HIDE ViewsAssumption
    DEF NamesTypeOK, TreesApart, ShowsTree, HoldsTree, Serves, HasSession, Unbound, Session,
          Trees, Job, PCs, Ops, ViewPlaced
<1> QED
  BY <1>1, <1>2, <1>3, <1>4, <1>5, <1>6, <1>7, <1>8, <1>9, <1>10, <1>11, <1>12, <1>13, <1>14,
     <1>15, <1>16, <1>17, <1>18, <1>19
  DEF ArtifactViewsNext, Step

LEMMA UsesStayCounted ==
  ASSUME NamesTypeOK, UsesCounted, ArtifactViewsNext
  PROVE  UsesCounted'
<1> USE ViewsAssumption
    DEF NamesTypeOK, UsesCounted, Serves, HasSession, Job, Ops, ViewPlaced
<1>1. ASSUME NEW p \in Procs, Open(p) PROVE UsesCounted'
  BY <1>1 DEF Open, Begin, Go
<1>2. ASSUME NEW p \in Procs, Close(p) PROVE UsesCounted'
  BY <1>2 DEF Close, Begin, Go
<1>3. ASSUME NEW p \in Procs, RepairCleanups(p) PROVE UsesCounted'
  BY <1>3 DEF RepairCleanups, Begin, Go
<1>4. ASSUME NEW p \in Procs, Judge(p) PROVE UsesCounted'
  BY <1>4 DEF Judge, Go
<1>5. ASSUME NEW p \in Procs, RemoveTree(p) PROVE UsesCounted'
  BY <1>5 DEF RemoveTree, Go
<1>6. ASSUME NEW p \in Procs, NothingPending(p) PROVE UsesCounted'
  BY <1>6 DEF NothingPending, Go
<1>7. ASSUME NEW p \in Procs, Forget(p) PROVE UsesCounted'
  BY <1>7 DEF Forget, Go
<1>8. ASSUME NEW p \in Procs, ClosesOver(p) PROVE UsesCounted'
  BY <1>8, LeaveFacts DEF ClosesOver, Go
<1>9. ASSUME NEW p \in Procs, OpenPlain(p) PROVE UsesCounted'
  BY <1>9 DEF OpenPlain, Go
<1>10. ASSUME NEW p \in Procs, AddTree(p) PROVE UsesCounted'
  BY <1>10 DEF AddTree, Go
<1>11. ASSUME NEW p \in Procs, ApplyDiff(p) PROVE UsesCounted'
  BY <1>11 DEF ApplyDiff, Go
<1>12. ASSUME NEW p \in Procs, ViewName(p) PROVE UsesCounted'
  BY <1>12 DEF ViewName, Go
<1>13. ASSUME NEW p \in Procs, Start(p) PROVE UsesCounted'
  <2> DEFINE n == job[p].name
  <2>1. /\ n \in Names /\ uses'[n] = uses[n] + 1 /\ uses[n] \in Nat
        /\ \A m \in Names : m # n => uses'[m] = uses[m]
        /\ \A q \in Procs \ {p} : pc'[q] = pc[q]
        /\ pc'[p] = "bind" /\ pc[p] = "start" /\ UNCHANGED <<cleanup, job>>
    BY <1>13 DEF Start, Go
  <2>2. \A m \in Names : uses[m] \in Nat /\ uses'[m] \in Nat /\ uses'[m] >= uses[m]
    BY <2>1
  <2>3. \A q \in Procs : Serves(q) => job[q].name \in Names
    BY DEF PCs
  <2> HIDE DEF n
  <2>4. \A m \in Names : cleanup'[m] # None => uses'[m] >= 1
    BY <2>1, <2>2
  <2>5. uses'[n] >= 1 /\ (cleanup[n] # None => uses'[n] >= 2)
    BY <2>1
  <2>6. \A q \in Procs : q # p /\ Serves(q) /\ job[q].name = n => uses'[n] >= 2
    BY <2>1, <2>3
  <2> QED BY <2>1, <2>2, <2>3, <2>4, <2>5, <2>6 DEF n
<1>14. ASSUME NEW p \in Procs, OpenFails(p) PROVE UsesCounted'
  BY <1>14, LeaveFacts DEF OpenFails
<1>15. ASSUME NEW p \in Procs, Bind(p) PROVE UsesCounted'
  BY <1>15, LeaveFacts DEF Bind, Go
<1>16. ASSUME NEW p \in Procs, RecordCleanup(p) PROVE UsesCounted'
  BY <1>16, LeaveFacts DEF RecordCleanup
<1>17. ASSUME NEW p \in Procs, Breaks(p) PROVE UsesCounted'
  BY <1>17, LeaveFacts DEF Breaks
<1>18. ASSUME NEW n \in Names, SessionEnds(n) PROVE UsesCounted'
  BY <1>18 DEF SessionEnds
<1>19. ASSUME NEW n \in Names, AgentStarts(n) PROVE UsesCounted'
  BY <1>19 DEF AgentStarts
<1> HIDE ViewsAssumption
    DEF NamesTypeOK, UsesCounted, Serves, HasSession, Job, Ops, ViewPlaced
<1> QED
  BY <1>1, <1>2, <1>3, <1>4, <1>5, <1>6, <1>7, <1>8, <1>9, <1>10, <1>11, <1>12, <1>13, <1>14,
     <1>15, <1>16, <1>17, <1>18, <1>19
  DEF ArtifactViewsNext, Step

LEMMA StaleStaysOver ==
  ASSUME NamesTypeOK, UsesCounted, StaleIsOver, ArtifactViewsNext
  PROVE  StaleIsOver'
<1> USE ViewsAssumption
    DEF NamesTypeOK, StaleIsOver, UsesCounted, Serves, ShowsTree, HasSession, Job, Ops, Pending,
          Unbound, LiveView, ViewPlaced
<1>1. ASSUME NEW p \in Procs, Open(p) PROVE StaleIsOver'
  BY <1>1 DEF Open, Begin, Go
<1>2. ASSUME NEW p \in Procs, Close(p) PROVE StaleIsOver'
  BY <1>2 DEF Close, Begin, Go
<1>3. ASSUME NEW p \in Procs, RepairCleanups(p) PROVE StaleIsOver'
  BY <1>3 DEF RepairCleanups, Begin, Go
<1>4. ASSUME NEW p \in Procs, Judge(p) PROVE StaleIsOver'
  BY <1>4 DEF Judge, Go
<1>5. ASSUME NEW p \in Procs, RemoveTree(p) PROVE StaleIsOver'
  BY <1>5 DEF RemoveTree, Go
<1>6. ASSUME NEW p \in Procs, NothingPending(p) PROVE StaleIsOver'
  BY <1>6 DEF NothingPending, Go
<1>7. ASSUME NEW p \in Procs, Forget(p) PROVE StaleIsOver'
  BY <1>7 DEF Forget, Go
<1>8. ASSUME NEW p \in Procs, ClosesOver(p) PROVE StaleIsOver'
  BY <1>8, LeaveFacts DEF ClosesOver, Go
<1>9. ASSUME NEW p \in Procs, OpenPlain(p) PROVE StaleIsOver'
  BY <1>9 DEF OpenPlain, Go
<1>10. ASSUME NEW p \in Procs, AddTree(p) PROVE StaleIsOver'
  BY <1>10 DEF AddTree, Go
<1>11. ASSUME NEW p \in Procs, ApplyDiff(p) PROVE StaleIsOver'
  BY <1>11 DEF ApplyDiff, Go
<1>12. ASSUME NEW p \in Procs, ViewName(p) PROVE StaleIsOver'
  BY <1>12 DEF ViewName, Go
<1>13. ASSUME NEW p \in Procs, Start(p) PROVE StaleIsOver'
  BY <1>13 DEF Start, Go
<1>14. ASSUME NEW p \in Procs, OpenFails(p) PROVE StaleIsOver'
  BY <1>14, LeaveFacts DEF OpenFails
<1>15. ASSUME NEW p \in Procs, Bind(p) PROVE StaleIsOver'
  BY <1>15, LeaveFacts DEF Bind, Go
<1>16. ASSUME NEW p \in Procs, RecordCleanup(p) PROVE StaleIsOver'
  BY <1>16, LeaveFacts DEF RecordCleanup
<1>17. ASSUME NEW p \in Procs, Breaks(p) PROVE StaleIsOver'
  BY <1>17, LeaveFacts DEF Breaks
<1>18. ASSUME NEW n \in Names, SessionEnds(n) PROVE StaleIsOver'
  BY <1>18 DEF SessionEnds
<1>19. ASSUME NEW n \in Names, AgentStarts(n) PROVE StaleIsOver'
  BY <1>19 DEF AgentStarts
<1> HIDE ViewsAssumption
    DEF NamesTypeOK, StaleIsOver, UsesCounted, Serves, ShowsTree, HasSession, Job, Ops, Pending,
          Unbound, LiveView, ViewPlaced
<1> QED
  BY <1>1, <1>2, <1>3, <1>4, <1>5, <1>6, <1>7, <1>8, <1>9, <1>10, <1>11, <1>12, <1>13, <1>14,
     <1>15, <1>16, <1>17, <1>18, <1>19
  DEF ArtifactViewsNext, Step

LEMMA ForgetsStayGone ==
  ASSUME NamesTypeOK, ForgetsGone, ArtifactViewsNext
  PROVE  ForgetsGone'
<1> USE ViewsAssumption
    DEF NamesTypeOK, ForgetsGone, Job, Ops, Pending, Trees, ViewPlaced
<1>1. ASSUME NEW p \in Procs, Open(p) PROVE ForgetsGone'
  BY <1>1 DEF Open, Begin, Go
<1>2. ASSUME NEW p \in Procs, Close(p) PROVE ForgetsGone'
  BY <1>2 DEF Close, Begin, Go
<1>3. ASSUME NEW p \in Procs, RepairCleanups(p) PROVE ForgetsGone'
  BY <1>3 DEF RepairCleanups, Begin, Go
<1>4. ASSUME NEW p \in Procs, Judge(p) PROVE ForgetsGone'
  BY <1>4 DEF Judge, Go
<1>5. ASSUME NEW p \in Procs, RemoveTree(p) PROVE ForgetsGone'
  BY <1>5 DEF RemoveTree, Go
<1>6. ASSUME NEW p \in Procs, NothingPending(p) PROVE ForgetsGone'
  BY <1>6 DEF NothingPending, Go
<1>7. ASSUME NEW p \in Procs, Forget(p) PROVE ForgetsGone'
  BY <1>7 DEF Forget, Go
<1>8. ASSUME NEW p \in Procs, ClosesOver(p) PROVE ForgetsGone'
  BY <1>8, LeaveFacts DEF ClosesOver, Go
<1>9. ASSUME NEW p \in Procs, OpenPlain(p) PROVE ForgetsGone'
  BY <1>9 DEF OpenPlain, Go
<1>10. ASSUME NEW p \in Procs, AddTree(p) PROVE ForgetsGone'
  BY <1>10 DEF AddTree, Go
<1>11. ASSUME NEW p \in Procs, ApplyDiff(p) PROVE ForgetsGone'
  BY <1>11 DEF ApplyDiff, Go
<1>12. ASSUME NEW p \in Procs, ViewName(p) PROVE ForgetsGone'
  BY <1>12 DEF ViewName, Go
<1>13. ASSUME NEW p \in Procs, Start(p) PROVE ForgetsGone'
  BY <1>13 DEF Start, Go
<1>14. ASSUME NEW p \in Procs, OpenFails(p) PROVE ForgetsGone'
  BY <1>14, LeaveFacts DEF OpenFails
<1>15. ASSUME NEW p \in Procs, Bind(p) PROVE ForgetsGone'
  BY <1>15, LeaveFacts DEF Bind, Go
<1>16. ASSUME NEW p \in Procs, RecordCleanup(p) PROVE ForgetsGone'
  BY <1>16, LeaveFacts DEF RecordCleanup
<1>17. ASSUME NEW p \in Procs, Breaks(p) PROVE ForgetsGone'
  BY <1>17, LeaveFacts DEF Breaks
<1>18. ASSUME NEW n \in Names, SessionEnds(n) PROVE ForgetsGone'
  BY <1>18 DEF SessionEnds
<1>19. ASSUME NEW n \in Names, AgentStarts(n) PROVE ForgetsGone'
  BY <1>19 DEF AgentStarts
<1> HIDE ViewsAssumption
    DEF NamesTypeOK, ForgetsGone, Job, Ops, Pending, Trees, ViewPlaced
<1> QED
  BY <1>1, <1>2, <1>3, <1>4, <1>5, <1>6, <1>7, <1>8, <1>9, <1>10, <1>11, <1>12, <1>13, <1>14,
     <1>15, <1>16, <1>17, <1>18, <1>19
  DEF ArtifactViewsNext, Step

LEMMA TreesStayAwaited ==
  ASSUME NamesTypeOK, UsesCounted, ForgetsGone, TreesAwaited, ArtifactViewsNext
  PROVE  TreesAwaited'
<1> USE ViewsAssumption
    DEF NamesTypeOK, TreesAwaited, Awaited, UsesCounted, ForgetsGone, HoldsTree, Serves, Job,
          Ops, Pending, Trees, HasSession, ViewPlaced
<1>1. ASSUME NEW p \in Procs, Open(p) PROVE TreesAwaited'
  BY <1>1 DEF Open, Begin, Go
<1>2. ASSUME NEW p \in Procs, Close(p) PROVE TreesAwaited'
  BY <1>2 DEF Close, Begin, Go
<1>3. ASSUME NEW p \in Procs, RepairCleanups(p) PROVE TreesAwaited'
  BY <1>3 DEF RepairCleanups, Begin, Go
<1>4. ASSUME NEW p \in Procs, Judge(p) PROVE TreesAwaited'
  BY <1>4 DEF Judge, Go
<1>5. ASSUME NEW p \in Procs, RemoveTree(p) PROVE TreesAwaited'
  BY <1>5 DEF RemoveTree, Go
<1>6. ASSUME NEW p \in Procs, NothingPending(p) PROVE TreesAwaited'
  BY <1>6 DEF NothingPending, Go
<1>7. ASSUME NEW p \in Procs, Forget(p) PROVE TreesAwaited'
  BY <1>7 DEF Forget, Go
<1>8. ASSUME NEW p \in Procs, ClosesOver(p) PROVE TreesAwaited'
  BY <1>8, LeaveFacts DEF ClosesOver, Go
<1>9. ASSUME NEW p \in Procs, OpenPlain(p) PROVE TreesAwaited'
  BY <1>9 DEF OpenPlain, Go
<1>10. ASSUME NEW p \in Procs, AddTree(p) PROVE TreesAwaited'
  BY <1>10 DEF AddTree, Go
<1>11. ASSUME NEW p \in Procs, ApplyDiff(p) PROVE TreesAwaited'
  BY <1>11 DEF ApplyDiff, Go
<1>12. ASSUME NEW p \in Procs, ViewName(p) PROVE TreesAwaited'
  BY <1>12 DEF ViewName, Go
<1>13. ASSUME NEW p \in Procs, Start(p) PROVE TreesAwaited'
  BY <1>13 DEF Start, Go
<1>14. ASSUME NEW p \in Procs, OpenFails(p) PROVE TreesAwaited'
  BY <1>14, LeaveFacts DEF OpenFails
<1>15. ASSUME NEW p \in Procs, Bind(p) PROVE TreesAwaited'
  BY <1>15, LeaveFacts DEF Bind, Go
<1>16. ASSUME NEW p \in Procs, RecordCleanup(p) PROVE TreesAwaited'
  <2> SUFFICES ASSUME trouble' = {}, \A n \in Names : uses'[n] <= 1, NEW t \in trees'
               PROVE  Awaited(t)'
    OBVIOUS
  <2>1. /\ pc[p] = "record" /\ UNCHANGED <<trees, uses, trouble>> /\ Leave(p)
        /\ cleanup' = [cleanup EXCEPT ![job[p].name] = job[p].tree]
    BY <1>16 DEF RecordCleanup
  <2>2. job[p].name \in Names /\ cleanup[job[p].name] = None
    BY <2>1
  <2>3. /\ cleanup'[job[p].name] = job[p].tree
        /\ \A n \in Names : n # job[p].name => cleanup'[n] = cleanup[n]
    BY <2>1, <2>2
  <2>4. t # None /\ Awaited(t)
    BY <2>1
  <2>5. CASE \E n \in Names : cleanup[n] = t
    BY <2>2, <2>3, <2>4, <2>5
  <2>6. CASE \E q \in Procs : HoldsTree(q) /\ job[q].tree = t
    BY <2>1, <2>2, <2>3, <2>6, LeaveFacts
  <2> QED BY <2>4, <2>5, <2>6
<1>17. ASSUME NEW p \in Procs, Breaks(p) PROVE TreesAwaited'
  BY <1>17, LeaveFacts DEF Breaks
<1>18. ASSUME NEW n \in Names, SessionEnds(n) PROVE TreesAwaited'
  BY <1>18 DEF SessionEnds
<1>19. ASSUME NEW n \in Names, AgentStarts(n) PROVE TreesAwaited'
  BY <1>19 DEF AgentStarts
<1> HIDE ViewsAssumption
    DEF NamesTypeOK, TreesAwaited, Awaited, UsesCounted, ForgetsGone, HoldsTree, Serves, Job,
          Ops, Pending, Trees, HasSession, ViewPlaced
<1> QED
  BY <1>1, <1>2, <1>3, <1>4, <1>5, <1>6, <1>7, <1>8, <1>9, <1>10, <1>11, <1>12, <1>13, <1>14,
     <1>15, <1>16, <1>17, <1>18, <1>19
  DEF ArtifactViewsNext, Step

(* A worktree has one view and one name, and is awaited until its view's   *)
(* end: the inductive invariant of the views of an artifact.               *)
THEOREM ArtifactViewsInvariance == Spec => []ArtifactViewsInv
<1>1. ArtifactViewsInit => ArtifactViewsInv
  BY ViewsAssumption
     DEF ArtifactViewsInit, ArtifactViewsInv, NamesTypeOK, TreesApart, UsesCounted, StaleIsOver,
         ForgetsGone, TreesAwaited, HasSession, ShowsTree, HoldsTree, Serves, PCs, ViewPlaced
<1>2. ArtifactViewsInv /\ [ArtifactViewsNext]_vars => ArtifactViewsInv'
  <2> SUFFICES ASSUME ArtifactViewsInv, [ArtifactViewsNext]_vars PROVE ArtifactViewsInv'
    OBVIOUS
  <2>1. CASE ArtifactViewsNext
    BY <2>1, NamesTyped, TreesStayApart, UsesStayCounted, StaleStaysOver, ForgetsStayGone,
       TreesStayAwaited DEF ArtifactViewsInv
  <2>2. CASE UNCHANGED vars
    <3>1. NamesTypeOK' /\ TreesApart' /\ UsesCounted'
      BY <2>2 DEF vars, ArtifactViewsInv, NamesTypeOK, TreesApart, UsesCounted, HasSession, ShowsTree,
                  HoldsTree, Serves
    <3>2. StaleIsOver' /\ ForgetsGone' /\ TreesAwaited'
      BY <2>2 DEF vars, ArtifactViewsInv, StaleIsOver, ForgetsGone, TreesAwaited, Awaited, HasSession,
                  ShowsTree, HoldsTree
    <3> QED BY <3>1, <3>2 DEF ArtifactViewsInv
  <2> QED BY <2>1, <2>2
<1> QED BY <1>1, <1>2, PTL DEF Spec

(* When nobody is at work, nothing broke, no open was refused and no name  *)
(* served two views, every temporary worktree waits for its view's end,    *)
(* however many processes opened, closed and repaired (views.rs).          *)
THEOREM TreesAreAwaited == Spec => []NoTreeIsLost
<1>1. ArtifactViewsInv => NoTreeIsLost
  <2> SUFFICES ASSUME ArtifactViewsInv, Quiet, trouble = {}, \A n \in Names : uses[n] <= 1,
                      NEW t \in trees
               PROVE  t \in Range(cleanup)
    BY DEF NoTreeIsLost
  <2>1. Awaited(t)
    BY DEF ArtifactViewsInv, TreesAwaited
  <2>2. \A p \in Procs : ~HoldsTree(p)
    BY DEF Quiet, HoldsTree
  <2>3. PICK n \in Names : cleanup[n] = t
    BY <2>1, <2>2 DEF Awaited
  <2>4. DOMAIN cleanup = Names
    BY DEF ArtifactViewsInv, NamesTypeOK
  <2> QED BY <2>3, <2>4 DEF Range
<1> QED BY <1>1, ArtifactViewsInvariance, PTL

(* A step takes the worktree of a view that runs only while a close is     *)
(* under way, or when an earlier view had the name, however many opens,    *)
(* closes and repairs overlap (service.rs, views.rs).                      *)
THEOREM FirstWorktreeIsKept == Spec => FirstWorktreeStays
<1>1. ArtifactViewsInv /\ [ArtifactViewsNext]_vars =>
        [\A n \in Names : TakenFrom(n) => Closing \/ uses[n] > 1]_vars
  <2> SUFFICES ASSUME ArtifactViewsInv, ArtifactViewsNext, NEW n \in Names, TakenFrom(n), ~Closing
               PROVE  uses[n] > 1
    BY DEF vars, TakenFrom
  <2>1. PICK p \in Procs : RemoveTree(p)
    <3>1. session[n].tree \in trees \ trees'
      BY DEF TakenFrom
    <3> QED
      BY <3>1, ArtifactViewsNext
         DEF ArtifactViewsNext, Step, Open, Close, RepairCleanups, Begin, Judge, NothingPending, Forget,
             ClosesOver, OpenPlain, AddTree, ApplyDiff, ViewName, Start, OpenFails, Bind,
             RecordCleanup, Breaks, SessionEnds, AgentStarts
  <2>2. PICK m \in job[p].todo \cap Pending : trees' = trees \ {cleanup[m]}
    BY <2>1 DEF RemoveTree
  <2>3. ShowsTree(n) /\ session[n].tree = cleanup[m] /\ m \in Names
    BY <2>2, ViewsAssumption DEF TakenFrom, ShowsTree, HasSession, Pending, ArtifactViewsInv, NamesTypeOK
  <2>4. m = n
    BY <2>3 DEF ArtifactViewsInv, TreesApart
  <2>5. pc[p] = "closing" /\ job[p].op # "close"
    BY <2>1 DEF RemoveTree, Closing
  <2> QED BY <2>2, <2>3, <2>4, <2>5 DEF ArtifactViewsInv, StaleIsOver, NamesTypeOK
<1> QED BY <1>1, ArtifactViewsInvariance, PTL DEF Spec, FirstWorktreeStays

(* Whoever opens, closes and repairs at the same time, no worktree is lost *)
(* and none is taken from under the first view of its name (views.rs).     *)
THEOREM TreesAreKept == Spec => TreesStay
BY TreesAreAwaited, FirstWorktreeIsKept, PTL DEF TreesStay
=============================================================================
