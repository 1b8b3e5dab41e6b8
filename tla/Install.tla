----------------------------- MODULE Install ------------------------------
(***************************************************************************)
(* `tx ui install` (tx-client install.rs): writes the plugins' resources   *)
(* and the tmux conf, and reloads a running server: the keys, options and  *)
(* hooks (here: words) that the record of the last install has and the new *)
(* fragments do not declare are undone, then the conf is sourced. Plugins  *)
(* are turned on and off, and tx is upgraded, between two installs.        *)
(***************************************************************************)
EXTENDS Naturals, FiniteSets

CONSTANTS
  Installers,   \* processes of `tx ui install`
  Fragments,    \* ids of keys/<id>.tmux
  Ships,        \* Ships[b]: what build b with its plugins ships, fragment -> words
  MaxInstalls,  \* bound: installs begun
  MaxFaults,    \* bound: steps that fail, processes that die
  MaxServers,   \* bound: tmux servers started
  Missing,      \* no such file
  Link          \* a link to a file of the operator's

(* What a build ships is for fragments there are: texts, neither of them the *)
(* absence of a file or a link.                                            *)
ASSUME ShipsAssumption ==
  /\ DOMAIN Ships # {}
  /\ \A b \in DOMAIN Ships :
       /\ DOMAIN Ships[b] \subseteq Fragments /\ DOMAIN Ships[b] # Missing /\ Ships[b] # Missing
       /\ \A f \in DOMAIN Ships[b] : Ships[b][f] \notin {Missing, Link}

VARIABLES
  keyFiles,  \* keyFiles[f]: the words keys/f.tmux binds, Link, or Missing
  conf,      \* the fragments tx-core's conf runs, or Missing
  installed, \* keys/.installed: fragment -> words, or Missing
  linkedTo,  \* whether the operator's file behind a link is as it was
  server,    \* [up, bound: the words bound on it]
  installer, \* installer[p]: where process p is
  dirty,     \* the files may be those of an install that did not end (history)
  tainted,   \* the server may hold words of such an install (history)
  installs, faults, servers

installVars == <<keyFiles, conf, installed, linkedTo, server, installer, dirty, tainted,
                 installs, faults, servers>>
installBounds == <<installs, faults, servers>>

NotInstalling == [at |-> "idle", build |-> CHOOSE b \in DOMAIN Ships : TRUE,
                  previous |-> Missing, left |-> {}, alone |-> TRUE, met |-> FALSE]
InstallAt(p, place) == installer[p].at = place
InstallTo(p, place) == installer' = [installer EXCEPT ![p].at = place]
Installing == {p \in Installers : ~InstallAt(p, "idle")}

(* the words of a record or of a build, all fragments together *)
WordsOf(declared) == UNION {declared[f] : f \in DOMAIN declared}

InstallInit ==
  /\ keyFiles \in [Fragments -> {Missing, Link}]
  /\ conf = Missing /\ installed = Missing /\ linkedTo = "untouched"
  /\ server = [up |-> FALSE, bound |-> {}]
  /\ installer = [p \in Installers |-> NotInstalling]
  /\ dirty = FALSE /\ tainted = FALSE
  /\ installs = 0 /\ faults = 0 /\ servers = 0

-----------------------------------------------------------------------------
(* the record of the last install is read before anything is written; the  *)
(* resources to write are the enabled plugins'                             *)
BeginInstall(p, b) ==
  /\ InstallAt(p, "idle") /\ installs < MaxInstalls
  /\ installs' = installs + 1
  /\ installer' = [q \in Installers |->
       IF q = p THEN [at |-> "write", build |-> b, previous |-> installed,
                      left |-> DOMAIN Ships[b], alone |-> Installing = {}, met |-> FALSE]
       ELSE [installer[q] EXCEPT !.alone = FALSE]]
  /\ dirty' = (dirty \/ Installing # {})
  /\ UNCHANGED <<keyFiles, conf, installed, linkedTo, server, tainted, faults, servers>>

(* materialise: a link at the path is removed first, never written through *)
WriteFragment(p, f) ==
  /\ InstallAt(p, "write") /\ f \in installer[p].left
  /\ keyFiles' = [keyFiles EXCEPT ![f] = Ships[installer[p].build][f]]
  /\ installer' = [installer EXCEPT ![p].left = @ \ {f}]
  /\ UNCHANGED <<conf, installed, linkedTo, server, dirty, tainted, installBounds>>

(* prune: every other file of the kind goes, the record excepted *)
PruneFragments(p) ==
  /\ InstallAt(p, "write") /\ installer[p].left = {}
  /\ keyFiles' = [f \in Fragments |->
       IF f \in DOMAIN Ships[installer[p].build] THEN keyFiles[f] ELSE Missing]
  /\ InstallTo(p, "conf")
  /\ UNCHANGED <<conf, installed, linkedTo, server, dirty, tainted, installBounds>>

WriteConf(p) ==
  /\ InstallAt(p, "conf")
  /\ conf' = DOMAIN Ships[installer[p].build]
  /\ InstallTo(p, "list")
  /\ UNCHANGED <<keyFiles, installed, linkedTo, server, dirty, tainted, installBounds>>

(* list-sessions; words a server holds from before any record stay (the    *)
(* hint about legacy bindings)                                             *)
ListSessions(p) ==
  /\ InstallAt(p, "list")
  /\ InstallTo(p, IF server.up THEN "drop" ELSE "record")
  /\ tainted' = (tainted \/ (server.up /\ installer[p].previous = Missing))
  /\ UNCHANGED <<keyFiles, conf, installed, linkedTo, server, dirty, installBounds>>

(* Mutant: a fragment that is gone undoes nothing.                         *)
DroppedOfShipped(p) ==
  LET before == installer[p].previous
      now == Ships[installer[p].build] IN
  IF before = Missing THEN {}
  ELSE UNION {before[f] \ now[f] : f \in DOMAIN before \cap DOMAIN now}

(* per fragment: what it declared before and does not declare now *)
Dropped(p) ==
  LET before == installer[p].previous
      now == Ships[installer[p].build] IN
  IF before = Missing THEN {}
  ELSE UNION {before[f] \ (IF f \in DOMAIN now THEN now[f] ELSE {}) : f \in DOMAIN before}

(* unbind, set -gu, set-hook -gu; none of them can fail the install *)
UndoDropped(p) ==
  /\ InstallAt(p, "drop")
  /\ server' = [server EXCEPT !.bound = @ \ Dropped(p)]
  /\ InstallTo(p, "source")
  /\ UNCHANGED <<keyFiles, conf, installed, linkedTo, dirty, tainted, installBounds>>

(* what sourcing the conf binds: every listed fragment there is a file of *)
Sourced ==
  IF conf = Missing THEN {}
  ELSE UNION {keyFiles[f] : f \in {g \in conf : keyFiles[g] \notin {Missing, Link}}}

SourceConf(p) ==
  /\ InstallAt(p, "source")
  /\ IF server.up
       THEN /\ server' = [server EXCEPT !.bound = @ \cup Sourced]
            /\ InstallTo(p, "record") /\ UNCHANGED dirty
       ELSE /\ installer' = [installer EXCEPT ![p] = NotInstalling]
            /\ dirty' = TRUE /\ UNCHANGED server
  /\ UNCHANGED <<keyFiles, conf, installed, linkedTo, tainted, installBounds>>

(* source-file fails after some of the fragments ran: no record is written *)
SourceFails(p) ==
  /\ InstallAt(p, "source") /\ server.up /\ faults < MaxFaults
  /\ faults' = faults + 1
  /\ \E some \in SUBSET Sourced : server' = [server EXCEPT !.bound = @ \cup some]
  /\ tainted' = TRUE /\ dirty' = TRUE
  /\ installer' = [installer EXCEPT ![p] = NotInstalling]
  /\ UNCHANGED <<keyFiles, conf, installed, linkedTo, installs, servers>>

WriteInstalled(p) ==
  /\ InstallAt(p, "record")
  /\ installed' = Ships[installer[p].build]
  /\ dirty' = ~installer[p].alone
  /\ tainted' = (tainted \/ (server.up /\ ~installer[p].alone))
  /\ installer' = [installer EXCEPT ![p] = NotInstalling]
  /\ UNCHANGED <<keyFiles, conf, linkedTo, server, installBounds>>

(* a write, a removal or the process fails between two steps *)
InstallDies(p) ==
  /\ p \in Installing /\ faults < MaxFaults
  /\ faults' = faults + 1
  /\ installer' = [installer EXCEPT ![p] = NotInstalling]
  /\ dirty' = TRUE
  /\ tainted' = (tainted \/ (server.up /\ (installer[p].met \/ InstallAt(p, "record")
                                         \/ InstallAt(p, "source"))))
  /\ UNCHANGED <<keyFiles, conf, installed, linkedTo, server, installs, servers>>

-----------------------------------------------------------------------------
(* the tmux server: any command that opens a session starts it, with -f conf *)
ServerStarts ==
  /\ ~server.up /\ servers < MaxServers
  /\ servers' = servers + 1
  /\ server' = [up |-> TRUE, bound |-> Sourced]
  /\ tainted' = dirty
  /\ installer' = [p \in Installers |-> [installer[p] EXCEPT !.met = ~InstallAt(p, "idle")]]
  /\ UNCHANGED <<keyFiles, conf, installed, linkedTo, dirty, installs, faults>>

(* exit-empty: its last session ended *)
ServerExits ==
  /\ server.up
  /\ server' = [up |-> FALSE, bound |-> {}]
  /\ tainted' = FALSE
  /\ UNCHANGED <<keyFiles, conf, installed, linkedTo, installer, dirty, installBounds>>

InstallNext ==
  \/ \E p \in Installers :
       \/ \E b \in DOMAIN Ships : BeginInstall(p, b)
       \/ \E f \in Fragments : WriteFragment(p, f)
       \/ PruneFragments(p) \/ WriteConf(p) \/ ListSessions(p) \/ UndoDropped(p)
       \/ SourceConf(p) \/ SourceFails(p) \/ WriteInstalled(p) \/ InstallDies(p)
  \/ ServerStarts \/ ServerExits

InstallSpec == InstallInit /\ [][InstallNext]_installVars

-----------------------------------------------------------------------------
(* Between installs a server holds exactly the keys, options and hooks the *)
(* last install recorded: nothing of a plugin turned off since is left,    *)
(* whatever moved from one fragment to another; a server that took words   *)
(* of an install that failed, or ran beside another, is excused. The       *)
(* operator's files are never written through a link (install, dropped,    *)
(* materialise).                                                           *)
KeysAreTheRecorded ==
  /\ linkedTo = "untouched"
  /\ server.up /\ ~tainted /\ Installing = {} /\ installed # Missing =>
       server.bound = WordsOf(installed)
=============================================================================
