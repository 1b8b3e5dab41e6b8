--------------------------- MODULE ClientViews ----------------------------
(***************************************************************************)
(* Views and nested clients on the IDE's tmux server (tx-client views.rs,  *)
(* view_verb.rs, tmux.rs): `tx ui view open|close|ls`, rename, the closing *)
(* of views whose parent agent is over, and the walk from a nested client  *)
(* to the terminal that shows it. Every session has one pane here; names   *)
(* are reused by other processes between two tmux commands of a verb.      *)
(***************************************************************************)
EXTENDS Naturals, Sequences, FiniteSets

CONSTANTS
  ViewActors,    \* processes of the view verbs
  SessionNames,  \* names of sessions
  ViewAgents,    \* agents, named as their session
  ViewClients,   \* tmux clients, terminals and nested ones
  Nobody,
  Hops,          \* clients a walk visits at most (16 in the code)
  MaxVerbs,      \* bound: verbs begun
  MaxViewTurns,      \* bound: changes by agents, clients and users
  MaxUids        \* bound: sessions created

ASSUME ClientsAssumption == Nobody \notin ViewClients /\ Hops \in Nat

VARIABLES
  tmux,     \* tmux[name]: the session, or NoSession
  parents,  \* parents[a]: the state of the agent's record
  clients,  \* clients[c]: [on: host session of its pane, or Nobody for a terminal; shows; active]
  verb,     \* verb[p]: the verb process p runs
  launching,\* launching[a]: the session of a's launch until it has its @tx-id, or Nobody
  hits,     \* sessions verbs killed or renamed, with what was judged (history)
  uids, verbs, turns

viewVars == <<tmux, parents, clients, verb, launching, hits, uids, verbs, turns>>
viewBounds == <<uids, verbs, turns>>

(* agent is the @tx-id. The rest is history: owner, the agent whose launch *)
(* made the session; strange, it was marked by an open that had made       *)
(* another one; fresh, it had no @tx-id when the verb judged it.           *)
NoSession == [uid |-> 0, agent |-> Nobody, marked |-> FALSE, kind |-> FALSE, parent |-> Nobody,
              owner |-> Nobody, strange |-> FALSE]
NoVerb == [at |-> "idle", name |-> Nobody, new |-> Nobody, parent |-> Nobody,
           set |-> <<>>, left |-> {}, uid |-> 0, fresh |-> FALSE, over |-> FALSE]
Exists(name) == tmux[name] # NoSession
VerbAt(p, place) == verb[p].at = place
VerbTo(p, place) == verb' = [verb EXCEPT ![p].at = place]
VerbEnds(p) == verb' = [verb EXCEPT ![p] = NoVerb]

(* the panes of a session that goes take their nested clients with them *)
Gone(names) ==
  [c \in ViewClients |-> IF clients[c].on \in names \/ clients[c].shows \in names
                         THEN [on |-> Nobody, shows |-> Nobody, active |-> 0] ELSE clients[c]]
Ends(name) ==
  /\ tmux' = [tmux EXCEPT ![name] = NoSession]
  /\ clients' = Gone({name})

ViewsInit ==
  /\ tmux = [n \in SessionNames |-> NoSession]
  /\ parents = [a \in ViewAgents |-> "none"]
  /\ clients = [c \in ViewClients |-> [on |-> Nobody, shows |-> Nobody, active |-> 0]]
  /\ verb = [p \in ViewActors |-> NoVerb]
  /\ launching = [a \in ViewAgents |-> Nobody]
  /\ hits = {} /\ uids = 0 /\ verbs = 0 /\ turns = 0

BeginVerb(p, v) ==
  /\ VerbAt(p, "idle") /\ verbs < MaxVerbs
  /\ verbs' = verbs + 1 /\ verb' = [verb EXCEPT ![p] = v]
  /\ UNCHANGED <<tmux, parents, clients, launching, hits, uids, turns>>

-----------------------------------------------------------------------------
(* views::open: the session first, then its options one by one; a session  *)
(* whose options could not all be set stays as it is.                      *)
BeginOpen(p, name, parent) ==
  /\ parent # Nobody => parents[parent] # "none"
  /\ ~Exists(name)
  /\ BeginVerb(p, [NoVerb EXCEPT !.at = "create", !.name = name, !.parent = parent,
                     !.set = <<"view", "kind">> \o (IF parent = Nobody THEN <<>> ELSE <<"parent">>)])

(* Mutant: a session that is there will do.                                *)
CreatesOver(p) ==
  /\ VerbAt(p, "create")
  /\ IF Exists(verb[p].name) THEN VerbTo(p, "options") /\ UNCHANGED <<tmux, uids>>
     ELSE /\ uids < MaxUids /\ uids' = uids + 1
          /\ tmux' = [tmux EXCEPT ![verb[p].name] = [NoSession EXCEPT !.uid = uids + 1]]
          /\ verb' = [verb EXCEPT ![p].at = "options", ![p].uid = uids + 1]
  /\ UNCHANGED <<parents, clients, launching, hits, verbs, turns>>

CreateSession(p) ==
  /\ VerbAt(p, "create")
  /\ IF Exists(verb[p].name) THEN VerbEnds(p) /\ UNCHANGED <<tmux, uids>>
     ELSE /\ uids < MaxUids /\ uids' = uids + 1
          /\ tmux' = [tmux EXCEPT ![verb[p].name] = [NoSession EXCEPT !.uid = uids + 1]]
          /\ verb' = [verb EXCEPT ![p].at = "options", ![p].uid = uids + 1]
  /\ UNCHANGED <<parents, clients, launching, hits, verbs, turns>>

(* by name: on whichever session has it now *)
SetOption(p) ==
  /\ VerbAt(p, "options")
  /\ LET v == verb[p]
         s == tmux[v.name] IN
     IF v.set = <<>> \/ ~Exists(v.name) THEN VerbEnds(p) /\ UNCHANGED tmux
     ELSE /\ tmux' = [tmux EXCEPT ![v.name] =
               CASE Head(v.set) = "view" ->
                      [s EXCEPT !.marked = TRUE, !.strange = @ \/ v.uid \notin {0, s.uid}]
                 [] Head(v.set) = "kind" -> [s EXCEPT !.kind = TRUE]
                 [] Head(v.set) = "parent" -> [s EXCEPT !.parent = v.parent]]
          /\ verb' = [verb EXCEPT ![p].set = Tail(@)]
  /\ UNCHANGED <<parents, clients, launching, hits, viewBounds>>

-----------------------------------------------------------------------------
(* close and rename: guard refuses what is no session, an agent's session  *)
(* and what is no view.                                                    *)

(* Mutant: any session that is no agent's may be closed.                   *)
GuardsAgentsOnly(name) == Exists(name) /\ tmux[name].agent = Nobody

(* Mutant: any view may, whether an agent's or not.                        *)
GuardsViewsOnly(name) == Exists(name) /\ tmux[name].marked

Guard(name) == Exists(name) /\ tmux[name].agent = Nobody /\ tmux[name].marked

BeginClose(p, name) == BeginVerb(p, [NoVerb EXCEPT !.at = "guard", !.name = name])
BeginRename(p, name, new) ==
  new # name /\ BeginVerb(p, [NoVerb EXCEPT !.at = "guard", !.name = name, !.new = new])

(* uid 0: the name changed hands since close_orphans judged its parent     *)
GuardView(p) ==
  /\ VerbAt(p, "guard")
  /\ LET v == verb[p] IN
     IF ~Guard(v.name) THEN VerbEnds(p)
     ELSE verb' = [verb EXCEPT ![p].at = IF v.new = Nobody THEN "kill" ELSE "rename",
                               ![p].fresh = tmux[v.name].agent = Nobody,
                               ![p].uid = IF @ \in {0, tmux[v.name].uid}
                                          THEN tmux[v.name].uid ELSE 0]
  /\ UNCHANGED <<tmux, parents, clients, launching, hits, viewBounds>>

Hit(v, s) ==
  [judged |-> v.uid = s.uid, fresh |-> v.fresh,
   agent |-> s.agent, owner |-> s.owner, marked |-> s.marked, strange |-> s.strange]

KillView(p) ==
  /\ VerbAt(p, "kill")
  /\ LET v == verb[p] IN
     IF ~Exists(v.name) THEN VerbEnds(p) /\ UNCHANGED <<tmux, clients, hits>>
     ELSE /\ Ends(v.name)
          /\ hits' = hits \cup {Hit(v, tmux[v.name])}
          /\ IF v.over THEN verb' = [verb EXCEPT ![p].at = "next", ![p].over = FALSE]
             ELSE VerbEnds(p)
  /\ UNCHANGED <<parents, launching, viewBounds>>

RenameView(p) ==
  /\ VerbAt(p, "rename")
  /\ VerbEnds(p)
  /\ LET v == verb[p] IN
     IF ~Exists(v.name) \/ Exists(v.new) THEN UNCHANGED <<tmux, clients, hits>>
     ELSE /\ hits' = hits \cup {Hit(v, tmux[v.name])}
          /\ tmux' = [tmux EXCEPT ![v.new] = tmux[v.name], ![v.name] = NoSession]
          /\ clients' = [c \in ViewClients |->
               [clients[c] EXCEPT !.shows = IF @ = v.name THEN v.new ELSE @,
                                  !.on = IF @ = v.name THEN v.new ELSE @]]
  /\ UNCHANGED <<parents, launching, viewBounds>>

-----------------------------------------------------------------------------
(* `tx ui view ls`: close_orphans over one listing, each view's parent     *)
(* refreshed against tmux; a close that fails ends the verb.               *)

Listed(s) == s.marked /\ s.kind
BeginLs(p) ==
  BeginVerb(p, [NoVerb EXCEPT !.at = "next",
    !.left = {[name |-> n, uid |-> tmux[n].uid, parent |-> tmux[n].parent] :
              n \in {m \in SessionNames : Listed(tmux[m]) /\ tmux[m].parent # Nobody}}])

(* core.refresh_agent: a running record without a session ends. It waits   *)
(* for the lock of an agent's record that a respawn holds.                 *)
OverNow(a) == parents[a] = "ended" \/ \A n \in SessionNames : tmux[n].agent # a

JudgeParent(p, l) ==
  /\ VerbAt(p, "next") /\ l \in verb[p].left
  /\ launching[l.parent] = Nobody
  /\ parents' = IF OverNow(l.parent) THEN [parents EXCEPT ![l.parent] = "ended"] ELSE parents
  /\ verb' = [verb EXCEPT ![p].left = @ \ {l},
                          ![p].at = IF OverNow(l.parent) THEN "guard" ELSE "next",
                          ![p].name = l.name, ![p].uid = l.uid, ![p].over = OverNow(l.parent)]
  /\ UNCHANGED <<tmux, clients, launching, hits, viewBounds>>

EndLs(p) ==
  /\ VerbAt(p, "next") /\ verb[p].left = {}
  /\ VerbEnds(p)
  /\ UNCHANGED <<tmux, parents, clients, launching, hits, viewBounds>>

-----------------------------------------------------------------------------
(* agents, users and clients, between any two steps of a verb *)

Turn == turns < MaxViewTurns /\ turns' = turns + 1

(* new-session of a create or a respawn *)
ParentStarts(a, name) ==
  /\ Turn /\ parents[a] # "running" /\ launching[a] = Nobody /\ ~Exists(name) /\ uids < MaxUids
  /\ uids' = uids + 1
  /\ launching' = [launching EXCEPT ![a] = name]
  /\ tmux' = [tmux EXCEPT ![name] = [NoSession EXCEPT !.uid = uids + 1, !.owner = a]]
  /\ UNCHANGED <<parents, clients, verb, hits, verbs>>

(* set_tx_id, on whichever session has the name now, and the record *)
ParentLinks(a) ==
  /\ launching[a] # Nobody
  /\ launching' = [launching EXCEPT ![a] = Nobody]
  /\ IF Exists(launching[a])
     THEN /\ tmux' = [tmux EXCEPT ![launching[a]].agent = a]
          /\ parents' = [parents EXCEPT ![a] = "running"]
     ELSE /\ parents' = [parents EXCEPT ![a] = "ended"]
          /\ UNCHANGED tmux
  /\ UNCHANGED <<clients, verb, hits, viewBounds>>

(* a session ends by itself; an agent's record says so once it is refreshed *)
ViewEnds(name) ==
  /\ Turn /\ Exists(name)
  /\ Ends(name)
  /\ UNCHANGED <<parents, verb, launching, hits, uids, verbs>>

(* a client attaches from a terminal, or from the pane of a session that   *)
(* hosts nested attaches; the latest is the most active                    *)
Attach(c, on, name) ==
  /\ Turn /\ Exists(name) /\ (on # Nobody => Exists(on))
  /\ clients' = [clients EXCEPT ![c] = [on |-> on, shows |-> name, active |-> turns + 1]]
  /\ on # Nobody => \A d \in ViewClients \ {c} : clients[d].on # on
  /\ UNCHANGED <<tmux, parents, verb, launching, hits, uids, verbs>>

ViewsNext ==
  \/ \E p \in ViewActors :
       \/ \E n \in SessionNames :
            \/ \E a \in ViewAgents \cup {Nobody} : BeginOpen(p, n, a)
            \/ BeginClose(p, n)
            \/ \E m \in SessionNames : BeginRename(p, n, m)
       \/ BeginLs(p) \/ CreateSession(p) \/ SetOption(p) \/ GuardView(p) \/ KillView(p)
       \/ RenameView(p) \/ EndLs(p)
       \/ \E l \in verb[p].left : JudgeParent(p, l)
  \/ \E a \in ViewAgents : ParentLinks(a)
  \/ \E n \in SessionNames :
       \/ \E a \in ViewAgents : ParentStarts(a, n)
       \/ ViewEnds(n)
       \/ \E c \in ViewClients, on \in SessionNames \cup {Nobody} : Attach(c, on, n)

ViewsSpec == ViewsInit /\ [][ViewsNext]_viewVars

-----------------------------------------------------------------------------
(* walk_to_outer_client *)

Attached(c) == clients[c].shows # Nobody
MostActive(C) == CHOOSE d \in C : \A e \in C : clients[e].active <= clients[d].active

(* Mutant: any client of the server, the terminal last used for one. *)
HostingAnyClient(c) ==
  LET on == {d \in ViewClients : Attached(d)} IN IF on = {} THEN Nobody ELSE MostActive(on)

HostingClient(c) ==
  LET on == {d \in ViewClients : Attached(d) /\ clients[d].shows = clients[c].on} IN
  IF on = {} THEN Nobody ELSE MostActive(on)

OuterClient(c) ==
  LET walk[n \in 0..Hops] ==
        [d \in ViewClients \cup {Nobody} |->
           IF d = Nobody \/ n = 0 THEN Nobody
           ELSE IF clients[d].on = Nobody THEN d
           ELSE walk[n - 1][HostingClient(d)]] IN
  walk[Hops][c]

(* A view verb kills and renames only what was marked a view, but for a    *)
(* name that changed hands since the verb judged it; and a session made    *)
(* for an agent only if it was judged before the launch had set its        *)
(* @tx-id, and marked by an open whose own session was gone (guard, close, *)
(* rename, close_orphans; open; core's start_locked).                      *)
OnlyViewsClose ==
  \A h \in hits : h.judged => h.marked /\ (h.owner # Nobody => h.fresh /\ h.strange)

(* views.rs:4: "Core marks its own sessions with `@tx-id`, and nothing     *)
(* here kills or renames one of those."                                    *)
AgentsAreNoViews == \A h \in hits : h.agent = Nobody

(* The walk from a nested client ends at a terminal that shows it, pane in *)
(* pane; and it ends at one whenever the nesting does not go round, is no  *)
(* deeper than the walk and every session with a nested client is shown    *)
(* (walk_to_outer_client).                                                 *)
Nested == {c \in ViewClients : Attached(c) /\ clients[c].on # Nobody}
Deepens(rank) == \A c \in Nested : rank[clients[c].shows] < rank[clients[c].on]
WalkEndsOutside ==
  \A c \in Nested :
    LET outer == OuterClient(c) IN
    /\ outer # Nobody => clients[outer].on = Nobody /\ Attached(outer)
    /\ outer = Nobody /\ (\E rank \in [SessionNames -> 1..Hops] : Deepens(rank)) =>
         \E d \in Nested : \A e \in ViewClients : clients[e].shows # clients[d].on

(* What the views keep: both of these.                                     *)
ViewsHold == OnlyViewsClose /\ WalkEndsOutside
=============================================================================
