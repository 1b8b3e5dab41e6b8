--------------------------- MODULE ArtifactViews ---------------------------
(***************************************************************************)
(* The views of one artifact and their close steps: a diff whose worktree  *)
(* is gone is shown in a temporary worktree, which has to go when its view *)
(* has ended.  The step that removes it waits in <id>/.cleanup.json under  *)
(* the view's name for the next open, `doctor --repair` or `close`         *)
(* (plugins/artifacts/src/views.rs, service.rs, kinds.rs,                  *)
(* tx-client/src/views.rs).                                                *)
(*                                                                         *)
(* Each tmux call is a step: sessions come and go between them.  What an   *)
(* open does to the revisions is ArtifactRevisions'.                       *)
(***************************************************************************)
EXTENDS Naturals, FiniteSets, Functions

CONSTANTS
  Procs,      \* processes running tx
  Names,      \* session names
  Title,      \* the view's name, from the artifact's title
  TitleAndId, \* the one with the artifact's id, when Title is taken
  MaxTrees,   \* bound: temporary worktrees made
  MaxOps,     \* bound: operations begun
  Troubles,   \* bound: what may go wrong, once each
  None

ASSUME ViewsAssumption ==
  /\ {Title, TitleAndId} \subseteq Names /\ Title # TitleAndId
  /\ MaxTrees \in Nat /\ MaxOps \in Nat
  /\ None \notin Procs \cup Names \cup Nat
  /\ Troubles \subseteq {"break"}

VARIABLES
  session,   \* session[n]: the tmux session of that name
  cleanup,   \* cleanup[n]: .cleanup.json, the worktree to remove once view n has ended
  trees,     \* the temporary worktrees on disk
  made,      \* how many were made; each has a name of its own
  lock,      \* who holds .locks/<id>.lock
  pc, job,   \* each process: where it is, what it works on
  uses,      \* history: how many views have had the name
  trouble,   \* history: what went wrong
  begun

vars == <<session, cleanup, trees, made, lock, pc, job, uses, trouble, begun>>

Trees == 1 .. MaxTrees
(* A session shows a worktree and, once its options are set, is bound to   *)
(* the artifact.  An agent's session is neither.                           *)
Session == [tree : Trees \cup {None}, bound : BOOLEAN]
Unbound(t) == [tree |-> t, bound |-> FALSE]

Ops == {"open", "close", "repair"}
PCs == {"idle", "judge", "closing", "forget", "tree", "apply", "name", "start", "bind", "record"}
Job == [op : Ops, todo : SUBSET Names, name : Names \cup {None}, tree : Trees \cup {None}]

ArtifactViewsInit ==
  /\ session = [n \in Names |-> None]
  /\ cleanup = [n \in Names |-> None]
  /\ trees = {} /\ made = 0 /\ lock = None
  /\ pc = [p \in Procs |-> "idle"]
  /\ job = [p \in Procs |-> None]
  /\ uses = [n \in Names |-> 0]
  /\ trouble = {} /\ begun = 0

----------------------------------------------------------------------------
(* Helpers *)

Go(p, to) == pc' = [pc EXCEPT ![p] = to]

Leave(p) ==
  /\ Go(p, "idle")
  /\ job' = [job EXCEPT ![p] = None]
  /\ lock' = IF lock = p THEN None ELSE lock

HasSession(n) == session[n] # None
LiveView == \E n \in Names : HasSession(n) /\ session[n].bound
Pending == {n \in Names : cleanup[n] # None}

Quiet == \A p \in Procs : pc[p] = "idle"

Begin(p, op) ==
  /\ pc[p] = "idle" /\ begun < MaxOps
  /\ begun' = begun + 1
  /\ job' = [job EXCEPT ![p] = [op |-> op, todo |-> {}, name |-> None, tree |-> None]]
  /\ Go(p, "judge")
  /\ UNCHANGED <<session, cleanup, trees, made, lock, uses, trouble>>

(* An open of an artifact with a live view only shows that view.           *)
Open(p) == ~LiveView /\ Begin(p, "open")
Close(p) == Begin(p, "close")            \* close_all
RepairCleanups(p) == Begin(p, "repair")  \* close_stale of `doctor --repair`

----------------------------------------------------------------------------
(* Close steps *)

(* Mutant: nobody asks whether the view still runs. *)
JudgeAllStale(p) ==
  /\ pc[p] = "judge"
  /\ job' = [job EXCEPT ![p].todo = Pending]
  /\ Go(p, "closing")
  /\ UNCHANGED <<session, cleanup, trees, made, lock, uses, trouble, begun>>

(* Which steps to run is decided before the lock is taken.                 *)
Judge(p) ==
  /\ pc[p] = "judge"
  /\ job' = [job EXCEPT ![p].todo =
       IF job[p].op = "close" THEN Pending ELSE {n \in Pending : ~HasSession(n)}]
  /\ Go(p, "closing")
  /\ UNCHANGED <<session, cleanup, trees, made, lock, uses, trouble, begun>>

RemoveTree(p) ==
  /\ pc[p] = "closing" /\ lock = None
  /\ \E n \in job[p].todo \cap Pending :
       /\ trees' = trees \ {cleanup[n]}
       /\ job' = [job EXCEPT ![p].todo = @ \ {n}, ![p].name = n]
  /\ lock' = p
  /\ Go(p, "forget")
  /\ UNCHANGED <<session, cleanup, made, uses, trouble, begun>>

NothingPending(p) ==
  /\ pc[p] = "closing" /\ lock = None
  /\ job[p].todo \ Pending # {}
  /\ job' = [job EXCEPT ![p].todo = @ \cap Pending]
  /\ UNCHANGED <<session, cleanup, trees, made, lock, pc, uses, trouble, begun>>

Forget(p) ==
  /\ pc[p] = "forget"
  /\ cleanup' = [cleanup EXCEPT ![job[p].name] = None]
  /\ job' = [job EXCEPT ![p].name = None]
  /\ lock' = None
  /\ Go(p, "closing")
  /\ UNCHANGED <<session, trees, made, uses, trouble, begun>>

ClosesOver(p) ==
  /\ pc[p] = "closing" /\ job[p].todo = {}
  /\ IF job[p].op = "open"
       THEN Go(p, "tree") /\ UNCHANGED <<lock, job>>
       ELSE Leave(p)
  /\ UNCHANGED <<session, cleanup, trees, made, uses, trouble, begun>>

----------------------------------------------------------------------------
(* Opening *)

(* A document, a diff whose worktree is there, or no checkout to make one  *)
(* from.                                                                   *)
OpenPlain(p) ==
  /\ pc[p] = "tree" /\ lock = None
  /\ Go(p, "name")
  /\ UNCHANGED <<session, cleanup, trees, made, lock, job, uses, trouble, begun>>

AddTree(p) ==
  /\ pc[p] = "tree" /\ lock = None /\ made < MaxTrees
  /\ lock' = p
  /\ made' = made + 1
  /\ trees' = trees \cup {made + 1}
  /\ job' = [job EXCEPT ![p].tree = made + 1]
  /\ Go(p, "apply")
  /\ UNCHANGED <<session, cleanup, uses, trouble, begun>>

ApplyDiff(p) ==
  /\ pc[p] = "apply"
  /\ lock' = None
  /\ Go(p, "name")
  /\ UNCHANGED <<session, cleanup, trees, made, job, uses, trouble, begun>>

ViewName(p) ==
  /\ pc[p] = "name"
  /\ job' = [job EXCEPT ![p].name = IF HasSession(Title) THEN TitleAndId ELSE Title]
  /\ Go(p, "start")
  /\ UNCHANGED <<session, cleanup, trees, made, lock, uses, trouble, begun>>

Start(p) ==
  LET n == job[p].name IN
  /\ pc[p] = "start" /\ ~HasSession(n)
  /\ session' = [session EXCEPT ![n] = Unbound(job[p].tree)]
  /\ uses' = [uses EXCEPT ![n] = @ + 1]
  /\ Go(p, "bind")
  /\ UNCHANGED <<cleanup, trees, made, lock, job, trouble, begun>>

(* NameTaken, or the session is gone before its options are set: the open  *)
(* fails, and its worktree stays.                                          *)
OpenFails(p) ==
  /\ \/ pc[p] = "start" /\ HasSession(job[p].name)
     \/ pc[p] = "bind" /\ ~HasSession(job[p].name)
  /\ trouble' = trouble \cup {"refused"}
  /\ Leave(p)
  /\ UNCHANGED <<session, cleanup, trees, made, uses, begun>>

(* set-option goes by name, whoever has it by now.                         *)
Bind(p) ==
  /\ pc[p] = "bind" /\ HasSession(job[p].name)
  /\ session' = [session EXCEPT ![job[p].name].bound = TRUE]
  /\ IF job[p].tree = None THEN Leave(p) ELSE Go(p, "record") /\ UNCHANGED <<lock, job>>
  /\ UNCHANGED <<cleanup, trees, made, uses, trouble, begun>>

(* Mutant: no step for a view that is over already. *)
RecordLiveCleanup(p) ==
  /\ pc[p] = "record" /\ lock = None
  /\ cleanup' = [cleanup EXCEPT ![job[p].name] = IF HasSession(job[p].name) THEN job[p].tree ELSE @]
  /\ Leave(p)
  /\ UNCHANGED <<session, trees, made, uses, trouble, begun>>

(* record_cleanup: a step recorded under the name is replaced.             *)
RecordCleanup(p) ==
  /\ pc[p] = "record" /\ lock = None
  /\ cleanup' = [cleanup EXCEPT ![job[p].name] = job[p].tree]
  /\ Leave(p)
  /\ UNCHANGED <<session, trees, made, uses, trouble, begun>>

(* A call fails, `git apply` among them, or the process dies.              *)
Breaks(p) ==
  /\ pc[p] # "idle"
  /\ "break" \in Troubles \ trouble
  /\ trouble' = trouble \cup {"break"}
  /\ Leave(p)
  /\ UNCHANGED <<session, cleanup, trees, made, uses, begun>>

----------------------------------------------------------------------------
(* Sessions *)

SessionEnds(n) ==
  /\ HasSession(n)
  /\ session' = [session EXCEPT ![n] = None]
  /\ UNCHANGED <<cleanup, trees, made, lock, pc, job, uses, trouble, begun>>

AgentStarts(n) ==
  /\ ~HasSession(n)
  /\ session' = [session EXCEPT ![n] = Unbound(None)]
  /\ UNCHANGED <<cleanup, trees, made, lock, pc, job, uses, trouble, begun>>

Step(p) ==
  \/ Judge(p) \/ RemoveTree(p) \/ NothingPending(p) \/ Forget(p) \/ ClosesOver(p)
  \/ OpenPlain(p) \/ AddTree(p) \/ ApplyDiff(p) \/ ViewName(p)
  \/ Start(p) \/ OpenFails(p) \/ Bind(p) \/ RecordCleanup(p)

ArtifactViewsNext ==
  \/ \E p \in Procs : Open(p) \/ Close(p) \/ RepairCleanups(p) \/ Step(p) \/ Breaks(p)
  \/ \E n \in Names : SessionEnds(n) \/ AgentStarts(n)

Spec == ArtifactViewsInit /\ [][ArtifactViewsNext]_vars

(* A running tx process goes on, and the lock is given to who waits for it.*)
FairSpec == Spec /\ \A p \in Procs : WF_vars(Step(p))

----------------------------------------------------------------------------
(* Properties *)

(* Every variable has its type, and a process at work has a job.           *)
TypeOK ==
  /\ session \in [Names -> Session \cup {None}]
  /\ cleanup \in [Names -> Trees \cup {None}]
  /\ trees \subseteq 1 .. made
  /\ made \in 0 .. MaxTrees
  /\ lock \in Procs \cup {None}
  /\ pc \in [Procs -> PCs]
  /\ job \in [Procs -> Job \cup {None}]
  /\ \A p \in Procs : pc[p] = "idle" <=> job[p] = None
  /\ uses \in [Names -> 0 .. MaxOps]
  /\ trouble \subseteq Troubles \cup {"refused"}
  /\ begun \in 0 .. MaxOps

Closing == \E p \in Procs : pc[p] # "idle" /\ job[p].op = "close"

(* The step takes the worktree of a view that runs, of name n.             *)
TakenFrom(n) ==
  /\ session[n] # None /\ session'[n] = session[n]
  /\ session[n].tree \in trees \ trees'

(* "The live view's worktree stays" (service.rs, a test), and "its close   *)
(* step is run [...] by `doctor --repair`, or by the next `open` once the  *)
(* view has ended" (README): only `artifact close` takes it.  Not so: the  *)
(* name may belong to a new view by the time the step runs.                *)
LiveWorktreeStays ==
  [][\A n \in Names : TakenFrom(n) => Closing]_vars

(* It does stay when no earlier view had the name: a step that is found    *)
(* stale has not been recorded for a view that runs.                       *)
FirstWorktreeStays ==
  [][\A n \in Names : TakenFrom(n) => Closing \/ uses[n] > 1]_vars

(* When nobody is at work, nothing broke, no open was refused and no name  *)
(* served two views, every temporary worktree waits for its view's end:    *)
(* none is lost, whoever opened, closed or repaired at the same time.      *)
NoTreeIsLost ==
  Quiet /\ trouble = {} /\ (\A n \in Names : uses[n] <= 1)
    => trees \subseteq Range(cleanup)

(* No worktree is lost, and none is taken from under a view that is the    *)
(* first of its name (views.rs, service.rs).                               *)
TreesStay == []NoTreeIsLost /\ FirstWorktreeStays

(* Closes and opens do not wait for one another for ever.                  *)
OperationsReturn ==
  \A p \in Procs : (pc[p] # "idle") ~> (pc[p] = "idle")
=============================================================================
