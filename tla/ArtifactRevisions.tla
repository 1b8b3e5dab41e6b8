------------------------- MODULE ArtifactRevisions -------------------------
(***************************************************************************)
(* One artifact of the artifacts plugin and its revisions: several tx      *)
(* processes create, modify, snapshot, label and repair it, an editor      *)
(* writes the working copy, a diff's worktree changes under it             *)
(* (plugins/artifacts/src/service.rs, store.rs, artifact.rs).              *)
(*                                                                         *)
(* Record, working copy and revision files are written one after the       *)
(* other, the record last; a process may fail or die between any two of    *)
(* these writes.  A write that fails after it took effect (a directory     *)
(* sync) is a failure right after it.                                      *)
(***************************************************************************)
EXTENDS Integers, Sequences, FiniteSets

CONSTANTS
  Procs,      \* processes running tx
  Contents,   \* what a file may hold
  Labels,     \* values of the record's group and archived together
  None,       \* a file that is not there; no process
  MaxOps,     \* bound: operations begun on the artifact after create
  MaxBreaks   \* bound: operations that fail or die half-way

Kinds == {"document", "diff"}
Ops == {"create", "modify", "snapshot", "open", "label", "repair"}

Record == [revs : Nat, label : Labels]
(* revs is the length of the history as loaded: the number of the revision *)
(* to come.                                                                *)
Job == [op : Ops, content : Contents \cup {None}, label : Labels \cup {None}, revs : Nat]

ASSUME RevisionsAssumption ==
  /\ None \notin Procs \cup Contents \cup Labels \cup Kinds \cup Record \cup Job
  /\ MaxOps \in Nat /\ MaxBreaks \in Nat

VARIABLES
  kind,      \* "document" or "diff", None before create
  record,    \* <id>.json: how many revisions the history lists, and the label
  rev,       \* rev[n]: revs/<n>; its domain are the slots taken
  current,   \* current<ext>, the working copy
  worktree,  \* the patch of a diff's worktree
  logged,    \* the revisions with a line in .log.jsonl
  lock,      \* who holds .locks/<id>.lock
  pc, job,   \* each process: where it is, what it works on
  begun, breaks

fileVars == <<record, rev, current, logged>>
vars == <<kind, record, rev, current, worktree, logged, lock, pc, job, begun, breaks>>

PCs == {"idle", "lock", "read", "claim", "current", "save", "log", "repair"}

Init ==
  /\ kind = None /\ record = None
  /\ rev = [n \in {} |-> None]
  /\ current = None
  /\ worktree \in Contents
  /\ logged = {} /\ lock = None
  /\ pc = [p \in Procs |-> "idle"]
  /\ job = [p \in Procs |-> None]
  /\ begun = 0 /\ breaks = 0

----------------------------------------------------------------------------
(* Helpers *)

Go(p, to) == pc' = [pc EXCEPT ![p] = to]

(* Mutant: the lock is not given back. *)
ReturnKeepsLock(p) ==
  /\ Go(p, "idle")
  /\ job' = [job EXCEPT ![p] = None]
  /\ UNCHANGED lock

Return(p) ==
  /\ Go(p, "idle")
  /\ job' = [job EXCEPT ![p] = None]
  /\ lock' = IF lock = p THEN None ELSE lock

NextRev == IF record = None THEN 0 ELSE record.revs
Recorded == 0 .. NextRev - 1
Orphans == DOMAIN rev \ Recorded
ReadRev(n) == IF n \in DOMAIN rev THEN rev[n] ELSE None

(* Mutant: compares with the working copy. *)
ChangedFromCurrent(p) == job[p].op # "create" => job[p].content # current

(* The content differs from the latest revision, which has to be readable. *)
Changed(p) ==
  job[p].op # "create" => ReadRev(job[p].revs - 1) \notin {None, job[p].content}

Quiet == \A p \in Procs : pc[p] = "idle"

----------------------------------------------------------------------------
(* An operation begins *)

(* The id is new: nobody else knows the artifact before its record is      *)
(* saved, so create takes no lock.                                         *)
Create(p) ==
  /\ pc[p] = "idle" /\ kind = None
  /\ \E k \in Kinds, c \in Contents, l \in Labels :
       /\ k = "diff" => c = worktree
       /\ kind' = k
       /\ job' = [job EXCEPT ![p] = [op |-> "create", content |-> c, label |-> l, revs |-> 0]]
  /\ Go(p, "claim")
  /\ UNCHANGED <<fileVars, worktree, lock, begun, breaks>>

Call(p, op, c, l) ==
  /\ pc[p] = "idle" /\ record # None /\ begun < MaxOps
  /\ begun' = begun + 1
  /\ job' = [job EXCEPT ![p] = [op |-> op, content |-> c, label |-> l, revs |-> 0]]
  /\ Go(p, "lock")
  /\ UNCHANGED <<kind, fileVars, worktree, lock, breaks>>

Modify(p) == \E c \in Contents : Call(p, "modify", c, None)
Snapshot(p) == Call(p, "snapshot", None, None)
Open(p) == Call(p, "open", None, None)
SetLabel(p) == \E l \in Labels : Call(p, "label", None, l)   \* set_group, set_archived
RepairOrphans(p) == Call(p, "repair", None, None)

----------------------------------------------------------------------------
(* Under the artifact's lock *)

(* What the operation does first once it has the record, "idle" if nothing.*)
FirstStep(op) ==
  CASE op = "modify" -> IF kind = "diff" THEN "idle" ELSE "claim"    \* NotEditable
    [] op = "snapshot" -> "read"
    [] op = "open" -> IF kind = "diff" /\ worktree # None THEN "read" ELSE "idle"
    [] op = "label" -> "save"
    [] op = "repair" -> "repair"

(* A label to set is the caller's, any other save keeps the record's.      *)
LabelToSave(p) == IF job[p].label = None THEN record.label ELSE job[p].label

Load(p) ==
  job' = [job EXCEPT ![p] = [job[p] EXCEPT !.revs = record.revs, !.label = LabelToSave(p)]]

(* Mutant: nobody waits for the lock. *)
TakeUnlocked(p) ==
  /\ pc[p] = "lock"
  /\ FirstStep(job[p].op) # "idle"
  /\ lock' = lock
  /\ Load(p)
  /\ Go(p, FirstStep(job[p].op))
  /\ UNCHANGED <<kind, fileVars, worktree, begun, breaks>>

Take(p) ==
  /\ pc[p] = "lock" /\ lock = None
  /\ FirstStep(job[p].op) # "idle"
  /\ lock' = p
  /\ Load(p)
  /\ Go(p, FirstStep(job[p].op))
  /\ UNCHANGED <<kind, fileVars, worktree, begun, breaks>>

(* A file given for a diff is refused; an open that re-snapshots nothing   *)
(* only starts a view.                                                     *)
NothingToDo(p) ==
  /\ pc[p] = "lock" /\ lock = None
  /\ FirstStep(job[p].op) = "idle"
  /\ Return(p)
  /\ UNCHANGED <<kind, fileVars, worktree, begun, breaks>>

Source == IF kind = "diff" THEN worktree ELSE current

ReadSource(p) ==
  /\ pc[p] = "read" /\ Source # None
  /\ job' = [job EXCEPT ![p].content = Source]
  /\ Go(p, "claim")
  /\ UNCHANGED <<kind, fileVars, worktree, lock, begun, breaks>>

WorktreeMissing(p) ==
  /\ pc[p] = "read" /\ Source = None
  /\ Return(p)
  /\ UNCHANGED <<kind, fileVars, worktree, begun, breaks>>

Unchanged(p) ==
  /\ pc[p] = "claim" /\ ~Changed(p)
  /\ Return(p)
  /\ UNCHANGED <<kind, fileVars, worktree, begun, breaks>>

(* The file is linked onto the slot, which fails if the slot exists.       *)
Claim(p) ==
  /\ pc[p] = "claim" /\ Changed(p)
  /\ job[p].revs \notin DOMAIN rev
  /\ rev' = [n \in DOMAIN rev \cup {job[p].revs} |->
               IF n = job[p].revs THEN job[p].content ELSE rev[n]]
  /\ Go(p, "current")
  /\ UNCHANGED <<kind, record, current, worktree, logged, lock, job, begun, breaks>>

Conflict(p) ==
  /\ pc[p] = "claim" /\ Changed(p)
  /\ job[p].revs \in DOMAIN rev
  /\ Return(p)
  /\ UNCHANGED <<kind, fileVars, worktree, begun, breaks>>

WriteCurrent(p) ==
  /\ pc[p] = "current"
  /\ current' = job[p].content
  /\ Go(p, "save")
  /\ UNCHANGED <<kind, record, rev, worktree, logged, lock, job, begun, breaks>>

Save(p) ==
  /\ pc[p] = "save"
  /\ record' = [revs |-> IF job[p].op = "label" THEN job[p].revs ELSE job[p].revs + 1,
                label |-> job[p].label]
  /\ Go(p, "log")
  /\ UNCHANGED <<kind, rev, current, worktree, logged, lock, job, begun, breaks>>

Log(p) ==
  /\ pc[p] = "log"
  /\ logged' = IF job[p].op = "label" THEN logged ELSE logged \cup {job[p].revs}
  /\ Return(p)
  /\ UNCHANGED <<kind, record, rev, current, worktree, begun, breaks>>

Repair(p) ==
  /\ pc[p] = "repair"
  /\ rev' = [n \in DOMAIN rev \ Orphans |-> rev[n]]
  /\ Return(p)
  /\ UNCHANGED <<kind, record, current, worktree, logged, begun, breaks>>

(* A call fails, or the process dies: its lock is free, its files stay.    *)
Breaks(p) ==
  /\ pc[p] # "idle" /\ breaks < MaxBreaks
  /\ breaks' = breaks + 1
  /\ Return(p)
  /\ UNCHANGED <<kind, fileVars, worktree, begun>>

----------------------------------------------------------------------------
(* Around the processes *)

(* The view's editor saves the working copy.                               *)
EditorWrites ==
  /\ current # None
  /\ \E c \in Contents \ {current} : current' = c
  /\ UNCHANGED <<kind, record, rev, worktree, logged, lock, pc, job, begun, breaks>>

WorktreeMoves ==
  /\ worktree # None
  /\ \E c \in (Contents \cup {None}) \ {worktree} : worktree' = c
  /\ UNCHANGED <<kind, fileVars, lock, pc, job, begun, breaks>>

Step(p) ==
  \/ Take(p) \/ NothingToDo(p) \/ ReadSource(p) \/ WorktreeMissing(p)
  \/ Unchanged(p) \/ Claim(p) \/ Conflict(p)
  \/ WriteCurrent(p) \/ Save(p) \/ Log(p) \/ Repair(p)

Next ==
  \/ \E p \in Procs :
       Create(p) \/ Modify(p) \/ Snapshot(p) \/ Open(p) \/ SetLabel(p)
       \/ RepairOrphans(p) \/ Step(p) \/ Breaks(p)
  \/ EditorWrites \/ WorktreeMoves

Spec == Init /\ [][Next]_vars

(* A running tx process goes on, and the lock is given to who waits for it.*)
FairSpec == Spec /\ \A p \in Procs : WF_vars(Step(p))

----------------------------------------------------------------------------
(* Properties *)

(* Every variable has its type, and a process at work has a job.           *)
TypeOK ==
  /\ kind \in Kinds \cup {None}
  /\ record \in Record \cup {None}
  /\ DOMAIN rev \subseteq Nat /\ \A n \in DOMAIN rev : rev[n] \in Contents
  /\ current \in Contents \cup {None}
  /\ worktree \in Contents \cup {None}
  /\ logged \subseteq Nat
  /\ lock \in Procs \cup {None}
  /\ pc \in [Procs -> PCs]
  /\ job \in [Procs -> Job \cup {None}]
  /\ \A p \in Procs : pc[p] = "idle" <=> job[p] = None
  /\ begun \in 0 .. MaxOps /\ breaks \in 0 .. MaxBreaks

(* Every revision the history lists can be read (doctor: "history rev has  *)
(* no file on disk"), whatever writers, repairs and crashes come together. *)
RevisionsOnDisk == Recorded \subseteq DOMAIN rev

(* A file beside the history can only stand in the next slot: one          *)
(* `doctor --repair` is enough after any number of crashes.                *)
OrphansAreNext == Orphans \subseteq {NextRev}

(* "A crash orphan holds the slot the next rev needs" is the only way to a *)
(* conflict: two writers never dispute a slot (ArtifactError::Conflict).   *)
ConflictsComeFromBreaks ==
  [][\A p \in Procs : Conflict(p) => breaks > 0]_vars

(* A store that nobody broke is clean to the doctor once everybody is done *)
(* (doctor: "an empty list means clean").                                  *)
UnbrokenIsClean ==
  Quiet /\ breaks = 0 =>
    /\ Orphans = {}
    /\ Recorded \subseteq logged
    /\ record # None => current # None

(* The history is on disk, at most the next revision lies beside it, and   *)
(* the doctor finds nothing in a store that nobody broke (service.rs).     *)
HistoryHolds == RevisionsOnDisk /\ OrphansAreNext /\ UnbrokenIsClean

(* The revisions are immutable and consecutive, none repeats the one       *)
(* before, and neither a modify undoes a label nor a label a modify.       *)
Published == [i \in 1 .. NextRev |-> ReadRev(i - 1)]
Revisions == INSTANCE RevisionLog WITH
  published <- Published, label <- IF record = None THEN None ELSE record.label
RevisionsSpec == Revisions!Spec

(* Whoever waits for the lock gets it: every operation returns.            *)
OperationsReturn ==
  \A p \in Procs : (pc[p] # "idle") ~> (pc[p] = "idle")
=============================================================================
