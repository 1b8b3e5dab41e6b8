---------------------- MODULE ArtifactRevisionsProofs ----------------------
(***************************************************************************)
(* The history of an artifact is always on disk, only grows, and is        *)
(* disputed by nobody, for every number of processes, operations, crashes  *)
(* and contents.                                                           *)
(***************************************************************************)
EXTENDS ArtifactRevisions, TLAPS

Working(p) == pc[p] # "idle"
Creates(p) == Working(p) /\ job[p].op = "create"
Holds(p) == Working(p) /\ pc[p] # "lock" /\ job[p].op # "create"

(* Who may write the artifact's files.                                     *)
Writes(p) == Holds(p) \/ (Creates(p) /\ pc[p] # "log")

(* p has claimed a slot and not yet saved the record that lists it.        *)
Claims(p) == pc[p] \in {"current", "save"} /\ job[p].op # "label"

(* Where each operation can be.                                            *)
Route ==
  [create |-> {"claim", "current", "save", "log"},
   modify |-> {"lock", "claim", "current", "save", "log"},
   snapshot |-> {"lock", "read", "claim", "current", "save", "log"},
   open |-> {"lock", "read", "claim", "current", "save", "log"},
   label |-> {"lock", "save", "log"},
   repair |-> {"lock", "repair"}]

OnRoute(p) == Working(p) => pc[p] \in Route[job[p].op]

(* Only a creator works on an artifact without a record.                   *)
Known(p) ==
  /\ Creates(p) => job[p].revs = 0 /\ (pc[p] # "log" => record = None)
  /\ Working(p) /\ ~Creates(p) => record # None

Locked(p) == Holds(p) => lock = p

(* Who is about to save holds what the record says.                        *)
Loaded(p) ==
  /\ pc[p] = "lock" /\ job[p].op # "label" => job[p].label = None
  /\ Working(p) /\ job[p].op = "modify" => job[p].content \in Contents
  /\ Working(p) /\ pc[p] # "lock" => job[p].label \in Labels
  /\ Holds(p) /\ pc[p] # "log" =>
       job[p].revs = record.revs /\ (job[p].op # "label" => job[p].label = record.label)
  /\ Working(p) /\ pc[p] \notin {"lock", "read", "repair"} /\ job[p].op # "label" =>
       job[p].content \in Contents

Claimed(p) ==
  Claims(p) =>
    /\ job[p].revs \in DOMAIN rev
    /\ rev[job[p].revs] = job[p].content
    /\ job[p].op # "create" => ReadRev(job[p].revs - 1) # job[p].content

Written(p) == pc[p] = "save" /\ job[p].op = "create" => current # None

ProcessInv ==
  \A p \in Procs :
    OnRoute(p) /\ Known(p) /\ Locked(p) /\ Loaded(p) /\ Claimed(p) /\ Written(p)

OneCreator == \A p, q \in Procs : Creates(p) /\ Creates(q) => p = q

(* Nothing is known of an artifact that nobody has created.                *)
StoreInv ==
  /\ kind = None => record = None /\ Quiet
  /\ record # None => record.revs >= 1 /\ current # None

(* A file beside the history is claimed, or left by who broke.             *)
Explained ==
  Orphans = {} \/ breaks > 0 \/ \E p \in Procs : Claims(p)

LoggedInv ==
  \A n \in Recorded :
    \/ n \in logged \/ breaks > 0
    \/ \E p \in Procs : pc[p] = "log" /\ job[p].op # "label" /\ job[p].revs = n

IInv ==
  /\ TypeOK /\ ProcessInv /\ OneCreator /\ StoreInv
  /\ RevisionsOnDisk /\ OrphansAreNext /\ Explained /\ LoggedInv

(* At most one process writes the artifact at a time.                      *)
LEMMA Alone ==
  ASSUME TypeOK, ProcessInv, OneCreator,
         NEW p \in Procs, NEW q \in Procs, Writes(p), Writes(q)
  PROVE  p = q
  BY DEF ProcessInv, OneCreator, Writes, Holds, Creates, Known, Locked, TypeOK

LEMMA InitIInv == Init => IInv
  <1>. SUFFICES ASSUME Init PROVE IInv
    OBVIOUS
  <1>1. TypeOK
    BY RevisionsAssumption DEF Init, TypeOK, PCs
  <1>2. \A p \in Procs : pc[p] = "idle"
    BY DEF Init
  <1>3. ProcessInv /\ OneCreator
    BY <1>2 DEF ProcessInv, OneCreator, OnRoute, Known, Locked, Loaded, Claimed, Written,
       Working, Creates, Holds, Claims
  <1>4. StoreInv /\ RevisionsOnDisk /\ OrphansAreNext /\ Explained /\ LoggedInv
    BY <1>2, RevisionsAssumption
       DEF Init, StoreInv, Quiet, RevisionsOnDisk, OrphansAreNext, Explained, LoggedInv,
           Recorded, Orphans, NextRev
  <1>. QED
    BY <1>1, <1>3, <1>4 DEF IInv

----------------------------------------------------------------------------
(* What the steps do *)

Returns(p) ==
  NothingToDo(p) \/ WorktreeMissing(p) \/ Unchanged(p) \/ Conflict(p) \/ Breaks(p)
Calls(p) == Modify(p) \/ Snapshot(p) \/ Open(p) \/ SetLabel(p) \/ RepairOrphans(p)
Outside == EditorWrites \/ WorktreeMoves \/ UNCHANGED vars

LEMMA NextSplit ==
  ASSUME [Next]_vars
  PROVE  \/ Outside
         \/ \E p \in Procs :
              \/ Create(p) \/ Calls(p) \/ Take(p) \/ Returns(p) \/ ReadSource(p)
              \/ Claim(p) \/ WriteCurrent(p) \/ Save(p) \/ Log(p) \/ Repair(p)
  BY DEF Next, Step, Outside, Calls, Returns

LEMMA ReturnEffect ==
  ASSUME TypeOK, NEW p \in Procs, Returns(p)
  PROVE  /\ Working(p)
         /\ pc' = [pc EXCEPT ![p] = "idle"]
         /\ job' = [job EXCEPT ![p] = None]
         /\ lock' = IF lock = p THEN None ELSE lock
         /\ UNCHANGED <<kind, fileVars, worktree, begun>>
         /\ breaks' \in 0 .. MaxBreaks /\ breaks' >= breaks
         /\ pc[p] \in {"lock", "read", "claim"} \/ breaks' > 0
  BY RevisionsAssumption
     DEF Returns, NothingToDo, WorktreeMissing, Unchanged, Conflict, Breaks, Return, Go,
         Working, TypeOK

LEMMA CallEffect ==
  ASSUME TypeOK, NEW p \in Procs, Calls(p)
  PROVE  /\ pc[p] = "idle" /\ record # None
         /\ pc' = [pc EXCEPT ![p] = "lock"]
         /\ \E j \in Job : /\ job' = [job EXCEPT ![p] = j]
                           /\ j.op # "create" /\ (j.op # "label" => j.label = None)
                           /\ j.op = "modify" => j.content \in Contents
         /\ begun' \in 0 .. MaxOps
         /\ UNCHANGED <<kind, fileVars, worktree, lock, breaks>>
  <1>1. PICK op \in Ops \ {"create"}, c \in Contents \cup {None}, l \in Labels \cup {None} :
          Call(p, op, c, l) /\ (op # "label" => l = None) /\ (op = "modify" => c \in Contents)
    BY DEF Calls, Modify, Snapshot, Open, SetLabel, RepairOrphans, Ops
  <1>2. [op |-> op, content |-> c, label |-> l, revs |-> 0] \in Job
    BY DEF Job
  <1>3. begun' \in 0 .. MaxOps
    BY <1>1, RevisionsAssumption DEF Call, TypeOK
  <1>. QED
    BY <1>1, <1>2, <1>3 DEF Call, Go

LEMMA TakeEffect ==
  ASSUME IInv, NEW p \in Procs, Take(p)
  PROVE  /\ pc[p] = "lock" /\ lock = None /\ lock' = p /\ record \in Record
         /\ job[p].op # "create" /\ job[p] \in Job
         /\ pc' = [pc EXCEPT ![p] = FirstStep(job[p].op)]
         /\ FirstStep(job[p].op) \in Route[job[p].op] \cap {"read", "claim", "save", "repair"}
         /\ FirstStep(job[p].op) = "claim" => job[p].op = "modify"
         /\ FirstStep(job[p].op) = "save" => job[p].op = "label"
         /\ LabelToSave(p) \in Labels
         /\ job' = [job EXCEPT ![p] = [job[p] EXCEPT !.revs = record.revs,
                                                     !.label = LabelToSave(p)]]
         /\ job'[p].op = job[p].op /\ job'[p].content = job[p].content
         /\ job'[p].revs = record.revs /\ job'[p].label = LabelToSave(p)
         /\ UNCHANGED <<kind, fileVars, worktree, begun, breaks>>
  <1>1. pc[p] = "lock" /\ lock = None /\ lock' = p /\ Working(p)
    BY DEF Take, Working
  <1>2. job[p] \in Job
    BY <1>1 DEF IInv, TypeOK
  <1>3. job[p].op # "create" /\ record \in Record
    BY <1>1, <1>2 DEF IInv, TypeOK, ProcessInv, OnRoute, Known, Creates, Route, Job, Ops
  <1>4. /\ FirstStep(job[p].op) \in Route[job[p].op] \cap {"read", "claim", "save", "repair"}
        /\ FirstStep(job[p].op) = "claim" => job[p].op = "modify"
        /\ FirstStep(job[p].op) = "save" => job[p].op = "label"
    BY <1>2, <1>3 DEF Take, FirstStep, Route, Job, Ops
  <1>5. LabelToSave(p) \in Labels
    <2>1. record.label \in Labels
      BY <1>3 DEF Record
    <2>2. job[p].label \in Labels \cup {None}
      BY <1>2 DEF Job
    <2>. QED
      BY <2>1, <2>2 DEF LabelToSave
  <1>6. job' = [job EXCEPT ![p] = [job[p] EXCEPT !.revs = record.revs,
                                                !.label = LabelToSave(p)]]
    BY DEF Take, Load
  <1>7. job'[p] = [job[p] EXCEPT !.revs = record.revs, !.label = LabelToSave(p)]
    BY <1>6 DEF IInv, TypeOK
  <1>8. /\ job'[p].op = job[p].op /\ job'[p].content = job[p].content
        /\ job'[p].revs = record.revs /\ job'[p].label = LabelToSave(p)
    BY <1>2, <1>7 DEF Job
  <1>. QED
    BY <1>1, <1>2, <1>3, <1>4, <1>5, <1>6, <1>8 DEF Take, Go

----------------------------------------------------------------------------
(* The invariant is kept *)

LEMMA TypeStep == ASSUME IInv, [Next]_vars PROVE TypeOK'
  <1>. TypeOK /\ ProcessInv
    BY DEF IInv
  <1>. USE RevisionsAssumption
  <1>1. ASSUME NEW p \in Procs, Create(p) PROVE TypeOK'
    <2>1. PICK k \in Kinds, c \in Contents, l \in Labels :
            /\ kind' = k
            /\ job' = [job EXCEPT ![p] = [op |-> "create", content |-> c, label |-> l, revs |-> 0]]
      BY <1>1 DEF Create
    <2>2. [op |-> "create", content |-> c, label |-> l, revs |-> 0] \in Job
      BY DEF Job, Ops
    <2>3. pc' = [pc EXCEPT ![p] = "claim"] /\ pc[p] = "idle"
          /\ UNCHANGED <<fileVars, worktree, lock, begun, breaks>>
      BY <1>1 DEF Create, Go
    <2>. QED
      BY <2>1, <2>2, <2>3 DEF TypeOK, PCs, Job, fileVars
  <1>2. ASSUME NEW p \in Procs, Calls(p) PROVE TypeOK'
    <2>1. PICK j \in Job : job' = [job EXCEPT ![p] = j]
      BY <1>2, CallEffect
    <2>2. /\ pc' = [pc EXCEPT ![p] = "lock"] /\ begun' \in 0 .. MaxOps
          /\ UNCHANGED <<kind, fileVars, worktree, lock, breaks>>
      BY <1>2, CallEffect
    <2>. QED
      BY <2>1, <2>2 DEF TypeOK, PCs, fileVars
  <1>3. ASSUME NEW p \in Procs, Take(p) PROVE TypeOK'
    <2>1. [job[p] EXCEPT !.revs = record.revs, !.label = LabelToSave(p)] \in Job
      BY <1>3, TakeEffect DEF Job, Record
    <2>2. FirstStep(job[p].op) \in PCs \ {"idle"}
      BY <1>3, TakeEffect DEF PCs
    <2>3. /\ pc' = [pc EXCEPT ![p] = FirstStep(job[p].op)] /\ lock' = p
          /\ job' = [job EXCEPT ![p] = [job[p] EXCEPT !.revs = record.revs,
                                                      !.label = LabelToSave(p)]]
          /\ UNCHANGED <<kind, fileVars, worktree, begun, breaks>>
      BY <1>3, TakeEffect
    <2>. QED
      BY <2>1, <2>2, <2>3 DEF TypeOK, fileVars
  <1>4. ASSUME NEW p \in Procs, Returns(p) PROVE TypeOK'
    BY ZenonT(60), <1>4, ReturnEffect DEF TypeOK, PCs, fileVars
  <1>5. ASSUME NEW p \in Procs, ReadSource(p) PROVE TypeOK'
    <2>1. Source \in Contents /\ job[p] \in Job
      BY <1>5 DEF ReadSource, Source, TypeOK
    <2>2. [job[p] EXCEPT !.content = Source] \in Job
      BY <2>1 DEF Job
    <2>. QED
      BY <1>5, <2>2 DEF ReadSource, Go, TypeOK, PCs, Job, fileVars
  <1>6. ASSUME NEW p \in Procs, Claim(p) PROVE TypeOK'
    <2>1. job[p].content \in Contents /\ job[p].revs \in Nat
      BY <1>6 DEF Claim, ProcessInv, OnRoute, Loaded, Working, Route, TypeOK, Job, Ops
    <2>. QED
      BY <1>6, <2>1 DEF Claim, Go, TypeOK, PCs
  <1>7. ASSUME NEW p \in Procs, WriteCurrent(p) PROVE TypeOK'
    <2>1. job[p].content \in Contents
      BY <1>7 DEF WriteCurrent, ProcessInv, OnRoute, Loaded, Working, Route, TypeOK, Job, Ops
    <2>. QED
      BY <1>7, <2>1 DEF WriteCurrent, Go, TypeOK, PCs
  <1>8. ASSUME NEW p \in Procs, Save(p) PROVE TypeOK'
    <2>1. job[p].label \in Labels /\ job[p].revs \in Nat
      BY <1>8 DEF Save, ProcessInv, Loaded, Working, TypeOK, Job
    <2>2. record' \in Record
      BY <1>8, <2>1 DEF Save, Record
    <2>. QED
      BY <1>8, <2>2 DEF Save, Go, TypeOK, PCs
  <1>9. ASSUME NEW p \in Procs, Log(p) PROVE TypeOK'
    <2>1. job[p].revs \in Nat
      BY <1>9 DEF Log, TypeOK, Job
    <2>. QED
      BY <1>9, <2>1 DEF Log, Return, Go, TypeOK, PCs
  <1>10. ASSUME NEW p \in Procs, Repair(p) PROVE TypeOK'
    BY <1>10 DEF Repair, Return, Go, TypeOK, PCs
  <1>11. CASE Outside
    BY <1>11 DEF Outside, EditorWrites, WorktreeMoves, vars, TypeOK, fileVars
  <1>. QED
    BY <1>1, <1>2, <1>3, <1>4, <1>5, <1>6, <1>7, <1>8, <1>9, <1>10, <1>11, NextSplit

LEMMA OneCreatorStep == ASSUME IInv, [Next]_vars PROVE OneCreator'
  <1>. TypeOK /\ ProcessInv /\ OneCreator /\ StoreInv
    BY DEF IInv
  <1>1. ASSUME NEW p \in Procs, Create(p) PROVE OneCreator'
    <2>1. \A q \in Procs : q # p => pc'[q] = "idle"
      BY <1>1 DEF Create, Go, StoreInv, Quiet, TypeOK
    <2>. QED
      BY <2>1 DEF OneCreator, Creates, Working
  <1>2. ASSUME NEW p \in Procs, Calls(p) PROVE OneCreator'
    BY <1>2, CallEffect DEF OneCreator, Creates, Working, TypeOK
  <1>3. ASSUME NEW p \in Procs, Take(p) PROVE OneCreator'
    <2>1. \A q \in Procs : Creates(q)' => Creates(q)
      <3>1. job'[p].op = job[p].op /\ job[p].op # "create"
        BY <1>3, TakeEffect
      <3>2. \A q \in Procs \ {p} : pc'[q] = pc[q] /\ job'[q] = job[q]
        BY ZenonT(60), <1>3, TakeEffect DEF TypeOK
      <3>. QED
        BY <3>1, <3>2 DEF Creates, Working
    <2>. QED
      BY <2>1 DEF OneCreator
  <1>4. ASSUME NEW p \in Procs, Returns(p) PROVE OneCreator'
    BY <1>4, ReturnEffect DEF OneCreator, Creates, Working, TypeOK
  <1>5. ASSUME NEW p \in Procs, ReadSource(p) PROVE OneCreator'
    BY <1>5 DEF ReadSource, Go, OneCreator, Creates, Working, TypeOK, Job
  <1>6. ASSUME NEW p \in Procs, Claim(p) \/ WriteCurrent(p) \/ Save(p) PROVE OneCreator'
    BY <1>6 DEF Claim, WriteCurrent, Save, Go, OneCreator, Creates, Working, TypeOK
  <1>7. ASSUME NEW p \in Procs, Log(p) \/ Repair(p) PROVE OneCreator'
    BY <1>7 DEF Log, Repair, Return, Go, OneCreator, Creates, Working, TypeOK
  <1>8. CASE Outside
    BY <1>8 DEF Outside, EditorWrites, WorktreeMoves, vars, OneCreator, Creates, Working
  <1>. QED
    BY <1>1, <1>2, <1>3, <1>4, <1>5, <1>6, <1>7, <1>8, NextSplit

ProcessOK(q) ==
  OnRoute(q) /\ Known(q) /\ Locked(q) /\ Loaded(q) /\ Claimed(q) /\ Written(q)

(* A process that does not move keeps its invariant when nobody writes ... *)
LEMMA OthersQuiet ==
  ASSUME IInv, NEW q \in Procs, pc'[q] = pc[q], job'[q] = job[q],
         UNCHANGED <<record, rev>>, lock = q => lock' = q, current # None => current' # None
  PROVE  ProcessOK(q)'
  <1>. OnRoute(q) /\ Known(q) /\ Locked(q) /\ Loaded(q) /\ Claimed(q) /\ Written(q)
    BY DEF IInv, ProcessInv
  <1>1. OnRoute(q)' /\ Known(q)' /\ Locked(q)' /\ Written(q)'
    BY DEF OnRoute, Known, Locked, Written, Working, Creates, Holds
  <1>2. Loaded(q)' /\ Claimed(q)'
    BY DEF Loaded, Claimed, Working, Holds, Claims, ReadRev
  <1>. QED
    BY <1>1, <1>2 DEF ProcessOK

(* ... and when it is not the one that may.                                *)
LEMMA OthersAlone ==
  ASSUME IInv, NEW q \in Procs, pc'[q] = pc[q], job'[q] = job[q],
         ~Writes(q), record # None => record' # None
  PROVE  ProcessOK(q)'
  <1>. OnRoute(q) /\ Known(q) /\ Locked(q) /\ Loaded(q) /\ Claimed(q) /\ Written(q)
    BY DEF IInv, ProcessInv
  <1>1. \/ pc[q] = "idle"
        \/ pc[q] = "lock" /\ job[q].op # "create"
        \/ pc[q] = "log" /\ job[q].op = "create"
    BY DEF Writes, Holds, Creates, Working
  <1>2. OnRoute(q)' /\ Locked(q)' /\ Written(q)'
    BY <1>1 DEF OnRoute, Locked, Written, Working, Holds
  <1>4. Known(q)'
    BY <1>1 DEF Known, Working, Creates
  <1>3. Loaded(q)' /\ Claimed(q)'
    BY <1>1 DEF Loaded, Claimed, Working, Holds, Claims
  <1>. QED
    BY <1>2, <1>3, <1>4 DEF ProcessOK

LEMMA ProcessStep == ASSUME IInv, [Next]_vars, TypeOK' PROVE ProcessInv'
  <1>. SUFFICES ASSUME NEW q \in Procs PROVE ProcessOK(q)'
    BY DEF ProcessInv, ProcessOK
  <1>. TypeOK /\ ProcessInv /\ OneCreator /\ StoreInv
    BY DEF IInv
  <1>0. OnRoute(q) /\ Known(q) /\ Locked(q) /\ Loaded(q) /\ Claimed(q) /\ Written(q)
    BY DEF ProcessInv
  <1>1. ASSUME NEW p \in Procs, Create(p) PROVE ProcessOK(q)'
    <2>1. record = None /\ (\A r \in Procs : pc[r] = "idle")
          /\ UNCHANGED <<fileVars, lock>> /\ pc' = [pc EXCEPT ![p] = "claim"]
      BY <1>1 DEF Create, StoreInv, Quiet, Go
    <2>2. PICK c \in Contents, l \in Labels :
            job' = [job EXCEPT ![p] = [op |-> "create", content |-> c, label |-> l, revs |-> 0]]
      BY <1>1 DEF Create
    <2>3. CASE q = p
      <3>1. pc'[q] = "claim" /\ job'[q] = [op |-> "create", content |-> c, label |-> l, revs |-> 0]
        BY <2>1, <2>2, <2>3 DEF TypeOK
      <3>. QED
        BY <2>1, <3>1 DEF ProcessOK, OnRoute, Known, Locked, Loaded, Claimed, Written,
           Working, Creates, Holds, Claims, Route, fileVars
    <2>4. CASE q # p
      BY <2>1, <2>2, <2>4, OthersQuiet DEF TypeOK, fileVars
    <2>. QED
      BY <2>3, <2>4
  <1>2. ASSUME NEW p \in Procs, Calls(p) PROVE ProcessOK(q)'
    <2>1. PICK j \in Job : /\ job' = [job EXCEPT ![p] = j]
                           /\ j.op # "create" /\ (j.op # "label" => j.label = None)
                           /\ j.op = "modify" => j.content \in Contents
      BY <1>2, CallEffect
    <2>2. /\ pc' = [pc EXCEPT ![p] = "lock"] /\ record # None
          /\ UNCHANGED <<kind, fileVars, worktree, lock, breaks>>
      BY <1>2, CallEffect
    <2>3. CASE q = p
      <3>1. pc'[q] = "lock" /\ job'[q] = j
        BY <2>1, <2>2, <2>3 DEF TypeOK
      <3>2. "lock" \in Route[j.op]
        BY <2>1 DEF Job, Ops, Route
      <3>. QED
        BY <2>1, <2>2, <3>1, <3>2 DEF ProcessOK, OnRoute, Known, Locked, Loaded, Claimed,
           Written, Working, Creates, Holds, Claims, fileVars
    <2>4. CASE q # p
      BY <2>1, <2>2, <2>4, OthersQuiet DEF TypeOK, fileVars
    <2>. QED
      BY <2>3, <2>4
  <1>3. ASSUME NEW p \in Procs, Take(p) PROVE ProcessOK(q)'
    <2>1. CASE q = p
      <3>1. pc'[q] = FirstStep(job[q].op) /\ lock' = q /\ UNCHANGED fileVars
        BY ZenonT(60), <1>3, <2>1, TakeEffect DEF TypeOK
      <3>2. /\ job'[q].op = job[q].op /\ job'[q].content = job[q].content
            /\ job'[q].revs = record.revs /\ job'[q].label = LabelToSave(q)
            /\ LabelToSave(q) \in Labels /\ job[q].op # "create" /\ record # None
            /\ pc[q] = "lock" /\ job[q] \in Job
        BY <1>3, <2>1, TakeEffect, RevisionsAssumption
      <3>3. /\ pc'[q] \in Route[job[q].op] \cap {"read", "claim", "save", "repair"}
            /\ pc'[q] = "claim" => job[q].op = "modify"
            /\ pc'[q] = "save" => job[q].op = "label"
        BY <1>3, <2>1, <3>1, TakeEffect
      <3>4. OnRoute(q)' /\ Known(q)' /\ Locked(q)' /\ Claimed(q)' /\ Written(q)'
        BY <3>1, <3>2, <3>3 DEF OnRoute, Known, Locked, Claimed, Written, Working, Creates,
           Holds, Claims, fileVars
      <3>5. job[q].op # "label" => job'[q].label = record.label
        BY <1>0, <3>2 DEF Loaded, LabelToSave
      <3>6. job[q].op = "modify" => job[q].content \in Contents
        BY <1>0, <3>2 DEF Loaded, Working
      <3>7. Loaded(q)'
        BY <3>1, <3>2, <3>3, <3>5, <3>6 DEF Loaded, Working, Holds, fileVars
      <3>. QED
        BY <3>4, <3>7 DEF ProcessOK
    <2>2. CASE q # p
      <3>0. /\ pc' = [pc EXCEPT ![p] = FirstStep(job[p].op)]
            /\ job' = [job EXCEPT ![p] = [job[p] EXCEPT !.revs = record.revs,
                                                        !.label = LabelToSave(p)]]
        BY <1>3, TakeEffect
      <3>00. pc \in [Procs -> PCs] /\ job \in [Procs -> Job \cup {None}]
        BY DEF TypeOK
      <3>1. pc'[q] = pc[q] /\ job'[q] = job[q]
        BY <3>0, <3>00, <2>2
      <3>2. UNCHANGED <<record, rev, current>> /\ lock # q
        BY <1>3, TakeEffect, RevisionsAssumption DEF fileVars
      <3>. QED
        BY <3>1, <3>2, OthersQuiet
    <2>. QED
      BY <2>1, <2>2
  <1>4. ASSUME NEW p \in Procs, Returns(p) PROVE ProcessOK(q)'
    <2>1. CASE q = p
      <3>1. pc'[q] = "idle"
        BY <1>4, <2>1, ReturnEffect DEF TypeOK
      <3>. QED
        BY <3>1 DEF ProcessOK, OnRoute, Known, Locked, Loaded, Claimed, Written, Working,
           Creates, Holds, Claims
    <2>2. CASE q # p
      BY <1>4, <2>2, ReturnEffect, OthersQuiet DEF TypeOK, fileVars
    <2>. QED
      BY <2>1, <2>2
  <1>5. ASSUME NEW p \in Procs, ReadSource(p) PROVE ProcessOK(q)'
    <2>1. /\ pc[p] = "read" /\ pc' = [pc EXCEPT ![p] = "claim"]
          /\ job' = [job EXCEPT ![p] = [job[p] EXCEPT !.content = Source]]
          /\ UNCHANGED <<fileVars, lock>> /\ Source \in Contents
      BY <1>5 DEF ReadSource, Go, Source, TypeOK
    <2>2. CASE q = p
      <3>1. pc'[q] = "claim" /\ job'[q] = [job[q] EXCEPT !.content = Source] /\ job[q] \in Job
        BY <2>1, <2>2 DEF TypeOK
      <3>2. /\ job'[q].op = job[q].op /\ job'[q].content \in Contents
            /\ job'[q].revs = job[q].revs /\ job'[q].label = job[q].label
        BY <2>1, <3>1 DEF Job
      <3>3. job[q].op \in {"snapshot", "open"}
        BY <1>0, <2>1, <2>2, <3>1 DEF OnRoute, Working, Route, Job, Ops
      <3>4. OnRoute(q)' /\ Known(q)' /\ Locked(q)' /\ Claimed(q)' /\ Written(q)'
        BY <1>0, <2>1, <2>2, <3>1, <3>2, <3>3 DEF OnRoute, Known, Locked, Claimed, Written,
           Working, Creates, Holds, Claims, fileVars, Route
      <3>5. Loaded(q)'
        BY <1>0, <2>1, <2>2, <3>1, <3>2, <3>3 DEF Loaded, Working, Holds, fileVars
      <3>. QED
        BY <3>4, <3>5 DEF ProcessOK
    <2>3. CASE q # p
      BY <2>1, <2>3, OthersQuiet DEF TypeOK, fileVars
    <2>. QED
      BY <2>2, <2>3
  <1>6. ASSUME NEW p \in Procs, Claim(p) PROVE ProcessOK(q)'
    <2>1. /\ pc[p] = "claim" /\ pc' = [pc EXCEPT ![p] = "current"] /\ Changed(p)
          /\ job[p].revs \notin DOMAIN rev
          /\ rev' = [n \in DOMAIN rev \cup {job[p].revs} |->
                       IF n = job[p].revs THEN job[p].content ELSE rev[n]]
          /\ UNCHANGED <<record, current, lock, job>>
      BY <1>6 DEF Claim, Go
    <2>2. Writes(p)
      BY <2>1 DEF Writes, Holds, Creates, Working
    <2>3. CASE q = p
      <3>1. pc'[q] = "current" /\ job'[q] = job[q] /\ job[q] \in Job
        BY <2>1, <2>3 DEF TypeOK
      <3>2. job[q].op \in {"create", "modify", "snapshot", "open"}
        BY <1>0, <2>1, <2>3, <3>1 DEF OnRoute, Working, Route, Job, Ops
      <3>3. OnRoute(q)' /\ Known(q)' /\ Locked(q)' /\ Loaded(q)' /\ Written(q)'
        BY <1>0, <2>1, <2>3, <3>1, <3>2 DEF OnRoute, Known, Locked, Loaded, Written, Working,
           Creates, Holds, Route
      <3>4. job[q].op # "create" => ReadRev(job[q].revs - 1)' # job[q].content
        <4>1. job[q].revs - 1 # job[q].revs
          BY <3>1 DEF Job
        <4>2. ReadRev(job[q].revs - 1)' = ReadRev(job[q].revs - 1)
          BY <2>1, <2>3, <4>1 DEF ReadRev
        <4>. QED
          BY <2>1, <2>3, <4>2 DEF Changed
      <3>5. Claimed(q)'
        BY <2>1, <2>3, <3>1, <3>4 DEF Claimed
      <3>. QED
        BY <3>3, <3>5 DEF ProcessOK
    <2>4. CASE q # p
      BY <2>1, <2>2, <2>4, Alone, OthersAlone DEF TypeOK
    <2>. QED
      BY <2>3, <2>4
  <1>7. ASSUME NEW p \in Procs, WriteCurrent(p) PROVE ProcessOK(q)'
    <2>1. /\ pc[p] = "current" /\ pc' = [pc EXCEPT ![p] = "save"]
          /\ current' = job[p].content /\ UNCHANGED <<record, rev, lock, job>>
      BY <1>7 DEF WriteCurrent, Go
    <2>2. job[p] \in Job /\ job[p].op \in {"create", "modify", "snapshot", "open"}
      BY <2>1 DEF ProcessInv, OnRoute, Working, Route, TypeOK, Job, Ops
    <2>3. current' # None
      BY <2>1, <2>2, RevisionsAssumption DEF ProcessInv, Loaded, Working
    <2>4. CASE q = p
      <3>1. pc'[q] = "save" /\ job'[q] = job[q]
        BY <2>1, <2>4 DEF TypeOK
      <3>2. OnRoute(q)' /\ Known(q)' /\ Locked(q)' /\ Loaded(q)' /\ Written(q)'
        BY <1>0, <2>1, <2>2, <2>3, <2>4, <3>1 DEF OnRoute, Known, Locked, Loaded, Written,
           Working, Creates, Holds, Route
      <3>3. Claimed(q)'
        BY <1>0, <2>1, <2>2, <2>4, <3>1 DEF Claimed, Claims, ReadRev
      <3>. QED
        BY <3>2, <3>3 DEF ProcessOK
    <2>5. CASE q # p
      BY <2>1, <2>3, <2>5, OthersQuiet DEF TypeOK
    <2>. QED
      BY <2>4, <2>5
  <1>8. ASSUME NEW p \in Procs, Save(p) PROVE ProcessOK(q)'
    <2>1. /\ pc[p] = "save" /\ pc' = [pc EXCEPT ![p] = "log"]
          /\ record' # None /\ UNCHANGED <<rev, current, lock, job>>
      BY <1>8, RevisionsAssumption DEF Save, Go, Record, ProcessInv, Loaded, Working, TypeOK, Job
    <2>2. Writes(p)
      BY <2>1 DEF Writes, Holds, Creates, Working
    <2>3. CASE q = p
      <3>1. pc'[q] = "log" /\ job'[q] = job[q] /\ job[q] \in Job
        BY <2>1, <2>3 DEF TypeOK
      <3>2. job[q].op \in {"create", "modify", "snapshot", "open", "label"}
        BY <1>0, <2>1, <2>3, <3>1 DEF OnRoute, Working, Route, Job, Ops
      <3>. QED
        BY <1>0, <2>1, <2>3, <3>1, <3>2 DEF ProcessOK, OnRoute, Known, Locked, Loaded,
           Claimed, Claims, Written, Working, Creates, Holds, Route
    <2>4. CASE q # p
      BY <2>1, <2>2, <2>4, Alone, OthersAlone DEF TypeOK
    <2>. QED
      BY <2>3, <2>4
  <1>9. ASSUME NEW p \in Procs, Log(p) \/ Repair(p) PROVE ProcessOK(q)'
    <2>1. /\ pc[p] \in {"log", "repair"} /\ pc' = [pc EXCEPT ![p] = "idle"]
          /\ job' = [job EXCEPT ![p] = None] /\ lock' = IF lock = p THEN None ELSE lock
          /\ UNCHANGED <<record, current>>
      BY <1>9 DEF Log, Repair, Return, Go
    <2>2. CASE q = p
      <3>1. pc'[q] = "idle"
        BY <2>1, <2>2 DEF TypeOK
      <3>. QED
        BY <3>1 DEF ProcessOK, OnRoute, Known, Locked, Loaded, Claimed, Written, Working,
           Creates, Holds, Claims
    <2>3. CASE q # p /\ Log(p)
      <3>1. UNCHANGED rev
        BY <2>3 DEF Log
      <3>. QED
        BY <2>1, <2>3, <3>1, OthersQuiet DEF TypeOK
    <2>4. CASE q # p /\ Repair(p)
      <3>1. job[p] \in Job /\ pc[p] = "repair"
        BY <2>1, <2>4 DEF TypeOK, Repair
      <3>2. Writes(p)
        BY <3>1 DEF ProcessInv, OnRoute, Writes, Holds, Creates, Working, Route
      <3>. QED
        BY <2>1, <2>4, <3>2, Alone, OthersAlone DEF TypeOK
    <2>. QED
      BY <1>9, <2>2, <2>3, <2>4
  <1>10. CASE Outside
    <2>1. UNCHANGED <<record, rev, lock, pc, job>> /\ (current # None => current' # None)
      BY <1>10, RevisionsAssumption DEF Outside, EditorWrites, WorktreeMoves, vars, fileVars
    <2>. QED
      BY <2>1, OthersQuiet
  <1>. QED
    BY <1>1, <1>2, <1>3, <1>4, <1>5, <1>6, <1>7, <1>8, <1>9, <1>10, NextSplit

(* Who writes a revision writes the next one.                              *)
LEMMA SlotIsNext ==
  ASSUME IInv, NEW p \in Procs, pc[p] \in {"claim", "current", "save"}
  PROVE  job[p].revs = NextRev /\ job[p] \in Job /\ job[p].op # "repair"
  BY DEF IInv, TypeOK, ProcessInv, OnRoute, Known, Loaded, Holds, Creates, Working, NextRev,
     Route, Job, Ops

LEMMA NextRevType == TypeOK => NextRev \in Nat
  BY DEF TypeOK, NextRev, Record

LEMMA SaveEffect ==
  ASSUME IInv, NEW p \in Procs, Save(p)
  PROVE  /\ pc[p] = "save" /\ pc' = [pc EXCEPT ![p] = "log"]
         /\ record' \in Record
         /\ record' = [revs |-> NextRev', label |-> job[p].label]
         /\ NextRev' = IF job[p].op = "label" THEN NextRev ELSE NextRev + 1
         /\ NextRev' >= 1
         /\ current # None
         /\ job[p].op # "label" => NextRev \in DOMAIN rev
         /\ UNCHANGED <<kind, rev, current, logged, job, breaks>>
  <1>1. pc[p] = "save" /\ job[p].revs = NextRev /\ job[p] \in Job /\ job[p].op # "repair"
    BY SlotIsNext DEF Save
  <1>2. record' = [revs |-> IF job[p].op = "label" THEN NextRev ELSE NextRev + 1,
                   label |-> job[p].label]
    BY <1>1 DEF Save
  <1>3. job[p].label \in Labels /\ NextRev \in Nat
    BY <1>1, NextRevType DEF IInv, ProcessInv, Loaded, Working
  <1>4. record' \in Record
    BY <1>2, <1>3 DEF Record
  <1>5. NextRev' = IF job[p].op = "label" THEN NextRev ELSE NextRev + 1
    BY <1>2, <1>4, RevisionsAssumption DEF NextRev
  <1>6. job[p].op # "create" => record # None
    BY <1>1 DEF IInv, ProcessInv, Known, Creates, Working
  <1>7. NextRev' >= 1
    BY <1>3, <1>5, <1>6 DEF IInv, StoreInv, NextRev
  <1>8. current # None
    BY <1>1, <1>6 DEF IInv, StoreInv, ProcessInv, Written
  <1>9. job[p].op # "label" => NextRev \in DOMAIN rev
    BY <1>1 DEF IInv, ProcessInv, Claimed, Claims
  <1>. QED
    BY <1>1, <1>2, <1>4, <1>5, <1>7, <1>8, <1>9 DEF Save, Go

(* The steps that leave record and revision files alone.                   *)
Still(p) ==
  Create(p) \/ Calls(p) \/ Take(p) \/ Returns(p) \/ ReadSource(p) \/ WriteCurrent(p) \/ Log(p)

LEMMA StillEffect ==
  ASSUME IInv, (\E p \in Procs : Still(p)) \/ Outside
  PROVE  /\ UNCHANGED <<record, rev>> /\ NextRev' = NextRev
         /\ Recorded' = Recorded /\ Orphans' = Orphans
         /\ current # None => current' # None
  <1>0. TypeOK
    BY DEF IInv
  <1>1. UNCHANGED <<record, rev>>
    <2>1. ASSUME NEW p \in Procs, Still(p) PROVE UNCHANGED <<record, rev>>
      BY <1>0, <2>1, ReturnEffect, CallEffect, TakeEffect
         DEF Still, Create, ReadSource, WriteCurrent, Log, fileVars
    <2>2. CASE Outside
      BY <2>2 DEF Outside, EditorWrites, WorktreeMoves, vars, fileVars
    <2>. QED
      BY <2>1, <2>2
  <1>2. current # None => current' # None
    <2>1. ASSUME NEW p \in Procs, Still(p), ~WriteCurrent(p) PROVE UNCHANGED current
      BY <1>0, <2>1, ReturnEffect, CallEffect, TakeEffect
         DEF Still, Create, ReadSource, Log, fileVars
    <2>2. ASSUME NEW p \in Procs, WriteCurrent(p) PROVE current' # None
      <3>1. pc[p] = "current" /\ current' = job[p].content
        BY <2>2 DEF WriteCurrent
      <3>2. job[p].op # "label"
        BY <1>0, <3>1 DEF IInv, ProcessInv, OnRoute, Working, Route
      <3>. QED
        BY <3>1, <3>2, RevisionsAssumption DEF IInv, ProcessInv, Loaded, Working
    <2>3. CASE Outside
      BY <2>3, RevisionsAssumption DEF Outside, EditorWrites, WorktreeMoves, vars, fileVars
    <2>. QED
      BY <2>1, <2>2, <2>3
  <1>3. NextRev' = NextRev
    BY <1>1 DEF NextRev
  <1>. QED
    BY <1>1, <1>2, <1>3 DEF Recorded, Orphans

LEMMA ClaimEffect ==
  ASSUME IInv, NEW p \in Procs, Claim(p)
  PROVE  /\ DOMAIN rev' = DOMAIN rev \cup {NextRev}
         /\ NextRev' = NextRev /\ Recorded' = Recorded
         /\ \A n \in Recorded : n \in DOMAIN rev => rev'[n] = rev[n]
         /\ pc' = [pc EXCEPT ![p] = "current"] /\ pc[p] = "claim"
         /\ UNCHANGED <<kind, record, current, logged, job, breaks>>
  <1>1. pc[p] = "claim" /\ job[p].revs = NextRev
    BY SlotIsNext DEF Claim
  <1>2. NextRev' = NextRev /\ NextRev \in Nat
    BY NextRevType DEF Claim, NextRev, IInv
  <1>. QED
    BY <1>1, <1>2 DEF Claim, Go, Recorded

LEMMA RepairEffect ==
  ASSUME IInv, NEW p \in Procs, Repair(p)
  PROVE  /\ NextRev' = NextRev /\ Recorded' = Recorded /\ Orphans' = {}
         /\ DOMAIN rev' = DOMAIN rev \cap Recorded
         /\ \A n \in DOMAIN rev' : rev'[n] = rev[n]
         /\ pc' = [pc EXCEPT ![p] = "idle"] /\ pc[p] = "repair"
         /\ job' = [job EXCEPT ![p] = None]
         /\ UNCHANGED <<kind, record, current, logged, breaks>>
  <1>1. NextRev' = NextRev
    BY DEF Repair, NextRev
  <1>. QED
    BY <1>1 DEF Repair, Return, Go, Recorded, Orphans

LEMMA WriteSplit ==
  ASSUME [Next]_vars
  PROVE  \/ (\E p \in Procs : Still(p)) \/ Outside
         \/ \E p \in Procs : Claim(p) \/ Save(p) \/ Repair(p)
  BY NextSplit DEF Still

LEMMA StoreStep == ASSUME IInv, [Next]_vars PROVE StoreInv'
  <1>. TypeOK /\ StoreInv
    BY DEF IInv
  <1>1. ASSUME kind' = None PROVE record' = None /\ Quiet'
    <2>1. ASSUME NEW p \in Procs PROVE ~Create(p)
      BY <1>1, RevisionsAssumption DEF Create
    <2>2. ASSUME NEW p \in Procs,
                 \/ Calls(p) \/ Take(p) \/ Returns(p) \/ ReadSource(p) \/ Claim(p)
                 \/ WriteCurrent(p) \/ Save(p) \/ Log(p) \/ Repair(p)
          PROVE  kind' = kind /\ (pc[p] # "idle" \/ record # None)
      BY <2>2, CallEffect, TakeEffect, ReturnEffect
         DEF ReadSource, Claim, WriteCurrent, Save, Log, Repair, Working
    <2>3. Outside
      BY <1>1, <2>1, <2>2, NextSplit DEF StoreInv, Quiet
    <2>. QED
      BY <1>1, <2>3 DEF Outside, EditorWrites, WorktreeMoves, vars, fileVars, StoreInv, Quiet
  <1>2. ASSUME record' # None PROVE record'.revs >= 1 /\ current' # None
    <2>1. CASE (\E p \in Procs : Still(p)) \/ Outside
      BY <1>2, <2>1, StillEffect DEF StoreInv
    <2>2. ASSUME NEW p \in Procs, Claim(p) \/ Repair(p)
          PROVE  record'.revs >= 1 /\ current' # None
      BY <1>2, <2>2, ClaimEffect, RepairEffect DEF StoreInv
    <2>3. ASSUME NEW p \in Procs, Save(p) PROVE record'.revs >= 1 /\ current' # None
      BY <2>3, SaveEffect
    <2>. QED
      BY <2>1, <2>2, <2>3, WriteSplit
  <1>. QED
    BY <1>1, <1>2 DEF StoreInv

(* History on disk and orphans in the next slot go together: a save takes  *)
(* the slot it lists out of the orphans.                                   *)
LEMMA HistoryStep == ASSUME IInv, [Next]_vars PROVE (RevisionsOnDisk /\ OrphansAreNext)'
  <1>. TypeOK /\ RevisionsOnDisk /\ OrphansAreNext /\ NextRev \in Nat
    BY NextRevType DEF IInv
  <1>1. CASE (\E p \in Procs : Still(p)) \/ Outside
    BY <1>1, StillEffect DEF RevisionsOnDisk, OrphansAreNext
  <1>2. ASSUME NEW p \in Procs, Claim(p) PROVE (RevisionsOnDisk /\ OrphansAreNext)'
    BY <1>2, ClaimEffect DEF RevisionsOnDisk, OrphansAreNext, Orphans
  <1>3. ASSUME NEW p \in Procs, Save(p) PROVE (RevisionsOnDisk /\ OrphansAreNext)'
    <2>1. CASE job[p].op = "label"
      <3>1. NextRev' = NextRev /\ rev' = rev
        BY <1>3, <2>1, SaveEffect
      <3>. QED
        BY <3>1 DEF RevisionsOnDisk, OrphansAreNext, Orphans, Recorded
    <2>2. CASE job[p].op # "label"
      <3>1. NextRev' = NextRev + 1 /\ rev' = rev /\ NextRev \in DOMAIN rev
        BY <1>3, <2>2, SaveEffect
      <3>2. Recorded' = Recorded \cup {NextRev}
        BY <3>1 DEF Recorded
      <3>. QED
        BY <3>1, <3>2 DEF RevisionsOnDisk, OrphansAreNext, Orphans
    <2>. QED
      BY <2>1, <2>2
  <1>4. ASSUME NEW p \in Procs, Repair(p) PROVE (RevisionsOnDisk /\ OrphansAreNext)'
    BY <1>4, RepairEffect DEF RevisionsOnDisk, OrphansAreNext
  <1>. QED
    BY <1>1, <1>2, <1>3, <1>4, WriteSplit

LEMMA ExplainedStep == ASSUME IInv, [Next]_vars PROVE Explained'
  <1>. TypeOK /\ Explained /\ OrphansAreNext /\ NextRev \in Nat
    BY NextRevType DEF IInv
  <1>1. CASE Outside
    <2>1. Orphans' = Orphans
      BY <1>1, StillEffect
    <2>2. UNCHANGED <<pc, job, breaks>>
      BY <1>1 DEF Outside, EditorWrites, WorktreeMoves, vars
    <2>. QED
      BY <2>1, <2>2 DEF Explained, Claims
  <1>2. ASSUME NEW p \in Procs, Still(p) PROVE Explained'
    <2>1. Orphans' = Orphans
      BY <1>2, StillEffect
    <2>2. ASSUME NEW q \in Procs, Claims(q) PROVE Claims(q)' \/ breaks' > 0
      <3>1. CASE Create(p) \/ Calls(p) \/ Take(p) \/ ReadSource(p)
        <4>1. /\ pc[p] \in {"idle", "lock", "read"}
              /\ \A r \in Procs \ {p} : pc'[r] = pc[r] /\ job'[r] = job[r]
          BY ZenonT(60), <3>1, CallEffect, TakeEffect DEF Create, ReadSource, Go, TypeOK
        <4>. QED
          BY <2>2, <4>1 DEF Claims
      <3>2. CASE Returns(p)
        BY <2>2, <3>2, ReturnEffect DEF Claims, TypeOK
      <3>3. CASE WriteCurrent(p)
        BY <2>2, <3>3 DEF WriteCurrent, Go, Claims, TypeOK
      <3>4. CASE Log(p)
        BY <2>2, <3>4 DEF Log, Return, Go, Claims, TypeOK
      <3>. QED
        BY <1>2, <3>1, <3>2, <3>3, <3>4 DEF Still
    <2>3. breaks > 0 => breaks' > 0
      <3>1. breaks \in Nat /\ (Returns(p) => breaks' \in Nat /\ breaks' >= breaks)
        BY ReturnEffect, RevisionsAssumption DEF TypeOK
      <3>2. ~Returns(p) => breaks' = breaks
        BY <1>2, CallEffect, TakeEffect DEF Still, Create, ReadSource, WriteCurrent, Log
      <3>. QED
        BY <3>1, <3>2
    <2>. QED
      BY <2>1, <2>2, <2>3 DEF Explained
  <1>3. ASSUME NEW p \in Procs, Claim(p) PROVE Explained'
    <2>1. pc'[p] = "current" /\ job'[p] = job[p] /\ pc[p] = "claim"
      BY <1>3, ClaimEffect DEF TypeOK
    <2>2. job[p].op # "label"
      BY <2>1 DEF IInv, ProcessInv, OnRoute, Working, Route
    <2>. QED
      BY <2>1, <2>2 DEF Explained, Claims
  <1>4. ASSUME NEW p \in Procs, Save(p) PROVE Explained'
    <2>1. CASE job[p].op = "label"
      <3>1. NextRev' = NextRev /\ UNCHANGED <<rev, breaks, job>> /\ pc' = [pc EXCEPT ![p] = "log"]
        BY <1>4, <2>1, SaveEffect
      <3>2. Orphans' = Orphans
        BY <3>1 DEF Orphans, Recorded
      <3>. QED
        BY <2>1, <3>1, <3>2 DEF Explained, Claims, TypeOK
    <2>2. CASE job[p].op # "label"
      <3>1. NextRev' = NextRev + 1 /\ rev' = rev
        BY <1>4, <2>2, SaveEffect
      <3>2. Recorded' = Recorded \cup {NextRev}
        BY <3>1 DEF Recorded
      <3>. QED
        BY <3>1, <3>2 DEF Explained, OrphansAreNext, Orphans
    <2>. QED
      BY <2>1, <2>2
  <1>5. ASSUME NEW p \in Procs, Repair(p) PROVE Explained'
    BY <1>5, RepairEffect DEF Explained
  <1>. QED
    BY <1>1, <1>2, <1>3, <1>4, <1>5, WriteSplit

(* Who is about to leave the line of revision n.                           *)
Logs(p, n) == pc[p] = "log" /\ job[p].op # "label" /\ job[p].revs = n

LEMMA LoggedStep == ASSUME IInv, [Next]_vars PROVE LoggedInv'
  <1>. TypeOK /\ LoggedInv /\ NextRev \in Nat
    BY NextRevType DEF IInv
  <1>. SUFFICES ASSUME NEW n \in Recorded'
                PROVE  (n \in logged \/ breaks > 0 \/ \E p \in Procs : Logs(p, n))'
    BY DEF LoggedInv, Logs
  <1>1. n \in Recorded => n \in logged \/ breaks > 0 \/ \E p \in Procs : Logs(p, n)
    BY DEF LoggedInv, Logs
  <1>2. CASE Outside
    <2>1. Recorded' = Recorded
      BY <1>2, StillEffect
    <2>2. UNCHANGED <<pc, job, breaks, logged>>
      BY <1>2 DEF Outside, EditorWrites, WorktreeMoves, vars, fileVars
    <2>. QED
      BY <1>1, <2>1, <2>2 DEF Logs
  <1>3. ASSUME NEW p \in Procs, Still(p)
        PROVE  (n \in logged \/ breaks > 0 \/ \E q \in Procs : Logs(q, n))'
    <2>1. Recorded' = Recorded
      BY <1>3, StillEffect
    <2>2. logged \subseteq logged' /\ (breaks > 0 => breaks' > 0)
      <3>1. /\ breaks \in Nat
            /\ Returns(p) => breaks' \in Nat /\ breaks' >= breaks /\ logged' = logged
        BY ReturnEffect, RevisionsAssumption DEF TypeOK, fileVars
      <3>2. ~Returns(p) => breaks' = breaks /\ logged \subseteq logged'
        BY <1>3, CallEffect, TakeEffect
           DEF Still, Create, ReadSource, WriteCurrent, Log, fileVars
      <3>. QED
        BY <3>1, <3>2
    <2>3. ASSUME NEW q \in Procs, Logs(q, n) PROVE Logs(q, n)' \/ n \in logged' \/ breaks' > 0
      <3>1. CASE Create(p) \/ Calls(p) \/ Take(p) \/ ReadSource(p) \/ WriteCurrent(p)
        <4>1. /\ pc[p] \in {"idle", "lock", "read", "current"}
              /\ \A r \in Procs \ {p} : pc'[r] = pc[r] /\ job'[r] = job[r]
          BY ZenonT(60), <3>1, CallEffect, TakeEffect DEF Create, ReadSource, WriteCurrent, Go, TypeOK
        <4>. QED
          BY <2>3, <4>1 DEF Logs
      <3>2. CASE Returns(p)
        BY <2>3, <3>2, ReturnEffect DEF Logs, TypeOK
      <3>3. CASE Log(p)
        BY <2>3, <3>3 DEF Log, Return, Go, Logs, TypeOK
      <3>. QED
        BY <1>3, <3>1, <3>2, <3>3 DEF Still
    <2>. QED
      BY <1>1, <2>1, <2>2, <2>3
  <1>4. ASSUME NEW p \in Procs, Claim(p) \/ Repair(p)
        PROVE  (n \in logged \/ breaks > 0 \/ \E q \in Procs : Logs(q, n))'
    <2>1. /\ pc[p] \in {"claim", "repair"} /\ Recorded' = Recorded /\ UNCHANGED <<logged, breaks>>
          /\ \A q \in Procs \ {p} : pc'[q] = pc[q] /\ job'[q] = job[q]
      BY <1>4, ClaimEffect, RepairEffect DEF TypeOK
    <2>2. \A q \in Procs : Logs(q, n) => Logs(q, n)'
      BY <2>1 DEF Logs
    <2>. QED
      BY <1>1, <2>1, <2>2
  <1>5. ASSUME NEW p \in Procs, Save(p)
        PROVE  (n \in logged \/ breaks > 0 \/ \E q \in Procs : Logs(q, n))'
    <2>1. /\ pc[p] = "save" /\ pc' = [pc EXCEPT ![p] = "log"] /\ UNCHANGED <<job, breaks, logged>>
          /\ NextRev' = IF job[p].op = "label" THEN NextRev ELSE NextRev + 1
      BY <1>5, SaveEffect
    <2>2. job[p].revs = NextRev
      BY <2>1, SlotIsNext
    <2>3. \A q \in Procs : Logs(q, n) => Logs(q, n)'
      BY <2>1 DEF Logs, TypeOK
    <2>4. n \in Recorded \/ (n = NextRev /\ job[p].op # "label")
      BY <2>1 DEF Recorded
    <2>5. n = NextRev /\ job[p].op # "label" => Logs(p, n)'
      BY <2>1, <2>2 DEF Logs, TypeOK
    <2>. QED
      BY <1>1, <2>1, <2>3, <2>4, <2>5
  <1>. QED
    BY <1>2, <1>3, <1>4, <1>5, WriteSplit

LEMMA StepIInv == IInv /\ [Next]_vars => IInv'
  <1>. SUFFICES ASSUME IInv, [Next]_vars PROVE IInv'
    OBVIOUS
  <1>1. TypeOK'
    BY TypeStep
  <1>. QED
    BY <1>1, ProcessStep, OneCreatorStep, StoreStep, HistoryStep, ExplainedStep, LoggedStep
       DEF IInv

LEMMA Invariance == Spec => []IInv
  BY InitIInv, StepIInv, PTL DEF Spec

----------------------------------------------------------------------------
(* Results *)

(* Every variable keeps its type (ArtifactRevisions!TypeOK).               *)
THEOREM RevisionsTypeCorrect == Spec => []TypeOK
<1>1. IInv => TypeOK
  BY DEF IInv
<1>. QED
  BY <1>1, Invariance, PTL

(* Every revision of the history is on disk, whoever writes, repairs or    *)
(* dies at the same time.                                                  *)
THEOREM HistoryOnDisk == Spec => []RevisionsOnDisk
<1>1. IInv => RevisionsOnDisk
  BY DEF IInv
<1>. QED
  BY <1>1, Invariance, PTL

(* At most one revision file stands beside the history, in the next slot.  *)
THEOREM OneOrphanAtMost == Spec => []OrphansAreNext
<1>1. IInv => OrphansAreNext
  BY DEF IInv
<1>. QED
  BY <1>1, Invariance, PTL

(* Without failures and crashes the doctor finds nothing once the          *)
(* processes are done.                                                     *)
THEOREM UnbrokenStoreIsClean == Spec => []UnbrokenIsClean
<1>1. IInv => UnbrokenIsClean
  <2>. SUFFICES ASSUME IInv, Quiet, breaks = 0
                PROVE  /\ Orphans = {}
                       /\ Recorded \subseteq logged
                       /\ record # None => current # None
    BY DEF UnbrokenIsClean
  <2>1. \A p \in Procs : ~Claims(p) /\ pc[p] # "log"
    BY DEF Quiet, Claims
  <2>. QED
    BY <2>1 DEF IInv, Explained, LoggedInv, StoreInv
<1>. QED
  BY <1>1, Invariance, PTL

(* The three together, as the model checker checks them.                   *)
THEOREM HistoryHeld == Spec => []HistoryHolds
BY HistoryOnDisk, OneOrphanAtMost, UnbrokenStoreIsClean, PTL DEF HistoryHolds

(* Nobody meets a conflict unless somebody broke half-way.                 *)
THEOREM ConflictsOnlyFromBreaks == Spec => ConflictsComeFromBreaks
<1>1. ASSUME IInv, NEW p \in Procs, Conflict(p) PROVE breaks > 0
  <2>. TypeOK /\ ProcessInv /\ OneCreator /\ NextRev \in Nat
    BY <1>1, NextRevType DEF IInv
  <2>1. pc[p] = "claim" /\ NextRev \in DOMAIN rev
    BY <1>1, SlotIsNext DEF Conflict
  <2>2. Orphans # {}
    BY <2>1 DEF Orphans, Recorded
  <2>3. ASSUME NEW q \in Procs, Claims(q) PROVE FALSE
    <3>1. Writes(p) /\ Writes(q)
      BY <2>1, <2>3 DEF Claims, Writes, Holds, Creates, Working
    <3>. QED
      BY <2>1, <2>3, <3>1, Alone DEF Claims
  <2>. QED
    BY <1>1, <2>2, <2>3 DEF IInv, Explained
<1>2. IInv /\ [Next]_vars => [\A p \in Procs : Conflict(p) => breaks > 0]_vars
  BY <1>1
<1>. QED
  BY <1>2, Invariance, PTL DEF Spec, ConflictsComeFromBreaks

----------------------------------------------------------------------------
(* The store implements the log *)

LEMMA PublishedSeq ==
  ASSUME IInv
  PROVE  /\ Published \in Seq(Contents) /\ Len(Published) = NextRev /\ NextRev \in Nat
         /\ \A i \in 1 .. NextRev : i - 1 \in DOMAIN rev /\ Published[i] = rev[i - 1]
  <1>1. NextRev \in Nat /\ TypeOK /\ RevisionsOnDisk
    BY NextRevType DEF IInv
  <1>2. \A i \in 1 .. NextRev :
          i - 1 \in DOMAIN rev /\ ReadRev(i - 1) = rev[i - 1] /\ rev[i - 1] \in Contents
    BY <1>1 DEF RevisionsOnDisk, Recorded, ReadRev, TypeOK
  <1>. QED
    BY <1>1, <1>2 DEF Published

(* A step that keeps the recorded revisions keeps what is published.       *)
LEMMA SamePublished ==
  ASSUME IInv, NextRev' = NextRev, \A n \in Recorded : n \in DOMAIN rev' /\ rev'[n] = rev[n]
  PROVE  Published' = Published
  <1>1. NextRev \in Nat /\ RevisionsOnDisk
    BY NextRevType DEF IInv
  <1>2. \A i \in 1 .. NextRev : ReadRev(i - 1)' = ReadRev(i - 1)
    BY <1>1 DEF RevisionsOnDisk, Recorded, ReadRev
  <1>. QED
    BY <1>2 DEF Published

Label == IF record = None THEN None ELSE record.label

LEMMA SaveImplements ==
  ASSUME IInv, NEW p \in Procs, Save(p)
  PROVE  Revisions!Next
  <1>. /\ TypeOK /\ ProcessInv /\ RevisionsOnDisk
    BY DEF IInv
  <1>1. pc[p] = "save" /\ job[p].revs = NextRev /\ job[p] \in Job /\ NextRev \in Nat
    BY SlotIsNext, NextRevType DEF Save
  <1>2. /\ Label' = job[p].label /\ job[p].label \in Labels
    BY <1>1, SaveEffect, RevisionsAssumption DEF Label, ProcessInv, Loaded, Working
  <1>3. /\ rev' = rev /\ NextRev' = IF job[p].op = "label" THEN NextRev ELSE NextRev + 1
    BY SaveEffect
  <1>4. CASE job[p].op = "label"
    <2>1. Published' = Published
      BY <1>3, <1>4, SamePublished DEF RevisionsOnDisk
    <2>2. Published # <<>>
      <3>1. NextRev >= 1
        BY <1>3, <1>4, SaveEffect
      <3>. QED
        BY <3>1, PublishedSeq
    <2>. QED
      BY <1>2, <2>1, <2>2 DEF Label, Revisions!Next, Revisions!Relabel
  <1>5. CASE job[p].op # "label"
    <2>1. /\ NextRev \in DOMAIN rev /\ rev[NextRev] = job[p].content
          /\ job[p].op # "create" => ReadRev(NextRev - 1) # job[p].content
          /\ job[p].content \in Contents
      BY <1>1, <1>5 DEF ProcessInv, Claimed, Claims, Loaded, Working
    <2>2. Published' = Append(Published, job[p].content)
      <3>1. /\ Published' \in Seq(Contents) /\ Len(Published') = NextRev + 1
            /\ \A i \in 1 .. NextRev + 1 : Published'[i] = rev[i - 1]
        <4>1. \A i \in 1 .. NextRev + 1 :
                i - 1 \in DOMAIN rev /\ ReadRev(i - 1)' = rev[i - 1] /\ rev[i - 1] \in Contents
          BY <1>1, <1>3, <2>1 DEF RevisionsOnDisk, Recorded, ReadRev, TypeOK
        <4>2. Published' = [i \in 1 .. NextRev + 1 |-> ReadRev(i - 1)']
          BY <1>3, <1>5 DEF Published
        <4>. QED
          BY <1>1, <4>1, <4>2
      <3>2. \A i \in 1 .. NextRev : Published[i] = rev[i - 1]
        BY PublishedSeq
      <3>. QED
        BY <1>1, <2>1, <3>1, <3>2, PublishedSeq
    <2>3. CASE job[p].op = "create"
      <3>1. record = None /\ Published = <<>>
        BY <1>1, <2>3, PublishedSeq DEF ProcessInv, Known, Creates, Working, NextRev
      <3>. QED
        BY <1>2, <2>1, <2>2, <3>1 DEF Label, Revisions!Next, Revisions!Register
    <2>4. CASE job[p].op # "create"
      <3>1. record # None /\ job[p].label = record.label /\ NextRev >= 1
        BY <1>1, <1>5, <2>4
           DEF ProcessInv, Known, Loaded, Holds, Creates, Working, IInv, StoreInv, NextRev
      <3>2. Published # <<>> /\ job[p].content # Published[Len(Published)]
        BY <2>1, <2>4, <3>1, PublishedSeq DEF ReadRev
      <3>. QED
        BY <1>2, <2>1, <2>2, <3>1, <3>2 DEF Label, Revisions!Next, Revisions!Publish
    <2>. QED
      BY <2>3, <2>4
  <1>. QED
    BY <1>4, <1>5

LEMMA StepImplements ==
  ASSUME IInv, [Next]_vars
  PROVE  Revisions!Next \/ (Published' = Published /\ Label' = Label)
  <1>. RevisionsOnDisk
    BY DEF IInv
  <1>1. CASE (\E p \in Procs : Still(p)) \/ Outside
    <2>1. UNCHANGED <<record, rev>> /\ NextRev' = NextRev
      BY <1>1, StillEffect
    <2>. QED
      BY <2>1, SamePublished DEF RevisionsOnDisk, Label
  <1>2. ASSUME NEW p \in Procs, Claim(p) \/ Repair(p)
        PROVE  Published' = Published /\ Label' = Label
    <2>1. /\ NextRev' = NextRev /\ record' = record
          /\ \A n \in Recorded : n \in DOMAIN rev' /\ rev'[n] = rev[n]
      BY <1>2, ClaimEffect, RepairEffect DEF RevisionsOnDisk
    <2>. QED
      BY <2>1, SamePublished DEF Label
  <1>. QED
    BY <1>1, <1>2, SaveImplements, WriteSplit

(* Record, revision files and locks together are a log that only grows at  *)
(* its end and never repeats itself.                                       *)
THEOREM RevisionsImplement == Spec => RevisionsSpec
<1>1. Init => Revisions!Init
  BY RevisionsAssumption DEF Init, Revisions!Init, Published, NextRev
<1>2. IInv /\ [Next]_vars => [Revisions!Next]_<<Published, Label>>
  BY StepImplements
<1>. QED
  BY <1>1, <1>2, Invariance, PTL DEF Spec, RevisionsSpec, Revisions!Spec, Label
=============================================================================
