------------------------ MODULE AgentLifecycleProofs ------------------------
(***************************************************************************)
(* Theorems about AgentLifecycle, for any number of processes, agents,     *)
(* names and programs: its types, the uniqueness of running names, that no *)
(* write is lost, that it implements AgentRegistry, and what it promises   *)
(* of tmux.                                                                *)
(*                                                                         *)
(* The first follow from one inductive invariant, IInv.  Its heart is what *)
(* an operation knows between loading a record and saving it: that the     *)
(* locks it took are still its own, that the record is still what it       *)
(* loaded, and that the name it chose is still free.                       *)
(***************************************************************************)
EXTENDS AgentLifecycle, TLAPS

(* Between load and save.                                                  *)
Prepared == {"launch", "link", "tmuxRename", "deliver", "save"}

HoldsCreateLock(p) == pc[p] \notin {"idle", "queue"} /\ job[p].op \in NamingOps
HoldsAgentLock(p) == pc[p] \in Prepared \cup {"undo"} /\ job[p].op # "create"

(* Which operation can be where, and where it goes after its save.         *)
Walk(p) ==
  /\ pc[p] = "queue" => job[p].op \in NamingOps
  /\ pc[p] = "want" => job[p].op \in Ops \ {"create", "refreshAll"}
  /\ pc[p] \in {"launch", "link", "undo"} => job[p].op \in {"create", "respawn"}
  /\ pc[p] = "tmuxRename" => job[p].op = "rename"
  /\ pc[p] \in {"deliver", "leaving", "killing"} => job[p].op = "stop"
  /\ pc[p] \in {"scanned", "listed"} => job[p].op = "refreshAll"
  /\ pc[p] = "save" => job[p].op \in Ops
  /\ job[p].then # "idle" =>
       \/ pc[p] = "save" /\ job[p].op = "stop" /\ job[p].then \in {"leaving", "killing"}
       \/ pc[p] = "save" /\ job[p].op = "refreshAll" /\ job[p].then = "listed"

Locked(p) ==
  /\ HoldsCreateLock(p) => createLock = p
  /\ HoldsAgentLock(p) => agentLock[job[p].id] = p

(* The agent an operation waits for has a record; a hook may come before.  *)
Target(p) ==
  /\ pc[p] \in Prepared \cup {"want", "undo"} => job[p].id \in Ids
  /\ pc[p] = "queue" /\ job[p].op # "create" => job[p].id \in Ids
  /\ pc[p] \in {"queue", "want"} /\ job[p].op \notin {"create", "hook"} =>
       record[job[p].id] # None

(* What an operation makes of the record it loaded.                        *)
Change(op, old, new) ==
  /\ op = "create" => old = None /\ new.state \in {"starting", "ended"}
  /\ op # "create" => old # None
  /\ op = "respawn" => /\ old.state = "ended"
                       /\ new.state \in {"starting", "ended"}
                       /\ new = [old EXCEPT !.state = new.state, !.data = new.data]
  /\ op = "rename" => new = [old EXCEPT !.name = new.name]
  /\ op = "update" => new = [old EXCEPT !.data = new.data]
  /\ op \in {"stop", "refresh", "refreshAll", "hook", "interrupt"} =>
       /\ old.state # "ended"
       /\ new.state \in {"idle", "working", "ended", old.state}
       /\ new = [old EXCEPT !.state = new.state, !.data = new.data]

Faithful(p) ==
  pc[p] \in Prepared =>
    /\ job[p].op \in Ops \ {"fork"}
    /\ job[p].id \in minted
    /\ job[p].new \in Record
    /\ record[job[p].id] = job[p].old
    /\ Change(job[p].op, job[p].old, job[p].new)

Chosen(p) ==
  pc[p] \in Prepared /\ job[p].op \in {"create", "respawn", "rename"} =>
    NameFree(job[p].new.name, job[p].id)

(* What p relies on. *)
Relies(p) == Walk(p) /\ Locked(p) /\ Target(p) /\ Faithful(p) /\ Chosen(p)

(* A program in tmux belongs to an agent.                                  *)
Owned == \A r \in Runs : runs[r].open \/ runs[r].alive => runs[r].id \in Ids

(* An id is minted before it gets a record.                                *)
Minted == \A i \in Ids : record[i] # None => i \in minted

IInv ==
  /\ TypeOK /\ Owned /\ Minted /\ UniqueRunningNames
  /\ \A p \in Procs : Relies(p)

----------------------------------------------------------------------------
(* Frames: what a step leaves to the processes that do not take it.        *)

Keeps(q) ==
  /\ pc'[q] = pc[q] /\ job'[q] = job[q]
  /\ createLock = q => createLock' = q
  /\ \A i \in Ids : agentLock[i] = q => agentLock'[i] = q

(* Who keeps its place and its locks keeps what it relies on, as long as   *)
(* no record changes.                                                      *)
LEMMA FrameKeeps ==
  ASSUME NEW q \in Procs, Relies(q), Keeps(q), record' = record, minted \subseteq minted'
  PROVE  Relies(q)'
<1>1. Walk(q)'
  BY DEF Relies, Keeps, Walk
<1>2. Locked(q)'
  BY DEF Relies, Keeps, Locked, HoldsCreateLock, HoldsAgentLock, Target
<1>3. Target(q)'
  BY DEF Relies, Keeps, Target
<1>4. Faithful(q)'
  BY DEF Relies, Keeps, Faithful, Change
<1>5. Chosen(q)'
  BY DEF Relies, Keeps, Chosen, NameFree, Registry!NameFree, Registry!Running
<1> QED BY <1>1, <1>2, <1>3, <1>4, <1>5 DEF Relies

(* A process outside every operation relies on nothing.                    *)
LEMMA IdleRelies ==
  ASSUME NEW q \in Procs, pc[q] = "idle", job[q] = NoJob
  PROVE  Relies(q)
BY DEF Relies, Walk, Locked, Target, Faithful, Chosen, Prepared, NoJob,
       HoldsCreateLock, HoldsAgentLock

(* The end of operations, whoever's they are.                              *)
LEMMA LeaveRelies ==
  ASSUME IInv, NEW S \in SUBSET Procs, Leave(S), record' = record, minted' = minted
  PROVE  \A q \in Procs : Relies(q)'
<1> SUFFICES ASSUME NEW q \in Procs PROVE Relies(q)'
  OBVIOUS
<1>1. CASE q \in S
  <2>1. pc'[q] = "idle" /\ job'[q] = NoJob
    BY <1>1 DEF Leave
  <2> QED BY <2>1, IdleRelies DEF Relies, Walk, Locked, Target, Faithful, Chosen, Prepared, NoJob,
       HoldsCreateLock, HoldsAgentLock
<1>2. CASE q \notin S
  <2>1. Keeps(q)
    BY <1>2 DEF Leave, Keeps
  <2> QED BY <2>1, FrameKeeps DEF IInv
<1> QED BY <1>1, <1>2
(* What is left to show of a step of p that changes no record.             *)
LEMMA QuietStep ==
  ASSUME IInv, NEW p \in Procs, record' = record, minted \subseteq minted',
         \A q \in Procs \ {p} : Keeps(q),
         TypeOK', Owned', Relies(p)'
  PROVE  IInv'
<1>1. \A q \in Procs : Relies(q)'
  BY FrameKeeps DEF IInv
<1>2. UniqueRunningNames'
  BY DEF IInv, UniqueRunningNames, Registry!UniqueRunningNames, Registry!Running
<1>3. Minted'
  BY DEF IInv, Minted
<1> QED BY <1>1, <1>2, <1>3 DEF IInv

LEMMA LeaveTypes ==
  ASSUME TypeOK, NEW S \in SUBSET Procs, Leave(S)
  PROVE  /\ createLock' \in Procs \cup {None}
         /\ agentLock' \in [Ids -> Procs \cup {None}]
         /\ pc' \in [Procs -> PCs]
         /\ job' \in [Procs -> Job]
BY DEF TypeOK, Leave, NoJob, Job, PCs

LEMMA SpendTypes ==
  ASSUME TypeOK, NEW k \in BudgetKeys, Spend(k)
  PROVE  budget' \in [BudgetKeys -> Nat]
BY DEF TypeOK, Spend

(* ... and of one that ends the operations of S.                           *)
LEMMA LeaveStep ==
  ASSUME IInv, NEW S \in SUBSET Procs, Leave(S), record' = record,
         minted' = minted, worktrees' \subseteq Ids, profiles' \subseteq Ids,
         runs' \in [Runs -> Run], Owned', started' \in 0 .. MaxRuns,
         budget' \in [BudgetKeys -> Nat]
  PROVE  IInv'
<1>1. TypeOK'
  BY LeaveTypes DEF IInv, TypeOK
<1>2. UniqueRunningNames'
  BY DEF IInv, UniqueRunningNames, Registry!UniqueRunningNames, Registry!Running
<1>3. Minted'
  BY DEF IInv, Minted
<1> QED BY <1>1, <1>2, <1>3, LeaveRelies DEF IInv

LEMMA CloseTypes ==
  ASSUME TypeOK, Owned, NEW S, CloseSessions(S)
  PROVE  runs' \in [Runs -> Run] /\ Owned'
<1>1. ASSUME NEW r \in Runs
      PROVE  /\ runs'[r] \in Run
             /\ runs'[r].id = runs[r].id
             /\ runs'[r].open => runs[r].open
             /\ runs'[r].alive = runs[r].alive
  <2>1. runs[r] \in Run
    BY DEF TypeOK
  <2>2. CASE r \in S
    BY <2>1, <2>2 DEF CloseSessions, Run
  <2>3. CASE r \notin S
    BY <2>1, <2>3 DEF CloseSessions
  <2> QED BY <2>2, <2>3
<1> QED BY <1>1 DEF Owned, CloseSessions

LEMMA DiesTypes ==
  ASSUME TypeOK, Owned, NEW r, NEW S, Dies(r, S)
  PROVE  runs' \in [Runs -> Run] /\ Owned'
<1>1. ASSUME NEW q \in Runs
      PROVE  /\ runs'[q] \in Run
             /\ runs'[q].id = runs[q].id
             /\ runs'[q].open => runs[q].open
             /\ runs'[q].alive => runs[q].alive
  <2>1. runs[q] \in Run
    BY DEF TypeOK
  <2>2. CASE q = r
    BY <2>1, <2>2 DEF Dies, Run, TypeOK
  <2>3. CASE q # r
    BY <2>1, <2>3 DEF Dies, TypeOK
  <2> QED BY <2>2, <2>3
<1>2. runs' \in [Runs -> Run]
  <2>1. runs' = [q \in Runs |-> runs'[q]]
    BY DEF TypeOK, Dies
  <2> QED BY <1>1, <2>1
<1> QED BY <1>1, <1>2 DEF Owned

----------------------------------------------------------------------------
(* The steps that end operations. *)

LEMMA LeaveSteps ==
  ASSUME IInv, NEW p \in Procs,
         \/ NoFreeName(p) \/ PrepareFails(p) \/ LaunchFails(p) \/ Undo(p)
         \/ RespawnRefused(p) \/ RenameRefused(p) \/ TmuxRenameFails(p)
         \/ StopRefused(p) \/ DeliverFails(p) \/ LeaveFails(p) \/ ProcessLeft(p) \/ KillTimeout(p)
         \/ RefreshUnchanged(p) \/ RefreshDone(p)
         \/ HookIgnored(p) \/ InterruptRefused(p)
         \/ InspectionFails(p) \/ Crash(p)
  PROVE  IInv'
<1> USE DEF IInv
<1>0. /\ TypeOK /\ Owned
      /\ minted \subseteq Ids /\ worktrees \subseteq Ids /\ profiles \subseteq Ids
      /\ runs \in [Runs -> Run] /\ started \in 0 .. MaxRuns
      /\ budget \in [BudgetKeys -> Nat]
  BY DEF TypeOK
<1>1. CASE \/ NoFreeName(p) \/ RespawnRefused(p) \/ RenameRefused(p) \/ StopRefused(p)
           \/ ProcessLeft(p) \/ RefreshUnchanged(p) \/ RefreshDone(p)
           \/ HookIgnored(p) \/ InterruptRefused(p)
  <2>1. Leave({p}) /\ UNCHANGED <<diskVars, tmuxVars, budget>>
    BY <1>1 DEF NoFreeName, RespawnRefused, RenameRefused, StopRefused, ProcessLeft,
                RefreshUnchanged, RefreshDone, HookIgnored, InterruptRefused, Refuse
  <2>2. Owned'
    BY <1>0, <2>1 DEF Owned, tmuxVars
  <2> QED BY <1>0, <2>1, <2>2, LeaveStep DEF diskVars, tmuxVars
<1>2. CASE TmuxRenameFails(p) \/ DeliverFails(p) \/ LeaveFails(p) \/ InspectionFails(p) \/ Crash(p)
  <2>1. /\ Leave({p}) /\ UNCHANGED <<diskVars, tmuxVars>>
        /\ Spend("faults") \/ Spend("crashes") \/ UNCHANGED budget
    BY <1>2 DEF TmuxRenameFails, DeliverFails, LeaveFails, InspectionFails, Crash
  <2>2. budget' \in [BudgetKeys -> Nat]
    BY <1>0, <2>1, SpendTypes DEF BudgetKeys
  <2>3. Owned'
    BY <1>0, <2>1 DEF Owned, tmuxVars
  <2> QED BY <1>0, <2>1, <2>2, <2>3, LeaveStep DEF diskVars, tmuxVars
<1>3. CASE PrepareFails(p) \/ LaunchFails(p) \/ Undo(p)
  <2>1. /\ GiveUp(p) /\ profiles' \subseteq profiles /\ UNCHANGED started
        /\ Spend("faults") \/ UNCHANGED budget
        /\ UNCHANGED runs \/ \E S : CloseSessions(S)
    BY <1>3 DEF PrepareFails, LaunchFails, Undo, Abandon, tmuxVars
  <2>2. budget' \in [BudgetKeys -> Nat]
    BY <1>0, <2>1, SpendTypes DEF BudgetKeys
  <2>3. runs' \in [Runs -> Run] /\ Owned'
    <3>1. CASE UNCHANGED runs
      BY <1>0, <3>1 DEF Owned
    <3>2. CASE \E S : CloseSessions(S)
      BY <1>0, <3>2, CloseTypes
    <3> QED BY <2>1, <3>1, <3>2
  <2> QED BY <1>0, <2>1, <2>2, <2>3, LeaveStep DEF GiveUp
<1>4. CASE KillTimeout(p)
  <2>1. Dies(job[p].run, {p})
    BY <1>4 DEF KillTimeout
  <2>2. runs' \in [Runs -> Run] /\ Owned'
    BY <1>0, <2>1, DiesTypes
  <2>3. HooksOf(job[p].run) \cup {p} \in SUBSET Procs
    BY DEF HooksOf
  <2> QED BY <1>0, <2>1, <2>2, <2>3, LeaveStep DEF Dies, diskVars
<1> QED BY <1>1, <1>2, <1>3, <1>4

----------------------------------------------------------------------------
(* The steps that begin an operation or wait for a lock. *)

(* A step that moves p from one place to another and touches no lock.      *)
LEMMA MoveKeeps ==
  ASSUME TypeOK, NEW p \in Procs, NEW to, Go(p, to), NEW j,
         job' = [job EXCEPT ![p] = j], UNCHANGED lockVars
  PROVE  \A q \in Procs \ {p} : Keeps(q)
BY DEF TypeOK, Go, lockVars, Keeps

LEMMA BeginStep ==
  ASSUME IInv, NEW p \in Procs, NEW j \in Job, Begin(p, j),
         j.op \in Ops, j.then = "idle",
         j.op \notin {"create", "refreshAll"} => j.id \in Ids,
         j.op \notin {"create", "refreshAll", "hook"} => record[j.id] # None,
         j.op # "refreshAll"
  PROVE  IInv'
<1> USE DEF IInv
<1>1. TypeOK'
  <2>1. budget' \in [BudgetKeys -> Nat]
    BY SpendTypes DEF Begin, BudgetKeys
  <2> QED BY <2>1 DEF TypeOK, Begin, Go, PCs, diskVars, lockVars, tmuxVars
<1>2. Owned'
  BY DEF Owned, Begin, tmuxVars
<1>3. \A q \in Procs \ {p} : Keeps(q)
  BY DEF TypeOK, Begin, Go, lockVars, Keeps
<1>4. /\ pc'[p] = IF j.op \in NamingOps THEN "queue" ELSE "want"
      /\ job'[p] = j /\ record' = record /\ minted' = minted
  BY DEF TypeOK, Begin, Go, diskVars
<1>5. Relies(p)'
  BY <1>4 DEF Relies, Walk, Locked, Target, Faithful, Chosen, Prepared,
              HoldsCreateLock, HoldsAgentLock, NamingOps, Ops
<1> QED BY <1>1, <1>2, <1>3, <1>4, <1>5, QuietStep

LEMMA NoJobTypes ==
  /\ NoJob \in Job
  /\ \A op \in Ops : [NoJob EXCEPT !.op = op] \in Job
  /\ \A op \in Ops, i \in Ids \cup {None}, r \in Runs \cup {None} :
       [NoJob EXCEPT !.op = op, !.id = i, !.run = r] \in Job
BY DEF NoJob, Job, PCs

LEMMA BeginSteps ==
  ASSUME IInv, NEW p \in Procs, BeginAny(p)
  PROVE  IInv'
<1>1. CASE BeginCreate(p)
  <2>1. [NoJob EXCEPT !.op = "create"] \in Job
    BY NoJobTypes DEF Ops, NamingOps
  <2> QED BY <1>1, <2>1, BeginStep DEF BeginCreate, NoJob, Ops, NamingOps
<1>2. ASSUME NEW i \in Ids, NEW op \in (NamingOps \ {"create"}) \cup OneAgentOps,
             BeginOnAgent(p, op, i)
      PROVE  IInv'
  <2>1. [NoJob EXCEPT !.op = op, !.id = i] \in Job
    BY DEF NoJob, Job, PCs, Ops
  <2>2. op \in Ops \ {"create", "refreshAll", "hook"}
    BY DEF Ops, NamingOps, OneAgentOps
  <2> QED BY <1>2, <2>1, <2>2, BeginStep DEF BeginOnAgent, NoJob
<1>3. ASSUME NEW r \in Runs, BeginHook(p, r)
      PROVE  IInv'
  <2>1. runs[r].id \in Ids
    BY <1>3 DEF IInv, Owned, BeginHook
  <2>2. [NoJob EXCEPT !.op = "hook", !.id = runs[r].id, !.run = r] \in Job
    BY <2>1 DEF NoJob, Job, PCs, Ops
  <2> QED BY <1>3, <2>1, <2>2, BeginStep DEF BeginHook, NoJob, Ops
<1>4. CASE Scan(p)
  <2> USE DEF IInv
  <2> DEFINE j == [NoJob EXCEPT !.op = "refreshAll", !.todo = {i \in Ids : Running(record[i])}]
  <2>1. j \in Job /\ j.op = "refreshAll" /\ j.then = "idle"
    BY DEF NoJob, Job, PCs, Ops
  <2>2. /\ pc'[p] = "scanned" /\ job'[p] = j /\ record' = record /\ minted' = minted
        /\ job' = [job EXCEPT ![p] = j]
    BY <1>4 DEF TypeOK, Scan, Go, diskVars
  <2>3. TypeOK'
    <3>1. budget' \in [BudgetKeys -> Nat]
      BY <1>4, SpendTypes DEF Scan, BudgetKeys
    <3> QED BY <1>4, <3>1, <2>1, <2>2 DEF TypeOK, Scan, Go, PCs, diskVars, lockVars, tmuxVars
  <2>4. Owned'
    BY <1>4 DEF Owned, Scan, tmuxVars
  <2>5. \A q \in Procs \ {p} : Keeps(q)
    BY <1>4, MoveKeeps DEF Scan
  <2>6. Relies(p)'
    BY <2>1, <2>2 DEF Relies, Walk, Locked, Target, Faithful, Chosen, Prepared,
                      HoldsCreateLock, HoldsAgentLock, NamingOps, Ops
  <2> QED BY <2>2, <2>3, <2>4, <2>5, <2>6, QuietStep
<1> QED BY <1>1, <1>2, <1>3, <1>4 DEF BeginAny

LEMMA QueueSteps ==
  ASSUME IInv, NEW p \in Procs, TakeCreateLock(p) \/ ForkSnapshot(p) \/ NewAgent(p)
  PROVE  IInv'
<1> USE DEF IInv
<1>1. CASE TakeCreateLock(p)
  <2>1. /\ pc'[p] = "want" /\ job'[p] = job[p] /\ record' = record /\ createLock' = p
        /\ pc[p] = "queue" /\ agentLock' = agentLock /\ createLock = None
        /\ job[p].op # "create" /\ minted' = minted
    BY <1>1 DEF TypeOK, TakeCreateLock, Go, diskVars
  <2>2. TypeOK' /\ Owned'
    BY <1>1 DEF TypeOK, Owned, TakeCreateLock, Go, PCs, diskVars, tmuxVars
  <2>3. \A q \in Procs \ {p} : Keeps(q)
    BY <1>1, <2>1, ConstantsAssumption DEF TypeOK, TakeCreateLock, Go, Keeps
  <2>4. Relies(p)'
    BY <2>1 DEF Relies, Walk, Locked, Target, Faithful, Chosen, Prepared,
                HoldsCreateLock, HoldsAgentLock, NamingOps, Ops
  <2> QED BY <2>1, <2>2, <2>3, <2>4, QuietStep
<1>2. CASE ForkSnapshot(p)
  <2> DEFINE j == [NoJob EXCEPT !.op = "create"]
  <2>1. /\ j \in Job /\ j.op = "create" /\ j.then = "idle"
    BY <1>2 DEF TypeOK, Relies, Target, Loaded, ForkSnapshot, NoJob, Job, PCs, Ops, NamingOps
  <2>2. /\ pc'[p] = "queue" /\ job'[p] = j /\ record' = record /\ minted' = minted
        /\ job' = [job EXCEPT ![p] = j]
    BY <1>2 DEF TypeOK, ForkSnapshot, Go, diskVars
  <2>3. TypeOK' /\ Owned'
    BY <1>2, <2>1, <2>2 DEF TypeOK, Owned, ForkSnapshot, Go, PCs, diskVars, lockVars, tmuxVars
  <2>4. \A q \in Procs \ {p} : Keeps(q)
    BY <1>2, MoveKeeps DEF ForkSnapshot
  <2>5. Relies(p)'
    BY <2>1, <2>2 DEF Relies, Walk, Locked, Target, Faithful, Chosen, Prepared,
                      HoldsCreateLock, HoldsAgentLock, NamingOps, Ops
  <2> QED BY <2>2, <2>3, <2>4, <2>5, QuietStep
<1>3. CASE NewAgent(p)
  <2>p. PICK i \in Ids \ minted, n \in Names, d \in Data :
          /\ IsFirstFree(n)
          /\ minted' = minted \cup {i}
          /\ worktrees' = worktrees \cup {i}
          /\ job' = [job EXCEPT ![p] = [NoJob EXCEPT !.op = "create", !.id = i,
                       !.new = [name |-> n, state |-> "starting", data |-> d]]]
    BY <1>3 DEF NewAgent
  <2> DEFINE new == [name |-> n, state |-> "starting", data |-> d]
             j == [NoJob EXCEPT !.op = "create", !.id = i, !.new = new]
  <2>0. new \in Record /\ new.name = n /\ new.state = "starting"
    BY DEF Record, LiveStates
  <2>1. /\ j \in Job /\ j.op = "create" /\ j.then = "idle"
        /\ j.id = i /\ j.old = None /\ j.new = new
    BY <2>0 DEF NoJob, Job, PCs, Ops, NamingOps
  <2>2. /\ pc'[p] = "launch" /\ job'[p] = j /\ record' = record /\ createLock' = p
        /\ job' = [job EXCEPT ![p] = j] /\ i \in minted' /\ minted \subseteq minted'
    BY <1>3, <2>p DEF TypeOK, NewAgent, Go
  <2>3. record[i] = None
    BY DEF Minted
  <2>4. NameFree(n, i)
    BY <2>p DEF IsFirstFree, NameFree, Running, Registry!NameFree
  <2> HIDE DEF new, j
  <2>5. TypeOK' /\ Owned'
    <3>1. job' \in [Procs -> Job]
      BY <2>1, <2>2 DEF TypeOK
    <3>2. minted' \subseteq Ids /\ worktrees' \subseteq Ids
      BY <2>p DEF TypeOK
    <3>3. pc' \in [Procs -> PCs] /\ Owned'
      BY <1>3 DEF TypeOK, NewAgent, Go, PCs, Owned, tmuxVars
    <3> QED BY <1>3, <3>1, <3>2, <3>3, <2>2 DEF TypeOK, NewAgent, tmuxVars
  <2>6. \A q \in Procs \ {p} : Keeps(q)
    BY <1>3, <2>2, ConstantsAssumption DEF TypeOK, NewAgent, Go, Keeps
  <2>7. Relies(p)'
    <3>1. Walk(p)' /\ Locked(p)' /\ Target(p)'
      BY <2>1, <2>2 DEF Walk, Locked, Target, Prepared, HoldsCreateLock, HoldsAgentLock, Ops
    <3>2. Faithful(p)'
      BY <2>0, <2>1, <2>2, <2>3 DEF Faithful, Change, Ops, NamingOps
    <3>3. Chosen(p)'
      BY <2>0, <2>1, <2>2, <2>4 DEF Chosen, NameFree, Registry!NameFree, Registry!Running
    <3> QED BY <3>1, <3>2, <3>3 DEF Relies
  <2> QED BY <2>2, <2>5, <2>6, <2>7, QuietStep
<1> QED BY <1>1, <1>2, <1>3

----------------------------------------------------------------------------
(* The steps on tmux between the load and the save. *)

Passes == {<<"launch", "link">>, <<"link", "save">>, <<"link", "undo">>,
           <<"tmuxRename", "save">>, <<"leaving", "killing">>}

(* p goes on with the job it has. *)
LEMMA PassStep ==
  ASSUME IInv, NEW p \in Procs, NEW to, <<pc[p], to>> \in Passes, Go(p, to),
         job' = job, UNCHANGED <<record, minted, lockVars>>,
         worktrees' \subseteq Ids, profiles' \subseteq Ids, started' \in 0 .. MaxRuns,
         runs' \in [Runs -> Run], Owned', budget' \in [BudgetKeys -> Nat]
  PROVE  IInv'
<1> USE DEF IInv
<1>1. /\ pc'[p] = to /\ \A q \in Procs \ {p} : pc'[q] = pc[q]
      /\ to \in PCs
    BY DEF TypeOK, Go, Passes, PCs
<1>2. TypeOK'
  BY <1>1 DEF TypeOK, Go, lockVars
<1>3. \A q \in Procs \ {p} : Keeps(q)
  BY <1>1 DEF Keeps, lockVars
<1>4. Relies(p)'
  <2>1. /\ Walk(p)' /\ Locked(p)' /\ Target(p)'
    BY <1>1 DEF Relies, Walk, Locked, Target, Prepared, HoldsCreateLock, HoldsAgentLock,
                Passes, NamingOps, lockVars, Ops
  <2>2. Faithful(p)'
    BY <1>1 DEF Relies, Faithful, Change, Prepared, Passes
  <2>3. Chosen(p)'
    BY <1>1 DEF Relies, Chosen, Prepared, Passes, NameFree, Registry!NameFree, Registry!Running
  <2> QED BY <2>1, <2>2, <2>3 DEF Relies
<1> QED BY <1>2, <1>3, <1>4, QuietStep

LEMMA LaunchSteps ==
  ASSUME IInv, NEW p \in Procs,
         \/ Launch(p) \/ Link(p) \/ LinkFails(p) \/ TmuxRename(p) \/ LeaveTimeout(p)
  PROVE  IInv'
<1> USE DEF IInv
<1>0. TypeOK /\ Owned
  OBVIOUS
<1>1. CASE Launch(p)
  <2>1. job[p].id \in Ids /\ job[p].new \in Record
    BY <1>1 DEF Relies, Target, Faithful, Launch, Prepared
  <2>2. started + 1 \in Runs /\ started' \in 0 .. MaxRuns
    BY <1>1, ConstantsAssumption DEF TypeOK, Launch, Runs
  <2> DEFINE r == [id |-> job[p].id, name |-> job[p].new.name,
                   open |-> TRUE, linked |-> FALSE, alive |-> TRUE]
  <2>3. r \in Run /\ r.id \in Ids
    BY <2>1 DEF Run, Record
  <2>4. runs' = [runs EXCEPT ![started + 1] = r]
    BY <1>1 DEF Launch
  <2> HIDE DEF r
  <2>5. runs' \in [Runs -> Run] /\ Owned'
    BY <2>2, <2>3, <2>4 DEF TypeOK, Owned
  <2>6. profiles' \subseteq Ids
    BY <1>1, <2>1 DEF Launch, TypeOK
  <2>7. /\ pc[p] = "launch" /\ Go(p, "link") /\ job' = job
        /\ UNCHANGED <<record, minted, worktrees, lockVars, budget>>
    BY <1>1 DEF Launch
  <2>8. <<pc[p], "link">> \in Passes
    BY <2>7 DEF Passes
  <2> QED BY <1>0, <2>2, <2>5, <2>6, <2>7, <2>8, PassStep DEF TypeOK
<1>2. CASE Link(p)
  <2>1. job[p].id \in Ids
    BY <1>2 DEF Relies, Target, Link, Prepared
  <2>2. PICK r \in Runs : runs' = [runs EXCEPT ![r].id = job[p].id, ![r].linked = TRUE]
    BY <1>2 DEF Link, SessionsNamed
  <2>3. runs[r] \in Run
    BY DEF TypeOK
  <2>4. runs' = [runs EXCEPT ![r] = [runs[r] EXCEPT !.id = job[p].id, !.linked = TRUE]]
    BY <2>2 DEF TypeOK
  <2>5. /\ [runs[r] EXCEPT !.id = job[p].id, !.linked = TRUE] \in Run
        /\ [runs[r] EXCEPT !.id = job[p].id, !.linked = TRUE].id \in Ids
    BY <2>1, <2>3 DEF Run
  <2>6. runs' \in [Runs -> Run] /\ Owned'
    BY <2>4, <2>5 DEF TypeOK, Owned
  <2> QED BY <1>0, <1>2, <2>6, PassStep DEF Link, TypeOK, Passes, diskVars
<1>3. CASE LinkFails(p)
  <2>1. budget' \in [BudgetKeys -> Nat]
    BY <1>3, SpendTypes DEF LinkFails, BudgetKeys
  <2>2. Owned'
    BY <1>3 DEF Owned, LinkFails, tmuxVars
  <2> QED BY <1>0, <1>3, <2>1, <2>2, PassStep DEF LinkFails, TypeOK, Passes, diskVars, tmuxVars
<1>4. CASE TmuxRename(p)
  <2>1. job[p].new \in Record
    BY <1>4 DEF Relies, Faithful, TmuxRename, Prepared
  <2>2. runs' = [runs EXCEPT ![job[p].run].name = job[p].new.name]
    BY <1>4 DEF TmuxRename
  <2>3. ASSUME NEW r \in Runs
        PROVE  /\ runs'[r] \in Run
               /\ runs'[r].id = runs[r].id
               /\ runs'[r].open = runs[r].open /\ runs'[r].alive = runs[r].alive
    <3>1. runs[r] \in Run /\ job[p].new.name \in Names
      BY <2>1 DEF TypeOK, Record
    <3>2. CASE r = job[p].run
      <4>1. runs'[r] = [runs[r] EXCEPT !.name = job[p].new.name]
        BY <2>2, <3>2 DEF TypeOK
      <4> QED BY <3>1, <4>1 DEF Run
    <3>3. CASE r # job[p].run
      BY <2>2, <3>1, <3>3 DEF TypeOK
    <3> QED BY <3>2, <3>3
  <2>4. runs' \in [Runs -> Run] /\ Owned'
    <3>1. runs' = [r \in Runs |-> runs'[r]]
      BY <2>2 DEF TypeOK
    <3> QED BY <2>3, <3>1 DEF Owned
  <2> QED BY <1>0, <1>4, <2>4, PassStep DEF TmuxRename, TypeOK, Passes, diskVars
<1>5. CASE LeaveTimeout(p)
  <2>1. runs' \in [Runs -> Run] /\ Owned'
    BY <1>0, <1>5, CloseTypes DEF LeaveTimeout
  <2> QED BY <1>0, <1>5, <2>1, PassStep DEF LeaveTimeout, TypeOK, Passes, diskVars
<1> QED BY <1>1, <1>2, <1>3, <1>4, <1>5

(* A step that changes what p is to save, or where it goes afterwards.     *)
LEMMA AmendStep ==
  ASSUME IInv, NEW p \in Procs, NEW j \in Job, pc[p] \in {"link", "deliver"},
         Go(p, "save"), job' = [job EXCEPT ![p] = j],
         j.op = job[p].op, j.id = job[p].id, j.old = job[p].old, j.new \in Record,
         j.new.name = job[p].new.name,
         Change(j.op, j.old, j.new),
         j.then # "idle" => j.op = "stop" /\ j.then \in {"leaving", "killing"},
         UNCHANGED <<diskVars, lockVars, started, budget>>,
         runs' \in [Runs -> Run], Owned'
  PROVE  IInv'
<1> USE DEF IInv
<1>1. /\ pc'[p] = "save" /\ job'[p] = j
      /\ pc' \in [Procs -> PCs] /\ job' \in [Procs -> Job]
    BY DEF TypeOK, Go, PCs
<1>2. TypeOK'
  BY <1>1 DEF TypeOK, lockVars, diskVars
<1>3. \A q \in Procs \ {p} : Keeps(q)
  BY MoveKeeps
<1>4. Relies(p)'
  <2>0. /\ pc[p] \in Prepared /\ record' = record /\ minted' = minted
        /\ createLock' = createLock /\ agentLock' = agentLock
    BY DEF Prepared, diskVars, lockVars
  <2>1. /\ Walk(p)' /\ Locked(p)' /\ Target(p)'
    BY <1>1, <2>0 DEF Relies, Walk, Locked, Target, Prepared, HoldsCreateLock, HoldsAgentLock,
                      NamingOps, Ops
  <2>2. Faithful(p)'
    BY ZenonT(60), <1>1, <2>0 DEF Relies, Faithful, Change
  <2>3. Chosen(p)'
    BY <1>1, <2>0 DEF Relies, Chosen, NameFree, Registry!NameFree, Registry!Running
  <2> QED BY <2>1, <2>2, <2>3 DEF Relies
<1> QED BY <1>2, <1>3, <1>4, QuietStep DEF diskVars

LEMMA AmendSteps ==
  ASSUME IInv, NEW p \in Procs, LinkVanished(p) \/ StopTyped(p) \/ StopKilled(p)
  PROVE  IInv'
<1> USE DEF IInv
<1>0. pc[p] \in {"link", "deliver"} /\ Go(p, "save")
      /\ UNCHANGED <<diskVars, lockVars, started, budget>>
  BY DEF LinkVanished, StopTyped, StopKilled, tmuxVars
<1>1. /\ job[p] \in Job /\ job[p].new \in Record
      /\ Change(job[p].op, job[p].old, job[p].new)
      /\ job[p].then = "idle"
  BY <1>0 DEF TypeOK, Relies, Faithful, Walk, Prepared
<1>2. CASE LinkVanished(p)
  <2> DEFINE new == [job[p].new EXCEPT !.state = "ended"]
             j == [job[p] EXCEPT !.new = new]
  <2>1. /\ new \in Record /\ new.name = job[p].new.name
        /\ new.data = job[p].new.data /\ new.state = "ended"
    BY <1>1 DEF Record
  <2>2. /\ j \in Job /\ j.new = new /\ j.then = "idle"
        /\ j.op = job[p].op /\ j.id = job[p].id /\ j.old = job[p].old
    BY <1>1, <2>1 DEF Job
  <2>3. job' = [job EXCEPT ![p] = j]
    BY <1>2 DEF TypeOK, LinkVanished
  <2>4. job[p].op \in {"create", "respawn"}
    BY <1>2 DEF Relies, Walk, LinkVanished
  <2>5. Change(j.op, j.old, new)
    <3>1. CASE job[p].op = "create"
      BY <1>1, <2>1, <2>2, <3>1 DEF Change
    <3>2. CASE job[p].op = "respawn"
      <4>1. job[p].old \in Record
        BY <1>1, <3>2 DEF Change, Job
      <4>2. new = [job[p].old EXCEPT !.state = new.state, !.data = new.data]
        BY <1>1, <2>1, <3>2, <4>1 DEF Change, Record
      <4> QED BY <1>1, <2>1, <2>2, <3>2, <4>2 DEF Change
    <3> QED BY <2>4, <3>1, <3>2
  <2>6. runs' \in [Runs -> Run] /\ Owned'
    BY <1>2 DEF TypeOK, Owned, LinkVanished, tmuxVars
  <2> HIDE DEF new, j
  <2> QED BY <1>0, <2>1, <2>2, <2>3, <2>5, <2>6, AmendStep
<1>3. CASE StopTyped(p)
  <2> DEFINE j == [job[p] EXCEPT !.then = "leaving"]
  <2>1. /\ j \in Job /\ j.new = job[p].new /\ j.then = "leaving"
        /\ j.op = job[p].op /\ j.id = job[p].id /\ j.old = job[p].old
    BY <1>1 DEF Job, PCs
  <2>2. job' = [job EXCEPT ![p] = j]
    BY <1>3 DEF TypeOK, StopTyped
  <2>3. job[p].op = "stop"
    BY <1>3 DEF Relies, Walk, StopTyped
  <2>4. runs' \in [Runs -> Run] /\ Owned'
    BY <1>3 DEF TypeOK, Owned, StopTyped, tmuxVars
  <2> HIDE DEF j
  <2> QED BY <1>0, <1>1, <2>1, <2>2, <2>3, <2>4, AmendStep
<1>4. CASE StopKilled(p)
  <2> DEFINE then == IF runs[job[p].run].open THEN "killing" ELSE "idle"
             j == [job[p] EXCEPT !.then = then]
  <2>1. /\ j \in Job /\ j.new = job[p].new /\ j.then \in {"idle", "killing"}
        /\ j.op = job[p].op /\ j.id = job[p].id /\ j.old = job[p].old
    BY <1>1 DEF Job, PCs
  <2>2. job' = [job EXCEPT ![p] = j]
    BY <1>4 DEF TypeOK, StopKilled
  <2>3. job[p].op = "stop"
    BY <1>4 DEF Relies, Walk, StopKilled
  <2>4. runs' \in [Runs -> Run] /\ Owned'
    BY <1>4, CloseTypes DEF StopKilled
  <2> HIDE DEF j
  <2> QED BY <1>0, <1>1, <2>1, <2>2, <2>3, <2>4, AmendStep
<1> QED BY <1>2, <1>3, <1>4

----------------------------------------------------------------------------
(* The steps that take <id>.lock and load the record. *)

(* What has to hold of the job they prepare.                               *)
LEMMA LoadStep ==
  ASSUME IInv, NEW p \in Procs, NEW to \in {"launch", "tmuxRename", "deliver", "save"},
         NEW i \in Ids, NEW j \in Job,
         pc[p] # "idle", pc[p] # "queue",
         Take(p, i), Go(p, to), job' = [job EXCEPT ![p] = j],
         j.op = job[p].op, j.op \in Ops \ {"create", "fork"}, j.id = i,
         j.old = record[i], j.old # None, j.new \in Record, Change(j.op, j.old, j.new),
         j.then = IF j.op = "refreshAll" THEN "listed" ELSE "idle",
         to = "launch" => j.op = "respawn",
         to = "tmuxRename" => j.op = "rename",
         to = "deliver" => j.op = "stop",
         j.op = "refreshAll" => to = "save",
         j.op \in {"respawn", "rename"} => NameFree(j.new.name, i),
         UNCHANGED <<diskVars, createLock, tmuxVars, budget>>
  PROVE  IInv'
<1> USE DEF IInv
<1>1. /\ pc'[p] = to /\ job'[p] = j
      /\ pc' \in [Procs -> PCs] /\ job' \in [Procs -> Job]
    BY DEF TypeOK, Go, PCs
<1>2. /\ record' = record /\ minted' = minted /\ createLock' = createLock
      /\ agentLock[i] = None
      /\ agentLock' = [agentLock EXCEPT ![i] = p]
      /\ agentLock' \in [Ids -> Procs \cup {None}] /\ agentLock'[i] = p
  BY DEF TypeOK, Take, diskVars
<1>3. TypeOK' /\ Owned'
  BY <1>1, <1>2 DEF TypeOK, Owned, diskVars, tmuxVars
<1>4. \A q \in Procs \ {p} : Keeps(q)
  BY <1>2, ConstantsAssumption DEF TypeOK, Go, Keeps
<1>5. Relies(p)'
  <2>1. /\ Walk(p)' /\ Target(p)'
    BY <1>1 DEF Walk, Target, Prepared, NamingOps, Ops
  <2>2. Locked(p)'
    BY <1>1, <1>2 DEF Relies, Locked, HoldsCreateLock, HoldsAgentLock
  <2>3. Faithful(p)'
    BY <1>1, <1>2 DEF Faithful, Minted, Change
  <2>4. Chosen(p)'
    BY <1>1, <1>2 DEF Chosen, NameFree, Registry!NameFree, Registry!Running
  <2> QED BY <2>1, <2>2, <2>3, <2>4 DEF Relies
<1> QED BY <1>2, <1>3, <1>4, <1>5, QuietStep

(* What the actions that Enter share.                                      *)
LEMMA EnterFacts ==
  ASSUME IInv, NEW p \in Procs, NEW op \in Ops \ {"create", "fork", "refreshAll"},
         Enter(p, op)
  PROVE  /\ pc[p] = "want" /\ job[p] \in Job /\ job[p].op = op /\ job[p].id \in Ids
         /\ job[p].then = "idle"
         /\ record[job[p].id] \in Record \cup {None}
         /\ op # "hook" => record[job[p].id] \in Record
         /\ Take(p, job[p].id)
         /\ UNCHANGED <<diskVars, createLock, tmuxVars, budget>>
<1>1. pc[p] = "want" /\ job[p].op = op
  BY DEF Enter
<1>2. job[p] \in Job /\ Relies(p) /\ record \in [Ids -> Record \cup {None}]
  BY DEF IInv, TypeOK
<1> QED BY <1>1, <1>2 DEF Enter, Relies, Walk, Target

(* The job after Prepare.                                                  *)
LEMMA PreparedJob ==
  ASSUME TypeOK, NEW p \in Procs, NEW new \in Record, Loaded(p) \in Record, Prepare(p, new)
  PROVE  \E j \in Job :
           /\ job' = [job EXCEPT ![p] = j]
           /\ j.op = job[p].op /\ j.id = job[p].id /\ j.then = job[p].then
           /\ j.old = Loaded(p) /\ j.new = new
<1> DEFINE j == [job[p] EXCEPT !.old = Loaded(p), !.new = new]
<1>1. job[p] \in Job
  BY DEF TypeOK
<1>2. /\ j \in Job /\ j.op = job[p].op /\ j.id = job[p].id /\ j.then = job[p].then
      /\ j.old = Loaded(p) /\ j.new = new
  BY <1>1 DEF Job
<1>3. job' = [job EXCEPT ![p] = j]
  BY DEF Prepare, TypeOK
<1> QED BY <1>2, <1>3

LEMMA OneChange ==
  ASSUME NEW r \in Record
  PROVE  /\ \A s \in LiveStates \cup {"ended"} :
              LET new == [r EXCEPT !.state = s]
              IN  /\ new \in Record /\ new.name = r.name /\ new.state = s
                  /\ new = [r EXCEPT !.state = new.state]
                  /\ new = [r EXCEPT !.state = new.state, !.data = new.data]
         /\ \A n \in Names :
              LET new == [r EXCEPT !.name = n]
              IN  /\ new \in Record /\ new.name = n
                  /\ new = [r EXCEPT !.name = new.name]
         /\ \A d \in Data :
              LET new == [r EXCEPT !.data = d]
              IN  new \in Record /\ new = [r EXCEPT !.data = new.data]
BY DEF Record

LEMMA EndedRecord ==
  ASSUME NEW r \in Record, r.state # "ended"
  PROVE  /\ Ended(r) \in Record
         /\ \A op \in {"stop", "refresh", "refreshAll"} : Change(op, r, Ended(r))
<1>1. /\ Ended(r) \in Record /\ Ended(r).state = "ended"
      /\ Ended(r) = [r EXCEPT !.state = Ended(r).state, !.data = Ended(r).data]
  BY ZenonT(60), OneChange DEF Ended
<1>2. r # None
  BY ConstantsAssumption
<1> HIDE DEF Ended
<1> QED BY <1>1, <1>2 DEF Change

LEMMA LoadSteps ==
  ASSUME IInv, NEW p \in Procs,
         \/ Respawn(p) \/ Rename(p) \/ Hook(p) \/ Interrupt(p) \/ Update(p)
         \/ Stop(p) \/ StopVanished(p) \/ Refresh(p)
  PROVE  IInv'
<1> DEFINE i == job[p].id
<1>0. TypeOK
  BY DEF IInv
<1>1. CASE Respawn(p)
  <2>0. PICK d \in Data : Prepare(p, [Loaded(p) EXCEPT !.state = "starting", !.data = d])
    BY <1>1 DEF Respawn
  <2> DEFINE new == [record[i] EXCEPT !.state = "starting", !.data = d]
  <2>1. Enter(p, "respawn") /\ CanRespawn(i) /\ Prepare(p, new) /\ Go(p, "launch")
    BY <1>1, <2>0 DEF Respawn, Loaded
  <2>2. /\ pc[p] = "want" /\ job[p].op = "respawn" /\ i \in Ids /\ job[p].then = "idle"
        /\ record[i] \in Record
        /\ Take(p, i) /\ UNCHANGED <<diskVars, createLock, tmuxVars, budget>>
    BY <2>1, EnterFacts DEF Ops, NamingOps
  <2>3. /\ new \in Record /\ new.name = record[i].name /\ new.state = "starting"
        /\ new = [record[i] EXCEPT !.state = new.state, !.data = new.data]
    BY <2>2 DEF Record, LiveStates
  <2> HIDE DEF new, i
  <2>4. PICK j \in Job :
          /\ job' = [job EXCEPT ![p] = j]
          /\ j.op = job[p].op /\ j.id = job[p].id /\ j.then = job[p].then
          /\ j.old = record[i] /\ j.new = new
    BY <1>0, <2>1, <2>2, <2>3, PreparedJob DEF Loaded, i
  <2>5. record[i].state = "ended" /\ NameFree(record[i].name, i)
    BY <2>1 DEF CanRespawn
  <2>6. record[i] # None
    BY <2>2, ConstantsAssumption
  <2>7. Change("respawn", record[i], new)
    BY <2>3, <2>5, <2>6 DEF Change
  <2>8. /\ pc[p] # "idle" /\ pc[p] # "queue" /\ j.op = "respawn"
        /\ "respawn" \in Ops \ {"create", "fork"} /\ j.id = i /\ j.then = "idle"
    BY <2>2, <2>4 DEF Ops, NamingOps, i
  <2>9. NameFree(j.new.name, i)
    BY <2>3, <2>4, <2>5
  <2>10. /\ j.old = record[i] /\ j.old # None /\ j.new \in Record
         /\ Change(j.op, j.old, j.new) /\ j.op = job[p].op
         /\ j.op \in Ops \ {"create", "fork"} /\ j.op # "refreshAll"
         /\ j.then = IF j.op = "refreshAll" THEN "listed" ELSE "idle"
    BY <2>2, <2>3, <2>4, <2>6, <2>7, <2>8
  <2>11. job' = [job EXCEPT ![p] = j] /\ Go(p, "launch") /\ Take(p, i) /\ i \in Ids
    BY <2>1, <2>2, <2>4
  <2> QED BY <2>2, <2>8, <2>9, <2>10, <2>11, LoadStep
<1>2. CASE Rename(p)
  <2>1. Enter(p, "rename")
    BY <1>2 DEF Rename
  <2>2. /\ pc[p] = "want" /\ job[p] \in Job /\ job[p].op = "rename" /\ i \in Ids
        /\ job[p].then = "idle" /\ record[i] \in Record
        /\ Take(p, i) /\ UNCHANGED <<diskVars, createLock, tmuxVars, budget>>
    BY <2>1, EnterFacts DEF Ops, NamingOps
  <2>3. PICK n \in Names :
          /\ CanRename(i, n)
          /\ \/ Prepare(p, [Loaded(p) EXCEPT !.name = n]) /\ Go(p, "save")
             \/ /\ \E r \in LiveRuns(job[p].id) :
                     job' = [job EXCEPT ![p].old = Loaded(p), ![p].run = r,
                                        ![p].new = [Loaded(p) EXCEPT !.name = n]]
                /\ Go(p, "tmuxRename")
    BY <1>2 DEF Rename
  <2> DEFINE new == [record[i] EXCEPT !.name = n]
  <2>4. /\ new \in Record /\ new.name = n
        /\ new = [record[i] EXCEPT !.name = new.name]
    BY <2>2, OneChange
  <2>5. record[i] # None
    BY <2>2, ConstantsAssumption
  <2> HIDE DEF new
  <2>6. Change("rename", record[i], new) /\ NameFree(n, i)
    BY <2>3, <2>4, <2>5 DEF Change, CanRename
  <2>7. \E j \in Job :
          /\ job' = [job EXCEPT ![p] = j]
          /\ j.op = job[p].op /\ j.id = job[p].id /\ j.then = job[p].then
          /\ j.old = record[i] /\ j.new = new
    <3>1. CASE Prepare(p, new)
      BY <1>0, <2>2, <2>4, <3>1, PreparedJob DEF Loaded
    <3>2. ASSUME NEW r \in LiveRuns(job[p].id),
                 job' = [job EXCEPT ![p].old = Loaded(p), ![p].run = r, ![p].new = new]
          PROVE  \E j \in Job :
                   /\ job' = [job EXCEPT ![p] = j]
                   /\ j.op = job[p].op /\ j.id = job[p].id /\ j.then = job[p].then
                   /\ j.old = record[i] /\ j.new = new
      <4> DEFINE j == [job[p] EXCEPT !.old = Loaded(p), !.run = r, !.new = new]
      <4>1. /\ j \in Job /\ j.op = job[p].op /\ j.id = job[p].id /\ j.then = job[p].then
            /\ j.old = record[i] /\ j.new = new
        BY <2>2, <2>4 DEF Job, LiveRuns, Loaded
      <4>2. job' = [job EXCEPT ![p] = j]
        BY <1>0, <3>2 DEF TypeOK
      <4> QED BY <4>1, <4>2
    <3> QED BY <2>3, <3>1, <3>2 DEF new, Loaded
  <2>8. PICK to \in {"save", "tmuxRename"} : Go(p, to)
    BY <2>3
  <2> HIDE DEF i
  <2>9. PICK j \in Job :
          /\ job' = [job EXCEPT ![p] = j]
          /\ j.op = "rename" /\ j.id = i /\ j.then = "idle"
          /\ j.old = record[i] /\ j.new = new
    BY <2>2, <2>7 DEF i
  <2>10. /\ pc[p] # "idle" /\ pc[p] # "queue"
         /\ "rename" \in Ops \ {"create", "fork"}
         /\ to \in {"launch", "tmuxRename", "deliver", "save"} /\ to # "launch" /\ to # "deliver"
         /\ NameFree(j.new.name, i)
    BY <2>2, <2>4, <2>6, <2>9 DEF Ops, NamingOps
  <2>11. /\ Change(j.op, j.old, j.new) /\ j.old # None /\ j.new \in Record
         /\ j.op = job[p].op /\ j.op \in Ops \ {"create", "fork"}
         /\ j.then = IF j.op = "refreshAll" THEN "listed" ELSE "idle"
    BY <2>2, <2>4, <2>5, <2>6, <2>9, <2>10
  <2>12. i \in Ids /\ Take(p, i) /\ UNCHANGED <<diskVars, createLock, tmuxVars, budget>>
    BY <2>2
  <2> QED BY <2>8, <2>9, <2>10, <2>11, <2>12, LoadStep
<1>3. CASE Hook(p) \/ Interrupt(p) \/ Update(p)
  <2> PICK op \in {"hook", "interrupt", "update"} :
        \/ op = "hook" /\ Hook(p)
        \/ op = "interrupt" /\ Interrupt(p)
        \/ op = "update" /\ Update(p)
    BY <1>3
  <2>1. Enter(p, op) /\ Go(p, "save")
    BY DEF Hook, Interrupt, Update
  <2>2. /\ pc[p] = "want" /\ job[p].op = op /\ i \in Ids /\ job[p].then = "idle"
        /\ record[i] \in Record \cup {None} /\ (op # "hook" => record[i] \in Record)
        /\ Take(p, i) /\ UNCHANGED <<diskVars, createLock, tmuxVars, budget>>
    BY <2>1, EnterFacts DEF Ops, NamingOps, OneAgentOps
  <2>3. record[i] \in Record /\ record[i] # None
    BY <2>2, ConstantsAssumption DEF Hook, Running, Registry!Running, Loaded
  <2>4. \E new \in Record : Prepare(p, new) /\ Change(op, record[i], new)
    <3>1. CASE op = "hook"
      <4>1. PICK s \in HookStates \cup {record[i].state}, d \in Data :
              Prepare(p, [record[i] EXCEPT !.state = s, !.data = d])
        BY <3>1 DEF Hook, Loaded
      <4>2. /\ s \in LiveStates \cup {"ended"}
            /\ s \in {"idle", "working", "ended", record[i].state}
            /\ record[i].state # "ended"
        BY <2>3, <3>1, ConstantsAssumption
           DEF Record, LiveStates, Hook, Running, Registry!Running, Loaded
      <4> DEFINE new == [record[i] EXCEPT !.state = s, !.data = d]
      <4>3. /\ new \in Record /\ new.state = s
            /\ new = [record[i] EXCEPT !.state = new.state, !.data = new.data]
        BY <2>3, <4>2 DEF Record
      <4> HIDE DEF new
      <4>4. Change("hook", record[i], new)
        BY <2>3, <4>2, <4>3 DEF Change
      <4> QED BY <3>1, <4>1, <4>3, <4>4 DEF new
    <3>2. CASE op = "interrupt"
      <4> DEFINE new == [record[i] EXCEPT !.state = "idle"]
      <4>1. /\ new \in Record /\ new.state = "idle"
            /\ new = [record[i] EXCEPT !.state = new.state, !.data = new.data]
        BY <2>3 DEF Record, LiveStates
      <4>2. record[i].state # "ended" /\ Prepare(p, new)
        BY <3>2 DEF Interrupt, Running, Registry!Running, Loaded
      <4> HIDE DEF new
      <4> QED BY <2>3, <3>2, <4>1, <4>2 DEF Change
    <3>3. CASE op = "update"
      <4>1. PICK d \in Data : Prepare(p, [record[i] EXCEPT !.data = d])
        BY <3>3 DEF Update, Loaded
      <4> DEFINE new == [record[i] EXCEPT !.data = d]
      <4>2. new \in Record /\ new = [record[i] EXCEPT !.data = new.data]
        BY <2>3, OneChange
      <4> HIDE DEF new
      <4> QED BY <2>3, <3>3, <4>1, <4>2 DEF Change, new
    <3> QED BY <3>1, <3>2, <3>3
  <2>5. PICK new \in Record : Prepare(p, new) /\ Change(op, record[i], new)
    BY <2>4
  <2> HIDE DEF i
  <2>6. PICK j \in Job :
          /\ job' = [job EXCEPT ![p] = j]
          /\ j.op = job[p].op /\ j.id = job[p].id /\ j.then = job[p].then
          /\ j.old = record[i] /\ j.new = new
    BY <1>0, <2>3, <2>5, PreparedJob DEF Loaded, i
  <2> QED BY <2>1, <2>2, <2>3, <2>5, <2>6, LoadStep DEF Ops, NamingOps, OneAgentOps, i
<1>4. CASE Stop(p) \/ StopVanished(p) \/ Refresh(p)
  <2> PICK op \in {"stop", "refresh"} :
        \/ op = "stop" /\ (Stop(p) \/ StopVanished(p))
        \/ op = "refresh" /\ Refresh(p)
    BY <1>4
  <2>1. Enter(p, op) /\ Running(record[i])
    BY DEF Stop, StopVanished, Refresh, Loaded
  <2>2. /\ pc[p] = "want" /\ job[p] \in Job /\ job[p].op = op /\ i \in Ids
        /\ job[p].then = "idle" /\ record[i] \in Record
        /\ Take(p, i) /\ UNCHANGED <<diskVars, createLock, tmuxVars, budget>>
    BY <2>1, EnterFacts DEF Ops, NamingOps, OneAgentOps
  <2> DEFINE new == Ended(record[i])
  <2>3. record[i] # None /\ new \in Record /\ Change(op, record[i], new)
    BY <2>1, <2>2, EndedRecord DEF Running, Registry!Running
  <2>4. \E j \in Job, to \in {"deliver", "save"} :
          /\ Go(p, to) /\ (to = "deliver" => op = "stop")
          /\ job' = [job EXCEPT ![p] = j]
          /\ j.op = op /\ j.id = i /\ j.then = "idle"
          /\ j.old = record[i] /\ j.new = new
    <3> HIDE DEF new
    <3>1. ASSUME NEW r \in LiveRuns(i), Go(p, "deliver"), op = "stop",
                 job' = [job EXCEPT ![p].old = record[i], ![p].new = new, ![p].run = r]
          PROVE  <2>4!:
      <4> DEFINE j == [job[p] EXCEPT !.old = record[i], !.new = new, !.run = r]
      <4>1. /\ j \in Job /\ j.op = op /\ j.id = i /\ j.then = "idle"
            /\ j.old = record[i] /\ j.new = new
        BY <2>2, <2>3 DEF Job, LiveRuns
      <4>2. job' = [job EXCEPT ![p] = j]
        BY <1>0, <3>1 DEF TypeOK
      <4> QED BY <3>1, <4>1, <4>2
    <3>2. ASSUME MarkExited(p, "idle")
          PROVE  <2>4!:
      <4> DEFINE j == [job[p] EXCEPT !.old = record[i], !.new = new, !.then = "idle"]
      <4>1. /\ j \in Job /\ j.op = op /\ j.id = i /\ j.then = "idle"
            /\ j.old = record[i] /\ j.new = new
        BY <2>2, <2>3 DEF Job
      <4>2. job' = [job EXCEPT ![p] = j] /\ Go(p, "save")
        BY <1>0, <3>2 DEF TypeOK, MarkExited, Loaded, new
      <4> QED BY <4>1, <4>2
    <3> QED BY <3>1, <3>2 DEF Stop, StopVanished, Refresh, Loaded, new
  <2> HIDE DEF i, new
  <2>5. PICK j \in Job, to \in {"deliver", "save"} :
          /\ Go(p, to) /\ (to = "deliver" => op = "stop")
          /\ job' = [job EXCEPT ![p] = j]
          /\ j.op = op /\ j.id = i /\ j.then = "idle"
          /\ j.old = record[i] /\ j.new = new
    BY <2>4
  <2>6. /\ pc[p] # "idle" /\ pc[p] # "queue" /\ to \in {"launch", "tmuxRename", "deliver", "save"}
        /\ op \in Ops \ {"create", "fork"} /\ op # "refreshAll"
    BY <2>2 DEF Ops, NamingOps, OneAgentOps
  <2> QED BY ZenonT(60), <2>2, <2>3, <2>5, <2>6, LoadStep
<1> QED BY <1>1, <1>2, <1>3, <1>4

LEMMA RefreshAllSteps ==
  ASSUME IInv, NEW p \in Procs, List(p) \/ RefreshNext(p)
  PROVE  IInv'
<1> USE DEF IInv
<1>0. job[p] \in Job /\ job[p].op = "refreshAll" /\ pc[p] \in {"scanned", "listed"}
      /\ job[p].then = "idle"
  BY DEF TypeOK, List, RefreshNext, Relies, Walk
(* todo shrinks, nothing else. *)
<1>1. ASSUME NEW todo \in SUBSET Ids, NEW to \in {"listed"}, Go(p, to) \/ UNCHANGED pc,
             UNCHANGED pc => pc[p] = "listed",
             job' = [job EXCEPT ![p].todo = todo],
             UNCHANGED <<diskVars, lockVars, tmuxVars, budget>>
      PROVE  IInv'
  <2> DEFINE j == [job[p] EXCEPT !.todo = todo]
  <2>1. /\ j \in Job /\ j.op = "refreshAll" /\ j.then = "idle"
    BY <1>0 DEF Job
  <2>2. job' = [job EXCEPT ![p] = j]
    BY <1>1 DEF TypeOK
  <2> HIDE DEF j
  <2>3. /\ pc'[p] = "listed" /\ pc' \in [Procs -> PCs] /\ job' \in [Procs -> Job]
        /\ job'[p] = j
        /\ \A q \in Procs \ {p} : Keeps(q)
    BY <1>0, <1>1, <2>1, <2>2 DEF TypeOK, Go, PCs, Keeps, lockVars
  <2>4. TypeOK' /\ Owned'
    BY <1>1, <2>3 DEF TypeOK, Owned, diskVars, lockVars, tmuxVars
  <2>5. Relies(p)'
    BY <2>1, <2>3 DEF Relies, Walk, Locked, Target, Faithful, Chosen, Prepared,
                      HoldsCreateLock, HoldsAgentLock, NamingOps
  <2> QED BY <1>1, <2>3, <2>4, <2>5, QuietStep DEF diskVars
<1>2. CASE List(p)
  <2>1. job' = [job EXCEPT ![p].todo = {i \in job[p].todo : LiveRuns(i) = {}}]
    BY <1>2 DEF List, TypeOK
  <2>2. {i \in job[p].todo : LiveRuns(i) = {}} \in SUBSET Ids
    BY <1>0 DEF Job
  <2>3. Go(p, "listed") /\ UNCHANGED <<diskVars, lockVars, tmuxVars, budget>>
        /\ pc[p] = "scanned" /\ pc'[p] = "listed"
    BY <1>2 DEF List, Go, TypeOK
  <2> QED BY <1>1, <2>1, <2>2, <2>3
<1>3. CASE RefreshNext(p)
  <2>0. pc[p] = "listed" /\ UNCHANGED <<diskVars, createLock, tmuxVars, budget>>
        /\ job[p].todo \subseteq Ids
    BY <1>0, <1>3 DEF RefreshNext, Job
  <2>1. PICK i \in job[p].todo :
       \/ /\ Running(record[i])
          /\ Take(p, i)
          /\ job' = [job EXCEPT ![p].id = i, ![p].todo = job[p].todo \ {i}, ![p].then = "listed",
                                ![p].old = record[i], ![p].new = Ended(record[i])]
          /\ Go(p, "save")
       \/ /\ job' = [job EXCEPT ![p].todo = job[p].todo \ {i}]
          /\ UNCHANGED <<agentLock, pc>>
    BY <1>3 DEF RefreshNext, TypeOK
  <2>2. CASE /\ job' = [job EXCEPT ![p].todo = job[p].todo \ {i}]
             /\ UNCHANGED <<agentLock, pc>>
    BY <1>1, <2>0, <2>2 DEF lockVars
  <2>3. CASE /\ Running(record[i])
             /\ Take(p, i)
             /\ job' = [job EXCEPT ![p].id = i, ![p].todo = job[p].todo \ {i}, ![p].then = "listed",
                                   ![p].old = record[i], ![p].new = Ended(record[i])]
             /\ Go(p, "save")
    <3> DEFINE new == Ended(record[i])
               j == [job[p] EXCEPT !.id = i, !.todo = job[p].todo \ {i}, !.then = "listed",
                                   !.old = record[i], !.new = new]
    <3>1. /\ i \in Ids /\ record[i] \in Record /\ record[i] # None
          /\ new \in Record /\ Change("refreshAll", record[i], new)
      BY <2>0, <2>3, EndedRecord DEF TypeOK, Running, Registry!Running
    <3> HIDE DEF new
    <3>2. /\ j \in Job /\ j.op = "refreshAll" /\ j.id = i /\ j.then = "listed"
          /\ j.old = record[i] /\ j.new = new
      BY <1>0, <2>0, <3>1 DEF Job, PCs
    <3>3. job' = [job EXCEPT ![p] = j]
      BY <2>3 DEF TypeOK, new
    <3> HIDE DEF j
    <3>4. /\ pc[p] # "idle" /\ pc[p] # "queue"
          /\ "refreshAll" \in Ops \ {"create", "fork"}
      BY <2>0 DEF Ops, NamingOps, OneAgentOps
    <3>5. /\ Change(j.op, j.old, j.new) /\ j.old # None /\ j.new \in Record
          /\ j.op = job[p].op /\ j.op \in Ops \ {"create", "fork"}
          /\ j.then = IF j.op = "refreshAll" THEN "listed" ELSE "idle"
      BY <1>0, <3>1, <3>2, <3>4
    <3>6. /\ Go(p, "save") /\ Take(p, i) /\ j \in Job /\ j.op = "refreshAll"
          /\ UNCHANGED <<diskVars, createLock, tmuxVars, budget>>
          /\ IInv
      BY <2>0, <2>3, <3>2
    <3> HIDE DEF IInv
    <3> QED BY <3>1, <3>2, <3>3, <3>4, <3>5, <3>6, LoadStep
  <2> QED BY <2>1, <2>2, <2>3
<1> QED BY <1>2, <1>3

----------------------------------------------------------------------------
(* The writes. *)

(* The operations that do not hold create.lock keep the name, and make no  *)
(* ended agent run.                                                        *)
LEMMA OtherChange ==
  ASSUME NEW op \in Ops \ {"create", "fork", "respawn", "rename"},
         NEW old \in Record, NEW new \in Record, Change(op, old, new)
  PROVE  new.name = old.name /\ (Running(new) => Running(old))
<1>1. CASE op = "update"
  <2>1. new = [old EXCEPT !.data = new.data]
    BY <1>1 DEF Change
  <2>2. new.name = old.name /\ new.state = old.state
    BY <2>1 DEF Record
  <2> QED BY <2>2, ConstantsAssumption DEF Running, Registry!Running
<1>2. CASE op # "update"
  <2>1. old.state # "ended" /\ new = [old EXCEPT !.state = new.state, !.data = new.data]
    BY <1>2 DEF Change, Ops, NamingOps, OneAgentOps
  <2>2. new.name = old.name
    BY <2>1 DEF Record
  <2> QED BY <2>1, <2>2, ConstantsAssumption DEF Running, Registry!Running
<1> QED BY <1>1, <1>2

LEMMA SaveFacts ==
  ASSUME IInv, NEW p \in Procs, pc[p] = "save"
  PROVE  /\ job[p] \in Job /\ job[p].op \in Ops \ {"fork"} /\ job[p].id \in Ids
         /\ job[p].id \in minted
         /\ job[p].new \in Record /\ job[p].new # None
         /\ record[job[p].id] = job[p].old
         /\ Change(job[p].op, job[p].old, job[p].new)
         /\ job[p].op # "create" => job[p].old \in Record /\ agentLock[job[p].id] = p
         /\ job[p].op = "create" => job[p].old = None
         /\ job[p].op \in NamingOps => createLock = p
         /\ job[p].op \in {"create", "respawn", "rename"} =>
              NameFree(job[p].new.name, job[p].id)
<1>1. Relies(p) /\ job[p] \in Job
  BY DEF IInv, TypeOK
<1>2. pc[p] \in Prepared /\ HoldsAgentLock(p) = (job[p].op # "create")
      /\ HoldsCreateLock(p) = (job[p].op \in NamingOps)
  BY DEF Prepared, HoldsAgentLock, HoldsCreateLock
<1>3. /\ job[p].op \in Ops \ {"fork"} /\ job[p].id \in Ids /\ job[p].id \in minted
      /\ job[p].new \in Record /\ record[job[p].id] = job[p].old
      /\ Change(job[p].op, job[p].old, job[p].new)
  BY <1>1, <1>2 DEF Relies, Target, Faithful
<1>4. /\ job[p].op # "create" => job[p].old \in Record
      /\ job[p].op = "create" => job[p].old = None
  BY <1>1, <1>3 DEF Change, Job
<1>5. /\ job[p].op # "create" => agentLock[job[p].id] = p
      /\ job[p].op \in NamingOps => createLock = p
      /\ job[p].op \in {"create", "respawn", "rename"} =>
           NameFree(job[p].new.name, job[p].id)
  BY <1>1, <1>2 DEF Relies, Locked, Chosen
<1> QED BY <1>1, <1>3, <1>4, <1>5, ConstantsAssumption

(* No other process is between load and save of the same agent.            *)
LEMMA OneWriter ==
  ASSUME IInv, NEW p \in Procs, NEW q \in Procs, p # q,
         pc[p] = "save", pc[q] \in Prepared
  PROVE  job[q].id # job[p].id
<1> SUFFICES ASSUME job[q].id = job[p].id PROVE FALSE
  OBVIOUS
<1>1. Relies(q) /\ record[job[q].id] = job[q].old
      /\ Change(job[q].op, job[q].old, job[q].new)
  BY DEF IInv, Relies, Faithful
<1>2. CASE job[p].op = "create"
  <2>1. job[q].op = "create"
    BY <1>1, <1>2, SaveFacts DEF Change
  <2>2. createLock = p /\ createLock = q
    BY <1>1, <1>2, <2>1, SaveFacts DEF Relies, Locked, HoldsCreateLock, NamingOps, Prepared
  <2> QED BY <2>2
<1>3. CASE job[p].op # "create"
  <2>1. record[job[p].id] \in Record
    BY <1>3, SaveFacts
  <2>2. job[q].old # None
    BY <1>1, <2>1, ConstantsAssumption
  <2>3. job[q].op # "create"
    BY <1>1, <2>2 DEF Change
  <2>4. agentLock[job[p].id] = p /\ agentLock[job[q].id] = q
    BY <1>1, <1>3, <2>3, SaveFacts DEF Relies, Locked, HoldsAgentLock
  <2> QED BY <2>4
<1> QED BY <1>2, <1>3

LEMMA WriteFrame ==
  ASSUME IInv, NEW p \in Procs, pc[p] = "save", WriteRecord(p), minted' = minted,
         NEW q \in Procs \ {p}, Keeps(q)
  PROVE  Relies(q)'
<1> DEFINE i == job[p].id
<1>1. /\ i \in Ids /\ record' = [record EXCEPT ![i] = job[p].new]
      /\ record'[i] = job[p].new /\ job[p].new # None
      /\ \A k \in Ids : k # i => record'[k] = record[k]
  BY SaveFacts DEF WriteRecord, IInv, TypeOK
<1>2. Relies(q) /\ pc'[q] = pc[q] /\ job'[q] = job[q]
  BY DEF IInv, Keeps
<1> HIDE DEF i
<1>3. Walk(q)' /\ Locked(q)'
  BY <1>2 DEF Relies, Walk, Locked, HoldsCreateLock, HoldsAgentLock, Keeps, Target
<1>4. Target(q)'
  <2>1. \A k \in Ids : record[k] # None => record'[k] # None
    BY <1>1
  <2> QED BY <1>2, <2>1 DEF Relies, Target
<1>5. Faithful(q)'
  <2> SUFFICES ASSUME pc[q] \in Prepared PROVE Faithful(q)'
    BY <1>2 DEF Faithful
  <2>1. job[q].id \in Ids /\ job[q].id # i
    BY <1>2, OneWriter DEF Relies, Target, i
  <2> QED BY <1>1, <1>2, <2>1 DEF Relies, Faithful, Change
<1>6. Chosen(q)'
  <2> SUFFICES ASSUME pc[q] \in Prepared, job[q].op \in {"create", "respawn", "rename"}
               PROVE  NameFree(job[q].new.name, job[q].id)'
    BY <1>2 DEF Chosen
  <2>1. createLock = q /\ NameFree(job[q].new.name, job[q].id)
    BY <1>2 DEF Relies, Locked, HoldsCreateLock, Chosen, Prepared, NamingOps
  <2>2. job[p].op \notin NamingOps
    BY <2>1, SaveFacts
  <2>3. /\ job[p].new.name = record[i].name
        /\ Running(job[p].new) => Running(record[i])
    BY <2>2, SaveFacts, OtherChange DEF NamingOps, i
  <2> QED BY <1>1, <1>2, <2>1, <2>3 DEF NameFree, Registry!NameFree, Running, Registry!Running
<1> QED BY <1>3, <1>4, <1>5, <1>6 DEF Relies

LEMMA WriteGlobal ==
  ASSUME IInv, NEW p \in Procs, pc[p] = "save", WriteRecord(p), minted' = minted
  PROVE  /\ record' \in [Ids -> Record \cup {None}]
         /\ UniqueRunningNames'
         /\ Minted'
<1> DEFINE i == job[p].id
<1>1. /\ i \in Ids /\ i \in minted /\ record' = [record EXCEPT ![i] = job[p].new]
      /\ record'[i] = job[p].new
      /\ \A k \in Ids : k # i => record'[k] = record[k]
      /\ record \in [Ids -> Record \cup {None}] /\ job[p].new \in Record
  BY SaveFacts DEF WriteRecord, IInv, TypeOK
<1>2. NameFree(job[p].new.name, i) \/ ~Running(job[p].new)
  <2>1. CASE job[p].op \in {"create", "respawn", "rename"}
    BY <2>1, SaveFacts
  <2>2. CASE job[p].op \notin {"create", "respawn", "rename"}
    <3>1. /\ job[p].new.name = record[i].name
          /\ Running(job[p].new) => Running(record[i])
      BY <2>2, SaveFacts, OtherChange
    <3> QED BY <1>1, <3>1
            DEF IInv, UniqueRunningNames, Registry!UniqueRunningNames, NameFree,
                Registry!NameFree, Running, Registry!Running
  <2> QED BY <2>1, <2>2
<1> HIDE DEF i
<1>3. UniqueRunningNames'
  BY <1>1, <1>2
     DEF IInv, UniqueRunningNames, Registry!UniqueRunningNames, NameFree,
         Registry!NameFree, Running, Registry!Running
<1>4. Minted'
  BY <1>1 DEF IInv, Minted
<1> QED BY <1>1, <1>3, <1>4

LEMMA SaveSteps ==
  ASSUME IInv, NEW p \in Procs, Save(p) \/ SaveFails(p)
  PROVE  IInv'
<1>0. /\ pc[p] = "save" /\ TypeOK /\ Owned /\ Relies(p)
      /\ UNCHANGED <<minted, worktrees, profiles, tmuxVars>>
      /\ budget' \in [BudgetKeys -> Nat]
  <2>1. TypeOK /\ Owned /\ Relies(p)
    BY DEF IInv
  <2> QED BY <2>1, SpendTypes DEF Save, SaveFails, TypeOK, BudgetKeys
<1>1. Owned'
  BY <1>0 DEF Owned, tmuxVars
(* Where p goes, and the locks. *)
<1>2. /\ pc' \in [Procs -> PCs] /\ job' \in [Procs -> Job]
      /\ createLock' \in Procs \cup {None}
      /\ agentLock' \in [Ids -> Procs \cup {None}]
      /\ \A q \in Procs \ {p} : Keeps(q)
      /\ Walk(p)' /\ Locked(p)' /\ Target(p)' /\ pc'[p] \notin Prepared
  <2>1. CASE Leave({p})
    <3>1. pc'[p] = "idle" /\ job'[p] = NoJob
      BY <2>1 DEF Leave
    <3>2. \A q \in Procs \ {p} : Keeps(q)
      BY <2>1 DEF Leave, Keeps
    <3>3. Walk(p)' /\ Locked(p)' /\ Target(p)' /\ pc'[p] \notin Prepared
      BY <3>1 DEF Walk, Locked, Target, Prepared, NoJob, HoldsCreateLock, HoldsAgentLock
    <3> QED BY <1>0, <2>1, <3>2, <3>3, LeaveTypes
  <2>2. CASE /\ job[p].op \in {"create", "respawn"}
             /\ Go(p, "undo") /\ UNCHANGED <<lockVars, job>>
    <3>1. pc'[p] = "undo" /\ pc' \in [Procs -> PCs] /\ \A q \in Procs \ {p} : Keeps(q)
      BY <1>0, <2>2 DEF TypeOK, Go, PCs, Keeps, lockVars
    <3>2. Walk(p)' /\ Locked(p)' /\ Target(p)' /\ pc'[p] \notin Prepared
      BY <1>0, <2>2, <3>1 DEF Relies, Walk, Locked, Target, Prepared, lockVars,
                              HoldsCreateLock, HoldsAgentLock, NamingOps
    <3> QED BY <1>0, <2>2, <3>1, <3>2 DEF TypeOK, lockVars
  <2>3. CASE /\ job[p].then # "idle" /\ Go(p, job[p].then)
             /\ agentLock' = [agentLock EXCEPT ![job[p].id] = None]
             /\ job' = [job EXCEPT ![p].old = None, ![p].new = None, ![p].then = "idle"]
             /\ UNCHANGED createLock
    <3> DEFINE j == [job[p] EXCEPT !.old = None, !.new = None, !.then = "idle"]
    <3>1. /\ j \in Job /\ j.op = job[p].op /\ j.then = "idle"
          /\ job' = [job EXCEPT ![p] = j]
      BY <1>0, <2>3 DEF TypeOK, Job, PCs
    <3> HIDE DEF j
    <3>2. \/ job[p].op = "stop" /\ job[p].then \in {"leaving", "killing"}
          \/ job[p].op = "refreshAll" /\ job[p].then = "listed"
      BY <1>0, <2>3 DEF Relies, Walk
    <3>3. /\ pc'[p] = job[p].then /\ job'[p] = j
          /\ pc' \in [Procs -> PCs] /\ job' \in [Procs -> Job]
          /\ agentLock' \in [Ids -> Procs \cup {None}]
      BY ZenonT(60), <1>0, <2>3, <3>1, <3>2 DEF TypeOK, Go, PCs
    <3>4. agentLock[job[p].id] = p
      BY <1>0, <3>2, SaveFacts
    <3>5. \A q \in Procs \ {p} : Keeps(q)
      BY <1>0, <2>3, <3>1, <3>4 DEF TypeOK, Go, Keeps
    <3>6. Walk(p)' /\ Locked(p)' /\ Target(p)' /\ pc'[p] \notin Prepared
      BY <1>0, <2>3, <3>1, <3>2, <3>3 DEF Relies, Walk, Locked, Target, Prepared,
           HoldsCreateLock, HoldsAgentLock, NamingOps
    <3> QED BY <1>0, <2>3, <3>3, <3>5, <3>6 DEF TypeOK
  <2> QED BY <2>1, <2>2, <2>3 DEF Save, SaveFails
<1>3. Relies(p)'
  BY <1>2 DEF Relies, Faithful, Chosen
<1>4. CASE WriteRecord(p)
  <2>1. /\ record' \in [Ids -> Record \cup {None}] /\ UniqueRunningNames' /\ Minted'
    BY <1>0, <1>4, WriteGlobal
  <2>2. \A q \in Procs \ {p} : Relies(q)'
    BY <1>0, <1>2, <1>4, WriteFrame
  <2>3. TypeOK'
    BY <1>0, <1>2, <2>1 DEF TypeOK, tmuxVars
  <2> QED BY <1>1, <1>3, <2>1, <2>2, <2>3 DEF IInv
<1>5. CASE record' = record
  <2>1. TypeOK'
    BY <1>0, <1>2, <1>5 DEF TypeOK, tmuxVars
  <2> QED BY <1>0, <1>1, <1>2, <1>3, <1>5, <2>1, QuietStep
<1> QED BY <1>4, <1>5 DEF Save, SaveFails

----------------------------------------------------------------------------
(* The programs, the user, and the whole next-state relation. *)

LEMMA EnvironmentSteps ==
  ASSUME IInv, NEW r \in Runs, ProcessExits(r) \/ SessionClosed(r)
  PROVE  IInv'
<1>0. /\ TypeOK /\ Owned
      /\ worktrees \subseteq Ids /\ profiles \subseteq Ids
      /\ started \in 0 .. MaxRuns /\ budget \in [BudgetKeys -> Nat]
  BY DEF IInv, TypeOK
<1>1. CASE ProcessExits(r)
  <2>1. Dies(r, {})
    BY <1>1 DEF ProcessExits
  <2>2. runs' \in [Runs -> Run] /\ Owned'
    BY <1>0, <2>1, DiesTypes
  <2>3. HooksOf(r) \cup {} \in SUBSET Procs
    BY DEF HooksOf
  <2> QED BY <1>0, <2>1, <2>2, <2>3, LeaveStep DEF Dies, diskVars
<1>2. CASE SessionClosed(r)
  <2>1. runs' \in [Runs -> Run] /\ Owned'
    BY <1>0, <1>2, CloseTypes DEF SessionClosed
  <2>2. budget' \in [BudgetKeys -> Nat]
    BY <1>0, <1>2, SpendTypes DEF SessionClosed, BudgetKeys
  <2>3. /\ record' = record /\ minted' = minted
        /\ \A q \in Procs : Keeps(q)
    BY <1>2 DEF SessionClosed, diskVars, lockVars, Keeps
  <2>4. TypeOK'
    BY <1>0, <1>2, <2>1, <2>2 DEF SessionClosed, TypeOK, diskVars, lockVars
  <2>5. \A q \in Procs : Relies(q)'
    BY <2>3, FrameKeeps DEF IInv
  <2>6. UniqueRunningNames' /\ Minted'
    BY <2>3 DEF IInv, Minted, UniqueRunningNames, Registry!UniqueRunningNames,
                Registry!Running
  <2> QED BY <2>1, <2>4, <2>5, <2>6 DEF IInv
<1> QED BY <1>1, <1>2

LEMMA StutterStep ==
  ASSUME IInv, UNCHANGED vars
  PROVE  IInv'
<1>1. /\ TypeOK' /\ Owned' /\ Minted' /\ UniqueRunningNames'
      /\ record' = record /\ minted' = minted
      /\ \A q \in Procs : Keeps(q)
  BY DEF IInv, vars, TypeOK, Owned, Minted, UniqueRunningNames, Keeps,
         Registry!UniqueRunningNames, Registry!Running
<1>2. \A q \in Procs : Relies(q)'
  BY <1>1, FrameKeeps DEF IInv
<1> QED BY <1>1, <1>2 DEF IInv

LEMMA InitIInv == Init => IInv
<1> SUFFICES ASSUME Init PROVE IInv
  OBVIOUS
<1>1. TypeOK
  BY ConstantsAssumption DEF Init, TypeOK, NotStarted, Run, NoJob, Job, PCs
<1>2. Owned /\ Minted
  BY DEF Init, Owned, Minted, NotStarted
<1>3. UniqueRunningNames
  BY DEF Init, UniqueRunningNames, Registry!UniqueRunningNames, Registry!Running
<1>4. \A p \in Procs : Relies(p)
  BY IdleRelies DEF Init
<1> QED BY <1>1, <1>2, <1>3, <1>4 DEF IInv

LEMMA StepIInv ==
  ASSUME IInv, NEW p \in Procs, Step(p)
  PROVE  IInv'
<1>1. CASE CreateStep(p)
  BY <1>1, QueueSteps, LaunchSteps, AmendSteps, LeaveSteps DEF CreateStep
<1>2. CASE NameStep(p)
  BY <1>2, LoadSteps, LaunchSteps, AmendSteps, LeaveSteps DEF NameStep
<1>3. CASE EndStep(p)
  BY <1>3, LoadSteps, LaunchSteps, AmendSteps, LeaveSteps, RefreshAllSteps DEF EndStep
<1>4. CASE MoveStep(p)
  BY <1>4, LoadSteps, LeaveSteps DEF MoveStep
<1>5. CASE Save(p) \/ SaveFails(p) \/ InspectionFails(p)
  BY <1>5, SaveSteps, LeaveSteps
<1> QED BY <1>1, <1>2, <1>3, <1>4, <1>5 DEF Step

LEMMA NextIInv == IInv /\ [Next]_vars => IInv'
<1> SUFFICES ASSUME IInv, [Next]_vars PROVE IInv'
  OBVIOUS
<1>1. ASSUME NEW p \in Procs, BeginAny(p) \/ Step(p) \/ Crash(p)
      PROVE  IInv'
  BY <1>1, BeginSteps, StepIInv, LeaveSteps
<1>2. CASE Environment
  BY <1>2, EnvironmentSteps DEF Environment
<1>3. CASE UNCHANGED vars
  BY <1>3, StutterStep
<1> QED BY <1>1, <1>2, <1>3 DEF Next

(* Every reachable state satisfies the inductive invariant.                *)
THEOREM Invariance == Spec => []IInv
BY InitIInv, NextIInv, PTL DEF Spec

----------------------------------------------------------------------------
(* What follows from it. *)

(* Types: every variable keeps its type, whatever the interleaving.        *)
THEOREM TypeCorrect == Spec => []TypeOK
<1>1. IInv => TypeOK
  BY DEF IInv
<1> QED BY <1>1, Invariance, PTL

(* Names are unique among the running agents (README, core.rs): with any   *)
(* number of processes, crashes, faults and sessions closed by hand.       *)
THEOREM NamesUnique == Spec => []UniqueRunningNames
<1>1. IInv => UniqueRunningNames
  BY DEF IInv
<1> QED BY <1>1, Invariance, PTL

(* No write is lost: between an operation's load and its save nobody else  *)
(* writes the record (agent lock; create.lock for an id not yet recorded). *)
THEOREM NothingLost == Spec => []NoLostUpdate
<1>1. IInv => NoLostUpdate
  BY SaveFacts DEF NoLostUpdate
<1> QED BY <1>1, Invariance, PTL

----------------------------------------------------------------------------
(* The abstract specification. *)

(* Every record write is a step of AgentRegistry.                          *)
LEMMA WriteImplements ==
  ASSUME IInv, NEW p \in Procs, pc[p] = "save", WriteRecord(p)
  PROVE  Registry!Next
<1> DEFINE i == job[p].id
           op == job[p].op
           old == job[p].old
           new == job[p].new
<1>1. /\ i \in Ids /\ op \in Ops \ {"fork"} /\ new \in Record
      /\ record[i] = old /\ Change(op, old, new)
      /\ op # "create" => old \in Record /\ old # None
      /\ op \in {"create", "respawn", "rename"} => Registry!NameFree(new.name, i)
      /\ record' = [record EXCEPT ![i] = new]
  BY SaveFacts, ConstantsAssumption DEF WriteRecord, NameFree
<1> HIDE DEF i, op, old, new
<1>2. /\ new.name \in Names /\ new.data \in Data
      /\ new = [name |-> new.name, state |-> new.state, data |-> new.data]
  BY <1>1 DEF Record
<1>3. CASE op = "create"
  <2>1. record[i] = None /\ new.state \in Registry!Launched
    BY <1>1, <1>3 DEF Change, Registry!Launched
  <2>2. Registry!Create(i)
    BY <1>1, <1>2, <1>3, <2>1 DEF Registry!Create, Registry!Write
  <2> QED BY <1>1, <2>2 DEF Registry!Next
<1>4. CASE op = "respawn"
  <2>1. /\ old.state = "ended" /\ new.state \in Registry!Launched
        /\ new = [old EXCEPT !.state = new.state, !.data = new.data]
    BY <1>1, <1>4 DEF Change, Registry!Launched
  <2>2. new.name = old.name
    BY <1>1, <1>4, <2>1 DEF Record
  <2>3. Registry!Respawn(i)
    BY <1>1, <1>2, <1>4, <2>1, <2>2 DEF Registry!Respawn, Registry!Write
  <2> QED BY <1>1, <2>3 DEF Registry!Next
<1>5. CASE op = "rename"
  <2>1. new = [old EXCEPT !.name = new.name]
    BY <1>1, <1>5 DEF Change
  <2>2. Registry!Rename(i)
    BY <1>1, <1>2, <1>5, <2>1 DEF Registry!Rename, Registry!Write
  <2> QED BY <1>1, <2>2 DEF Registry!Next
<1>6. CASE op = "update"
  <2>1. new = [old EXCEPT !.data = new.data]
    BY <1>1, <1>6 DEF Change
  <2>2. Registry!Annotate(i)
    BY <1>1, <1>2, <1>6, <2>1 DEF Registry!Annotate, Registry!Write
  <2> QED BY <1>1, <2>2 DEF Registry!Next
<1>7. CASE op \in {"stop", "refresh", "refreshAll", "hook", "interrupt"}
  <2>1. /\ old.state # "ended" /\ new.state \in {"idle", "working", "ended", old.state}
        /\ new = [old EXCEPT !.state = new.state, !.data = new.data]
        /\ Registry!Running(old)
    BY <1>1, <1>7 DEF Change, Registry!Running
  <2>2. CASE new.state = "ended"
    <3>1. Registry!End(i)
      BY <1>1, <1>2, <2>1, <2>2 DEF Registry!End, Registry!Write
    <3> QED BY <1>1, <3>1 DEF Registry!Next
  <2>3. CASE new.state # "ended"
    <3>1. Registry!Move(i)
      BY <1>1, <1>2, <2>1, <2>3 DEF Registry!Move, Registry!Write
    <3> QED BY <1>1, <3>1 DEF Registry!Next
  <2> QED BY <2>2, <2>3
<1> QED BY <1>1, <1>3, <1>4, <1>5, <1>6, <1>7 DEF Ops, NamingOps, OneAgentOps

(* Nothing but Save and SaveFails writes a record.                         *)
LEMMA OnlySavesWrite ==
  ASSUME NEW p \in Procs, BeginAny(p) \/ Step(p) \/ Crash(p),
         ~Save(p), ~SaveFails(p)
  PROVE  record' = record
<1>1. CASE BeginAny(p) \/ Crash(p)
  BY <1>1 DEF BeginAny, BeginCreate, BeginOnAgent, BeginHook, Begin, Scan, Crash, diskVars
<1>2. CASE CreateStep(p)
  BY <1>2 DEF CreateStep, TakeCreateLock, ForkSnapshot, NewAgent, NoFreeName, Launch,
              PrepareFails, LaunchFails, Link, LinkVanished, LinkFails, Undo, Abandon,
              GiveUp, diskVars
<1>3. CASE NameStep(p)
  BY <1>3 DEF NameStep, Respawn, RespawnRefused, Rename, RenameRefused, TmuxRename,
              TmuxRenameFails, Enter, Refuse, diskVars
<1>4. CASE EndStep(p)
  BY <1>4 DEF EndStep, Stop, StopVanished, StopRefused, StopTyped, StopKilled, DeliverFails, LeaveFails,
              ProcessLeft, LeaveTimeout, KillTimeout, Refresh, RefreshUnchanged, List,
              RefreshNext, RefreshDone, Enter, Refuse, Dies, diskVars
<1>5. CASE MoveStep(p) \/ InspectionFails(p)
  BY <1>5 DEF MoveStep, Hook, HookIgnored, Interrupt, InterruptRefused, Update,
              InspectionFails, Enter, Refuse, diskVars
<1> QED BY <1>1, <1>2, <1>3, <1>4, <1>5 DEF Step

LEMMA StepImplements == IInv /\ [Next]_vars => [Registry!Next]_record
<1> SUFFICES ASSUME IInv, [Next]_vars PROVE Registry!Next \/ record' = record
  OBVIOUS
<1>1. ASSUME NEW p \in Procs, BeginAny(p) \/ Step(p) \/ Crash(p)
      PROVE  Registry!Next \/ record' = record
  <2>1. CASE Save(p) \/ SaveFails(p)
    BY <2>1, WriteImplements DEF Save, SaveFails
  <2> QED BY <1>1, <2>1, OnlySavesWrite
<1>2. CASE Environment
  BY <1>2 DEF Environment, ProcessExits, SessionClosed, Dies, diskVars
<1>3. CASE UNCHANGED vars
  BY <1>3 DEF vars
<1> QED BY <1>1, <1>2, <1>3 DEF Next

(* The processes, their locks and tmux implement the registry: records     *)
(* come, change and end only as AgentRegistry says, one agent at a time.   *)
THEOREM Implements == Spec => RegistrySpec
<1>1. Init => Registry!Init
  BY DEF Init, Registry!Init
<1> QED BY <1>1, Invariance, StepImplements, PTL DEF Spec, RegistrySpec, Registry!Spec

-----------------------------------------------------------------------------
(***************************************************************************)
(* What AgentLifecycle says of tmux: the sessions and programs behind the  *)
(* records.                                                                *)
(*                                                                         *)
(* These theorems rest on a second inductive invariant, RunInv, on top of  *)
(* IInv.  Its heart is that create.lock makes the program an operation     *)
(* started the last one started until the operation returns (OwnRun), so   *)
(* that linking by name cannot hit another agent's session, and that       *)
(* nothing but that linking gives an agent a session (FreshRun, GoneRun).  *)
(***************************************************************************)

(* What an operation has going in tmux: its program is started.            *)
Launched(p) ==
  \/ pc[p] \in {"link", "undo"}
  \/ pc[p] = "save" /\ job[p].op \in {"create", "respawn"}

NoneAlive(i) == \A r \in Runs : runs[r].id = i => ~runs[r].alive

(* The programs started, and what is on disk, belong to minted ids.        *)
Counted ==
  /\ \A r \in Runs : r <= started => runs[r].id \in minted
  /\ \A r \in Runs : r > started => runs[r].id = None
  /\ worktrees \subseteq minted /\ profiles \subseteq minted
  /\ \A k \in BudgetKeys : budget[k] <= Budget[k]

(* The program p started is the last one started, and the only one whose   *)
(* session has the name it was given: create.lock keeps the others away.   *)
OwnRun(p) ==
  Launched(p) =>
    /\ started \in Runs
    /\ runs[started].id = job[p].id
    /\ \A r \in Runs : runs[r].open /\ runs[r].name = job[p].new.name => r = started
    /\ runs[started].name = job[p].new.name
    /\ pc[p] = "save" /\ job[p].new.state # "ended" => runs[started].linked

(* Before it is linked, an agent to be launched has no other session; one  *)
(* to be created never had a program.                                      *)
FreshRun(p) ==
  /\ pc[p] \in {"launch", "link"} =>
       \A r \in Runs : runs[r].id = job[p].id => ~runs[r].open \/ ~runs[r].linked
  /\ Launched(p) =>
       \A r \in Runs : runs[r].id = job[p].id /\ runs[r].open /\ runs[r].linked => r = started
  /\ pc[p] = "launch" /\ job[p].op = "create" =>
       /\ \A r \in Runs : runs[r].id # job[p].id
       /\ job[p].id \notin profiles
  /\ Launched(p) /\ job[p].op = "create" =>
       \A r \in Runs : runs[r].id = job[p].id => r = started
  /\ pc[p] = "undo" => Used("faults") > 0

(* A rename holds on to the one session its agent has.                     *)
RenamedRun(p) ==
  /\ pc[p] = "tmuxRename" =>
       /\ Running(job[p].new) /\ job[p].run \in Runs
       /\ runs[job[p].run].id = job[p].id
       /\ \A r \in Runs : runs[r].id = job[p].id /\ runs[r].open /\ runs[r].linked
                            => r = job[p].run
  /\ pc[p] = "save" /\ job[p].op = "rename" /\ Running(job[p].new) =>
       \A r \in Runs : runs[r].id = job[p].id /\ runs[r].open /\ runs[r].linked
                         => runs[r].name = job[p].new.name

(* refresh and stop saw no session, and none has come since.               *)
GoneRun(p) ==
  pc[p] = "save" /\ (job[p].op = "refresh" \/ (job[p].op = "stop" /\ job[p].run = None)) =>
    \A r \in Runs : runs[r].id = job[p].id => ~runs[r].open \/ ~runs[r].linked

(* What refresh_all scanned was linked once; what it listed has a session  *)
(* that is closed.                                                         *)
ClosedRun(i) == \E r \in Runs : runs[r].id = i /\ ~runs[r].open
ListedRun(p) ==
  /\ pc[p] = "scanned" =>
       \A i \in job[p].todo : \E r \in Runs : runs[r].id = i /\ runs[r].linked
  /\ pc[p] = "listed" \/ (pc[p] = "save" /\ job[p].op = "refreshAll") =>
       \A i \in job[p].todo : ClosedRun(i)
  /\ pc[p] = "save" /\ job[p].op = "refreshAll" => ClosedRun(job[p].id)

(* A hook command runs beside the program that started it, and dies with it.*)
HookRun(p) ==
  pc[p] # "idle" /\ job[p].op = "hook" =>
    /\ job[p].run \in Runs /\ runs[job[p].run].alive
    /\ runs[job[p].run].id = job[p].id

(* A stop has the run it acts on.                                          *)
StopRun(p) ==
  /\ pc[p] \in {"deliver", "leaving", "killing"} => job[p].run \in Runs
  /\ pc[p] = "save" /\ job[p].then \in {"leaving", "killing"} => job[p].run \in Runs

(* What p relies on in tmux. *)
RunsOf(p) ==
  /\ OwnRun(p) /\ FreshRun(p) /\ RenamedRun(p)
  /\ GoneRun(p) /\ ListedRun(p) /\ HookRun(p) /\ StopRun(p)

(* An agent has one session at most.                                       *)
OneSession ==
  \A r, s \in Runs :
    /\ runs[r].open /\ runs[r].linked /\ runs[s].open /\ runs[s].linked
    /\ runs[r].id = runs[s].id
    => r = s

(* As long as nothing fails, a running agent's session has the name of the *)
(* record, or of the rename about to be saved.                             *)
NamedSession ==
  Used("faults") = 0 /\ Used("crashes") = 0 =>
    \A i \in Ids : Running(record[i]) =>
      \A r \in Runs : runs[r].id = i /\ runs[r].open /\ runs[r].linked =>
        \/ runs[r].name = record[i].name
        \/ \E p \in Procs : pc[p] = "save" /\ job[p].op = "rename" /\ job[p].id = i

(* A session without an id is one that is being launched or undone, if one *)
(* thing fails at most.                                                    *)
UnlinkedSession ==
  Used("faults") <= 1 /\ Used("crashes") = 0 =>
    \A r \in Runs : runs[r].open /\ ~runs[r].linked =>
      r = started /\ \E p \in Procs : pc[p] \in {"link", "undo"}

(* What a create that failed leaves: nothing.                              *)
AtWork(i) ==
  \E p \in Procs :
    job[p].op = "create" /\ job[p].id = i /\ (Launched(p) \/ pc[p] = "launch")
Untouched(i) ==
  /\ i \notin worktrees /\ i \notin profiles
  /\ \A r \in Runs : runs[r].id = i => ~runs[r].open
FailedCreate ==
  Used("faults") <= 1 /\ Used("crashes") = 0 =>
    \A i \in minted : record[i] = None => AtWork(i) \/ Untouched(i)

(* Undisturbed, a program is the last its agent started, and it is in its  *)
(* session or a stop is about to wait for it.                              *)
Stopping(r) ==
  \E p \in Procs :
    /\ job[p].op = "stop" /\ job[p].run = r
    /\ \/ pc[p] \in {"leaving", "killing"}
       \/ pc[p] = "save" /\ job[p].then \in {"leaving", "killing"}
LastAlive ==
  Undisturbed =>
    /\ \A r \in Runs : runs[r].alive =>
         /\ \A s \in Runs : runs[s].id = runs[r].id => s <= r
         /\ \/ runs[r].open /\ runs[r].linked
            \/ runs[r].open /\ r = started /\ \E p \in Procs : pc[p] = "link"
            \/ Stopping(r)
    /\ \A p \in Procs : pc[p] = "launch" => NoneAlive(job[p].id)

RunInv ==
  /\ Counted /\ OneSession /\ RecordedAfterLinked
  /\ NamedSession /\ UnlinkedSession /\ FailedCreate /\ LastAlive
  /\ \A p \in Procs : RunsOf(p)
----------------------------------------------------------------------------
(* What a step does to the programs and sessions. *)

(* b is a after time has passed: a session may have closed, a program died. *)
Fades(a, b) ==
  /\ b.id = a.id /\ b.name = a.name /\ b.linked = a.linked
  /\ b.open => a.open
  /\ b.alive => a.alive

LEMMA CloseFades ==
  ASSUME TypeOK, NEW S, CloseSessions(S)
  PROVE  \A r \in Runs : Fades(runs[r], runs'[r]) /\ runs'[r].alive = runs[r].alive
<1> SUFFICES ASSUME NEW r \in Runs
             PROVE  Fades(runs[r], runs'[r]) /\ runs'[r].alive = runs[r].alive
  OBVIOUS
<1>1. runs[r] \in Run
  BY DEF TypeOK
<1>2. CASE r \in S
  BY <1>1, <1>2 DEF CloseSessions, Run, Fades
<1>3. CASE r \notin S
  BY <1>1, <1>3 DEF CloseSessions, Fades
<1> QED BY <1>2, <1>3

LEMMA DiesFades ==
  ASSUME TypeOK, NEW d, NEW S, Dies(d, S)
  PROVE  /\ \A r \in Runs : Fades(runs[r], runs'[r])
         /\ \A r \in Runs : r # d => runs'[r] = runs[r]
<1>1. \A r \in Runs : r # d => runs'[r] = runs[r]
  BY DEF Dies, TypeOK
<1>2. ASSUME NEW r \in Runs
      PROVE  Fades(runs[r], runs'[r])
  <2>1. runs[r] \in Run
    BY DEF TypeOK
  <2>2. CASE r = d
    BY <2>1, <2>2 DEF Dies, Run, Fades, TypeOK
  <2>3. CASE r # d
    BY <1>1, <2>1, <2>3 DEF Fades
  <2> QED BY <2>2, <2>3
<1> QED BY <1>1, <1>2

LEMMA SameFades ==
  ASSUME runs' = runs
  PROVE  \A r \in Runs : Fades(runs[r], runs'[r])
BY DEF Fades

(* Launch, Link and TmuxRename apart, sessions only close and programs die. *)
LEMMA RunsStep ==
  ASSUME IInv, [Next]_vars
  PROVE  \/ started' = started /\ \A r \in Runs : Fades(runs[r], runs'[r])
         \/ \E p \in Procs : Launch(p) \/ Link(p) \/ TmuxRename(p)
<1>0. TypeOK
  BY DEF IInv
<1>1. CASE UNCHANGED vars
  BY <1>1, SameFades DEF vars
<1>2. CASE Environment
  <2>1. PICK r \in Runs : ProcessExits(r) \/ SessionClosed(r)
    BY <1>2 DEF Environment
  <2>2. CASE ProcessExits(r)
    BY <1>0, <2>2, DiesFades DEF ProcessExits, Dies
  <2>3. CASE SessionClosed(r)
    BY <1>0, <2>3, CloseFades DEF SessionClosed
  <2> QED BY <2>1, <2>2, <2>3
<1>3. ASSUME NEW p \in Procs, BeginAny(p) \/ Step(p) \/ Crash(p),
             ~Launch(p), ~Link(p), ~TmuxRename(p)
      PROVE  started' = started /\ \A r \in Runs : Fades(runs[r], runs'[r])
  <2>1. CASE BeginAny(p) \/ Crash(p)
    <3>1. UNCHANGED tmuxVars
      BY <2>1 DEF BeginAny, BeginCreate, BeginOnAgent, BeginHook, Begin, Scan, Crash
    <3> QED BY <3>1, SameFades DEF tmuxVars
  <2>2. CASE CreateStep(p) /\ ~Undo(p)
    <3>1. UNCHANGED tmuxVars
      BY <1>3, <2>2 DEF CreateStep, TakeCreateLock, ForkSnapshot, NewAgent, NoFreeName,
              PrepareFails, LaunchFails, LinkVanished, LinkFails, tmuxVars
    <3> QED BY <3>1, SameFades DEF tmuxVars
  <2>3. CASE Undo(p)
    BY <1>0, <2>3, CloseFades, SameFades DEF Undo
  <2>4. CASE NameStep(p)
    <3>1. UNCHANGED tmuxVars
      BY <1>3, <2>4 DEF NameStep, Respawn, RespawnRefused, Rename, RenameRefused,
              TmuxRenameFails, Enter, Refuse
    <3> QED BY <3>1, SameFades DEF tmuxVars
  <2>5. CASE StopKilled(p) \/ LeaveTimeout(p)
    BY <1>0, <2>5, CloseFades DEF StopKilled, LeaveTimeout
  <2>6. CASE KillTimeout(p)
    BY <1>0, <2>6, DiesFades DEF KillTimeout, Dies
  <2>7. CASE EndStep(p) /\ ~StopKilled(p) /\ ~LeaveTimeout(p) /\ ~KillTimeout(p)
    <3>1. UNCHANGED tmuxVars
      BY <2>7 DEF EndStep, Stop, StopVanished, StopRefused, StopTyped, DeliverFails, LeaveFails,
              ProcessLeft, Refresh, RefreshUnchanged, List, RefreshNext, RefreshDone,
              Enter, Refuse
    <3> QED BY <3>1, SameFades DEF tmuxVars
  <2>8. CASE MoveStep(p) \/ InspectionFails(p) \/ Save(p) \/ SaveFails(p)
    <3>1. UNCHANGED tmuxVars
      BY <2>8 DEF MoveStep, Hook, HookIgnored, Interrupt, InterruptRefused, Update,
              InspectionFails, Enter, Refuse, Save, SaveFails
    <3> QED BY <3>1, SameFades DEF tmuxVars
  <2> QED BY <1>3, <2>1, <2>2, <2>3, <2>4, <2>5, <2>6, <2>7, <2>8 DEF Step
<1> QED BY <1>1, <1>2, <1>3 DEF Next

(* The program p starts in tmux is the next one.                           *)
LEMMA LaunchRuns ==
  ASSUME IInv, NEW p \in Procs, Launch(p)
  PROVE  /\ pc[p] = "launch" /\ createLock = p /\ job[p].id \in minted
         /\ job[p].new \in Record
         /\ started + 1 \in Runs /\ started' = started + 1
         /\ runs'[started + 1] = [id |-> job[p].id, name |-> job[p].new.name,
                                  open |-> TRUE, linked |-> FALSE, alive |-> TRUE]
         /\ \A r \in Runs : r # started + 1 => runs'[r] = runs[r]
         /\ \A r \in Runs : runs[r].open => runs[r].name # job[p].new.name
         /\ job' = job /\ pc'[p] = "link" /\ \A q \in Procs \ {p} : pc'[q] = pc[q]
         /\ UNCHANGED <<record, minted, worktrees, createLock, budget>>
         /\ profiles' = profiles \cup {job[p].id}
<1>1. TypeOK /\ Relies(p) /\ pc[p] = "launch"
  BY DEF IInv, Launch
<1>2. createLock = p /\ job[p].id \in minted /\ job[p].new \in Record
  BY <1>1 DEF Relies, Walk, Locked, HoldsCreateLock, NamingOps, Faithful, Prepared
<1>3. started + 1 \in Runs
  BY <1>1, ConstantsAssumption DEF Launch, TypeOK, Runs
<1>4. /\ runs'[started + 1] = [id |-> job[p].id, name |-> job[p].new.name,
                               open |-> TRUE, linked |-> FALSE, alive |-> TRUE]
      /\ \A r \in Runs : r # started + 1 => runs'[r] = runs[r]
  BY <1>1, <1>3 DEF Launch, TypeOK
<1>5. /\ \A r \in Runs : runs[r].open => runs[r].name # job[p].new.name
      /\ job' = job /\ pc'[p] = "link" /\ \A q \in Procs \ {p} : pc'[q] = pc[q]
      /\ UNCHANGED <<record, minted, worktrees, createLock, budget>>
      /\ profiles' = profiles \cup {job[p].id} /\ started' = started + 1
  BY <1>1 DEF Launch, TypeOK, Go, SessionsNamed, lockVars
<1> QED BY <1>1, <1>2, <1>3, <1>4, <1>5

(* The session p links is the one it started.                              *)
LEMMA LinkRuns ==
  ASSUME IInv, NEW p \in Procs, OwnRun(p), Link(p)
  PROVE  /\ pc[p] = "link" /\ createLock = p /\ started \in Runs /\ started' = started
         /\ job[p].op \in {"create", "respawn"}
         /\ runs[started].id = job[p].id /\ runs[started].open
         /\ runs'[started].id = job[p].id /\ runs'[started].name = runs[started].name
         /\ runs'[started].open /\ runs'[started].linked
         /\ runs'[started].alive = runs[started].alive
         /\ \A r \in Runs : r # started => runs'[r] = runs[r]
         /\ job' = job /\ pc'[p] = "save" /\ \A q \in Procs \ {p} : pc'[q] = pc[q]
         /\ UNCHANGED <<record, minted, worktrees, profiles, createLock, budget>>
<1>1. TypeOK /\ Relies(p) /\ pc[p] = "link"
  BY DEF IInv, Link
<1>2. createLock = p /\ job[p].op \in {"create", "respawn"}
  BY <1>1 DEF Relies, Walk, Locked, HoldsCreateLock, NamingOps
<1>3. PICK r \in SessionsNamed(job[p].new.name) :
        runs' = [runs EXCEPT ![r].id = job[p].id, ![r].linked = TRUE]
  BY DEF Link
<1>4. r = started /\ started \in Runs /\ runs[started].id = job[p].id /\ runs[started].open
  BY <1>1, <1>3 DEF OwnRun, Launched, SessionsNamed
<1>5. runs[started] \in Run
  BY <1>1, <1>4 DEF TypeOK
<1>6. /\ runs'[started].id = job[p].id /\ runs'[started].name = runs[started].name
      /\ runs'[started].open /\ runs'[started].linked
      /\ runs'[started].alive = runs[started].alive
      /\ \A s \in Runs : s # started => runs'[s] = runs[s]
  BY <1>1, <1>3, <1>4, <1>5 DEF TypeOK, Run
<1>7. /\ job' = job /\ pc'[p] = "save" /\ \A q \in Procs \ {p} : pc'[q] = pc[q]
      /\ UNCHANGED <<record, minted, worktrees, profiles, createLock, budget>>
      /\ started' = started
  BY <1>1 DEF Link, TypeOK, Go, diskVars, lockVars
<1> QED BY <1>1, <1>2, <1>4, <1>6, <1>7

(* Only the name of the session p renames changes.                         *)
LEMMA RenameRuns ==
  ASSUME IInv, NEW p \in Procs, RenamedRun(p), TmuxRename(p)
  PROVE  /\ pc[p] = "tmuxRename" /\ createLock = p /\ job[p].op = "rename"
         /\ job[p].run \in Runs /\ runs[job[p].run].id = job[p].id
         /\ runs[job[p].run].open /\ started' = started
         /\ runs'[job[p].run] = [runs[job[p].run] EXCEPT !.name = job[p].new.name]
         /\ \A r \in Runs : /\ r # job[p].run => runs'[r] = runs[r]
                            /\ runs'[r].id = runs[r].id
                            /\ runs'[r].open = runs[r].open
                            /\ runs'[r].linked = runs[r].linked
                            /\ runs'[r].alive = runs[r].alive
         /\ runs'[job[p].run].name = job[p].new.name
         /\ \A r \in Runs : runs[r].open => runs[r].name # job[p].new.name
         /\ job' = job /\ pc'[p] = "save" /\ \A q \in Procs \ {p} : pc'[q] = pc[q]
         /\ UNCHANGED <<record, minted, worktrees, profiles, createLock, budget>>
<1>1. TypeOK /\ Relies(p) /\ pc[p] = "tmuxRename"
  BY DEF IInv, TmuxRename
<1>2. createLock = p /\ job[p].op = "rename"
  BY <1>1 DEF Relies, Walk, Locked, HoldsCreateLock, NamingOps
<1>3. job[p].run \in Runs /\ runs[job[p].run].id = job[p].id /\ runs[job[p].run].open
  BY <1>1 DEF RenamedRun, TmuxRename
<1> DEFINE m == job[p].run
<1>4. runs[m] \in Run
  BY <1>1, <1>3 DEF TypeOK
<1>5. /\ runs'[m] = [runs[m] EXCEPT !.name = job[p].new.name]
      /\ \A r \in Runs : r # m => runs'[r] = runs[r]
  BY <1>1, <1>3 DEF TmuxRename, TypeOK
<1>6. /\ runs'[m].id = runs[m].id /\ runs'[m].open = runs[m].open
      /\ runs'[m].linked = runs[m].linked /\ runs'[m].alive = runs[m].alive
      /\ runs'[m].name = job[p].new.name
  BY <1>4, <1>5 DEF Run
<1>7. /\ \A r \in Runs : runs[r].open => runs[r].name # job[p].new.name
      /\ job' = job /\ pc'[p] = "save" /\ \A q \in Procs \ {p} : pc'[q] = pc[q]
      /\ UNCHANGED <<record, minted, worktrees, profiles, createLock, budget>>
      /\ started' = started
  BY <1>1 DEF TmuxRename, TypeOK, Go, SessionsNamed, diskVars, lockVars
<1> QED BY <1>1, <1>2, <1>3, <1>5, <1>6, <1>7

(* Every step: a started program keeps its id, a closed session stays      *)
(* closed, a dead program dead, a linked session linked; and only linking  *)
(* gives an agent a session it did not have.                               *)
LEMMA RunsGrow ==
  ASSUME IInv, \A p \in Procs : OwnRun(p) /\ RenamedRun(p), Counted, [Next]_vars
  PROVE  /\ started' \in {started, started + 1}
         /\ \A r \in Runs : r <= started =>
              /\ runs'[r].id = runs[r].id
              /\ runs[r].linked => runs'[r].linked
              /\ runs'[r].open => runs[r].open
              /\ runs'[r].alive => runs[r].alive
         /\ \A r \in Runs : runs'[r].open /\ runs'[r].linked =>
              \/ runs[r].open /\ runs[r].linked
              \/ r = started /\ \E p \in Procs : Link(p)
         /\ \A r \in Runs : runs'[r].id # runs[r].id =>
              r = started + 1 /\ \E p \in Procs : Launch(p) /\ runs'[r].id = job[p].id
<1>0. started \in 0 .. MaxRuns /\ started \in Nat /\ Runs \subseteq Nat
  BY ConstantsAssumption DEF IInv, TypeOK, Runs
<1>1. CASE started' = started /\ \A r \in Runs : Fades(runs[r], runs'[r])
  BY <1>0, <1>1 DEF Fades
<1>2. ASSUME NEW p \in Procs, Launch(p)
      PROVE  /\ started' = started + 1
             /\ runs'[started + 1].id = job[p].id /\ ~runs'[started + 1].linked
             /\ \A r \in Runs : r # started + 1 => runs'[r] = runs[r]
  <2>1. /\ started' = started + 1
        /\ runs'[started + 1] = [id |-> job[p].id, name |-> job[p].new.name,
                                 open |-> TRUE, linked |-> FALSE, alive |-> TRUE]
        /\ \A r \in Runs : r # started + 1 => runs'[r] = runs[r]
    BY <1>2, LaunchRuns
  <2>2. runs'[started + 1].id = job[p].id /\ runs'[started + 1].linked = FALSE
    BY <2>1
  <2> QED BY <2>1, <2>2
<1>3. ASSUME NEW p \in Procs, Link(p)
      PROVE  /\ started' = started /\ runs'[started].id = runs[started].id
             /\ runs'[started].linked /\ runs[started].open
             /\ runs'[started].alive = runs[started].alive
             /\ \A r \in Runs : r # started => runs'[r] = runs[r]
  BY <1>3, LinkRuns
<1>4. ASSUME NEW p \in Procs, TmuxRename(p)
      PROVE  /\ started' = started
             /\ \A r \in Runs : /\ runs'[r].id = runs[r].id
                                /\ runs'[r].open = runs[r].open
                                /\ runs'[r].linked = runs[r].linked
                                /\ runs'[r].alive = runs[r].alive
  BY <1>4, RenameRuns
<1> QED BY <1>0, <1>1, <1>2, <1>3, <1>4, RunsStep

(* Who holds create.lock and does not launch, link or rename itself sees   *)
(* the programs fade, and none come.                                       *)
LEMMA HolderSees ==
  ASSUME IInv, \A p \in Procs : OwnRun(p) /\ RenamedRun(p), [Next]_vars,
         NEW q \in Procs, createLock = q, ~Launch(q), ~Link(q), ~TmuxRename(q)
  PROVE  started' = started /\ \A r \in Runs : Fades(runs[r], runs'[r])
<1>1. ASSUME NEW p \in Procs, Launch(p) \/ Link(p) \/ TmuxRename(p)
      PROVE  p = q
  BY <1>1, LaunchRuns, LinkRuns, RenameRuns
<1> QED BY <1>1, RunsStep

----------------------------------------------------------------------------
(* What a step does to a process. *)

Same(q) == pc'[q] = pc[q] /\ job'[q] = job[q]
Left(q) == pc'[q] = "idle" /\ job'[q] = NoJob

(* It waits for a lock; a hook has begun beside its program.               *)
Waits(q) ==
  /\ pc'[q] \in {"queue", "want"} /\ job'[q].then = "idle"
  /\ job'[q].op = "hook" =>
       /\ job'[q].run \in Runs /\ runs[job'[q].run].alive
       /\ job'[q].id = runs[job'[q].run].id /\ runs' = runs

SaveGoesOn(q) == Save(q) /\ job[q].then # "idle"
SaveUndone(q) == SaveFails(q) /\ job[q].op \in {"create", "respawn"}

Moves(q) ==
  \/ Waits(q) \/ Scan(q) \/ List(q) \/ RefreshNext(q)
  \/ NewAgent(q) \/ Launch(q) \/ Link(q) \/ LinkVanished(q) \/ LinkFails(q)
  \/ Respawn(q) \/ Rename(q) \/ TmuxRename(q)
  \/ Stop(q) \/ StopVanished(q) \/ StopTyped(q) \/ StopKilled(q) \/ LeaveTimeout(q)
  \/ Refresh(q) \/ Hook(q) \/ Interrupt(q) \/ Update(q)
  \/ SaveGoesOn(q) \/ SaveUndone(q)

LEMMA LeaveFate ==
  ASSUME NEW S, Leave(S), NEW q \in Procs
  PROVE  IF q \in S THEN Left(q) ELSE Same(q)
BY DEF Leave, Left, Same

(* The processes that do not take the step. *)
LEMMA OthersFate ==
  ASSUME IInv, NEW p \in Procs, BeginAny(p) \/ Step(p) \/ Crash(p), NEW q \in Procs \ {p}
  PROVE  Same(q) \/ (Left(q) /\ pc[q] # "idle" /\ job[q].op = "hook")
<1>0. TypeOK
  BY DEF IInv
<1>1. CASE BeginAny(p)
  BY <1>0, <1>1 DEF BeginAny, BeginCreate, BeginOnAgent, BeginHook, Begin, Scan, Go, TypeOK, Same
<1>2. CASE Crash(p)
  BY <1>0, <1>2, LeaveFate DEF Crash
<1>3. CASE CreateStep(p)
  <2>1. CASE TakeCreateLock(p) \/ ForkSnapshot(p) \/ NewAgent(p) \/ Launch(p) \/ Link(p)
             \/ LinkVanished(p) \/ LinkFails(p)
    BY <1>0, <2>1 DEF TakeCreateLock, ForkSnapshot, NewAgent, Launch, Link, LinkVanished,
                      LinkFails, Go, TypeOK, Same
  <2>2. CASE NoFreeName(p) \/ PrepareFails(p) \/ LaunchFails(p) \/ Undo(p)
    <3>1. Leave({p})
      BY <2>2 DEF NoFreeName, PrepareFails, LaunchFails, Undo, Abandon, GiveUp
    <3> QED BY <3>1, LeaveFate
  <2> QED BY <1>3, <2>1, <2>2 DEF CreateStep
<1>4. CASE NameStep(p)
  <2>1. CASE Respawn(p) \/ Rename(p) \/ TmuxRename(p)
    BY <1>0, <2>1 DEF Respawn, Rename, TmuxRename, Prepare, Go, TypeOK, Same
  <2>2. CASE RespawnRefused(p) \/ RenameRefused(p) \/ TmuxRenameFails(p)
    <3>1. Leave({p})
      BY <2>2 DEF RespawnRefused, RenameRefused, TmuxRenameFails, Refuse
    <3> QED BY <3>1, LeaveFate
  <2> QED BY <1>4, <2>1, <2>2 DEF NameStep
<1>5. CASE EndStep(p)
  <2>1. CASE Stop(p) \/ StopVanished(p) \/ StopTyped(p) \/ StopKilled(p) \/ LeaveTimeout(p)
             \/ Refresh(p) \/ List(p) \/ RefreshNext(p)
    BY ZenonT(60), <1>0, <2>1 DEF Stop, StopVanished, StopTyped, StopKilled, LeaveTimeout, Refresh, List,
                      RefreshNext, MarkExited, Go, TypeOK, Same
  <2>2. CASE StopRefused(p) \/ DeliverFails(p) \/ LeaveFails(p) \/ ProcessLeft(p)
             \/ RefreshUnchanged(p) \/ RefreshDone(p)
    <3>1. Leave({p})
      BY <2>2 DEF StopRefused, DeliverFails, LeaveFails, ProcessLeft, RefreshUnchanged, RefreshDone, Refuse
    <3> QED BY <3>1, LeaveFate
  <2>3. CASE KillTimeout(p)
    BY <2>3, LeaveFate DEF KillTimeout, Dies, HooksOf
  <2> QED BY <1>5, <2>1, <2>2, <2>3 DEF EndStep
<1>6. CASE MoveStep(p)
  <2>1. CASE Hook(p) \/ Interrupt(p) \/ Update(p)
    BY <1>0, <2>1 DEF Hook, Interrupt, Update, Prepare, Go, TypeOK, Same
  <2>2. CASE HookIgnored(p) \/ InterruptRefused(p)
    BY <2>2, LeaveFate DEF HookIgnored, InterruptRefused, Refuse
  <2> QED BY <1>6, <2>1, <2>2 DEF MoveStep
<1>7. CASE Save(p) \/ SaveFails(p)
  <2>1. CASE Leave({p})
    BY <2>1, LeaveFate
  <2>2. CASE ~Leave({p})
    BY <1>0, <1>7, <2>2 DEF Save, SaveFails, Go, TypeOK, Same
  <2> QED BY <2>1, <2>2
<1>8. CASE InspectionFails(p)
  BY <1>8, LeaveFate DEF InspectionFails
<1> QED BY <1>1, <1>2, <1>3, <1>4, <1>5, <1>6, <1>7, <1>8 DEF Step

LEMMA ActorFate ==
  ASSUME IInv, NEW q \in Procs, BeginAny(q) \/ Step(q) \/ Crash(q)
  PROVE  Same(q) \/ Left(q) \/ Moves(q)
<1>0. TypeOK /\ Relies(q)
  BY DEF IInv
<1>1. CASE BeginCreate(q) \/ \E i \in Ids, op \in (NamingOps \ {"create"}) \cup OneAgentOps :
                               BeginOnAgent(q, op, i)
  <2>1. ASSUME NEW j, Begin(q, j), j.op # "hook", j.then = "idle"
        PROVE  Waits(q)
    BY <1>0, <2>1 DEF Waits, Begin, Go, TypeOK
  <2>2. CASE BeginCreate(q)
    <3> DEFINE j == [NoJob EXCEPT !.op = "create"]
    <3>1. Begin(q, j) /\ j.op # "hook" /\ j.then = "idle"
      BY <2>2 DEF BeginCreate, NoJob
    <3> QED BY <2>1, <3>1 DEF Moves
  <2>3. ASSUME NEW i \in Ids, NEW op \in (NamingOps \ {"create"}) \cup OneAgentOps,
               BeginOnAgent(q, op, i)
        PROVE  Waits(q)
    <3> DEFINE j == [NoJob EXCEPT !.op = op, !.id = i]
    <3>1. Begin(q, j)
      BY <2>3 DEF BeginOnAgent
    <3>2. j.op # "hook" /\ j.then = "idle"
      BY DEF NoJob, NamingOps, OneAgentOps
    <3> QED BY <2>1, <3>1, <3>2
  <2> QED BY <1>1, <2>2, <2>3 DEF Moves
<1>2. ASSUME NEW r \in Runs, BeginHook(q, r)
      PROVE  Moves(q)
  <2>1. /\ pc'[q] \in {"queue", "want"} /\ job'[q].then = "idle"
        /\ job'[q].run = r /\ job'[q].id = runs[r].id /\ runs' = runs /\ runs[r].alive
    BY <1>0, <1>2 DEF BeginHook, Begin, Go, TypeOK, NoJob, tmuxVars
  <2>2. Waits(q)
    BY <2>1 DEF Waits
  <2> QED BY <2>2 DEF Moves
<1>3. CASE TakeCreateLock(q) \/ ForkSnapshot(q)
  <2>1. CASE TakeCreateLock(q)
    <3>1. /\ pc'[q] = "want" /\ job'[q] = job[q] /\ pc[q] = "queue"
      BY <1>0, <2>1 DEF TakeCreateLock, Go, TypeOK
    <3>2. job[q].op # "hook" /\ job[q].then = "idle"
      BY <1>0, <3>1 DEF Relies, Walk, NamingOps
    <3> QED BY <3>1, <3>2 DEF Waits, Moves
  <2>2. CASE ForkSnapshot(q)
    <3>1. /\ pc'[q] = "queue" /\ job'[q].op = "create" /\ job'[q].then = "idle"
      BY <1>0, <2>2 DEF ForkSnapshot, Go, TypeOK, NoJob
    <3> QED BY <3>1 DEF Waits, Moves
  <2> QED BY <1>3, <2>1, <2>2
<1>4. CASE Leave({q}) \/ \E r : Dies(r, {q})
  BY <1>4, LeaveFate DEF Dies
<1>5. CASE BeginAny(q) \/ Crash(q)
  BY <1>1, <1>2, <1>4, <1>5 DEF BeginAny, Crash, Moves
<1>6. CASE CreateStep(q)
  BY <1>3, <1>4, <1>6 DEF CreateStep, NoFreeName, PrepareFails, LaunchFails, Undo,
                          Abandon, GiveUp, Moves
<1>7. CASE NameStep(q)
  BY <1>4, <1>7 DEF NameStep, RespawnRefused, RenameRefused, TmuxRenameFails, Refuse, Moves
<1>8. CASE EndStep(q)
  BY <1>4, <1>8 DEF EndStep, StopRefused, DeliverFails, LeaveFails, ProcessLeft, RefreshUnchanged,
                    RefreshDone, KillTimeout, Refuse, Moves
<1>9. CASE MoveStep(q)
  BY <1>4, <1>9 DEF MoveStep, HookIgnored, InterruptRefused, Refuse, Moves
<1>10. CASE Save(q)
  BY <1>4, <1>10 DEF Save, SaveGoesOn, Moves
<1>11. CASE SaveFails(q)
  BY <1>4, <1>11 DEF SaveFails, SaveUndone, Moves
<1>12. CASE InspectionFails(q)
  BY <1>4, <1>12 DEF InspectionFails
<1> QED BY <1>5, <1>6, <1>7, <1>8, <1>9, <1>10, <1>11, <1>12 DEF Step

LEMMA Fate ==
  ASSUME IInv, [Next]_vars, NEW q \in Procs
  PROVE  Same(q) \/ Left(q) \/ Moves(q)
<1>1. CASE UNCHANGED vars
  BY <1>1 DEF vars, Same
<1>2. CASE Environment
  BY <1>2, LeaveFate DEF Environment, ProcessExits, Dies, SessionClosed, Same
<1>3. ASSUME NEW p \in Procs, BeginAny(p) \/ Step(p) \/ Crash(p)
      PROVE  Same(q) \/ Left(q) \/ Moves(q)
  BY <1>3, OthersFate, ActorFate
<1> QED BY <1>1, <1>2, <1>3 DEF Next

----------------------------------------------------------------------------
(* Where each of these steps brings its process. *)

LEMMA LaunchTurns ==
  ASSUME IInv, NEW q \in Procs
  PROVE  /\ NewAgent(q) => /\ pc'[q] = "launch" /\ job'[q].op = "create"
                           /\ job'[q].id \in Ids \ minted /\ job'[q].then = "idle"
                           /\ createLock = None /\ createLock' = q /\ runs' = runs
                           /\ minted' = minted \cup {job'[q].id} /\ started' = started
                           /\ worktrees' = worktrees \cup {job'[q].id}
                           /\ UNCHANGED <<record, profiles, budget>>
         /\ LinkVanished(q) => /\ pc[q] = "link" /\ pc'[q] = "save"
                               /\ job'[q].op = job[q].op /\ job'[q].id = job[q].id
                               /\ job'[q].run = job[q].run /\ job'[q].then = job[q].then
                               /\ job'[q].new.name = job[q].new.name
                               /\ job'[q].new.state = "ended"
                               /\ \A r \in Runs : runs[r].open => runs[r].name # job[q].new.name
                               /\ UNCHANGED <<diskVars, tmuxVars, createLock, budget>>
         /\ LinkFails(q) => /\ pc[q] = "link" /\ pc'[q] = "undo" /\ job'[q] = job[q]
                            /\ UNCHANGED <<diskVars, tmuxVars, createLock>> /\ Spend("faults")
         /\ SaveUndone(q) => /\ pc[q] = "save" /\ pc'[q] = "undo" /\ job'[q] = job[q]
                             /\ job[q].op \in {"create", "respawn"}
                             /\ UNCHANGED <<tmuxVars, createLock, minted, worktrees, profiles>>
                             /\ Spend("faults")
<1>0. TypeOK /\ job[q] \in Job
  BY DEF IInv, TypeOK
<1>1. ASSUME NewAgent(q)
      PROVE  /\ pc'[q] = "launch" /\ job'[q].op = "create"
             /\ job'[q].id \in Ids \ minted /\ job'[q].then = "idle"
             /\ createLock = None /\ createLock' = q /\ runs' = runs
             /\ minted' = minted \cup {job'[q].id} /\ started' = started
             /\ worktrees' = worktrees \cup {job'[q].id}
             /\ UNCHANGED <<record, profiles, budget>>
  <2>1. PICK i \in Ids \ minted, n \in Names, d \in Data :
          /\ minted' = minted \cup {i} /\ worktrees' = worktrees \cup {i}
          /\ job' = [job EXCEPT ![q] = [NoJob EXCEPT !.op = "create", !.id = i,
                       !.new = [name |-> n, state |-> "starting", data |-> d]]]
    BY <1>1 DEF NewAgent
  <2>2. job'[q].id = i /\ job'[q].op = "create" /\ job'[q].then = "idle"
    BY <1>0, <2>1 DEF TypeOK, NoJob
  <2>3. /\ pc'[q] = "launch" /\ createLock = None /\ createLock' = q
        /\ runs' = runs /\ started' = started /\ UNCHANGED <<record, profiles, budget>>
    BY <1>0, <1>1 DEF NewAgent, Go, TypeOK, tmuxVars
  <2> QED BY <2>1, <2>2, <2>3
<1>2. ASSUME LinkVanished(q)
      PROVE  /\ pc[q] = "link" /\ pc'[q] = "save"
             /\ job'[q].op = job[q].op /\ job'[q].id = job[q].id
             /\ job'[q].run = job[q].run /\ job'[q].then = job[q].then
             /\ job'[q].new.name = job[q].new.name
             /\ job'[q].new.state = "ended"
             /\ \A r \in Runs : runs[r].open => runs[r].name # job[q].new.name
             /\ UNCHANGED <<diskVars, tmuxVars, createLock, budget>>
  <2>1. pc[q] = "link" /\ Relies(q)
    BY <1>2 DEF LinkVanished, IInv
  <2>2. job[q].new \in Record
    BY <2>1 DEF Relies, Faithful, Prepared
  <2>3. job'[q] = [job[q] EXCEPT !.new = [job[q].new EXCEPT !.state = "ended"]]
    BY <1>0, <1>2 DEF LinkVanished, TypeOK
  <2>4. /\ job'[q].op = job[q].op /\ job'[q].id = job[q].id
        /\ job'[q].run = job[q].run /\ job'[q].then = job[q].then
        /\ job'[q].new = [job[q].new EXCEPT !.state = "ended"]
    BY <1>0, <2>3 DEF Job
  <2>5. job'[q].new.name = job[q].new.name /\ job'[q].new.state = "ended"
    BY <2>2, <2>4 DEF Record
  <2>6. /\ pc'[q] = "save" /\ UNCHANGED <<diskVars, tmuxVars, createLock, budget>>
        /\ \A r \in Runs : runs[r].open => runs[r].name # job[q].new.name
    BY <1>0, <1>2 DEF LinkVanished, Go, TypeOK, SessionsNamed, lockVars
  <2> QED BY <2>1, <2>4, <2>5, <2>6
<1>3. ASSUME LinkFails(q)
      PROVE  /\ pc[q] = "link" /\ pc'[q] = "undo" /\ job'[q] = job[q]
             /\ UNCHANGED <<diskVars, tmuxVars, createLock>> /\ Spend("faults")
  BY <1>0, <1>3 DEF LinkFails, Go, TypeOK, lockVars
<1>4. ASSUME SaveUndone(q)
      PROVE  /\ pc[q] = "save" /\ pc'[q] = "undo" /\ job'[q] = job[q]
             /\ job[q].op \in {"create", "respawn"}
             /\ UNCHANGED <<tmuxVars, createLock, minted, worktrees, profiles>>
             /\ Spend("faults")
  BY <1>0, <1>4 DEF SaveUndone, SaveFails, Go, TypeOK, lockVars
<1> QED BY <1>1, <1>2, <1>3, <1>4

(* A rename: of the record alone, or of the session first. *)
LEMMA RenameTurns ==
  ASSUME IInv, NEW q \in Procs, Rename(q)
  PROVE  /\ pc[q] = "want" /\ job[q].op = "rename" /\ job[q].id \in Ids
         /\ record[job[q].id] \in Record
         /\ job'[q].id = job[q].id /\ job'[q].op = "rename" /\ job'[q].then = "idle"
         /\ Running(job'[q].new) <=> Running(record[job[q].id])
         /\ \/ /\ pc'[q] = "save"
               /\ ~Running(record[job[q].id]) \/ LiveRuns(job[q].id) = {}
            \/ /\ pc'[q] = "tmuxRename"
               /\ Running(record[job[q].id])
               /\ job'[q].run \in LiveRuns(job[q].id)
<1>0. TypeOK /\ job[q] \in Job
  BY DEF IInv, TypeOK
<1>1. Enter(q, "rename") /\ "rename" \in Ops \ {"create", "fork", "refreshAll"}
  BY DEF Rename, Ops, NamingOps
<1>2. /\ pc[q] = "want" /\ job[q].op = "rename" /\ job[q].id \in Ids
      /\ job[q].then = "idle" /\ record[job[q].id] \in Record
  BY <1>1, EnterFacts
<1>3. PICK n \in Names :
        \/ /\ ~Running(Loaded(q)) \/ LiveRuns(job[q].id) = {}
           /\ Prepare(q, [Loaded(q) EXCEPT !.name = n])
           /\ Go(q, "save")
        \/ /\ Running(Loaded(q))
           /\ \E r \in LiveRuns(job[q].id) :
                job' = [job EXCEPT ![q].old = Loaded(q), ![q].run = r,
                                   ![q].new = [Loaded(q) EXCEPT !.name = n]]
           /\ Go(q, "tmuxRename")
  BY DEF Rename
<1> DEFINE new == [record[job[q].id] EXCEPT !.name = n]
<1>4. Running(new) <=> Running(record[job[q].id])
  <2>1. new \in Record /\ new.state = record[job[q].id].state
    BY <1>2 DEF Record
  <2> HIDE DEF new
  <2> QED BY <1>2, <2>1, ConstantsAssumption DEF Running, Registry!Running
<1>5. CASE /\ ~Running(Loaded(q)) \/ LiveRuns(job[q].id) = {}
           /\ Prepare(q, [Loaded(q) EXCEPT !.name = n])
           /\ Go(q, "save")
  <2>1. /\ job'[q].id = job[q].id /\ job'[q].op = job[q].op
        /\ job'[q].then = job[q].then /\ job'[q].new = new
    BY <1>0, <1>5 DEF Prepare, TypeOK, Job, Loaded
  <2>2. pc'[q] = "save"
    BY <1>0, <1>5 DEF Go, TypeOK
  <2> QED BY <1>2, <1>4, <1>5, <2>1, <2>2 DEF Loaded
<1>6. CASE /\ Running(Loaded(q))
           /\ \E r \in LiveRuns(job[q].id) :
                job' = [job EXCEPT ![q].old = Loaded(q), ![q].run = r,
                                   ![q].new = [Loaded(q) EXCEPT !.name = n]]
           /\ Go(q, "tmuxRename")
  <2>0. PICK r \in LiveRuns(job[q].id) :
          job' = [job EXCEPT ![q].old = Loaded(q), ![q].run = r,
                             ![q].new = [Loaded(q) EXCEPT !.name = n]]
    BY <1>6
  <2>1. /\ job'[q].id = job[q].id /\ job'[q].op = job[q].op
        /\ job'[q].then = job[q].then /\ job'[q].new = new /\ job'[q].run = r
    BY <1>0, <2>0 DEF TypeOK, Job, Loaded
  <2>2. pc'[q] = "tmuxRename"
    BY <1>0, <1>6 DEF Go, TypeOK
  <2> QED BY <1>2, <1>4, <1>6, <2>1, <2>2 DEF Loaded
<1> QED BY <1>3, <1>5, <1>6

(* From the wait for <id>.lock to what follows. *)
LEMMA LoadTurns ==
  ASSUME IInv, NEW q \in Procs,
         \/ Respawn(q) \/ Rename(q) \/ Stop(q) \/ StopVanished(q) \/ Refresh(q)
         \/ Hook(q) \/ Interrupt(q) \/ Update(q)
  PROVE  /\ pc[q] = "want" /\ job'[q].id = job[q].id /\ job'[q].op = job[q].op
         /\ job'[q].then = "idle" /\ job[q].id \in Ids
         /\ UNCHANGED <<diskVars, createLock, tmuxVars, budget>>
         /\ Respawn(q) => /\ pc'[q] = "launch" /\ job[q].op = "respawn"
                          /\ LiveRuns(job[q].id) = {} /\ record[job[q].id] # None
         /\ Rename(q) => /\ pc'[q] \in {"save", "tmuxRename"} /\ job[q].op = "rename"
         /\ Stop(q) => /\ pc'[q] = "deliver" /\ job[q].op = "stop"
                       /\ job'[q].run \in LiveRuns(job[q].id)
         /\ StopVanished(q) => /\ pc'[q] = "save" /\ job[q].op = "stop"
                               /\ LiveRuns(job[q].id) = {}
         /\ Refresh(q) => /\ pc'[q] = "save" /\ job[q].op = "refresh"
                          /\ LiveRuns(job[q].id) = {}
         /\ Hook(q) => pc'[q] = "save" /\ job[q].op = "hook" /\ job'[q].run = job[q].run
         /\ Interrupt(q) => pc'[q] = "save" /\ job[q].op = "interrupt"
         /\ Update(q) => pc'[q] = "save" /\ job[q].op = "update"
<1>0. TypeOK /\ job[q] \in Job
  BY DEF IInv, TypeOK
<1>1. PICK op \in {"respawn", "rename", "stop", "refresh", "hook", "interrupt", "update"} :
        Enter(q, op)
  BY DEF Respawn, Rename, Stop, StopVanished, Refresh, Hook, Interrupt, Update
<1>2. op \in Ops \ {"create", "fork", "refreshAll"}
  BY DEF Ops, NamingOps, OneAgentOps
<1>3. /\ pc[q] = "want" /\ job[q].op = op /\ job[q].id \in Ids /\ job[q].then = "idle"
      /\ op # "hook" => record[job[q].id] \in Record
      /\ UNCHANGED <<diskVars, createLock, tmuxVars, budget>>
  BY <1>1, <1>2, EnterFacts
<1>4. /\ job'[q].id = job[q].id /\ job'[q].op = job[q].op /\ job'[q].then = "idle"
  <2>0. ASSUME NEW new, Prepare(q, new)
        PROVE  /\ job'[q].id = job[q].id /\ job'[q].op = job[q].op
               /\ job'[q].then = job[q].then /\ job'[q].run = job[q].run
    BY <1>0, <2>0 DEF Prepare, TypeOK, Job
  <2>1. CASE StopVanished(q) \/ Refresh(q)
    BY <1>0, <1>3, <2>1 DEF StopVanished, Refresh, MarkExited, TypeOK, Job
  <2>2. CASE Hook(q)
    <3>1. PICK s \in HookStates \cup {Loaded(q).state}, d \in Data :
            Prepare(q, [Loaded(q) EXCEPT !.state = s, !.data = d])
      BY <2>2 DEF Hook
    <3> QED BY <1>3, <2>0, <3>1
  <2>3. CASE Respawn(q)
    <3>1. PICK d \in Data : Prepare(q, [Loaded(q) EXCEPT !.state = "starting", !.data = d])
      BY <2>3 DEF Respawn
    <3> QED BY <1>3, <2>0, <3>1
  <2>4. CASE Interrupt(q)
    BY <1>3, <2>0, <2>4 DEF Interrupt
  <2>7. CASE Update(q)
    <3>1. PICK d \in Data : Prepare(q, [Loaded(q) EXCEPT !.data = d])
      BY <2>7 DEF Update
    <3> QED BY <1>3, <2>0, <3>1
  <2>5. CASE Rename(q)
    BY <2>5, RenameTurns
  <2>6. CASE Stop(q)
    <3>1. PICK r \in LiveRuns(job[q].id) :
            job' = [job EXCEPT ![q].old = Loaded(q), ![q].new = Ended(Loaded(q)), ![q].run = r]
      BY <2>6 DEF Stop
    <3> QED BY <1>0, <1>3, <3>1 DEF TypeOK, Job
  <2> QED BY <2>1, <2>2, <2>3, <2>4, <2>5, <2>6, <2>7
<1>5. ASSUME Respawn(q)
      PROVE  /\ pc'[q] = "launch" /\ job[q].op = "respawn"
             /\ LiveRuns(job[q].id) = {} /\ record[job[q].id] # None
  BY <1>0, <1>1, <1>3, <1>5, ConstantsAssumption
     DEF Respawn, Enter, CanRespawn, Go, TypeOK
<1>6. ASSUME Rename(q)
      PROVE  pc'[q] \in {"save", "tmuxRename"} /\ job[q].op = "rename"
  BY <1>6, RenameTurns
<1>7. ASSUME Stop(q)
      PROVE  pc'[q] = "deliver" /\ job[q].op = "stop" /\ job'[q].run \in LiveRuns(job[q].id)
  <2>1. PICK r \in LiveRuns(job[q].id) :
          job' = [job EXCEPT ![q].old = Loaded(q), ![q].new = Ended(Loaded(q)), ![q].run = r]
    BY <1>7 DEF Stop
  <2>2. job'[q].run = r
    BY <1>0, <2>1 DEF TypeOK, Job
  <2> QED BY <1>0, <1>7, <2>1, <2>2 DEF Stop, Enter, Go, TypeOK
<1>8. ASSUME StopVanished(q)
      PROVE  pc'[q] = "save" /\ job[q].op = "stop" /\ LiveRuns(job[q].id) = {}
  BY <1>0, <1>8 DEF StopVanished, Enter, MarkExited, Go, TypeOK
<1>9. ASSUME Refresh(q)
      PROVE  pc'[q] = "save" /\ job[q].op = "refresh" /\ LiveRuns(job[q].id) = {}
  BY <1>0, <1>9 DEF Refresh, Enter, MarkExited, Go, TypeOK
<1>10. ASSUME Hook(q)
       PROVE  pc'[q] = "save" /\ job[q].op = "hook" /\ job'[q].run = job[q].run
  <2>1. PICK s \in HookStates \cup {Loaded(q).state}, d \in Data :
          Prepare(q, [Loaded(q) EXCEPT !.state = s, !.data = d])
    BY <1>10 DEF Hook
  <2>2. job'[q].run = job[q].run
    BY <1>0, <2>1 DEF Prepare, TypeOK, Job
  <2> QED BY <1>0, <1>10, <2>2 DEF Hook, Enter, Go, TypeOK
<1>11. ASSUME Interrupt(q)
       PROVE  pc'[q] = "save" /\ job[q].op = "interrupt"
  BY <1>0, <1>11 DEF Interrupt, Enter, Go, TypeOK
<1>12. ASSUME Update(q)
       PROVE  pc'[q] = "save" /\ job[q].op = "update"
  BY <1>0, <1>12 DEF Update, Enter, Go, TypeOK
<1> QED BY <1>3, <1>4, <1>5, <1>6, <1>7, <1>8, <1>9, <1>10, <1>11, <1>12

(* A stop after its input, and a save that is not the end. *)
LEMMA StopTurns ==
  ASSUME IInv, NEW q \in Procs
  PROVE  /\ StopTyped(q) => /\ pc[q] = "deliver" /\ pc'[q] = "save" /\ job[q].op = "stop"
                            /\ job'[q].op = "stop" /\ job'[q].id = job[q].id
                            /\ job'[q].run = job[q].run /\ job'[q].then = "leaving"
         /\ StopKilled(q) => /\ pc[q] = "deliver" /\ pc'[q] = "save" /\ job[q].op = "stop"
                             /\ job'[q].op = "stop" /\ job'[q].id = job[q].id
                             /\ job'[q].run = job[q].run
                             /\ runs[job[q].run].open => job'[q].then = "killing"
                             /\ ~runs[job[q].run].open => job'[q].then = "idle"
         /\ LeaveTimeout(q) => /\ pc[q] = "leaving" /\ pc'[q] = "killing" /\ job'[q] = job[q]
                               /\ job[q].op = "stop"
         /\ SaveGoesOn(q) => /\ pc[q] = "save" /\ pc'[q] = job[q].then
                             /\ job'[q].op = job[q].op /\ job'[q].id = job[q].id
                             /\ job'[q].run = job[q].run /\ job'[q].todo = job[q].todo
                             /\ job'[q].then = "idle"
                             /\ \/ job[q].op = "stop" /\ job[q].then \in {"leaving", "killing"}
                                \/ job[q].op = "refreshAll" /\ job[q].then = "listed"
<1>0. TypeOK /\ job[q] \in Job /\ Relies(q)
  BY DEF IInv, TypeOK
<1>1. ASSUME StopTyped(q)
      PROVE  /\ pc[q] = "deliver" /\ pc'[q] = "save" /\ job[q].op = "stop"
             /\ job'[q].op = "stop" /\ job'[q].id = job[q].id
             /\ job'[q].run = job[q].run /\ job'[q].then = "leaving"
  <2>1. pc[q] = "deliver" /\ pc'[q] = "save" /\ job[q].op = "stop"
    BY <1>0, <1>1 DEF StopTyped, Go, TypeOK, Relies, Walk
  <2>2. job'[q] = [job[q] EXCEPT !.then = "leaving"]
    BY <1>0, <1>1 DEF StopTyped, TypeOK
  <2> QED BY <1>0, <2>1, <2>2 DEF Job
<1>2. ASSUME StopKilled(q)
      PROVE  /\ pc[q] = "deliver" /\ pc'[q] = "save" /\ job[q].op = "stop"
             /\ job'[q].op = "stop" /\ job'[q].id = job[q].id
             /\ job'[q].run = job[q].run
             /\ runs[job[q].run].open => job'[q].then = "killing"
             /\ ~runs[job[q].run].open => job'[q].then = "idle"
  <2>1. pc[q] = "deliver" /\ pc'[q] = "save" /\ job[q].op = "stop"
    BY <1>0, <1>2 DEF StopKilled, Go, TypeOK, Relies, Walk
  <2> DEFINE then == IF runs[job[q].run].open THEN "killing" ELSE "idle"
  <2>2. job'[q] = [job[q] EXCEPT !.then = then]
    BY <1>0, <1>2 DEF StopKilled, TypeOK
  <2>3. /\ job'[q].op = job[q].op /\ job'[q].id = job[q].id
        /\ job'[q].run = job[q].run /\ job'[q].then = then
    BY <1>0, <2>2 DEF Job
  <2> QED BY <1>0, <2>1, <2>3
<1>3. ASSUME LeaveTimeout(q)
      PROVE  /\ pc[q] = "leaving" /\ pc'[q] = "killing" /\ job'[q] = job[q]
             /\ job[q].op = "stop"
  BY <1>0, <1>3 DEF LeaveTimeout, Go, TypeOK, Relies, Walk
<1>4. ASSUME SaveGoesOn(q)
      PROVE  /\ pc[q] = "save" /\ pc'[q] = job[q].then
             /\ job'[q].op = job[q].op /\ job'[q].id = job[q].id
             /\ job'[q].run = job[q].run /\ job'[q].todo = job[q].todo
             /\ job'[q].then = "idle"
             /\ \/ job[q].op = "stop" /\ job[q].then \in {"leaving", "killing"}
                \/ job[q].op = "refreshAll" /\ job[q].then = "listed"
  <2>1. pc[q] = "save" /\ pc'[q] = job[q].then
    BY <1>0, <1>4 DEF SaveGoesOn, Save, Go, TypeOK
  <2>2. job'[q] = [job[q] EXCEPT !.old = None, !.new = None, !.then = "idle"]
    BY <1>0, <1>4 DEF SaveGoesOn, Save, TypeOK, Job
  <2>3. \/ job[q].op = "stop" /\ job[q].then \in {"leaving", "killing"}
        \/ job[q].op = "refreshAll" /\ job[q].then = "listed"
    BY <1>0, <1>4 DEF SaveGoesOn, Relies, Walk
  <2> QED BY <1>0, <2>1, <2>2, <2>3 DEF Job
<1> QED BY <1>1, <1>2, <1>3, <1>4

LEMMA RefreshTurns ==
  ASSUME IInv, NEW q \in Procs
  PROVE  /\ Scan(q) => /\ pc'[q] = "scanned" /\ job'[q].op = "refreshAll"
                       /\ job'[q].then = "idle" /\ runs' = runs
                       /\ job'[q].todo = {i \in Ids : Running(record[i])}
         /\ List(q) => /\ pc[q] = "scanned" /\ pc'[q] = "listed"
                       /\ job'[q].op = "refreshAll" /\ job'[q].then = "idle" /\ runs' = runs
                       /\ job'[q].todo = {i \in job[q].todo : LiveRuns(i) = {}}
         /\ RefreshNext(q) => /\ pc[q] = "listed" /\ pc'[q] \in {"listed", "save"}
                              /\ job'[q].op = "refreshAll" /\ runs' = runs
                              /\ pc'[q] = "listed" => job'[q].then = "idle"
                              /\ job'[q].then \in {"idle", "listed"}
                              /\ job'[q].todo \subseteq job[q].todo
                              /\ pc'[q] = "save" => job'[q].id \in job[q].todo
<1>0. TypeOK /\ job[q] \in Job /\ Relies(q)
  BY DEF IInv, TypeOK
<1>1. ASSUME Scan(q)
      PROVE  /\ pc'[q] = "scanned" /\ job'[q].op = "refreshAll"
             /\ job'[q].then = "idle" /\ runs' = runs
             /\ job'[q].todo = {i \in Ids : Running(record[i])}
  <2>1. job'[q] = [NoJob EXCEPT !.op = "refreshAll", !.todo = {i \in Ids : Running(record[i])}]
    BY <1>0, <1>1 DEF Scan, TypeOK
  <2>2. pc'[q] = "scanned" /\ runs' = runs
    BY <1>0, <1>1 DEF Scan, Go, TypeOK, tmuxVars
  <2> QED BY <2>1, <2>2 DEF NoJob
<1>2. ASSUME List(q)
      PROVE  /\ pc[q] = "scanned" /\ pc'[q] = "listed"
             /\ job'[q].op = "refreshAll" /\ job'[q].then = "idle" /\ runs' = runs
             /\ job'[q].todo = {i \in job[q].todo : LiveRuns(i) = {}}
  <2>1. pc[q] = "scanned" /\ pc'[q] = "listed" /\ runs' = runs
    BY <1>0, <1>2 DEF List, Go, TypeOK, tmuxVars
  <2>2. job'[q] = [job[q] EXCEPT !.todo = {i \in job[q].todo : LiveRuns(i) = {}}]
    BY <1>0, <1>2 DEF List, TypeOK, Job
  <2>3. job[q].op = "refreshAll" /\ job[q].then = "idle"
    BY <1>0, <2>1 DEF Relies, Walk
  <2> QED BY <1>0, <2>1, <2>2, <2>3 DEF Job
<1>3. ASSUME RefreshNext(q)
      PROVE  /\ pc[q] = "listed" /\ pc'[q] \in {"listed", "save"}
             /\ job'[q].op = "refreshAll" /\ runs' = runs
             /\ pc'[q] = "listed" => job'[q].then = "idle"
             /\ job'[q].then \in {"idle", "listed"}
             /\ job'[q].todo \subseteq job[q].todo
             /\ pc'[q] = "save" => job'[q].id \in job[q].todo
  <2>1. pc[q] = "listed" /\ runs' = runs
    BY <1>3 DEF RefreshNext, tmuxVars
  <2>2. job[q].op = "refreshAll" /\ job[q].then = "idle"
    BY <1>0, <2>1 DEF Relies, Walk
  <2>3. PICK i \in job[q].todo :
          \/ /\ Go(q, "save")
             /\ job' = [job EXCEPT ![q].id = i, ![q].todo = @ \ {i}, ![q].then = "listed",
                                   ![q].old = record[i], ![q].new = Ended(record[i])]
          \/ /\ UNCHANGED pc
             /\ job' = [job EXCEPT ![q].todo = @ \ {i}]
    BY <1>3 DEF RefreshNext
  <2>4. CASE /\ Go(q, "save")
             /\ job' = [job EXCEPT ![q].id = i, ![q].todo = @ \ {i}, ![q].then = "listed",
                                   ![q].old = record[i], ![q].new = Ended(record[i])]
    <3>1. pc'[q] = "save"
      BY <1>0, <2>4 DEF Go, TypeOK
    <3>2. /\ job'[q].op = job[q].op /\ job'[q].then = "listed" /\ job'[q].id = i
          /\ job'[q].todo = job[q].todo \ {i}
      BY <1>0, <2>4 DEF TypeOK, Job
    <3> QED BY <2>1, <2>2, <3>1, <3>2
  <2>5. CASE /\ UNCHANGED pc
             /\ job' = [job EXCEPT ![q].todo = @ \ {i}]
    <3>1. /\ job'[q].op = job[q].op /\ job'[q].then = job[q].then
          /\ job'[q].todo = job[q].todo \ {i}
      BY <1>0, <2>5 DEF TypeOK, Job
    <3> QED BY <2>1, <2>2, <2>5, <3>1
  <2> QED BY <2>3, <2>4, <2>5
<1> QED BY <1>1, <1>2, <1>3

----------------------------------------------------------------------------
(* The bounds, the ids and what is on disk. *)

(* The budgets only fall; what has been used stays used. *)
LEMMA BudgetFalls ==
  ASSUME IInv, [Next]_vars
  PROVE  \A k \in BudgetKeys :
           budget[k] \in Nat /\ budget'[k] \in Nat /\ budget'[k] <= budget[k]
<1>0. TypeOK /\ budget \in [BudgetKeys -> Nat]
  BY DEF IInv, TypeOK
<1>1. CASE UNCHANGED budget
  BY <1>0, <1>1
<1>2. ASSUME NEW k \in BudgetKeys, Spend(k)
      PROVE  \A l \in BudgetKeys :
               budget[l] \in Nat /\ budget'[l] \in Nat /\ budget'[l] <= budget[l]
  <2>1. ASSUME NEW l \in BudgetKeys
        PROVE  budget[l] \in Nat /\ budget'[l] \in Nat /\ budget'[l] <= budget[l]
    <3>1. budget[l] \in Nat
      BY <1>0
    <3>2. l = k => budget'[l] = budget[l] - 1 /\ budget[l] > 0
      BY <1>0, <1>2 DEF Spend
    <3>3. l # k => budget'[l] = budget[l]
      BY <1>0, <1>2 DEF Spend
    <3> QED BY <3>1, <3>2, <3>3
  <2> QED BY <2>1
<1>3. UNCHANGED budget \/ \E k \in {"ops", "faults", "crashes", "closes"} : Spend(k)
  <2>1. CASE Environment
    BY <2>1 DEF Environment, ProcessExits, Dies, SessionClosed
  <2>2. ASSUME NEW p \in Procs, BeginAny(p) \/ Step(p) \/ Crash(p)
        PROVE  UNCHANGED budget \/ \E k \in {"ops", "faults", "crashes", "closes"} : Spend(k)
    <3>1. CASE BeginAny(p) \/ Crash(p)
      BY <3>1 DEF BeginAny, BeginCreate, BeginOnAgent, BeginHook, Begin, Scan, Crash
    <3>2. CASE CreateStep(p)
      BY <3>2 DEF CreateStep, TakeCreateLock, ForkSnapshot, NewAgent, NoFreeName, Launch,
                  PrepareFails, LaunchFails, Link, LinkVanished, LinkFails, Undo
    <3>3. CASE NameStep(p)
      BY <3>3 DEF NameStep, Respawn, RespawnRefused, Rename, RenameRefused, TmuxRename,
                  TmuxRenameFails, Enter, Refuse
    <3>4. CASE EndStep(p)
      BY <3>4 DEF EndStep, Stop, StopVanished, StopRefused, StopTyped, StopKilled,
                  DeliverFails, LeaveFails, ProcessLeft, LeaveTimeout, KillTimeout, Refresh,
                  RefreshUnchanged, List, RefreshNext, RefreshDone, Enter, Refuse, Dies
    <3>5. CASE MoveStep(p)
      BY <3>5 DEF MoveStep, Hook, HookIgnored, Interrupt, InterruptRefused, Update,
                  Enter, Refuse
    <3>6. CASE Save(p) \/ SaveFails(p) \/ InspectionFails(p)
      BY <3>6 DEF Save, SaveFails, InspectionFails
    <3> QED BY <2>2, <3>1, <3>2, <3>3, <3>4, <3>5, <3>6 DEF Step
  <2>3. CASE UNCHANGED vars
    BY <2>3 DEF vars
  <2> QED BY <2>1, <2>2, <2>3 DEF Next
<1> QED BY <1>1, <1>2, <1>3 DEF BudgetKeys

LEMMA UsedGrows ==
  ASSUME IInv, Counted, [Next]_vars, NEW k \in BudgetKeys
  PROVE  /\ Used(k) \in Nat /\ Used(k)' \in Nat /\ Used(k) <= Used(k)'
         /\ Spend(k) => Used(k)' = Used(k) + 1
<1>1. /\ budget[k] \in Nat /\ budget'[k] \in Nat /\ budget'[k] <= budget[k]
      /\ budget[k] <= Budget[k] /\ Budget[k] \in Nat
  BY BudgetFalls, ConstantsAssumption DEF Counted
<1>2. Spend(k) => budget'[k] = budget[k] - 1
  BY DEF Spend, IInv, TypeOK
<1> QED BY <1>1, <1>2 DEF Used

(* Only NewAgent mints an id and makes a worktree, only Launch a profile. *)
LEMMA DiskStep ==
  ASSUME [Next]_vars
  PROVE  \/ minted' = minted /\ worktrees' \subseteq worktrees /\ profiles' \subseteq profiles
         \/ \E p \in Procs : NewAgent(p) \/ Launch(p)
<1>1. CASE Environment \/ UNCHANGED vars
  BY <1>1 DEF Environment, ProcessExits, Dies, SessionClosed, vars, diskVars
<1>2. ASSUME NEW p \in Procs, BeginAny(p) \/ Step(p) \/ Crash(p), ~NewAgent(p), ~Launch(p)
      PROVE  minted' = minted /\ worktrees' \subseteq worktrees /\ profiles' \subseteq profiles
  <2>1. CASE BeginAny(p) \/ Crash(p)
    BY <2>1 DEF BeginAny, BeginCreate, BeginOnAgent, BeginHook, Begin, Scan, Crash, diskVars
  <2>2. CASE CreateStep(p)
    BY <1>2, <2>2 DEF CreateStep, TakeCreateLock, ForkSnapshot, NoFreeName,
                PrepareFails, LaunchFails, Link, LinkVanished, LinkFails, Undo, Abandon,
                GiveUp, diskVars
  <2>3. CASE NameStep(p)
    BY <2>3 DEF NameStep, Respawn, RespawnRefused, Rename, RenameRefused, TmuxRename,
                TmuxRenameFails, Enter, Refuse, diskVars
  <2>4. CASE EndStep(p)
    BY <2>4 DEF EndStep, Stop, StopVanished, StopRefused, StopTyped, StopKilled, DeliverFails, LeaveFails,
                ProcessLeft, LeaveTimeout, KillTimeout, Refresh, RefreshUnchanged, List,
                RefreshNext, RefreshDone, Enter, Refuse, Dies, diskVars
  <2>5. CASE MoveStep(p) \/ InspectionFails(p) \/ Save(p) \/ SaveFails(p)
    BY <2>5 DEF MoveStep, Hook, HookIgnored, Interrupt, InterruptRefused, Update,
                InspectionFails, Save, SaveFails, Enter, Refuse, diskVars
  <2> QED BY <1>2, <2>1, <2>2, <2>3, <2>4, <2>5 DEF Step
<1> QED BY <1>1, <1>2 DEF Next

LEMMA CountedStep ==
  ASSUME IInv, \A p \in Procs : RunsOf(p), Counted, [Next]_vars
  PROVE  Counted'
<1>0. /\ started \in Nat /\ Runs \subseteq Nat /\ TypeOK
      /\ \A p \in Procs : OwnRun(p) /\ RenamedRun(p)
  BY ConstantsAssumption DEF IInv, TypeOK, Runs, RunsOf
<1>1. minted \subseteq minted' /\ worktrees' \subseteq minted' /\ profiles' \subseteq minted'
  <2>1. ASSUME NEW p \in Procs, NewAgent(p)
        PROVE  minted \subseteq minted' /\ worktrees' \subseteq minted' /\ profiles' \subseteq minted'
    BY <2>1, LaunchTurns DEF Counted
  <2>2. ASSUME NEW p \in Procs, Launch(p)
        PROVE  minted \subseteq minted' /\ worktrees' \subseteq minted' /\ profiles' \subseteq minted'
    <3>1. /\ minted' = minted /\ worktrees' = worktrees /\ job[p].id \in minted
          /\ profiles' = profiles \cup {job[p].id}
      BY <2>2, LaunchRuns
    <3> QED BY <3>1 DEF Counted
  <2> QED BY <2>1, <2>2, DiskStep DEF Counted
<1>2. ASSUME NEW r \in Runs
      PROVE  /\ r <= started' => runs'[r].id \in minted'
             /\ r > started' => runs'[r].id = None
  <2>1. CASE started' = started /\ \A s \in Runs : Fades(runs[s], runs'[s])
    <3>1. runs'[r].id = runs[r].id
      BY <2>1 DEF Fades
    <3> QED BY <1>0, <1>1, <2>1, <3>1 DEF Counted
  <2>2. ASSUME NEW p \in Procs, Launch(p)
        PROVE  /\ r <= started' => runs'[r].id \in minted'
               /\ r > started' => runs'[r].id = None
    <3>1. /\ started' = started + 1 /\ job[p].id \in minted
          /\ runs'[started + 1] = [id |-> job[p].id, name |-> job[p].new.name,
                                   open |-> TRUE, linked |-> FALSE, alive |-> TRUE]
          /\ r # started + 1 => runs'[r] = runs[r]
      BY <2>2, LaunchRuns
    <3>2. runs'[started + 1].id = job[p].id
      BY <3>1
    <3> QED BY <1>0, <1>1, <3>1, <3>2 DEF Counted
  <2>3. ASSUME NEW p \in Procs, Link(p)
        PROVE  /\ r <= started' => runs'[r].id \in minted'
               /\ r > started' => runs'[r].id = None
    BY <1>0, <1>1, <2>3, LinkRuns DEF Counted
  <2>4. ASSUME NEW p \in Procs, TmuxRename(p)
        PROVE  /\ r <= started' => runs'[r].id \in minted'
               /\ r > started' => runs'[r].id = None
    <3>1. started' = started /\ runs'[r].id = runs[r].id
      BY <1>0, <2>4, RenameRuns
    <3> QED BY <1>0, <1>1, <3>1 DEF Counted
  <2> QED BY <2>1, <2>2, <2>3, <2>4, RunsStep, <1>0
<1>3. \A k \in BudgetKeys : budget'[k] <= Budget[k]
  <2>1. \A k \in BudgetKeys : Budget[k] \in Nat
    BY ConstantsAssumption
  <2> QED BY <2>1, BudgetFalls DEF Counted
<1> QED BY <1>1, <1>2, <1>3 DEF Counted

----------------------------------------------------------------------------
(* What a process relies on in tmux stays true: the program it started. *)

LEMMA NotLaunched ==
  ASSUME IInv, \A p \in Procs : RunsOf(p), NEW q \in Procs, Moves(q),
         ~Launch(q), ~Link(q), ~LinkVanished(q), ~LinkFails(q), ~SaveUndone(q)
  PROVE  ~Launched(q)'
<1>1. CASE Waits(q)
  BY <1>1 DEF Waits, Launched
<1>2. CASE Scan(q) \/ List(q) \/ RefreshNext(q)
  BY <1>2, RefreshTurns DEF Launched
<1>3. CASE NewAgent(q)
  BY <1>3, LaunchTurns DEF Launched
<1>4. CASE \/ Respawn(q) \/ Rename(q) \/ Stop(q) \/ StopVanished(q) \/ Refresh(q)
           \/ Hook(q) \/ Interrupt(q) \/ Update(q)
  BY <1>4, LoadTurns DEF Launched
<1>5. CASE TmuxRename(q)
  <2>1. pc'[q] = "save" /\ job[q].op = "rename" /\ job' = job
    BY <1>5, RenameRuns DEF RunsOf
  <2> QED BY <2>1 DEF Launched
<1>6. CASE StopTyped(q) \/ StopKilled(q) \/ LeaveTimeout(q) \/ SaveGoesOn(q)
  BY <1>6, StopTurns DEF Launched
<1> QED BY <1>1, <1>2, <1>3, <1>4, <1>5, <1>6 DEF Moves

(* Who has a program going holds create.lock; whoever has it holds it too. *)
LEMMA LaunchedHolds ==
  ASSUME IInv, NEW q \in Procs, Launched(q) \/ pc[q] = "launch"
  PROVE  /\ createLock = q /\ job[q].op \in {"create", "respawn"}
         /\ job[q].id \in Ids
         /\ pc[q] # "undo" => job[q].id \in minted
BY DEF IInv, Relies, Walk, Locked, Target, Faithful, HoldsCreateLock, NamingOps, Launched,
       Prepared

LEMMA LaunchedSame ==
  ASSUME IInv, \A p \in Procs : RunsOf(p), [Next]_vars, NEW q \in Procs,
         Launched(q) \/ pc[q] = "launch", Same(q)
  PROVE  started' = started /\ \A r \in Runs : Fades(runs[r], runs'[r])
<1>1. createLock = q
  BY LaunchedHolds
<1>2. ~Launch(q)
  <2>1. Launch(q) => pc[q] = "launch" /\ pc'[q] = "link"
    BY LaunchRuns
  <2> QED BY <2>1 DEF Same
<1>3. ~Link(q)
  <2>1. Link(q) => pc[q] = "link" /\ pc'[q] = "save"
    BY LinkRuns DEF RunsOf
  <2> QED BY <2>1 DEF Same
<1>4. ~TmuxRename(q)
  <2>1. TmuxRename(q) => pc[q] = "tmuxRename"
    BY DEF TmuxRename
  <2>2. pc[q] # "tmuxRename"
    BY DEF Launched
  <2> QED BY <2>1, <2>2
<1> QED BY <1>1, <1>2, <1>3, <1>4, HolderSees DEF RunsOf

LEMMA OwnRunStep ==
  ASSUME IInv, \A p \in Procs : RunsOf(p), Counted, [Next]_vars, NEW q \in Procs
  PROVE  OwnRun(q)'
<1> SUFFICES ASSUME Launched(q)' PROVE OwnRun(q)'
  BY DEF OwnRun
<1>0. OwnRun(q) /\ TypeOK /\ Relies(q)
  BY DEF RunsOf, IInv
<1>1. CASE Same(q)
  <2>1. Launched(q)
    BY <1>1 DEF Launched, Same
  <2>2. started' = started /\ \A r \in Runs : Fades(runs[r], runs'[r])
    BY <1>1, <2>1, LaunchedSame
  <2> QED BY <1>0, <1>1, <2>1, <2>2 DEF OwnRun, Same, Fades
<1>2. CASE Left(q)
  BY <1>2 DEF Left, Launched
<1>3. CASE Launch(q)
  <2>1. /\ started' = started + 1 /\ started + 1 \in Runs
        /\ runs'[started + 1] = [id |-> job[q].id, name |-> job[q].new.name,
                                 open |-> TRUE, linked |-> FALSE, alive |-> TRUE]
        /\ \A r \in Runs : r # started + 1 => runs'[r] = runs[r]
        /\ \A r \in Runs : runs[r].open => runs[r].name # job[q].new.name
        /\ job' = job /\ pc'[q] = "link"
    BY <1>3, LaunchRuns
  <2>2. runs'[started + 1].id = job[q].id /\ runs'[started + 1].name = job[q].new.name
    BY <2>1
  <2> QED BY <2>1, <2>2 DEF OwnRun
<1>4. CASE Link(q)
  <2>1. /\ pc[q] = "link" /\ started \in Runs /\ started' = started
        /\ runs'[started].id = job[q].id /\ runs'[started].name = runs[started].name
        /\ runs'[started].linked
        /\ \A r \in Runs : r # started => runs'[r] = runs[r]
        /\ job' = job
    BY <1>0, <1>4, LinkRuns
  <2> QED BY <1>0, <2>1 DEF OwnRun, Launched
<1>5. CASE LinkVanished(q) \/ LinkFails(q) \/ SaveUndone(q)
  <2>1. CASE LinkVanished(q)
    <3>1. /\ pc[q] = "link" /\ pc'[q] = "save" /\ job'[q].id = job[q].id
          /\ job'[q].new.name = job[q].new.name /\ job'[q].new.state = "ended"
          /\ runs' = runs /\ started' = started
      BY <2>1, LaunchTurns DEF tmuxVars
    <3> QED BY <1>0, <3>1 DEF OwnRun, Launched
  <2>2. CASE LinkFails(q) \/ SaveUndone(q)
    <3>1. /\ Launched(q) /\ pc'[q] = "undo" /\ job'[q] = job[q]
          /\ runs' = runs /\ started' = started
      BY <2>2, LaunchTurns DEF tmuxVars, Launched
    <3> QED BY <1>0, <3>1 DEF OwnRun
  <2> QED BY <1>5, <2>1, <2>2
<1>6. CASE Moves(q) /\ ~Launch(q) /\ ~Link(q) /\ ~LinkVanished(q) /\ ~LinkFails(q)
           /\ ~SaveUndone(q)
  BY <1>6, NotLaunched
<1> QED BY <1>1, <1>2, <1>3, <1>4, <1>5, <1>6, Fate

LEMMA FreshRunStep ==
  ASSUME IInv, \A p \in Procs : RunsOf(p), Counted, [Next]_vars, NEW q \in Procs
  PROVE  FreshRun(q)'
<1>0. /\ FreshRun(q) /\ OwnRun(q) /\ TypeOK /\ Relies(q)
      /\ started \in Nat /\ Runs \subseteq Nat
      /\ None \notin Ids /\ minted \subseteq Ids
  BY ConstantsAssumption DEF RunsOf, IInv, TypeOK, Runs
<1>1. CASE ~Launched(q)' /\ pc'[q] # "launch"
  BY <1>1 DEF FreshRun, Launched
<1>2. CASE Same(q) /\ (Launched(q) \/ pc[q] = "launch")
  <2>1. started' = started /\ \A r \in Runs : Fades(runs[r], runs'[r])
    BY <1>2, LaunchedSame
  <2>2. ASSUME pc[q] = "launch" /\ job[q].op = "create"
        PROVE  job[q].id \notin profiles'
    <3>1. ASSUME NEW p \in Procs, NewAgent(p) \/ Launch(p)
          PROVE  profiles' \subseteq profiles
      <4>1. createLock = q
        BY <2>2, LaunchedHolds
      <4>2. CASE NewAgent(p)
        BY <4>2, LaunchTurns
      <4>3. CASE Launch(p)
        <5>1. p = q /\ pc'[p] = "link" /\ pc[q] = "launch"
          BY <2>2, <4>1, <4>3, LaunchRuns
        <5> QED BY <1>2, <5>1 DEF Same
      <4> QED BY <3>1, <4>2, <4>3
    <3> QED BY <1>0, <2>2, <3>1, DiskStep DEF FreshRun
  <2>3. pc'[q] = "undo" => Used("faults")' > 0
    BY <1>0, <1>2, UsedGrows DEF FreshRun, Same, BudgetKeys
  <2> QED BY <1>0, <1>2, <2>1, <2>2, <2>3 DEF FreshRun, Same, Fades, Launched
<1>3. CASE NewAgent(q)
  <2>1. /\ pc'[q] = "launch" /\ job'[q].op = "create"
        /\ job'[q].id \in Ids \ minted /\ runs' = runs /\ profiles' = profiles
    BY <1>3, LaunchTurns
  <2>2. ASSUME NEW r \in Runs
        PROVE  runs[r].id # job'[q].id
    <3>1. runs[r].id \in minted \/ runs[r].id = None
      <4>1. r <= started \/ r > started
        BY <1>0
      <4> QED BY <4>1 DEF Counted
    <3> QED BY <1>0, <2>1, <3>1
  <2> QED BY <2>1, <2>2 DEF FreshRun, Launched, Counted
<1>4. CASE Respawn(q)
  <2>1. /\ pc'[q] = "launch" /\ job'[q].op = "respawn" /\ runs' = runs
        /\ LiveRuns(job'[q].id) = {}
    BY <1>4, LoadTurns DEF tmuxVars
  <2> QED BY <2>1 DEF FreshRun, Launched, LiveRuns
<1>5. CASE Launch(q)
  <2>1. /\ pc[q] = "launch" /\ started' = started + 1 /\ started + 1 \in Runs
        /\ runs'[started + 1] = [id |-> job[q].id, name |-> job[q].new.name,
                                 open |-> TRUE, linked |-> FALSE, alive |-> TRUE]
        /\ \A r \in Runs : r # started + 1 => runs'[r] = runs[r]
        /\ job' = job /\ pc'[q] = "link"
    BY <1>5, LaunchRuns
  <2>2. runs'[started + 1].linked = FALSE
    BY <2>1
  <2> QED BY <1>0, <2>1, <2>2 DEF FreshRun, Launched
<1>6. CASE Link(q)
  <2>1. /\ pc[q] = "link" /\ pc'[q] = "save" /\ started' = started
        /\ \A r \in Runs : r # started => runs'[r] = runs[r]
        /\ job' = job /\ started \in Runs
    BY <1>0, <1>6, LinkRuns
  <2> QED BY <1>0, <2>1 DEF FreshRun, Launched
<1>7. CASE LinkVanished(q) \/ LinkFails(q) \/ SaveUndone(q)
  <2>1. /\ Launched(q) /\ pc'[q] \in {"save", "undo"}
        /\ job'[q].id = job[q].id /\ job'[q].op = job[q].op
        /\ runs' = runs /\ started' = started
        /\ pc'[q] = "undo" => Spend("faults")
    BY <1>7, LaunchTurns DEF Launched, tmuxVars
  <2>2. pc'[q] = "undo" => Used("faults")' > 0
    BY <2>1, UsedGrows DEF BudgetKeys
  <2> QED BY <1>0, <2>1, <2>2 DEF FreshRun, Launched
<1>8. CASE Moves(q) /\ ~Launch(q) /\ ~Link(q) /\ ~LinkVanished(q) /\ ~LinkFails(q)
           /\ ~SaveUndone(q) /\ ~NewAgent(q) /\ ~Respawn(q)
  <2>1. ~Launched(q)'
    BY <1>8, NotLaunched
  <2>2. pc'[q] # "launch"
    <3>1. CASE Waits(q)
      BY <3>1 DEF Waits
    <3>2. CASE Scan(q) \/ List(q) \/ RefreshNext(q)
      BY <3>2, RefreshTurns
    <3>3. CASE \/ Rename(q) \/ Stop(q) \/ StopVanished(q) \/ Refresh(q)
               \/ Hook(q) \/ Interrupt(q) \/ Update(q)
      BY <3>3, LoadTurns
    <3>4. CASE TmuxRename(q)
      BY <3>4, RenameRuns DEF RunsOf
    <3>5. CASE StopTyped(q) \/ StopKilled(q) \/ LeaveTimeout(q) \/ SaveGoesOn(q)
      BY <3>5, StopTurns
    <3> QED BY <1>8, <3>1, <3>2, <3>3, <3>4, <3>5 DEF Moves
  <2> QED BY <1>1, <2>1, <2>2
<1>9. CASE Left(q) \/ (Same(q) /\ ~Launched(q) /\ pc[q] # "launch")
  BY <1>1, <1>9 DEF Left, Same, Launched
<1> QED BY <1>2, <1>3, <1>4, <1>5, <1>6, <1>7, <1>8, <1>9, Fate

----------------------------------------------------------------------------
(* ... the session it renames, the sessions it looked for, the program it  *)
(* runs beside.                                                            *)

(* Which steps move the process of which operation. *)
LEMMA OpTurns ==
  ASSUME IInv, \A p \in Procs : RunsOf(p), NEW q \in Procs, Moves(q),
         pc'[q] \notin {"queue", "want"}
  PROVE  /\ job'[q].op = "rename" => Rename(q) \/ TmuxRename(q)
         /\ job'[q].op = "stop" => \/ Stop(q) \/ StopVanished(q) \/ StopTyped(q)
                                   \/ StopKilled(q) \/ LeaveTimeout(q) \/ SaveGoesOn(q)
         /\ job'[q].op = "refresh" => Refresh(q)
         /\ job'[q].op = "refreshAll" => \/ Scan(q) \/ List(q) \/ RefreshNext(q)
                                         \/ SaveGoesOn(q)
         /\ job'[q].op = "hook" => Hook(q)
         /\ job'[q].op \in {"create", "respawn"} =>
              \/ NewAgent(q) \/ Respawn(q) \/ Launch(q) \/ Link(q)
              \/ LinkVanished(q) \/ LinkFails(q) \/ SaveUndone(q)
<1>0. TypeOK /\ Relies(q) /\ OwnRun(q) /\ RenamedRun(q)
  BY DEF IInv, RunsOf
<1>1. CASE Waits(q)
  BY <1>1 DEF Waits
<1>2. CASE Scan(q) \/ List(q) \/ RefreshNext(q)
  <2>1. job'[q].op = "refreshAll"
    BY <1>2, RefreshTurns
  <2> QED BY <1>2, <2>1
<1>3. CASE NewAgent(q) \/ Launch(q) \/ Link(q) \/ LinkVanished(q) \/ LinkFails(q)
           \/ SaveUndone(q)
  <2>1. CASE NewAgent(q)
    BY <2>1, LaunchTurns
  <2>2. CASE Launch(q) \/ Link(q)
    <3>1. pc[q] \in {"launch", "link"} /\ job' = job
      BY <1>0, <2>2, LaunchRuns, LinkRuns
    <3>2. job[q].op \in {"create", "respawn"}
      BY <1>0, <3>1 DEF Relies, Walk
    <3> QED BY <2>2, <3>1, <3>2
  <2>3. CASE LinkVanished(q) \/ LinkFails(q)
    <3>1. pc[q] = "link" /\ job'[q].op = job[q].op
      BY <2>3, LaunchTurns
    <3>2. job[q].op \in {"create", "respawn"}
      BY <1>0, <3>1 DEF Relies, Walk
    <3> QED BY <2>3, <3>1, <3>2
  <2>4. CASE SaveUndone(q)
    BY <2>4, LaunchTurns
  <2> QED BY <1>3, <2>1, <2>2, <2>3, <2>4
<1>4. CASE \/ Respawn(q) \/ Rename(q) \/ Stop(q) \/ StopVanished(q) \/ Refresh(q)
           \/ Hook(q) \/ Interrupt(q) \/ Update(q)
  BY <1>4, LoadTurns
<1>5. CASE TmuxRename(q)
  <2>1. job[q].op = "rename" /\ job' = job
    BY <1>0, <1>5, RenameRuns
  <2> QED BY <1>5, <2>1
<1>6. CASE StopTyped(q) \/ StopKilled(q) \/ LeaveTimeout(q) \/ SaveGoesOn(q)
  BY <1>6, StopTurns
<1> QED BY <1>1, <1>2, <1>3, <1>4, <1>5, <1>6 DEF Moves

LEMMA NotWaiting ==
  ASSUME IInv, \A p \in Procs : RunsOf(p), NEW q \in Procs, Moves(q), ~Waits(q)
  PROVE  pc'[q] \notin {"queue", "want"}
<1>0. OwnRun(q) /\ RenamedRun(q)
  BY DEF RunsOf
<1>1. CASE Scan(q) \/ List(q) \/ RefreshNext(q)
  BY <1>1, RefreshTurns
<1>2. CASE NewAgent(q) \/ LinkVanished(q) \/ LinkFails(q) \/ SaveUndone(q)
  BY <1>2, LaunchTurns
<1>3. CASE Launch(q)
  BY <1>3, LaunchRuns
<1>4. CASE Link(q)
  BY <1>0, <1>4, LinkRuns
<1>5. CASE TmuxRename(q)
  BY <1>0, <1>5, RenameRuns
<1>6. CASE \/ Respawn(q) \/ Rename(q) \/ Stop(q) \/ StopVanished(q) \/ Refresh(q)
           \/ Hook(q) \/ Interrupt(q) \/ Update(q)
  BY <1>6, LoadTurns
<1>7. CASE StopTyped(q) \/ StopKilled(q) \/ LeaveTimeout(q) \/ SaveGoesOn(q)
  BY <1>7, StopTurns
<1> QED BY <1>1, <1>2, <1>3, <1>4, <1>5, <1>6, <1>7 DEF Moves

(* A session an agent has after a step it had before, or it was linked. *)
LEMMA LiveComes ==
  ASSUME IInv, \A p \in Procs : RunsOf(p), Counted, [Next]_vars,
         NEW r \in Runs, runs'[r].open, runs'[r].linked
  PROVE  /\ runs'[r].id = runs[r].id /\ runs[r].id \in Ids
         /\ \/ runs[r].open /\ runs[r].linked
            \/ /\ r = started
               /\ \E p \in Procs : Link(p) /\ pc[p] = "link" /\ runs[r].id = job[p].id
<1>0. /\ started \in Nat /\ Runs \subseteq Nat /\ None \notin Ids /\ Owned
      /\ \A p \in Procs : OwnRun(p) /\ RenamedRun(p)
  BY ConstantsAssumption DEF IInv, TypeOK, Runs, RunsOf
<1>1. \/ runs[r].open /\ runs[r].linked
      \/ r = started /\ \E p \in Procs : Link(p)
  BY <1>0, RunsGrow
<1>2. CASE runs[r].open /\ runs[r].linked
  <2>1. runs[r].id \in Ids
    BY <1>0, <1>2 DEF Owned
  <2>2. r <= started
    BY <1>0, <2>1 DEF Counted
  <2> QED BY <1>0, <1>2, <2>1, <2>2, RunsGrow
<1>3. ASSUME NEW p \in Procs, Link(p), r = started
      PROVE  runs'[r].id = runs[r].id /\ runs[r].id \in Ids /\ pc[p] = "link" /\ runs[r].id = job[p].id
  <2>1. runs'[started].id = job[p].id /\ runs[started].id = job[p].id /\ pc[p] = "link"
    BY <1>0, <1>3, LinkRuns
  <2>2. job[p].id \in Ids
    BY <2>1, LaunchedHolds DEF Launched
  <2> QED BY <1>3, <2>1, <2>2
<1> QED BY <1>1, <1>2, <1>3

(* A program that was started stays what it was. *)
LEMMA RunStays ==
  ASSUME IInv, \A p \in Procs : RunsOf(p), Counted, [Next]_vars,
         NEW r \in Runs, runs[r].id \in Ids
  PROVE  /\ r <= started /\ runs'[r].id = runs[r].id
         /\ runs[r].linked => runs'[r].linked
         /\ runs'[r].open => runs[r].open
         /\ runs'[r].alive => runs[r].alive
<1>0. /\ started \in Nat /\ Runs \subseteq Nat /\ None \notin Ids
      /\ \A p \in Procs : OwnRun(p) /\ RenamedRun(p)
  BY ConstantsAssumption DEF IInv, TypeOK, Runs, RunsOf
<1>1. r <= started
  BY <1>0 DEF Counted
<1> QED BY <1>0, <1>1, RunsGrow

LEMMA RenamedRunStep ==
  ASSUME IInv, \A p \in Procs : RunsOf(p), Counted, OneSession, [Next]_vars, NEW q \in Procs
  PROVE  RenamedRun(q)'
<1>0. RenamedRun(q) /\ TypeOK /\ Relies(q)
  BY DEF RunsOf, IInv
<1>1. CASE ~(pc'[q] = "tmuxRename" \/ (pc'[q] = "save" /\ job'[q].op = "rename"))
  BY <1>1 DEF RenamedRun
<1>2. CASE Same(q) /\ (pc[q] = "tmuxRename" \/ (pc[q] = "save" /\ job[q].op = "rename"))
  <2>1. createLock = q
    BY <1>0, <1>2 DEF Relies, Walk, Locked, HoldsCreateLock, NamingOps
  <2>2. ~Launch(q) /\ ~Link(q)
    BY <1>2 DEF Launch, Link
  <2>3. ~TmuxRename(q)
    <3>1. TmuxRename(q) => pc[q] = "tmuxRename" /\ pc'[q] = "save"
      BY <1>0, RenameRuns
    <3> QED BY <1>2, <3>1 DEF Same
  <2>4. \A r \in Runs : Fades(runs[r], runs'[r])
    BY <2>1, <2>2, <2>3, HolderSees DEF RunsOf
  <2> QED BY <1>0, <1>2, <2>4 DEF RenamedRun, Same, Fades
<1>3. CASE Rename(q)
  <2>1. /\ job'[q].id = job[q].id /\ runs' = runs
        /\ Running(job'[q].new) <=> Running(record[job[q].id])
        /\ \/ /\ pc'[q] = "save"
              /\ ~Running(record[job[q].id]) \/ LiveRuns(job[q].id) = {}
           \/ /\ pc'[q] = "tmuxRename"
              /\ Running(record[job[q].id])
              /\ job'[q].run \in LiveRuns(job[q].id)
    BY <1>3, RenameTurns, LoadTurns DEF tmuxVars
  <2>2. CASE pc'[q] = "save"
    BY <2>1, <2>2 DEF RenamedRun, LiveRuns
  <2>3. CASE pc'[q] = "tmuxRename"
    <3>1. Running(job'[q].new)
      BY <2>1, <2>3
    <3>2. /\ job'[q].run \in Runs /\ runs[job'[q].run].id = job[q].id
          /\ runs[job'[q].run].open /\ runs[job'[q].run].linked
      BY <2>1, <2>3 DEF LiveRuns
    <3> QED BY <2>1, <2>3, <3>1, <3>2 DEF RenamedRun, OneSession
  <2> QED BY <2>1, <2>2, <2>3
<1>4. CASE TmuxRename(q)
  <2>1. /\ pc[q] = "tmuxRename" /\ pc'[q] = "save" /\ job' = job
        /\ runs'[job[q].run].name = job[q].new.name
        /\ \A r \in Runs : /\ runs'[r].id = runs[r].id
                           /\ runs'[r].open = runs[r].open
                           /\ runs'[r].linked = runs[r].linked
    BY <1>0, <1>4, RenameRuns
  <2> QED BY <1>0, <2>1 DEF RenamedRun
<1>5. CASE Moves(q) /\ ~Rename(q) /\ ~TmuxRename(q)
  <2>1. job'[q].op # "rename" \/ pc'[q] \in {"queue", "want"}
    BY <1>5, OpTurns
  <2>2. pc'[q] # "tmuxRename"
    <3>1. Relies(q)'
      BY NextIInv DEF IInv
    <3> QED BY <2>1, <3>1 DEF Relies, Walk
  <2> QED BY <1>1, <2>1, <2>2
<1>6. CASE Left(q) \/ (Same(q) /\ ~(pc[q] = "tmuxRename" \/ (pc[q] = "save" /\ job[q].op = "rename")))
  BY <1>1, <1>6 DEF Left, Same
<1> QED BY <1>2, <1>3, <1>4, <1>5, <1>6, Fate

LEMMA GoneRunStep ==
  ASSUME IInv, \A p \in Procs : RunsOf(p), Counted, [Next]_vars, NEW q \in Procs
  PROVE  GoneRun(q)'
<1>0. GoneRun(q) /\ StopRun(q) /\ TypeOK /\ Relies(q)
  BY DEF RunsOf, IInv
<1> DEFINE At == \/ pc[q] = "save" /\ job[q].op = "refresh"
                 \/ pc[q] = "save" /\ job[q].op = "stop" /\ job[q].run = None
<1>1. CASE ~At'
  BY <1>1 DEF GoneRun
<1>2. CASE Same(q) /\ At
  <2>1. SUFFICES ASSUME NEW r \in Runs, runs'[r].id = job[q].id, runs'[r].open, runs'[r].linked
                 PROVE  FALSE
    BY <1>2, <2>1 DEF GoneRun, Same
  <2>2. runs[r].id = job[q].id
    BY <2>1, LiveComes
  <2>3. ~(runs[r].open /\ runs[r].linked)
    BY <1>0, <1>2, <2>2 DEF GoneRun
  <2>4. PICK p \in Procs : pc[p] = "link" /\ runs[r].id = job[p].id
    BY <2>1, <2>3, LiveComes
  <2>5. /\ record[job[q].id] = job[q].old /\ Change(job[q].op, job[q].old, job[q].new)
        /\ job[q].op \in {"refresh", "stop"}
    BY <1>0, <1>2 DEF Relies, Faithful, Prepared
  <2>6. record[job[q].id] # None /\ record[job[q].id].state # "ended"
    BY <2>5 DEF Change
  <2>7. /\ record[job[p].id] = job[p].old /\ Change(job[p].op, job[p].old, job[p].new)
        /\ job[p].op \in {"create", "respawn"}
    BY <2>4 DEF IInv, Relies, Faithful, Walk, Prepared
  <2>8. record[job[p].id] = None \/ record[job[p].id].state = "ended"
    BY <2>7 DEF Change
  <2> QED BY <2>2, <2>4, <2>6, <2>8
<1>3. CASE Refresh(q) \/ StopVanished(q)
  <2>1. runs' = runs /\ job'[q].id = job[q].id /\ LiveRuns(job[q].id) = {}
    BY <1>3, LoadTurns DEF tmuxVars
  <2> QED BY <2>1 DEF GoneRun, LiveRuns
<1>4. CASE Moves(q) /\ ~Refresh(q) /\ ~StopVanished(q)
  <2>1. ASSUME At' PROVE FALSE
    <3>1. pc'[q] = "save" /\ job'[q].op = "stop" /\ job'[q].run = None
      BY <1>4, <2>1, OpTurns
    <3>2. Stop(q) \/ StopTyped(q) \/ StopKilled(q) \/ LeaveTimeout(q) \/ SaveGoesOn(q)
      BY <1>4, <3>1, OpTurns
    <3>3. StopTyped(q) \/ StopKilled(q)
      BY <3>1, <3>2, LoadTurns, StopTurns
    <3>4. pc[q] = "deliver" /\ job'[q].run = job[q].run
      BY <3>3, StopTurns
    <3> QED BY <1>0, <3>1, <3>4, ConstantsAssumption DEF StopRun
  <2> QED BY <1>1, <2>1
<1>5. CASE Left(q) \/ (Same(q) /\ ~At)
  BY <1>1, <1>5 DEF Left, Same
<1> QED BY <1>2, <1>3, <1>4, <1>5, Fate

LEMMA ListedRunStep ==
  ASSUME IInv, \A p \in Procs : RunsOf(p), Counted, RecordedAfterLinked, [Next]_vars,
         NEW q \in Procs
  PROVE  ListedRun(q)'
<1>0. ListedRun(q) /\ TypeOK /\ Relies(q) /\ job[q].todo \subseteq Ids
  BY DEF RunsOf, IInv, TypeOK, Job
<1>1. ASSUME NEW i \in Ids, ClosedRun(i)
      PROVE  ClosedRun(i)'
  BY <1>1, RunStays DEF ClosedRun
<1>2. ASSUME NEW i \in Ids, NEW r \in Runs, runs[r].id = i, runs[r].linked
      PROVE  runs'[r].id = i /\ runs'[r].linked
  BY <1>2, RunStays
<1>3. CASE ~(pc'[q] \in {"scanned", "listed"} \/ (pc'[q] = "save" /\ job'[q].op = "refreshAll"))
  BY <1>3 DEF ListedRun
<1>4. CASE Same(q)
  <2>1. pc[q] = "save" => job[q].id \in Ids
    BY <1>0 DEF Relies, Target, Prepared
  <2> QED BY <1>0, <1>1, <1>2, <1>4, <2>1 DEF ListedRun, Same
<1>5. CASE Scan(q)
  <2>1. /\ pc'[q] = "scanned" /\ runs' = runs
        /\ job'[q].todo = {i \in Ids : Running(record[i])}
    BY <1>5, RefreshTurns
  <2>2. \A i \in job'[q].todo : \E r \in Runs : runs[r].id = i /\ runs[r].linked
    BY <2>1 DEF RecordedAfterLinked
  <2> QED BY <2>1, <2>2 DEF ListedRun
<1>6. CASE List(q)
  <2>1. /\ pc[q] = "scanned" /\ pc'[q] = "listed" /\ runs' = runs
        /\ job'[q].todo = {i \in job[q].todo : LiveRuns(i) = {}}
    BY <1>6, RefreshTurns
  <2>2. ASSUME NEW i \in job'[q].todo
        PROVE  ClosedRun(i)
    <3>1. i \in job[q].todo /\ LiveRuns(i) = {}
      BY <2>1
    <3>2. PICK r \in Runs : runs[r].id = i /\ runs[r].linked
      BY <1>0, <2>1, <3>1 DEF ListedRun
    <3> QED BY <3>1, <3>2 DEF ClosedRun, LiveRuns
  <2> QED BY <2>1, <2>2 DEF ListedRun, ClosedRun
<1>7. CASE RefreshNext(q)
  <2>1. /\ pc[q] = "listed" /\ pc'[q] \in {"listed", "save"} /\ runs' = runs
        /\ job'[q].todo \subseteq job[q].todo
        /\ pc'[q] = "save" => job'[q].id \in job[q].todo
    BY <1>7, RefreshTurns
  <2> QED BY <1>0, <2>1 DEF ListedRun, ClosedRun
<1>8. CASE SaveGoesOn(q) /\ job'[q].op = "refreshAll"
  <2>1. /\ pc[q] = "save" /\ job[q].op = "refreshAll" /\ pc'[q] = "listed"
        /\ job'[q].todo = job[q].todo
    BY <1>8, StopTurns
  <2> QED BY <1>0, <1>1, <2>1 DEF ListedRun
<1>9. CASE Moves(q) /\ ~Scan(q) /\ ~List(q) /\ ~RefreshNext(q)
           /\ ~(SaveGoesOn(q) /\ job'[q].op = "refreshAll")
  <2>1. job'[q].op # "refreshAll" \/ pc'[q] \in {"queue", "want"}
    BY <1>9, OpTurns
  <2>2. pc'[q] \notin {"scanned", "listed"}
    <3>1. Relies(q)'
      BY NextIInv DEF IInv
    <3> QED BY <2>1, <3>1 DEF Relies, Walk
  <2> QED BY <1>3, <2>1, <2>2
<1>10. CASE Left(q)
  BY <1>3, <1>10 DEF Left
<1> QED BY <1>4, <1>5, <1>6, <1>7, <1>8, <1>9, <1>10, Fate

(* A program that dies takes its hook commands along. *)
LEMMA DeathStep ==
  ASSUME IInv, \A p \in Procs : RunsOf(p), Counted, [Next]_vars,
         NEW r \in Runs, runs[r].alive, ~runs'[r].alive,
         NEW q \in HooksOf(r)
  PROVE  Left(q)
<1>0. /\ TypeOK /\ q \in Procs /\ runs[r].id \in Ids
      /\ \A p \in Procs : OwnRun(p) /\ RenamedRun(p)
  BY DEF IInv, Owned, HooksOf, RunsOf
<1>1. ASSUME NEW d, NEW S, Dies(d, S)
      PROVE  Left(q)
  <2>1. d = r
    BY <1>0, <1>1, DiesFades
  <2> QED BY <1>0, <1>1, <2>1, LeaveFate DEF Dies
<1>2. ASSUME NEW S, CloseSessions(S)
      PROVE  FALSE
  BY <1>0, <1>2, CloseFades
<1>3. runs' # runs
  OBVIOUS
<1>4. CASE Environment
  BY <1>1, <1>2, <1>4 DEF Environment, ProcessExits, SessionClosed
<1>5. ASSUME NEW p \in Procs, BeginAny(p) \/ Step(p) \/ Crash(p)
      PROVE  Left(q)
  <2>1. CASE BeginAny(p) \/ Crash(p)
    BY <1>3, <2>1 DEF BeginAny, BeginCreate, BeginOnAgent, BeginHook, Begin, Scan, Crash, tmuxVars
  <2>2. CASE Launch(p)
    <3>1. /\ r <= started /\ started \in Nat /\ Runs \subseteq Nat
      BY <1>0, RunStays, ConstantsAssumption DEF TypeOK, Runs
    <3>2. r # started + 1 => runs'[r] = runs[r]
      BY <2>2, LaunchRuns
    <3> QED BY <3>1, <3>2
  <2>3. CASE Link(p)
    <3>1. /\ runs'[started].alive = runs[started].alive
          /\ \A s \in Runs : s # started => runs'[s] = runs[s]
      BY <1>0, <2>3, LinkRuns
    <3> QED BY <3>1
  <2>4. CASE TmuxRename(p)
    <3>1. runs'[r].alive = runs[r].alive
      BY <1>0, <2>4, RenameRuns
    <3> QED BY <3>1
  <2>5. CASE CreateStep(p) /\ ~Launch(p) /\ ~Link(p)
    BY <1>2, <1>3, <2>5 DEF CreateStep, TakeCreateLock, ForkSnapshot, NewAgent, NoFreeName,
            PrepareFails, LaunchFails, LinkVanished, LinkFails, Undo, tmuxVars
  <2>6. CASE NameStep(p) /\ ~TmuxRename(p)
    BY <1>3, <2>6 DEF NameStep, Respawn, RespawnRefused, Rename, RenameRefused,
            TmuxRenameFails, Enter, Refuse, tmuxVars
  <2>7. CASE EndStep(p)
    BY <1>1, <1>2, <1>3, <2>7 DEF EndStep, Stop, StopVanished, StopRefused, StopTyped,
            StopKilled, DeliverFails, LeaveFails, ProcessLeft, LeaveTimeout, KillTimeout, Refresh,
            RefreshUnchanged, List, RefreshNext, RefreshDone, Enter, Refuse, tmuxVars
  <2>8. CASE MoveStep(p) \/ InspectionFails(p) \/ Save(p) \/ SaveFails(p)
    BY <1>3, <2>8 DEF MoveStep, Hook, HookIgnored, Interrupt, InterruptRefused, Update,
            InspectionFails, Save, SaveFails, Enter, Refuse, tmuxVars
  <2> QED BY <1>5, <2>1, <2>2, <2>3, <2>4, <2>5, <2>6, <2>7, <2>8 DEF Step
<1>6. CASE UNCHANGED vars
  BY <1>3, <1>6 DEF vars
<1> QED BY <1>4, <1>5, <1>6 DEF Next

LEMMA HookRunStep ==
  ASSUME IInv, \A p \in Procs : RunsOf(p), Counted, [Next]_vars, NEW q \in Procs
  PROVE  HookRun(q)'
<1>0. HookRun(q) /\ TypeOK /\ Relies(q) /\ Owned
  BY DEF RunsOf, IInv
<1>1. CASE pc'[q] = "idle" \/ job'[q].op # "hook"
  BY <1>1 DEF HookRun
<1>2. CASE Same(q) /\ pc[q] # "idle" /\ job[q].op = "hook"
  <2> DEFINE r == job[q].run
  <2>1. r \in Runs /\ runs[r].alive /\ runs[r].id = job[q].id /\ q \in HooksOf(r)
    BY <1>0, <1>2 DEF HookRun, HooksOf
  <2>2. runs'[r].alive
    BY <1>2, <2>1, DeathStep DEF Left, Same
  <2>3. runs'[r].id = job[q].id
    BY <1>0, <2>1, RunStays DEF Owned
  <2> QED BY <1>2, <2>1, <2>2, <2>3 DEF HookRun, Same
<1>3. CASE Waits(q) /\ job'[q].op = "hook"
  BY <1>3 DEF Waits, HookRun
<1>4. CASE Hook(q)
  <2>1. /\ pc[q] = "want" /\ job[q].op = "hook" /\ job'[q].run = job[q].run
        /\ job'[q].id = job[q].id /\ runs' = runs
    BY <1>4, LoadTurns DEF tmuxVars
  <2> QED BY <1>0, <2>1 DEF HookRun
<1>5. CASE Moves(q) /\ ~Hook(q) /\ ~(Waits(q) /\ job'[q].op = "hook")
  <2>1. job'[q].op # "hook"
    <3>1. CASE Waits(q)
      BY <1>5, <3>1
    <3>2. CASE ~Waits(q)
      BY <1>5, <3>2, NotWaiting, OpTurns
    <3> QED BY <3>1, <3>2
  <2> QED BY <1>1, <2>1
<1>6. CASE Left(q) \/ (Same(q) /\ ~(pc[q] # "idle" /\ job[q].op = "hook"))
  BY <1>1, <1>6 DEF Left, Same
<1> QED BY <1>2, <1>3, <1>4, <1>5, <1>6, Fate

LEMMA StopRunStep ==
  ASSUME IInv, \A p \in Procs : RunsOf(p), Counted, [Next]_vars, NEW q \in Procs
  PROVE  StopRun(q)'
<1>0. StopRun(q) /\ TypeOK /\ Relies(q) /\ Relies(q)'
  BY NextIInv DEF RunsOf, IInv
<1>1. CASE Same(q)
  BY <1>0, <1>1 DEF StopRun, Same
<1>2. CASE Stop(q)
  <2>1. pc'[q] = "deliver" /\ job'[q].run \in Runs
    BY <1>2, LoadTurns DEF LiveRuns
  <2> QED BY <2>1 DEF StopRun
<1>3. CASE StopTyped(q) \/ StopKilled(q) \/ LeaveTimeout(q)
  <2>1. pc[q] \in {"deliver", "leaving"} /\ job'[q].run = job[q].run
    BY <1>3, StopTurns
  <2> QED BY <1>0, <2>1 DEF StopRun
<1>4. CASE SaveGoesOn(q)
  <2>1. /\ pc[q] = "save" /\ pc'[q] = job[q].then /\ job'[q].run = job[q].run
        /\ job[q].then \in {"leaving", "killing", "listed"} /\ job'[q].then = "idle"
    BY <1>4, StopTurns
  <2> QED BY <1>0, <2>1 DEF StopRun
<1>5. CASE Left(q)
  BY <1>5 DEF Left, NoJob, StopRun
<1>6. CASE Moves(q) /\ ~Stop(q) /\ ~StopTyped(q) /\ ~StopKilled(q) /\ ~LeaveTimeout(q)
           /\ ~SaveGoesOn(q)
  <2>1. pc'[q] \in {"queue", "want"} \/ job'[q].op # "stop" \/ StopVanished(q)
    BY <1>6, OpTurns
  <2>2. CASE StopVanished(q)
    <3>1. pc'[q] = "save" /\ job'[q].then = "idle"
      BY <2>2, LoadTurns
    <3> QED BY <3>1 DEF StopRun
  <2>3. CASE pc'[q] \in {"queue", "want"} \/ job'[q].op # "stop"
    BY <1>0, <2>3 DEF StopRun, Relies, Walk
  <2> QED BY <2>1, <2>2, <2>3
<1> QED BY <1>1, <1>2, <1>3, <1>4, <1>5, <1>6, Fate

LEMMA RunsOfStep ==
  ASSUME IInv, \A p \in Procs : RunsOf(p), Counted, OneSession, RecordedAfterLinked, [Next]_vars
  PROVE  \A q \in Procs : RunsOf(q)'
BY OwnRunStep, FreshRunStep, RenamedRunStep, GoneRunStep, ListedRunStep, HookRunStep,
   StopRunStep DEF RunsOf

----------------------------------------------------------------------------
(* Steps seen from the place they are taken at. *)

LEMMA StepAt ==
  ASSUME NEW q \in Procs, Step(q)
  PROVE  /\ pc[q] = "launch" => Launch(q) \/ PrepareFails(q) \/ LaunchFails(q)
         /\ pc[q] = "link" => Link(q) \/ LinkVanished(q) \/ LinkFails(q)
         /\ pc[q] = "undo" => Undo(q)
         /\ pc[q] = "save" => Save(q) \/ SaveFails(q)
         /\ pc[q] \in {"leaving", "killing"} =>
              ProcessLeft(q) \/ LeaveTimeout(q) \/ LeaveFails(q) \/ KillTimeout(q)
<1>1. ASSUME pc[q] \in {"launch", "link", "undo", "save", "leaving", "killing"},
            ~Save(q), ~SaveFails(q)
      PROVE  \/ pc[q] = "launch" /\ (Launch(q) \/ PrepareFails(q) \/ LaunchFails(q))
             \/ pc[q] = "link" /\ (Link(q) \/ LinkVanished(q) \/ LinkFails(q))
             \/ pc[q] = "undo" /\ Undo(q)
             \/ /\ pc[q] \in {"leaving", "killing"}
                /\ ProcessLeft(q) \/ LeaveTimeout(q) \/ LeaveFails(q) \/ KillTimeout(q)
  <2>1. CASE CreateStep(q)
    <3>1. ~TakeCreateLock(q) /\ ~ForkSnapshot(q) /\ ~NewAgent(q) /\ ~NoFreeName(q)
      BY <1>1 DEF TakeCreateLock, ForkSnapshot, NewAgent, NoFreeName
    <3>2. /\ Launch(q) \/ PrepareFails(q) \/ LaunchFails(q) => pc[q] = "launch"
          /\ Link(q) \/ LinkVanished(q) \/ LinkFails(q) => pc[q] = "link"
          /\ Undo(q) => pc[q] = "undo"
      BY DEF Launch, PrepareFails, LaunchFails, Link, LinkVanished, LinkFails, Undo
    <3> QED BY <1>1, <2>1, <3>1, <3>2 DEF CreateStep
  <2>2. CASE NameStep(q)
    BY <1>1, <2>2 DEF NameStep, Respawn, RespawnRefused, Rename, RenameRefused, TmuxRename,
                TmuxRenameFails, Enter, Refuse
  <2>3. CASE EndStep(q)
    <3>1. /\ ~Stop(q) /\ ~StopVanished(q) /\ ~StopRefused(q) /\ ~StopTyped(q) /\ ~StopKilled(q)
          /\ ~DeliverFails(q) /\ ~Refresh(q) /\ ~RefreshUnchanged(q) /\ ~List(q)
          /\ ~RefreshNext(q) /\ ~RefreshDone(q)
      BY <1>1 DEF Stop, StopVanished, StopRefused, StopTyped, StopKilled, DeliverFails, LeaveFails, Refresh,
             RefreshUnchanged, List, RefreshNext, RefreshDone, Enter, Refuse
    <3>2. ProcessLeft(q) \/ LeaveTimeout(q) \/ LeaveFails(q) \/ KillTimeout(q)
            => pc[q] \in {"leaving", "killing"}
      BY DEF ProcessLeft, LeaveTimeout, LeaveFails, KillTimeout
    <3> QED BY <1>1, <2>3, <3>1, <3>2 DEF EndStep
  <2>4. CASE MoveStep(q) \/ InspectionFails(q)
    BY <1>1, <2>4 DEF MoveStep, Hook, HookIgnored, Interrupt, InterruptRefused, Update,
                InspectionFails, Enter, Refuse
  <2> QED BY <1>1, <2>1, <2>2, <2>3, <2>4 DEF Step
<1>2. Save(q) \/ SaveFails(q) => pc[q] = "save"
  BY DEF Save, SaveFails
<1> QED BY <1>1, <1>2

(* A process within an operation other than a hook moves by itself, or is  *)
(* killed.                                                                 *)
LEMMA StayAt ==
  ASSUME IInv, [Next]_vars, NEW q \in Procs, pc[q] # "idle", job[q].op # "hook"
  PROVE  Same(q) \/ Step(q) \/ Crash(q)
<1>1. CASE UNCHANGED vars
  BY <1>1 DEF vars, Same
<1>2. CASE Environment
  <2>1. PICK r \in Runs : ProcessExits(r) \/ SessionClosed(r)
    BY <1>2 DEF Environment
  <2>2. q \notin HooksOf(r) \cup {}
    BY DEF HooksOf
  <2> QED BY <2>1, <2>2, LeaveFate DEF ProcessExits, Dies, SessionClosed, Same
<1>3. ASSUME NEW p \in Procs, BeginAny(p) \/ Step(p) \/ Crash(p)
      PROVE  Same(q) \/ Step(q) \/ Crash(q)
  <2>1. CASE p # q
    BY <1>3, <2>1, OthersFate
  <2>2. ~BeginAny(q)
    BY DEF BeginAny, BeginCreate, BeginOnAgent, BeginHook, Begin, Scan
  <2> QED BY <1>3, <2>1, <2>2
<1> QED BY <1>1, <1>2, <1>3 DEF Next

(* A record that changes is saved by a process that is at it; tmux rests.  *)
LEMMA RecordStep ==
  ASSUME IInv, [Next]_vars, NEW i \in Ids, record'[i] # record[i]
  PROVE  \E p \in Procs : /\ pc[p] = "save" /\ job[p].id = i /\ record'[i] = job[p].new
                          /\ Save(p) \/ SaveFails(p)
                          /\ runs' = runs /\ started' = started
<1>0. record \in [Ids -> Record \cup {None}]
  BY DEF IInv, TypeOK
<1>1. ~Environment /\ ~UNCHANGED vars
  BY DEF Environment, ProcessExits, SessionClosed, Dies, diskVars, vars
<1>2. PICK p \in Procs : BeginAny(p) \/ Step(p) \/ Crash(p)
  BY <1>1 DEF Next
<1>3. Save(p) \/ SaveFails(p)
  BY <1>2, OnlySavesWrite
<1>4. pc[p] = "save" /\ WriteRecord(p) /\ runs' = runs /\ started' = started
  BY <1>3 DEF Save, SaveFails, tmuxVars
<1>5. job[p].id = i /\ record'[i] = job[p].new
  BY <1>0, <1>4 DEF WriteRecord
<1> QED BY <1>3, <1>4, <1>5

----------------------------------------------------------------------------
(* The invariants about all agents. *)

LEMMA OneSessionStep ==
  ASSUME IInv, \A p \in Procs : RunsOf(p), Counted, OneSession, [Next]_vars
  PROVE  OneSession'
<1> SUFFICES ASSUME NEW r \in Runs, NEW s \in Runs,
                    runs'[r].open, runs'[r].linked, runs'[s].open, runs'[s].linked,
                    runs'[r].id = runs'[s].id
             PROVE  r = s
  BY DEF OneSession
<1>1. runs[r].id = runs[s].id
  BY LiveComes
<1>2. ASSUME NEW a \in Runs, NEW b \in Runs, runs[a].open, runs[a].linked,
             NEW p \in Procs, pc[p] = "link", runs[b].id = job[p].id, runs[a].id = runs[b].id
      PROVE  FALSE
  BY <1>2 DEF RunsOf, FreshRun
<1>3. CASE runs[r].open /\ runs[r].linked /\ runs[s].open /\ runs[s].linked
  BY <1>1, <1>3 DEF OneSession
<1> QED BY <1>1, <1>2, <1>3, LiveComes

(* A process that saves: its record runs only if it did, or if its program *)
(* is linked.                                                              *)
LEMMA SavedRunning ==
  ASSUME IInv, NEW p \in Procs, pc[p] = "save", job[p].op \notin {"create", "respawn"},
         Running(job[p].new)
  PROVE  /\ Running(record[job[p].id])
         /\ job[p].op # "rename" => job[p].new.name = record[job[p].id].name
<1>1. /\ job[p].op \in Ops \ {"fork"} /\ job[p].id \in Ids /\ job[p].new \in Record
      /\ record[job[p].id] = job[p].old /\ job[p].old \in Record
      /\ Change(job[p].op, job[p].old, job[p].new)
  BY SaveFacts
<1>2. CASE job[p].op = "rename"
  <2>1. job[p].new = [job[p].old EXCEPT !.name = job[p].new.name]
    BY <1>1, <1>2 DEF Change
  <2>2. job[p].new.state = job[p].old.state
    BY <1>1, <2>1 DEF Record
  <2> QED BY <1>1, <1>2, <2>2, ConstantsAssumption DEF Running, Registry!Running
<1>3. CASE job[p].op # "rename"
  BY <1>1, <1>3, OtherChange
<1> QED BY <1>2, <1>3

(* ... and one that launches is about an agent that does not run.          *)
LEMMA LaunchingEnded ==
  ASSUME IInv, NEW p \in Procs, pc[p] \in {"launch", "link"}
  PROVE  ~Running(record[job[p].id])
<1>1. /\ record[job[p].id] = job[p].old /\ Change(job[p].op, job[p].old, job[p].new)
      /\ job[p].op \in {"create", "respawn"}
  BY DEF IInv, Relies, Faithful, Walk, Prepared
<1> QED BY <1>1 DEF Change, Running, Registry!Running

LEMMA RecordedStep ==
  ASSUME IInv, \A p \in Procs : RunsOf(p), Counted, RecordedAfterLinked, [Next]_vars
  PROVE  RecordedAfterLinked'
<1> SUFFICES ASSUME NEW i \in Ids, Running(record'[i])
             PROVE  \E r \in Runs :
                      /\ runs'[r].id = i /\ runs'[r].linked
                      /\ \A s \in Runs : runs'[s].id = i => s <= r
  BY DEF RecordedAfterLinked, Running, Registry!Running
<1>0. started \in Nat /\ Runs \subseteq Nat /\ None \notin Ids
  BY ConstantsAssumption DEF IInv, TypeOK, Runs
<1>1. CASE Running(record[i])
  <2>1. PICK r \in Runs : /\ runs[r].id = i /\ runs[r].linked
                          /\ \A s \in Runs : runs[s].id = i => s <= r
    BY <1>1 DEF RecordedAfterLinked
  <2>2. runs'[r].id = i /\ runs'[r].linked
    BY <2>1, RunStays
  <2>3. ASSUME NEW s \in Runs, runs'[s].id = i
        PROVE  s <= r
    <3>1. CASE runs[s].id = i
      BY <2>1, <3>1
    <3>2. CASE runs[s].id # i
      <4>1. PICK p \in Procs : Launch(p) /\ job[p].id = i
        BY <2>3, <3>2, RunsGrow DEF RunsOf
      <4>2. pc[p] = "launch"
        BY <4>1 DEF Launch
      <4> QED BY <1>1, <4>1, <4>2, LaunchingEnded
    <3> QED BY <3>1, <3>2
  <2> QED BY <2>2, <2>3
<1>2. CASE ~Running(record[i])
  <2>1. record'[i] # record[i]
    BY <1>2
  <2>2. PICK p \in Procs : /\ pc[p] = "save" /\ job[p].id = i /\ record'[i] = job[p].new
                           /\ runs' = runs /\ started' = started
    BY <2>1, RecordStep
  <2>3. job[p].op \in {"create", "respawn"}
    BY <1>2, <2>2, SavedRunning
  <2>4. job[p].new.state # "ended"
    BY <2>2 DEF Running, Registry!Running
  <2>5. started \in Runs /\ runs[started].id = i /\ runs[started].linked
    BY <2>2, <2>3, <2>4 DEF RunsOf, OwnRun, Launched
  <2>6. ASSUME NEW s \in Runs, runs[s].id = i
        PROVE  s <= started
    BY <1>0, <2>6 DEF Counted
  <2> QED BY <2>2, <2>5, <2>6
<1> QED BY <1>1, <1>2

(* What is written is what was prepared; tmux rests.                       *)
LEMMA SaveWrites ==
  ASSUME IInv, NEW p \in Procs, Save(p)
  PROVE  /\ pc[p] = "save" /\ job[p].id \in Ids /\ record'[job[p].id] = job[p].new
         /\ \A i \in Ids : i # job[p].id => record'[i] = record[i]
         /\ UNCHANGED <<runs, started, minted, worktrees, profiles, budget>>
<1>1. pc[p] = "save" /\ WriteRecord(p)
      /\ UNCHANGED <<runs, started, minted, worktrees, profiles, budget>>
  BY DEF Save, tmuxVars
<1>2. job[p].id \in Ids /\ record \in [Ids -> Record \cup {None}]
  BY <1>1, SaveFacts DEF IInv, TypeOK
<1> QED BY <1>1, <1>2 DEF WriteRecord

(* The name of a session changes only under a rename of its agent.         *)
LEMMA NameStays ==
  ASSUME IInv, \A p \in Procs : RunsOf(p), Counted, [Next]_vars,
         NEW r \in Runs, runs[r].id \in Ids, runs'[r].name # runs[r].name
  PROVE  \E p \in Procs : /\ pc'[p] = "save" /\ job'[p].op = "rename"
                          /\ job'[p].id = runs[r].id /\ job[p].run = r
                          /\ TmuxRename(p)
<1>0. \A p \in Procs : OwnRun(p) /\ RenamedRun(p)
  BY DEF RunsOf
<1>1. r <= started /\ started \in Nat /\ Runs \subseteq Nat
  BY RunStays, ConstantsAssumption DEF IInv, TypeOK, Runs
<1>2. ~\A s \in Runs : Fades(runs[s], runs'[s])
  BY DEF Fades
<1>3. PICK p \in Procs : Launch(p) \/ Link(p) \/ TmuxRename(p)
  BY <1>2, RunsStep
<1>4. ~Launch(p)
  <2>1. Launch(p) => \A s \in Runs : s # started + 1 => runs'[s] = runs[s]
    BY LaunchRuns
  <2> QED BY <1>1, <2>1
<1>5. ~Link(p)
  <2>1. Link(p) => /\ runs'[started].name = runs[started].name
                   /\ \A s \in Runs : s # started => runs'[s] = runs[s]
    BY <1>0, LinkRuns
  <2> QED BY <2>1
<1>6. TmuxRename(p) /\ RenamedRun(p)
  BY <1>0, <1>3, <1>4, <1>5
<1>7. /\ job[p].op = "rename" /\ runs[job[p].run].id = job[p].id
      /\ \A s \in Runs : s # job[p].run => runs'[s] = runs[s]
      /\ job' = job /\ pc'[p] = "save"
  BY ZenonT(60), <1>6, RenameRuns
<1>8. job[p].run = r
  BY <1>7
<1> QED BY <1>6, <1>7, <1>8

LEMMA NamedStep ==
  ASSUME IInv, \A p \in Procs : RunsOf(p), Counted, NamedSession, [Next]_vars
  PROVE  NamedSession'
<1> SUFFICES ASSUME Used("faults")' = 0, Used("crashes")' = 0,
                    NEW i \in Ids, Running(record'[i]),
                    NEW r \in Runs, runs'[r].id = i, runs'[r].open, runs'[r].linked
             PROVE  \/ runs'[r].name = record'[i].name
                    \/ \E p \in Procs : pc'[p] = "save" /\ job'[p].op = "rename" /\ job'[p].id = i
  BY DEF NamedSession, Running, Registry!Running
<1>0. /\ Used("faults") = 0 /\ Used("crashes") = 0
      /\ ~Spend("faults") /\ ~Spend("crashes")
  <2>1. "faults" \in BudgetKeys /\ "crashes" \in BudgetKeys
    BY DEF BudgetKeys
  <2>2. /\ Used("faults") \in Nat /\ Used("faults") <= Used("faults")'
        /\ Spend("faults") => Used("faults")' = Used("faults") + 1
    BY <2>1, UsedGrows
  <2>3. /\ Used("crashes") \in Nat /\ Used("crashes") <= Used("crashes")'
        /\ Spend("crashes") => Used("crashes")' = Used("crashes") + 1
    BY <2>1, UsedGrows
  <2> QED BY <2>2, <2>3
<1>1. CASE record'[i] # record[i]
  <2>1. PICK p \in Procs : /\ pc[p] = "save" /\ job[p].id = i /\ record'[i] = job[p].new
                           /\ runs' = runs
    BY <1>1, RecordStep
  <2>2. CASE job[p].op \in {"create", "respawn"}
    BY <2>1, <2>2 DEF RunsOf, OwnRun, FreshRun, Launched
  <2>3. CASE job[p].op = "rename"
    BY <2>1, <2>3 DEF RunsOf, RenamedRun
  <2>4. CASE job[p].op \notin {"create", "respawn", "rename"}
    <3>1. Running(record[i]) /\ job[p].new.name = record[i].name
      BY <2>1, <2>4, SavedRunning
    <3>2. ASSUME NEW q \in Procs, pc[q] = "save", job[q].op = "rename", job[q].id = i
          PROVE  FALSE
      BY <2>1, <2>4, <3>2, OneWriter DEF Prepared
    <3> QED BY <1>0, <2>1, <3>1, <3>2 DEF NamedSession
  <2> QED BY <2>2, <2>3, <2>4
<1>2. CASE record'[i] = record[i]
  <2>1. Running(record[i])
    BY <1>2
  <2>2. runs[r].id = i /\ runs[r].open /\ runs[r].linked
    BY <2>1, LiveComes, LaunchingEnded
  <2>3. CASE \E q \in Procs : pc[q] = "save" /\ job[q].op = "rename" /\ job[q].id = i
    <3>1. PICK q \in Procs : pc[q] = "save" /\ job[q].op = "rename" /\ job[q].id = i
      BY <2>3
    <3>2. Same(q) \/ Step(q) \/ Crash(q)
      BY <3>1, StayAt
    <3>3. ~Crash(q) /\ ~SaveFails(q)
      BY <1>0 DEF Crash, SaveFails
    <3>4. Same(q) \/ Save(q)
      BY <3>1, <3>2, <3>3, StepAt
    <3>5. CASE Same(q)
      BY <3>1, <3>5 DEF Same
    <3>6. CASE Save(q)
      <4>1. record'[i] = job[q].new /\ runs' = runs
        BY <3>1, <3>6, SaveWrites
      <4> QED BY <2>2, <3>1, <4>1 DEF RunsOf, RenamedRun
    <3> QED BY <3>4, <3>5, <3>6
  <2>4. CASE runs[r].name = record[i].name
    BY <1>2, <2>2, <2>4, NameStays
  <2> QED BY <1>0, <2>1, <2>2, <2>3, <2>4 DEF NamedSession
<1> QED BY <1>1, <1>2

(* What was within the budget of one fault still is, and what comes now    *)
(* is the first.                                                           *)
LEMMA OneFault ==
  ASSUME IInv, Counted, [Next]_vars, Used("faults")' <= 1, Used("crashes")' = 0
  PROVE  /\ Used("faults") <= 1 /\ Used("crashes") = 0 /\ ~Spend("crashes")
         /\ Spend("faults") => ~(Used("faults") > 0)
<1>1. "faults" \in BudgetKeys /\ "crashes" \in BudgetKeys
  BY DEF BudgetKeys
<1>2. /\ Used("faults") \in Nat /\ Used("faults") <= Used("faults")' /\ Used("faults")' \in Nat
      /\ Spend("faults") => Used("faults")' = Used("faults") + 1
  BY <1>1, UsedGrows
<1>3. /\ Used("crashes") \in Nat /\ Used("crashes") <= Used("crashes")'
      /\ Spend("crashes") => Used("crashes")' = Used("crashes") + 1
  BY <1>1, UsedGrows
<1> QED BY <1>2, <1>3

(* The undo of a launch closes its session, if that does not fail too.     *)
LEMMA UndoCloses ==
  ASSUME IInv, NEW p \in Procs, OwnRun(p), Undo(p), ~Spend("faults")
  PROVE  ~runs'[started].open
<1>1. pc[p] = "undo" /\ CloseSessions(SessionsNamed(job[p].new.name))
  BY DEF Undo
<1>2. /\ started \in Runs /\ runs[started].name = job[p].new.name /\ runs[started] \in Run
  BY <1>1 DEF OwnRun, Launched, IInv, TypeOK
<1>3. CASE runs[started].open
  <2>1. started \in SessionsNamed(job[p].new.name)
    BY <1>2, <1>3 DEF SessionsNamed
  <2> QED BY <1>1, <1>2, <2>1 DEF CloseSessions, Run
<1>4. CASE ~runs[started].open
  BY <1>1, <1>2, <1>4, CloseFades DEF IInv, Fades
<1> QED BY <1>3, <1>4

LEMMA UnlinkedStep ==
  ASSUME IInv, \A p \in Procs : RunsOf(p), Counted, UnlinkedSession, [Next]_vars
  PROVE  UnlinkedSession'
<1> SUFFICES ASSUME Used("faults")' <= 1, Used("crashes")' = 0,
                    NEW r \in Runs, runs'[r].open, ~runs'[r].linked
             PROVE  r = started' /\ \E p \in Procs : pc'[p] \in {"link", "undo"}
  BY DEF UnlinkedSession
<1>0. /\ Used("faults") <= 1 /\ Used("crashes") = 0 /\ ~Spend("crashes")
      /\ Spend("faults") => ~(Used("faults") > 0)
  BY OneFault
<1>1. ASSUME runs[r].open, ~runs[r].linked
      PROVE  r = started /\ \E p \in Procs : pc[p] \in {"link", "undo"}
  BY <1>0, <1>1 DEF UnlinkedSession
<1>2. ASSUME NEW p \in Procs, NEW q \in Procs, createLock = p, pc[q] \in {"link", "undo"}
      PROVE  p = q
  BY <1>2, LaunchedHolds DEF Launched
<1>3. CASE started' = started /\ \A s \in Runs : Fades(runs[s], runs'[s])
  <2>1. runs[r].open /\ ~runs[r].linked
    BY <1>3 DEF Fades
  <2>2. PICK p \in Procs : pc[p] \in {"link", "undo"}
    BY <1>1, <2>1
  <2>3. r = started
    BY <1>1, <2>1
  <2>4. Same(p) \/ Step(p) \/ Crash(p)
    BY <2>2, StayAt, LaunchedHolds DEF Launched
  <2>5. ~Crash(p)
    BY <1>0 DEF Crash
  <2>6. ~Link(p)
    <3>1. Link(p) => runs'[started].linked
      BY LinkRuns DEF RunsOf
    <3> QED BY <2>3, <3>1
  <2>7. ~LinkVanished(p)
    <3>1. LinkVanished(p) => pc[p] = "link" /\ runs[started].name # job[p].new.name
      BY <2>1, <2>3, LaunchTurns
    <3> QED BY <3>1 DEF RunsOf, OwnRun, Launched
  <2>8. ~Undo(p)
    <3>1. Undo(p) => pc[p] = "undo"
      BY DEF Undo
    <3>2. Undo(p) => Used("faults") > 0
      BY <3>1 DEF RunsOf, FreshRun
    <3> QED BY <1>0, <2>3, <3>2, UndoCloses DEF RunsOf
  <2>9. Same(p) \/ LinkFails(p)
    BY <2>2, <2>4, <2>5, <2>6, <2>7, <2>8, StepAt
  <2>10. LinkFails(p) => pc'[p] = "undo"
    BY LaunchTurns
  <2> QED BY <1>3, <2>2, <2>3, <2>9, <2>10 DEF Same
<1>4. ASSUME NEW p \in Procs, Launch(p)
      PROVE  r = started' /\ pc'[p] \in {"link", "undo"}
  <2>1. /\ createLock = p /\ pc[p] = "launch" /\ started' = started + 1 /\ pc'[p] = "link"
        /\ \A s \in Runs : s # started + 1 => runs'[s] = runs[s]
    BY <1>4, LaunchRuns
  <2>2. ~(runs[r].open /\ ~runs[r].linked)
    BY <1>1, <1>2, <2>1
  <2> QED BY <2>1, <2>2
<1>5. ASSUME NEW p \in Procs, Link(p)
      PROVE  FALSE
  <2>1. runs'[started].linked /\ \A s \in Runs : s # started => runs'[s] = runs[s]
    BY <1>5, LinkRuns DEF RunsOf
  <2> QED BY <1>1, <2>1
<1>6. ASSUME NEW p \in Procs, TmuxRename(p)
      PROVE  FALSE
  <2>1. /\ createLock = p /\ pc[p] = "tmuxRename"
        /\ runs'[r].open = runs[r].open /\ runs'[r].linked = runs[r].linked
    BY <1>6, RenameRuns DEF RunsOf
  <2>2. runs[r].open /\ ~runs[r].linked
    BY <2>1
  <2> QED BY <1>1, <1>2, <2>1, <2>2
<1> QED BY <1>3, <1>4, <1>5, <1>6, RunsStep

(* A launch that fails takes along what is on disk.                        *)
LEMMA FailureCleans ==
  ASSUME IInv, NEW p \in Procs, RunsOf(p), job[p].op = "create",
         PrepareFails(p) \/ LaunchFails(p) \/ (Undo(p) /\ ~Spend("faults"))
  PROVE  /\ job[p].id \notin worktrees' /\ job[p].id \notin profiles'
         /\ \A r \in Runs : runs'[r].id = job[p].id => ~runs'[r].open
<1>1. job[p].id \notin worktrees'
  BY DEF PrepareFails, LaunchFails, Undo, Abandon, GiveUp
<1>2. CASE PrepareFails(p) \/ LaunchFails(p)
  <2>1. pc[p] = "launch" /\ runs' = runs
    BY <1>2 DEF PrepareFails, LaunchFails, tmuxVars
  <2>2. job[p].id \notin profiles /\ \A r \in Runs : runs[r].id # job[p].id
    BY <2>1 DEF RunsOf, FreshRun
  <2>3. profiles' \subseteq profiles
    BY <1>2 DEF PrepareFails, LaunchFails, Abandon
  <2> QED BY <1>1, <2>1, <2>2, <2>3
<1>3. CASE Undo(p) /\ ~Spend("faults")
  <2>1. pc[p] = "undo" /\ job[p].id \notin profiles'
    BY <1>3 DEF Undo, Abandon
  <2>2. ~runs'[started].open
    BY <1>3, UndoCloses DEF RunsOf
  <2>3. \A r \in Runs : runs'[r].id = runs[r].id
    BY <1>3, CloseFades DEF Undo, IInv, Fades
  <2>4. \A r \in Runs : runs[r].id = job[p].id => r = started
    BY <2>1 DEF RunsOf, FreshRun, Launched
  <2> QED BY <1>1, <2>1, <2>2, <2>3, <2>4
<1> QED BY <1>2, <1>3

LEMMA FailedCreateStep ==
  ASSUME IInv, \A p \in Procs : RunsOf(p), Counted, FailedCreate, [Next]_vars
  PROVE  FailedCreate'
<1> SUFFICES ASSUME Used("faults")' <= 1, Used("crashes")' = 0,
                    NEW i \in minted', record'[i] = None
             PROVE  \/ \E p \in Procs : /\ job'[p].op = "create" /\ job'[p].id = i
                                       /\ pc'[p] \in {"launch", "link", "undo", "save"}
                    \/ /\ i \notin worktrees' /\ i \notin profiles'
                       /\ \A r \in Runs : runs'[r].id = i => ~runs'[r].open
  BY DEF FailedCreate, AtWork, Untouched, Launched
<1>0. /\ Used("faults") <= 1 /\ Used("crashes") = 0 /\ ~Spend("crashes")
      /\ Spend("faults") => ~(Used("faults") > 0)
  BY OneFault
<1>1. CASE i \notin minted
  <2>1. PICK p \in Procs : NewAgent(p)
    BY <1>1, DiskStep, LaunchRuns
  <2>2. pc'[p] = "launch" /\ job'[p].op = "create" /\ job'[p].id = i
    BY <1>1, <2>1, LaunchTurns
  <2> QED BY <2>2
<1>2. CASE i \in minted
  <2>0. i \in Ids
    BY <1>2 DEF IInv, TypeOK
  <2>1. record[i] = None
    <3>1. ASSUME record'[i] # record[i]
          PROVE  record'[i] # None
      BY <2>0, <3>1, RecordStep, SaveFacts, ConstantsAssumption
    <3> QED BY <3>1
  <2>2. CASE AtWork(i)
    <3>1. PICK p \in Procs : /\ job[p].op = "create" /\ job[p].id = i
                             /\ Launched(p) \/ pc[p] = "launch"
      BY <2>2 DEF AtWork
    <3>2. pc[p] \in {"launch", "link", "undo", "save"}
      BY <3>1 DEF Launched
    <3>3. Same(p) \/ Step(p)
      BY <1>0, <3>1, <3>2, StayAt DEF Crash
    <3>4. CASE Same(p)
      BY <3>1, <3>2, <3>4 DEF Same
    <3>5. CASE PrepareFails(p) \/ LaunchFails(p) \/ Undo(p)
      <4>1. Undo(p) => ~Spend("faults")
        BY <1>0 DEF RunsOf, FreshRun, Undo
      <4> QED BY <3>1, <3>5, <4>1, FailureCleans
    <3>6. CASE Launch(p) \/ Link(p) \/ LinkVanished(p) \/ LinkFails(p) \/ SaveFails(p)
      <4>1. CASE Launch(p)
        BY <3>1, <4>1, LaunchRuns
      <4>2. CASE Link(p)
        <5>1. job' = job /\ pc'[p] = "save"
          BY <4>2, LinkRuns DEF RunsOf
        <5> QED BY <3>1, <5>1
      <4>3. CASE LinkVanished(p) \/ LinkFails(p)
        BY <3>1, <4>3, LaunchTurns
      <4>4. CASE SaveFails(p)
        BY <3>1, <4>4, LaunchTurns DEF SaveUndone
      <4> QED BY <3>6, <4>1, <4>2, <4>3, <4>4
    <3>7. ~Save(p)
      <4>1. Save(p) => record'[i] = job[p].new /\ pc[p] = "save"
        BY <3>1, SaveWrites
      <4>2. pc[p] = "save" => job[p].new # None
        BY SaveFacts, ConstantsAssumption
      <4> QED BY <4>1, <4>2
    <3> QED BY <3>2, <3>3, <3>4, <3>5, <3>6, <3>7, StepAt
  <2>3. CASE ~AtWork(i)
    <3>1. i \notin worktrees /\ i \notin profiles /\ \A r \in Runs : runs[r].id = i => ~runs[r].open
      BY <1>0, <1>2, <2>1, <2>3 DEF FailedCreate, Untouched
    <3>2. ASSUME NEW p \in Procs, Launch(p)
          PROVE  job[p].id # i
      <4>1. pc[p] = "launch" /\ job[p].op # "create" => job[p].op = "respawn"
        BY <3>2, LaunchRuns, LaunchedHolds
      <4>2. /\ record[job[p].id] = job[p].old /\ Change(job[p].op, job[p].old, job[p].new)
        BY <3>2 DEF IInv, Relies, Faithful, Prepared, Launch
      <4>3. job[p].op = "respawn" => record[job[p].id] # None
        BY <4>2, ConstantsAssumption DEF Change
      <4>4. pc[p] = "launch"
        BY <3>2, LaunchRuns
      <4> QED BY <2>1, <2>3, <4>1, <4>3, <4>4 DEF AtWork
    <3>3. i \notin worktrees' /\ i \notin profiles'
      <4>1. ASSUME NEW p \in Procs, NewAgent(p)
            PROVE  i \notin worktrees' /\ i \notin profiles'
        BY <1>2, <3>1, <4>1, LaunchTurns
      <4>2. ASSUME NEW p \in Procs, Launch(p)
            PROVE  i \notin worktrees' /\ i \notin profiles'
        BY ZenonT(60), <3>1, <3>2, <4>2, LaunchRuns
      <4> QED BY <3>1, <4>1, <4>2, DiskStep
    <3>4. ASSUME NEW r \in Runs, runs'[r].id = i
          PROVE  ~runs'[r].open
      <4>1. runs[r].id = i
        BY <3>2, <3>4, RunsGrow DEF RunsOf
      <4> QED BY <2>0, <3>1, <4>1, RunStays
    <3> QED BY <3>3, <3>4
  <2> QED BY <2>2, <2>3
<1> QED BY <1>1, <1>2

(* Undisturbed, the session of a program that lives on is closed by the    *)
(* stop that waits for the program.                                        *)
LEMMA CloseStep ==
  ASSUME IInv, \A p \in Procs : RunsOf(p), Counted, [Next]_vars,
         Used("faults") = 0, ~Spend("faults"), ~Spend("closes"),
         NEW r \in Runs, runs[r].open, ~runs'[r].open, runs'[r].alive
  PROVE  \E p \in Procs : (StopKilled(p) \/ LeaveTimeout(p)) /\ job[p].run = r
<1>0. TypeOK /\ (\A p \in Procs : OwnRun(p) /\ RenamedRun(p)) /\ runs[r].id \in Ids
  BY DEF IInv, RunsOf, Owned
<1>1. ASSUME NEW S, CloseSessions(S)
      PROVE  r \in S
  <2>1. r \notin S => runs'[r] = runs[r]
    BY <1>1 DEF CloseSessions
  <2> QED BY <2>1
<1>2. ASSUME NEW d, NEW S, Dies(d, S)
      PROVE  FALSE
  <2>1. r # d
    BY <1>0, <1>2 DEF Dies, TypeOK
  <2> QED BY <1>0, <1>2, <2>1, DiesFades
<1>3. runs' # runs
  OBVIOUS
<1>4. ~Environment
  BY <1>2 DEF Environment, ProcessExits, SessionClosed
<1>5. PICK p \in Procs : BeginAny(p) \/ Step(p) \/ Crash(p)
  BY <1>3, <1>4 DEF Next, vars
<1>6. ~BeginAny(p) /\ ~Crash(p)
  BY <1>3 DEF BeginAny, BeginCreate, BeginOnAgent, BeginHook, Begin, Scan, Crash, tmuxVars
<1>7. ~Launch(p) /\ ~Link(p) /\ ~TmuxRename(p) /\ ~Undo(p)
  <2>1. ~Launch(p)
    <3>1. /\ r <= started /\ started \in Nat /\ Runs \subseteq Nat
      BY <1>0, RunStays, ConstantsAssumption DEF TypeOK, Runs
    <3>2. Launch(p) => \A s \in Runs : s # started + 1 => runs'[s] = runs[s]
      BY LaunchRuns
    <3> QED BY <3>1, <3>2
  <2>2. ~Link(p)
    <3>1. Link(p) => /\ runs'[started].open
                     /\ \A s \in Runs : s # started => runs'[s] = runs[s]
      BY <1>0, LinkRuns
    <3> QED BY <3>1
  <2>3. ~TmuxRename(p)
    <3>1. TmuxRename(p) => \A s \in Runs : runs'[s].open = runs[s].open
      BY <1>0, RenameRuns
    <3> QED BY <3>1
  <2>4. ~Undo(p)
    <3>1. Undo(p) => Used("faults") > 0
      BY DEF Undo, RunsOf, FreshRun
    <3> QED BY <3>1
  <2> QED BY <2>1, <2>2, <2>3, <2>4
<1>8. ~CreateStep(p) /\ ~NameStep(p)
  BY <1>3, <1>7 DEF CreateStep, TakeCreateLock, ForkSnapshot, NewAgent, NoFreeName,
            PrepareFails, LaunchFails, LinkVanished, LinkFails, tmuxVars,
            NameStep, Respawn, RespawnRefused, Rename, RenameRefused,
            TmuxRenameFails, Enter, Refuse
<1>9. ~(MoveStep(p) \/ InspectionFails(p) \/ Save(p) \/ SaveFails(p))
  BY <1>3 DEF MoveStep, Hook, HookIgnored, Interrupt, InterruptRefused, Update,
            InspectionFails, Save, SaveFails, Enter, Refuse, tmuxVars
<1>10. StopKilled(p) \/ LeaveTimeout(p)
  BY <1>2, <1>3, <1>5, <1>6, <1>8, <1>9 DEF Step, EndStep, Stop, StopVanished, StopRefused,
            StopTyped, DeliverFails, LeaveFails, ProcessLeft, KillTimeout, Refresh,
            RefreshUnchanged, List, RefreshNext, RefreshDone, Enter, Refuse, tmuxVars
<1>11. job[p].run = r
  <2>1. CloseSessions({job[p].run})
    BY <1>10 DEF StopKilled, LeaveTimeout
  <2> QED BY <1>1, <2>1
<1> QED BY <1>10, <1>11

(* An agent is about to be launched: it was, or it is new, or respawned.   *)
LEMMA LaunchComes ==
  ASSUME IInv, \A p \in Procs : RunsOf(p), [Next]_vars, NEW q \in Procs, pc'[q] = "launch"
  PROVE  (Same(q) /\ pc[q] = "launch") \/ NewAgent(q) \/ Respawn(q)
<1>1. CASE Waits(q)
  BY <1>1 DEF Waits
<1>2. CASE Scan(q) \/ List(q) \/ RefreshNext(q)
  BY <1>2, RefreshTurns
<1>3. CASE \/ Rename(q) \/ Stop(q) \/ StopVanished(q) \/ Refresh(q)
           \/ Hook(q) \/ Interrupt(q) \/ Update(q)
  BY <1>3, LoadTurns
<1>4. CASE TmuxRename(q)
  BY <1>4, RenameRuns DEF RunsOf
<1>5. CASE StopTyped(q) \/ StopKilled(q) \/ LeaveTimeout(q) \/ SaveGoesOn(q)
  BY <1>5, StopTurns
<1>6. CASE Launch(q)
  BY <1>6, LaunchRuns
<1>7. CASE Link(q)
  BY <1>7, LinkRuns DEF RunsOf
<1>8. CASE LinkVanished(q) \/ LinkFails(q) \/ SaveUndone(q)
  BY <1>8, LaunchTurns
<1>9. CASE Same(q) \/ Left(q)
  BY <1>9 DEF Same, Left
<1>10. CASE NewAgent(q) \/ Respawn(q)
  BY <1>10
<1> QED BY <1>1, <1>2, <1>3, <1>4, <1>5, <1>6, <1>7, <1>8, <1>9, <1>10, Fate DEF Moves

(* Who stops a program holds create.lock, and so does who launches one.    *)
LEMMA StopperHolds ==
  ASSUME IInv, NEW r \in Runs, Stopping(r)
  PROVE  \E p \in Procs : createLock = p /\ job[p].op = "stop"
BY DEF Stopping, IInv, Relies, Locked, HoldsCreateLock, NamingOps

LEMMA NothingFails ==
  ASSUME IInv, Counted, [Next]_vars, Undisturbed'
  PROVE  /\ Undisturbed /\ Used("faults") = 0
         /\ ~Spend("faults") /\ ~Spend("crashes") /\ ~Spend("closes")
<1> SUFFICES ASSUME NEW k \in {"faults", "crashes", "closes"}
             PROVE  Used(k) = 0 /\ ~Spend(k)
  BY DEF Undisturbed
<1>1. k \in BudgetKeys
  BY DEF BudgetKeys
<1>2. /\ Used(k) \in Nat /\ Used(k) <= Used(k)'
      /\ Spend(k) => Used(k)' = Used(k) + 1
  BY <1>1, UsedGrows
<1>3. Used(k)' = 0
  BY DEF Undisturbed
<1> QED BY <1>2, <1>3

(* No program of an agent to be launched is alive.                         *)
LEMMA NoneAliveStep ==
  ASSUME IInv, \A p \in Procs : RunsOf(p), Counted, LastAlive, [Next]_vars, Undisturbed,
         NEW q \in Procs, pc'[q] = "launch", NEW r \in Runs, runs'[r].id = job'[q].id
  PROVE  ~runs'[r].alive
<1>0. \A p \in Procs : OwnRun(p) /\ RenamedRun(p)
  BY DEF RunsOf
<1>1. CASE Same(q) /\ pc[q] = "launch"
  <2>1. Fades(runs[r], runs'[r])
    BY <1>1, LaunchedSame
  <2>2. runs[r].id = job[q].id
    BY <1>1, <2>1 DEF Same, Fades
  <2>3. ~runs[r].alive
    BY <1>1, <2>2 DEF LastAlive, NoneAlive
  <2> QED BY <2>1, <2>3 DEF Fades
<1>2. CASE NewAgent(q)
  <2>1. job'[q].id \in Ids \ minted /\ runs' = runs
    BY <1>2, LaunchTurns
  <2>2. started \in Nat /\ Runs \subseteq Nat /\ None \notin Ids
    BY ConstantsAssumption DEF IInv, TypeOK, Runs
  <2>3. r <= started \/ r > started
    BY <2>2
  <2> QED BY <2>1, <2>2, <2>3 DEF Counted
<1>3. CASE Respawn(q)
  <2>1. /\ pc[q] = "want" /\ job'[q].id = job[q].id /\ runs' = runs /\ job[q].op = "respawn"
        /\ LiveRuns(job[q].id) = {}
    BY <1>3, LoadTurns DEF tmuxVars
  <2>2. createLock = q
    BY <2>1 DEF IInv, Relies, Locked, HoldsCreateLock, NamingOps
  <2>3. ~(runs[r].open /\ runs[r].linked)
    BY <2>1 DEF LiveRuns
  <2>4. ~Stopping(r)
    BY <2>1, <2>2, StopperHolds
  <2>5. \A p \in Procs : pc[p] # "link"
    BY <2>1, <2>2, LaunchedHolds DEF Launched
  <2> QED BY <2>1, <2>3, <2>4, <2>5 DEF LastAlive
<1> QED BY <1>1, <1>2, <1>3, LaunchComes

(* A program that is alive is the last its agent started.                  *)
LEMMA NewestStep ==
  ASSUME IInv, \A p \in Procs : RunsOf(p), Counted, LastAlive, [Next]_vars, Undisturbed,
         NEW r \in Runs, NEW s \in Runs, runs'[r].alive, runs'[s].id = runs'[r].id
  PROVE  s <= r
<1>0. /\ \A p \in Procs : OwnRun(p) /\ RenamedRun(p)
      /\ started \in Nat /\ Runs \subseteq Nat /\ None \notin Ids /\ minted \subseteq Ids
  BY ConstantsAssumption DEF RunsOf, IInv, TypeOK, Runs
<1>1. ASSUME runs[r].alive, runs[s].id = runs[r].id
      PROVE  s <= r
  BY <1>1 DEF LastAlive
<1>2. CASE started' = started /\ \A t \in Runs : Fades(runs[t], runs'[t])
  BY <1>1, <1>2 DEF Fades
<1>3. ASSUME NEW p \in Procs, Launch(p)
      PROVE  s <= r
  <2>1. /\ pc[p] = "launch" /\ job[p].id \in minted
        /\ runs'[started + 1] = [id |-> job[p].id, name |-> job[p].new.name,
                                 open |-> TRUE, linked |-> FALSE, alive |-> TRUE]
        /\ \A t \in Runs : t # started + 1 => runs'[t] = runs[t]
    BY <1>3, LaunchRuns
  <2>2. runs'[started + 1].id = job[p].id
    BY <2>1
  <2>3. CASE r = started + 1
    <3>1. s # started + 1 => runs[s].id = job[p].id
      BY <2>1, <2>2, <2>3
    <3>2. s > started => s = started + 1
      BY <1>0, <2>1, <3>1 DEF Counted
    <3> QED BY <1>0, <2>3, <3>2
  <2>4. CASE r # started + 1 /\ s = started + 1
    <3>1. runs[r].alive /\ runs[r].id = job[p].id
      BY <2>1, <2>2, <2>4
    <3> QED BY <2>1, <3>1 DEF LastAlive, NoneAlive
  <2>5. CASE r # started + 1 /\ s # started + 1
    BY <1>1, <2>1, <2>5
  <2> QED BY <2>3, <2>4, <2>5
<1>4. ASSUME NEW p \in Procs, Link(p)
      PROVE  s <= r
  <2>1. /\ runs'[started].id = runs[started].id /\ runs'[started].alive = runs[started].alive
        /\ \A t \in Runs : t # started => runs'[t] = runs[t]
    BY <1>0, <1>4, LinkRuns
  <2>2. runs[r].alive /\ runs[s].id = runs[r].id
    BY <2>1
  <2> QED BY <1>1, <2>2
<1>5. ASSUME NEW p \in Procs, TmuxRename(p)
      PROVE  s <= r
  <2>1. \A t \in Runs : runs'[t].id = runs[t].id /\ runs'[t].alive = runs[t].alive
    BY <1>0, <1>5, RenameRuns
  <2>2. runs[r].alive /\ runs[s].id = runs[r].id
    BY <2>1
  <2> QED BY <1>1, <2>2
<1> QED BY <1>2, <1>3, <1>4, <1>5, RunsStep

(* A stop that is about to wait for a program still is, or waits.          *)
LEMMA StoppingStep ==
  ASSUME IInv, [Next]_vars, ~Spend("faults"), ~Spend("crashes"),
         NEW r \in Runs, runs[r].alive, runs'[r].alive, Stopping(r)
  PROVE  Stopping(r)'
<1>1. PICK p \in Procs : /\ job[p].op = "stop" /\ job[p].run = r
                         /\ \/ pc[p] \in {"leaving", "killing"}
                            \/ pc[p] = "save" /\ job[p].then \in {"leaving", "killing"}
  BY DEF Stopping
<1>2. Same(p) \/ Step(p)
  BY <1>1, StayAt DEF Crash
<1>3. ~ProcessLeft(p) /\ ~SaveFails(p) /\ ~LeaveFails(p)
  BY <1>1 DEF ProcessLeft, SaveFails, LeaveFails
<1>4. ~KillTimeout(p)
  <2>1. runs \in [Runs -> Run]
    BY DEF IInv, TypeOK
  <2>2. ASSUME runs' = [runs EXCEPT ![r].alive = FALSE, ![r].open = FALSE]
        PROVE  FALSE
    BY <2>1, <2>2 DEF Run
  <2> QED BY <1>1, <2>2 DEF KillTimeout, Dies
<1>5. Same(p) \/ LeaveTimeout(p) \/ Save(p)
  BY <1>1, <1>2, <1>3, <1>4, StepAt
<1>6. CASE Same(p)
  BY <1>1, <1>6 DEF Same, Stopping
<1>7. CASE LeaveTimeout(p)
  <2>1. pc'[p] = "killing" /\ job'[p] = job[p]
    BY <1>7, StopTurns
  <2> QED BY <1>1, <2>1 DEF Stopping
<1>8. CASE Save(p)
  <2>1. SaveGoesOn(p)
    BY <1>1, <1>8 DEF SaveGoesOn, Save
  <2>2. pc[p] = "save" /\ pc'[p] = job[p].then /\ job'[p].op = job[p].op /\ job'[p].run = job[p].run
    BY <2>1, StopTurns
  <2> QED BY <1>1, <2>2 DEF Stopping
<1> QED BY <1>5, <1>6, <1>7, <1>8

(* A program is in its session, or a stop is about to wait for it.         *)
Housed(r) ==
  \/ runs[r].open /\ runs[r].linked
  \/ runs[r].open /\ r = started /\ \E p \in Procs : pc[p] = "link"
  \/ Stopping(r)

LEMMA HousedStep ==
  ASSUME IInv, \A p \in Procs : RunsOf(p), Counted, [Next]_vars, Used("faults") = 0,
         ~Spend("faults"), ~Spend("crashes"), ~Spend("closes"),
         NEW r \in Runs, runs[r].alive => Housed(r), runs'[r].alive
  PROVE  Housed(r)'
<1>0. \A p \in Procs : OwnRun(p) /\ RenamedRun(p)
  BY DEF RunsOf
<1>1. ASSUME NEW p \in Procs, NEW q \in Procs, createLock = p, pc[q] = "link"
      PROVE  p = q
  BY <1>1, LaunchedHolds DEF Launched
<1>2. CASE started' = started /\ \A t \in Runs : Fades(runs[t], runs'[t])
  <2>0. runs[r].alive /\ Housed(r)
    BY <1>2 DEF Fades
  <2>1. CASE Stopping(r)
    BY <2>0, <2>1, StoppingStep DEF Housed
  <2>2. CASE runs[r].open /\ ~runs'[r].open
    <3>1. PICK p \in Procs : (StopKilled(p) \/ LeaveTimeout(p)) /\ job[p].run = r
      BY <2>2, CloseStep
    <3>2. /\ job'[p].op = "stop" /\ job'[p].run = r
          /\ pc'[p] = "killing" \/ (pc'[p] = "save" /\ job'[p].then = "killing")
      BY <2>2, <3>1, StopTurns
    <3> QED BY <3>2 DEF Housed, Stopping
  <2>3. CASE runs'[r].open /\ runs[r].linked
    BY <1>2, <2>3 DEF Fades, Housed
  <2>4. CASE runs'[r].open /\ ~runs[r].linked /\ ~Stopping(r)
    <3>1. r = started /\ runs[r].open
      BY <2>0, <2>4 DEF Housed
    <3>2. PICK p \in Procs : pc[p] = "link"
      BY <2>0, <2>4 DEF Housed
    <3>3. Same(p) \/ Step(p)
      BY <3>2, StayAt, LaunchedHolds DEF Launched, Crash
    <3>4. ~LinkFails(p)
      BY DEF LinkFails
    <3>5. ~LinkVanished(p)
      <4>1. LinkVanished(p) => runs[started].name # job[p].new.name
        BY <3>1, LaunchTurns
      <4> QED BY <3>2, <4>1 DEF RunsOf, OwnRun, Launched
    <3>6. CASE Link(p)
      <4>1. runs'[started].open /\ runs'[started].linked
        BY <1>0, <3>6, LinkRuns
      <4> QED BY <3>1, <4>1 DEF Housed
    <3>7. CASE Same(p)
      BY <1>2, <2>4, <3>1, <3>2, <3>7 DEF Same, Housed
    <3> QED BY <3>2, <3>3, <3>4, <3>5, <3>6, <3>7, StepAt
  <2>5. runs[r].open \/ Stopping(r)
    BY <2>0 DEF Housed
  <2> QED BY <2>1, <2>2, <2>3, <2>4, <2>5
<1>3. ASSUME NEW p \in Procs, Launch(p)
      PROVE  Housed(r)'
  <2>1. /\ pc[p] = "launch" /\ createLock = p /\ pc'[p] = "link" /\ started' = started + 1
        /\ runs'[started + 1] = [id |-> job[p].id, name |-> job[p].new.name,
                                 open |-> TRUE, linked |-> FALSE, alive |-> TRUE]
        /\ \A t \in Runs : t # started + 1 => runs'[t] = runs[t]
    BY <1>3, LaunchRuns
  <2>2. CASE r = started + 1
    <3>1. runs'[r].open = TRUE
      BY <2>1, <2>2
    <3> QED BY <2>1, <2>2, <3>1 DEF Housed
  <2>3. CASE r # started + 1
    <3>1. runs'[r] = runs[r]
      BY <2>1, <2>3
    <3>2. Housed(r)
      BY <3>1
    <3>3. \A q \in Procs : pc[q] # "link"
      BY <1>1, <2>1
    <3>4. ~Stopping(r)
      BY <2>1, StopperHolds, LaunchedHolds
    <3> QED BY <3>1, <3>2, <3>3, <3>4 DEF Housed
  <2> QED BY <2>2, <2>3
<1>4. ASSUME NEW p \in Procs, Link(p)
      PROVE  Housed(r)'
  <2>1. /\ pc[p] = "link" /\ createLock = p
        /\ runs'[started].open /\ runs'[started].linked
        /\ \A t \in Runs : t # started => runs'[t] = runs[t]
    BY <1>0, <1>4, LinkRuns
  <2>2. CASE r # started
    <3>1. runs'[r] = runs[r]
      BY <2>1, <2>2
    <3>2. Housed(r)
      BY <3>1
    <3>3. ~Stopping(r)
      BY <2>1, StopperHolds, LaunchedHolds DEF Launched
    <3> QED BY <2>2, <3>1, <3>2, <3>3 DEF Housed
  <2> QED BY <2>1, <2>2 DEF Housed
<1>5. ASSUME NEW p \in Procs, TmuxRename(p)
      PROVE  Housed(r)'
  <2>1. /\ pc[p] = "tmuxRename" /\ createLock = p /\ job[p].op = "rename"
        /\ runs'[r].open = runs[r].open /\ runs'[r].linked = runs[r].linked
        /\ runs'[r].alive = runs[r].alive
    BY <1>0, <1>5, RenameRuns
  <2>2. Housed(r)
    BY <2>1
  <2>3. \A q \in Procs : pc[q] # "link"
    BY <1>1, <2>1
  <2>4. ~Stopping(r)
    BY <2>1, StopperHolds
  <2>5. runs[r].open /\ runs[r].linked
    BY <2>2, <2>3, <2>4 DEF Housed
  <2> QED BY <2>1, <2>5 DEF Housed
<1> QED BY <1>2, <1>3, <1>4, <1>5, RunsStep

LEMMA LastAliveStep ==
  ASSUME IInv, \A p \in Procs : RunsOf(p), Counted, LastAlive, [Next]_vars
  PROVE  LastAlive'
<1> SUFFICES ASSUME Undisturbed'
             PROVE  /\ \A r \in Runs : runs'[r].alive =>
                         /\ \A s \in Runs : runs'[s].id = runs'[r].id => s <= r
                         /\ Housed(r)'
                    /\ \A p \in Procs : pc'[p] = "launch" =>
                         \A r \in Runs : runs'[r].id = job'[p].id => ~runs'[r].alive
  BY DEF LastAlive, Housed, NoneAlive
<1>1. /\ Undisturbed /\ Used("faults") = 0
      /\ ~Spend("faults") /\ ~Spend("crashes") /\ ~Spend("closes")
  BY NothingFails
<1>2. \A r \in Runs : runs[r].alive => Housed(r)
  BY <1>1 DEF LastAlive, Housed
<1>3. \A r \in Runs : runs'[r].alive => \A s \in Runs : runs'[s].id = runs'[r].id => s <= r
  BY <1>1, NewestStep
<1>4. \A r \in Runs : runs'[r].alive => Housed(r)'
  BY <1>1, <1>2, HousedStep
<1>5. \A p \in Procs : pc'[p] = "launch" =>
        \A r \in Runs : runs'[r].id = job'[p].id => ~runs'[r].alive
  BY <1>1, NoneAliveStep
<1> QED BY <1>3, <1>4, <1>5

----------------------------------------------------------------------------
(* The invariant. *)

LEMMA InitRunInv == Init => RunInv
<1> SUFFICES ASSUME Init
             PROVE  RunInv
  OBVIOUS
<1>1. /\ \A r \in Runs : /\ runs[r].id = None /\ ~runs[r].open /\ ~runs[r].alive
      /\ started = 0 /\ minted = {} /\ worktrees = {} /\ profiles = {} /\ budget = Budget
      /\ \A p \in Procs : pc[p] = "idle" /\ job[p] = NoJob
      /\ \A i \in Ids : record[i] = None
  BY DEF Init, NotStarted
<1>2. Runs \subseteq Nat \ {0} /\ \A k \in BudgetKeys : Budget[k] \in Nat
  BY ConstantsAssumption DEF Runs
<1>3. Counted
  BY <1>1, <1>2 DEF Counted
<1>4. OneSession /\ UnlinkedSession
  BY <1>1 DEF OneSession, UnlinkedSession
<1>5. RecordedAfterLinked /\ NamedSession
  BY <1>1 DEF RecordedAfterLinked, NamedSession, Running, Registry!Running
<1>6. FailedCreate
  BY <1>1 DEF FailedCreate
<1>7. LastAlive
  BY <1>1 DEF LastAlive
<1>8. \A p \in Procs : RunsOf(p)
  BY <1>1 DEF RunsOf, OwnRun, FreshRun, RenamedRun, GoneRun, ListedRun, HookRun, StopRun,
              Launched, NoJob
<1> QED BY <1>3, <1>4, <1>5, <1>6, <1>7, <1>8 DEF RunInv

LEMMA NextRunInv == IInv /\ RunInv /\ [Next]_vars => RunInv'
<1> SUFFICES ASSUME IInv, RunInv, [Next]_vars
             PROVE  RunInv'
  OBVIOUS
<1>1. /\ Counted /\ OneSession /\ RecordedAfterLinked /\ NamedSession /\ UnlinkedSession
      /\ FailedCreate /\ LastAlive /\ \A p \in Procs : RunsOf(p)
  BY DEF RunInv
<1>2. Counted' /\ OneSession' /\ RecordedAfterLinked'
  BY <1>1, CountedStep, OneSessionStep, RecordedStep
<1>3. NamedSession' /\ UnlinkedSession'
  BY <1>1, NamedStep, UnlinkedStep
<1>4. FailedCreate' /\ LastAlive'
  BY <1>1, FailedCreateStep, LastAliveStep
<1>5. \A p \in Procs : RunsOf(p)'
  BY <1>1, RunsOfStep
<1> QED BY <1>2, <1>3, <1>4, <1>5 DEF RunInv

(* What the programs and sessions in tmux have to do with the records and  *)
(* the processes, always.                                                  *)
THEOREM RunsInvariance == Spec => [](IInv /\ RunInv)
<1>1. Init => IInv /\ RunInv
  BY InitIInv, InitRunInv
<1>2. (IInv /\ RunInv) /\ [Next]_vars => (IInv /\ RunInv)'
  BY NextIInv, NextRunInv
<1> QED BY <1>1, <1>2, PTL DEF Spec

(* start_locked and rename: a running record's last program was linked to  *)
(* it, and unless something failed its session has the record's name       *)
(* whenever no operation on names is under way.                            *)
THEOREM SessionsFollowRecords == Spec => []SessionsAsRecorded
<1>1. IInv /\ RunInv => SessionsAsRecorded
  <2> SUFFICES ASSUME IInv, RunInv
               PROVE  SessionsAsRecorded
    OBVIOUS
  <2>1. ASSUME createLock = None, NEW p \in Procs, pc[p] = "save", job[p].op = "rename"
        PROVE  FALSE
    BY <2>1, ConstantsAssumption DEF IInv, Relies, Locked, HoldsCreateLock, NamingOps
  <2>2. SessionNamedAsRecord
    BY <2>1 DEF RunInv, NamedSession, SessionNamedAsRecord, LiveRuns
  <2> QED BY <2>2 DEF RunInv, SessionsAsRecorded
<1> QED BY <1>1, RunsInvariance, PTL

(* refresh and stop record an exit only of an agent without a session; so  *)
(* does refresh_all of an agent that was launched once.                    *)
THEOREM ExitsAreReal == Spec => []EndedMeansGone
<1>1. IInv /\ RunInv => EndedMeansGone
  <2> SUFFICES ASSUME IInv, RunInv
               PROVE  EndedMeansGone
    OBVIOUS
  <2>0. /\ \A p \in Procs : RunsOf(p) /\ Relies(p)
        /\ Counted /\ RecordedAfterLinked /\ UnlinkedSession
        /\ started \in Nat /\ Runs \subseteq Nat /\ None \notin Ids
    BY ConstantsAssumption DEF RunInv, IInv, TypeOK, Runs
  <2>1. ASSUME NEW p \in Procs, pc[p] = "save",
               job[p].op = "refresh" \/ (job[p].op = "stop" /\ job[p].run = None),
               NEW r \in Runs, runs[r].id = job[p].id, runs[r].open
        PROVE  /\ ~runs[r].linked
               /\ ~(Used("faults") <= 1 /\ Used("crashes") = 0)
    <3>1. ~runs[r].linked
      BY <2>0, <2>1 DEF RunsOf, GoneRun
    <3>2. /\ job[p].id \in Ids /\ record[job[p].id] = job[p].old
          /\ Change(job[p].op, job[p].old, job[p].new)
      BY <2>0, <2>1 DEF Relies, Target, Faithful, Prepared
    <3>3. Running(record[job[p].id])
      BY <2>1, <3>2 DEF Change, Running, Registry!Running
    <3>4. PICK s \in Runs : /\ runs[s].id = job[p].id /\ runs[s].linked
                            /\ \A t \in Runs : runs[t].id = job[p].id => t <= s
      BY <2>0, <3>2, <3>3 DEF RecordedAfterLinked
    <3>5. s <= started
      BY <2>0, <3>2, <3>4 DEF Counted
    <3>6. r # started
      <4>1. r <= s
        BY <2>1, <3>4
      <4> QED BY <2>0, <3>1, <3>4, <3>5, <4>1
    <3> QED BY <2>0, <2>1, <3>1, <3>6 DEF UnlinkedSession
  <2>2. ExitedMeansGone
    BY <2>1 DEF ExitedMeansGone, LiveRuns, OpenRuns
  <2>3. ASSUME NEW p \in Procs, pc[p] = "save", job[p].op = "refreshAll",
               \A r, s \in Runs : runs[r].id = job[p].id /\ runs[s].id = job[p].id => r = s,
               NEW r \in Runs, runs[r].id = job[p].id
        PROVE  ~runs[r].open
    <3>1. PICK s \in Runs : runs[s].id = job[p].id /\ ~runs[s].open
      BY <2>0, <2>3 DEF RunsOf, ListedRun, ClosedRun
    <3>2. r = s
      BY <2>3, <3>1
    <3> QED BY <3>1, <3>2
  <2>4. RefreshAllEndsOnlyGoneOnce
    BY <2>3 DEF RefreshAllEndsOnlyGoneOnce, OpenRuns
  <2> QED BY <2>2, <2>4 DEF EndedMeansGone
<1> QED BY <1>1, RunsInvariance, PTL

(* stop_agent's wait: undisturbed, an agent never has two programs alive.  *)
THEOREM OneProgram == Spec => []OneProgramPerAgent
<1>1. IInv /\ RunInv => OneProgramPerAgent
  <2> SUFFICES ASSUME RunInv, Undisturbed, NEW r \in Runs, NEW s \in Runs,
                      runs[r].alive, runs[s].alive, runs[r].id = runs[s].id
               PROVE  r = s
    BY DEF OneProgramPerAgent
  <2>1. s <= r /\ r <= s
    BY DEF RunInv, LastAlive
  <2>2. r \in Nat /\ s \in Nat
    BY ConstantsAssumption DEF Runs
  <2> QED BY <2>1, <2>2
<1> QED BY <1>1, RunsInvariance, PTL

(* wait_or_kill: undisturbed, what a hook saves is about the last program  *)
(* of its agent.                                                           *)
THEOREM HooksAreCurrent == Spec => []HookReachesItsOwnRun
<1>1. IInv /\ RunInv => HookReachesItsOwnRun
  BY DEF RunInv, LastAlive, RunsOf, HookRun, HookReachesItsOwnRun
<1> QED BY <1>1, RunsInvariance, PTL

(* start_locked's undo: a create that failed leaves no worktree, profile   *)
(* or session, with one fault and no killed process.                       *)
THEOREM FailuresLeaveNothing == Spec => []FailedCreateLeavesNothing
<1>1. IInv /\ RunInv => FailedCreateLeavesNothing
  BY DEF RunInv, FailedCreate, AtWork, Untouched, FailedCreateLeavesNothing
<1> QED BY <1>1, RunsInvariance, PTL
=============================================================================
