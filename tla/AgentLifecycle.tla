--------------------------- MODULE AgentLifecycle ---------------------------
(***************************************************************************)
(* The life of tx's agents: TxCore's operations (tx-core/src/core.rs) run  *)
(* by several processes over one state directory and one tmux server.      *)
(* Every invocation of tx or txi is a process of its own, so nothing but   *)
(* the lock files and tmux itself orders two operations.                   *)
(*                                                                         *)
(* An operation is a walk of its process through pc: it takes create.lock  *)
(* when it picks or frees a name, then <id>.lock, loads the record into    *)
(* job.old, prepares job.new, acts on tmux and saves.  Each action is what *)
(* happens between two points where another process can interfere.         *)
(*                                                                         *)
(* Left to other modules: sending messages, the conversation archive, the  *)
(* events, the format of a record.                                         *)
(***************************************************************************)
EXTENDS Integers

CONSTANTS
  Procs,           \* operating-system processes running tx operations
  Ids,             \* agent ids
  Bases,           \* names a user asks for
  MaxSuffix,       \* a base is tried as base, base-2 ... base-MaxSuffix
  Data,            \* the rest of a record: tags, engine data, plugin data
  None,            \* no process, agent, record or run
  MaxRuns,         \* bound: programs started
  HookStates,      \* the states a hook reports in this model
  Operations,      \* the operations this model runs
  Budget           \* bounds: operations, faults, crashes, outside closes

Names == [base : Bases, number : 1 .. MaxSuffix]
LiveStates == {"starting", "idle", "working"}
Record == [name : Names, state : LiveStates \cup {"ended"}, data : Data]
Runs == 1 .. MaxRuns
BudgetKeys == {"ops", "faults", "crashes", "closes"}

(* The operations that take create.lock before <id>.lock, and the others.  *)
NamingOps == {"create", "respawn", "rename", "stop"}
OneAgentOps == {"fork", "refresh", "update", "interrupt"}
Ops == NamingOps \cup OneAgentOps \cup {"hook", "refreshAll"}

PCs == {"idle", "queue", "want", "launch", "link", "undo", "tmuxRename",
        "deliver", "save", "leaving", "killing", "scanned", "listed"}

Job == [op : Ops \cup {None}, id : Ids \cup {None},
        old : Record \cup {None}, new : Record \cup {None},
        run : Runs \cup {None}, todo : SUBSET Ids, then : PCs]
NoJob == [op |-> None, id |-> None, old |-> None, new |-> None,
          run |-> None, todo |-> {}, then |-> "idle"]

Run == [id : Ids \cup {None}, name : Names \cup {None},
        open : BOOLEAN, linked : BOOLEAN, alive : BOOLEAN]
NotStarted == [id |-> None, name |-> None,
               open |-> FALSE, linked |-> FALSE, alive |-> FALSE]

ASSUME ConstantsAssumption ==
  /\ None \notin Procs \cup Ids \cup Names \cup Record \cup Runs \cup Ops
  /\ MaxSuffix \in Nat
  /\ MaxRuns \in Nat
  /\ HookStates \subseteq {"idle", "working", "ended"}
  /\ Operations \subseteq Ops
  /\ Budget \in [BudgetKeys -> Nat]

VARIABLES
  record,      \* record[i]: agents/<i>/agent.json
  createLock,  \* who holds create.lock
  agentLock,   \* agentLock[i]: who holds <i>.lock
  minted,      \* the ids given out
  worktrees,   \* the agents whose worktree is on disk
  profiles,    \* the agents whose composed profile is on disk
  runs,        \* runs[r]: the r-th program started in tmux
  started,     \* how many were
  pc, job,     \* each process: where it is, what it works on
  budget       \* what is left of Budget

diskVars == <<record, minted, worktrees, profiles>>
lockVars == <<createLock, agentLock>>
tmuxVars == <<runs, started>>
vars == <<record, createLock, agentLock, minted, worktrees, profiles,
          runs, started, pc, job, budget>>

(* AgentRegistry's operators, over this module's record.                   *)
Registry == INSTANCE AgentRegistry

Running(r) == Registry!Running(r)
NameFree(n, i) == Registry!NameFree(n, i)

Init ==
  /\ record = [i \in Ids |-> None]
  /\ createLock = None
  /\ agentLock = [i \in Ids |-> None]
  /\ minted = {} /\ worktrees = {} /\ profiles = {}
  /\ runs = [r \in Runs |-> NotStarted]
  /\ started = 0
  /\ pc = [p \in Procs |-> "idle"]
  /\ job = [p \in Procs |-> NoJob]
  /\ budget = Budget

----------------------------------------------------------------------------
(* Helpers *)

Go(p, to) == pc' = [pc EXCEPT ![p] = to]

Spend(k) == budget[k] > 0 /\ budget' = [budget EXCEPT ![k] = @ - 1]

(* The operations of S return or die: their guards drop, whatever they     *)
(* held is free.                                                           *)
Leave(S) ==
  /\ pc' = [p \in Procs |-> IF p \in S THEN "idle" ELSE pc[p]]
  /\ job' = [p \in Procs |-> IF p \in S THEN NoJob ELSE job[p]]
  /\ createLock' = IF createLock \in S THEN None ELSE createLock
  /\ agentLock' = [i \in Ids |-> IF agentLock[i] \in S THEN None ELSE agentLock[i]]

(* Mutant: <id>.lock is not waited for. *)
TakeUnguarded(p, i) == agentLock' = [agentLock EXCEPT ![i] = p]

Take(p, i) ==
  /\ agentLock[i] = None
  /\ agentLock' = [agentLock EXCEPT ![i] = p]

(* list-sessions: the sessions of agent i that carry its @tx-id.           *)
LiveRuns(i) == {r \in Runs : runs[r].id = i /\ runs[r].open /\ runs[r].linked}

(* The sessions of agent i, linked or not.                                 *)
OpenRuns(i) == {r \in Runs : runs[r].id = i /\ runs[r].open}

(* The tmux session named n.                                               *)
SessionsNamed(n) == {r \in Runs : runs[r].open /\ runs[r].name = n}

CloseSessions(S) ==
  runs' = [r \in Runs |-> IF r \in S THEN [runs[r] EXCEPT !.open = FALSE] ELSE runs[r]]

HooksOf(r) == {p \in Procs : pc[p] # "idle" /\ job[p].op = "hook" /\ job[p].run = r}

(* The first of base, base-2, ... that no running record has.              *)
IsFirstFree(n) ==
  /\ \A i \in Ids : Running(record[i]) => record[i].name # n
  /\ \A k \in 1 .. n.number - 1 :
       \E i \in Ids : Running(record[i]) /\ record[i].name = [n EXCEPT !.number = k]

----------------------------------------------------------------------------
(* Begin: a process starts an operation.  The operations on a name wait for *)
(* create.lock first, those on one agent for its lock.                     *)

Begin(p, j) ==
  /\ pc[p] = "idle"
  /\ j.op \in Operations
  /\ Spend("ops")
  /\ Go(p, IF j.op \in NamingOps THEN "queue" ELSE "want")
  /\ job' = [job EXCEPT ![p] = j]
  /\ UNCHANGED <<diskVars, lockVars, tmuxVars>>

BeginCreate(p) == Begin(p, [NoJob EXCEPT !.op = "create"])

BeginOnAgent(p, op, i) ==
  /\ record[i] # None
  /\ Begin(p, [NoJob EXCEPT !.op = op, !.id = i])

(* A hook command runs inside the session of a program that is alive.      *)
BeginHook(p, r) ==
  /\ runs[r].alive
  /\ Begin(p, [NoJob EXCEPT !.op = "hook", !.id = runs[r].id, !.run = r])

(* respawn, rename and stop: create.lock, held until the operation ends.   *)
TakeCreateLock(p) ==
  /\ pc[p] = "queue"
  /\ job[p].op # "create"
  /\ createLock = None
  /\ createLock' = p
  /\ Go(p, "want")
  /\ UNCHANGED <<diskVars, agentLock, tmuxVars, job, budget>>

(* <id>.lock is taken and the record read into r; r is None for an agent   *)
(* without a record.                                                       *)
Enter(p, op) ==
  /\ pc[p] = "want"
  /\ job[p].op = op
  /\ Take(p, job[p].id)
  /\ UNCHANGED <<diskVars, createLock, tmuxVars, budget>>

(* The operation finds nothing to do, or refuses, and returns at once.     *)
Refuse(p, op) ==
  /\ pc[p] = "want"
  /\ job[p].op = op
  /\ agentLock[job[p].id] = None
  /\ Leave({p})
  /\ UNCHANGED <<diskVars, tmuxVars, budget>>

Loaded(p) == record[job[p].id]

(* What the operation found (job.old) and what it will save (job.new).     *)
Prepare(p, new) == job' = [job EXCEPT ![p].old = Loaded(p), ![p].new = new]

----------------------------------------------------------------------------
(* create and fork *)

(* Mutant: the source's lock is kept while waiting for create.lock. *)
ForkKeepingLock(p) ==
  /\ pc[p] = "want"
  /\ job[p].op = "fork"
  /\ Take(p, job[p].id)
  /\ Loaded(p) # None
  /\ job' = [job EXCEPT ![p] = [NoJob EXCEPT !.op = "create"]]
  /\ Go(p, "queue")
  /\ UNCHANGED <<diskVars, createLock, tmuxVars, budget>>

(* The snapshot of the source, under its lock, which is dropped at once.   *)
ForkSnapshot(p) ==
  /\ pc[p] = "want"
  /\ job[p].op = "fork"
  /\ agentLock[job[p].id] = None
  /\ Loaded(p) # None
  /\ job' = [job EXCEPT ![p] = [NoJob EXCEPT !.op = "create"]]
  /\ Go(p, "queue")
  /\ UNCHANGED <<diskVars, lockVars, tmuxVars, budget>>

(* Under create.lock: the first free name, a worktree of its own, a new    *)
(* id, and what the engine makes of the options (and of the source's data).*)
NewAgent(p) ==
  /\ pc[p] = "queue"
  /\ job[p].op = "create"
  /\ createLock = None
  /\ createLock' = p
  /\ Go(p, "launch")
  /\ \E i \in Ids \ minted, n \in Names, d \in Data :
       /\ IsFirstFree(n)
       /\ minted' = minted \cup {i}
       /\ worktrees' = worktrees \cup {i}
       /\ job' = [job EXCEPT ![p] = [NoJob EXCEPT !.op = "create", !.id = i,
                    !.new = [name |-> n, state |-> "starting", data |-> d]]]
  /\ UNCHANGED <<record, agentLock, profiles, tmuxVars, budget>>

(* NoFreeName: all MaxSuffix names of a base are taken (or, a bound of the *)
(* model, no id is left).                                                  *)
NoFreeName(p) ==
  /\ pc[p] = "queue"
  /\ job[p].op = "create"
  /\ createLock = None
  /\ \/ \E b \in Bases : \A k \in 1 .. MaxSuffix :
          ~NameFree([base |-> b, number |-> k], None)
     \/ Ids = minted
  /\ Leave({p})
  /\ UNCHANGED <<diskVars, tmuxVars, budget>>

(* Mutant: the record is saved before the session is linked. *)
LaunchUnlinked(p) ==
  /\ pc[p] = "launch"
  /\ started < MaxRuns
  /\ SessionsNamed(job[p].new.name) = {}
  /\ profiles' = profiles \cup {job[p].id}
  /\ started' = started + 1
  /\ runs' = [runs EXCEPT ![started + 1] =
       [id |-> job[p].id, name |-> job[p].new.name,
        open |-> TRUE, linked |-> FALSE, alive |-> TRUE]]
  /\ Go(p, "save")
  /\ UNCHANGED <<record, minted, worktrees, lockVars, job, budget>>

(* start_locked: the profile is written, then tmux starts the program in a *)
(* session of the agent's name.                                            *)
Launch(p) ==
  /\ pc[p] = "launch"
  /\ started < MaxRuns
  /\ SessionsNamed(job[p].new.name) = {}
  /\ profiles' = profiles \cup {job[p].id}
  /\ started' = started + 1
  /\ runs' = [runs EXCEPT ![started + 1] =
       [id |-> job[p].id, name |-> job[p].new.name,
        open |-> TRUE, linked |-> FALSE, alive |-> TRUE]]
  /\ Go(p, "link")
  /\ UNCHANGED <<record, minted, worktrees, lockVars, job, budget>>

(* Mutant: the worktree of a failed create stays. *)
GiveUpHalf(p) == Leave({p}) /\ UNCHANGED <<record, minted, worktrees>>

(* A launch that failed: the worktree goes if the agent was to be created. *)
GiveUp(p) ==
  /\ worktrees' = IF job[p].op = "create" THEN worktrees \ {job[p].id} ELSE worktrees
  /\ Leave({p})
  /\ UNCHANGED <<record, minted>>

(* ... and so does the profile once it is written.                         *)
Abandon(p) == profiles' = profiles \ {job[p].id} /\ GiveUp(p)

(* A missing variable, or the engine fails to prepare: no profile yet.     *)
PrepareFails(p) ==
  /\ pc[p] = "launch"
  /\ Spend("faults")
  /\ GiveUp(p)
  /\ UNCHANGED <<profiles, tmuxVars>>

(* tmux has a session of that name already (NameTaken), or the engine, the *)
(* workspace or tmux refuses: a fault.                                     *)
LaunchFails(p) ==
  /\ pc[p] = "launch"
  /\ \/ /\ SessionsNamed(job[p].new.name) # {} \/ started = MaxRuns
        /\ UNCHANGED budget
     \/ Spend("faults")
  /\ Abandon(p)
  /\ UNCHANGED tmuxVars

(* set-option @tx-id on the session of that name.                          *)
Link(p) ==
  /\ pc[p] = "link"
  /\ \E r \in SessionsNamed(job[p].new.name) :
       runs' = [runs EXCEPT ![r].id = job[p].id, ![r].linked = TRUE]
  /\ Go(p, "save")
  /\ UNCHANGED <<diskVars, lockVars, started, job, budget>>

(* The program exited at once and took its session along: an agent that    *)
(* ran and ended.                                                          *)
LinkVanished(p) ==
  /\ pc[p] = "link"
  /\ SessionsNamed(job[p].new.name) = {}
  /\ job' = [job EXCEPT ![p].new.state = "ended"]
  /\ Go(p, "save")
  /\ UNCHANGED <<diskVars, lockVars, tmuxVars, budget>>

LinkFails(p) ==
  /\ pc[p] = "link"
  /\ Spend("faults")
  /\ Go(p, "undo")
  /\ UNCHANGED <<diskVars, lockVars, tmuxVars, job>>

(* The undo of a failed launch: kill-session by name, its failure ignored. *)
Undo(p) ==
  /\ pc[p] = "undo"
  /\ \/ CloseSessions(SessionsNamed(job[p].new.name)) /\ UNCHANGED budget
     \/ UNCHANGED runs /\ Spend("faults")
  /\ Abandon(p)
  /\ UNCHANGED started

----------------------------------------------------------------------------
(* respawn and rename *)

(* Mutant: the name is not checked again. *)
CanRespawnAnyName(i) ==
  /\ record[i].state = "ended"
  /\ LiveRuns(i) = {}
  /\ i \in worktrees

CanRespawn(i) ==
  /\ record[i].state = "ended"
  /\ LiveRuns(i) = {}
  /\ i \in worktrees
  /\ NameFree(record[i].name, i)

Respawn(p) ==
  /\ Enter(p, "respawn")
  /\ CanRespawn(job[p].id)
  /\ \E d \in Data : Prepare(p, [Loaded(p) EXCEPT !.state = "starting", !.data = d])
  /\ Go(p, "launch")

RespawnRefused(p) ==
  /\ Refuse(p, "respawn")
  /\ ~CanRespawn(job[p].id)

CanRename(i, n) ==
  /\ record[i].name # n
  /\ NameFree(n, i)

(* A running agent's tmux session is renamed first, then the record.       *)
Rename(p) ==
  /\ Enter(p, "rename")
  /\ \E n \in Names :
       /\ CanRename(job[p].id, n)
       /\ \/ /\ ~Running(Loaded(p)) \/ LiveRuns(job[p].id) = {}
             /\ Prepare(p, [Loaded(p) EXCEPT !.name = n])
             /\ Go(p, "save")
          \/ /\ Running(Loaded(p))
             /\ \E r \in LiveRuns(job[p].id) :
                  job' = [job EXCEPT ![p].old = Loaded(p), ![p].run = r,
                                     ![p].new = [Loaded(p) EXCEPT !.name = n]]
             /\ Go(p, "tmuxRename")

(* The name is the agent's own, or a running agent holds it (NameTaken).   *)
RenameRefused(p) ==
  /\ Refuse(p, "rename")
  /\ \E n \in Names : ~CanRename(job[p].id, n)

TmuxRename(p) ==
  /\ pc[p] = "tmuxRename"
  /\ runs[job[p].run].open
  /\ SessionsNamed(job[p].new.name) = {}
  /\ runs' = [runs EXCEPT ![job[p].run].name = job[p].new.name]
  /\ Go(p, "save")
  /\ UNCHANGED <<diskVars, lockVars, started, job, budget>>

(* The session vanished, another one has the name, or tmux fails.          *)
TmuxRenameFails(p) ==
  /\ pc[p] = "tmuxRename"
  /\ \/ /\ ~runs[job[p].run].open \/ SessionsNamed(job[p].new.name) # {}
        /\ UNCHANGED budget
     \/ Spend("faults")
  /\ Leave({p})
  /\ UNCHANGED <<diskVars, tmuxVars>>

----------------------------------------------------------------------------
(* Operations that end a run: stop, refresh, refresh_all *)

Ended(r) == [r EXCEPT !.state = "ended"]

(* mark_exited: a running record whose session is gone.                    *)
MarkExited(p, then) ==
  /\ job' = [job EXCEPT ![p].old = Loaded(p), ![p].new = Ended(Loaded(p)),
                        ![p].then = then]
  /\ Go(p, "save")

Stop(p) ==
  /\ Enter(p, "stop")
  /\ Running(Loaded(p))
  /\ \E r \in LiveRuns(job[p].id) :
       job' = [job EXCEPT ![p].old = Loaded(p), ![p].new = Ended(Loaded(p)),
                          ![p].run = r]
  /\ Go(p, "deliver")

StopVanished(p) ==
  /\ Enter(p, "stop")
  /\ Running(Loaded(p))
  /\ LiveRuns(job[p].id) = {}
  /\ MarkExited(p, "idle")

StopRefused(p) ==
  /\ Refuse(p, "stop")
  /\ ~Running(Loaded(p))

(* The engine's stop input is typed; the CLI may leave by itself.          *)
StopTyped(p) ==
  /\ pc[p] = "deliver"
  /\ runs[job[p].run].open
  /\ job' = [job EXCEPT ![p].then = "leaving"]
  /\ Go(p, "save")
  /\ UNCHANGED <<diskVars, lockVars, tmuxVars, budget>>

(* An engine without a stop input (or not registered): kill-session.  The  *)
(* wait needs the pane's pid: without a pane there is none.                *)
StopKilled(p) ==
  /\ pc[p] = "deliver"
  /\ CloseSessions({job[p].run})
  /\ job' = [job EXCEPT ![p].then =
               IF runs[job[p].run].open THEN "killing" ELSE "idle"]
  /\ Go(p, "save")
  /\ UNCHANGED <<diskVars, lockVars, started, budget>>

(* The pane vanished before the input reached it, or tmux fails.           *)
DeliverFails(p) ==
  /\ pc[p] = "deliver"
  /\ \/ ~runs[job[p].run].open /\ UNCHANGED budget
     \/ Spend("faults")
  /\ Leave({p})
  /\ UNCHANGED <<diskVars, tmuxVars>>

(* The wait: create.lock is held, <id>.lock is not.                        *)
ProcessLeft(p) ==
  /\ pc[p] \in {"leaving", "killing"}
  /\ ~runs[job[p].run].alive
  /\ Leave({p})
  /\ UNCHANGED <<diskVars, tmuxVars, budget>>

(* Mutant: stop returns once it has asked tmux to close the session. *)
LeaveUnwaited(p) ==
  /\ pc[p] = "leaving"
  /\ runs[job[p].run].alive
  /\ CloseSessions({job[p].run})
  /\ Leave({p})
  /\ UNCHANGED <<diskVars, started, budget>>

(* STOP_WAIT has passed: kill-session, then STOP_WAIT again.               *)
LeaveTimeout(p) ==
  /\ pc[p] = "leaving"
  /\ runs[job[p].run].alive
  /\ CloseSessions({job[p].run})
  /\ Go(p, "killing")
  /\ UNCHANGED <<diskVars, lockVars, started, job, budget>>

(* tmux fails that kill-session: stop returns, of a record that has ended  *)
(* and a program that goes on.                                             *)
LeaveFails(p) ==
  /\ pc[p] = "leaving"
  /\ runs[job[p].run].alive
  /\ Spend("faults")
  /\ Leave({p})
  /\ UNCHANGED <<diskVars, tmuxVars>>

(* The process of run r is gone, and its session and hook commands with    *)
(* it, and those in S.                                                     *)
Dies(r, S) ==
  /\ runs' = [runs EXCEPT ![r].alive = FALSE, ![r].open = FALSE]
  /\ Leave(HooksOf(r) \cup S)
  /\ UNCHANGED <<diskVars, started, budget>>

(* Mutant: stop gives up without SIGKILL. *)
KillGivesUp(p) ==
  /\ pc[p] = "killing"
  /\ runs[job[p].run].alive
  /\ Leave({p})
  /\ UNCHANGED <<diskVars, tmuxVars, budget>>

(* STOP_WAIT has passed once more: SIGKILL.                                *)
KillTimeout(p) ==
  /\ pc[p] = "killing"
  /\ runs[job[p].run].alive
  /\ Dies(job[p].run, {p})

(* Mutant: tmux is not asked. *)
RefreshUnlisted(p) ==
  /\ Enter(p, "refresh")
  /\ Running(Loaded(p))
  /\ MarkExited(p, "idle")

Refresh(p) ==
  /\ Enter(p, "refresh")
  /\ Running(Loaded(p))
  /\ LiveRuns(job[p].id) = {}
  /\ MarkExited(p, "idle")

RefreshUnchanged(p) ==
  /\ Refuse(p, "refresh")
  /\ ~Running(Loaded(p)) \/ LiveRuns(job[p].id) # {}

(* refresh_all scans the records, then lists tmux once, then takes the     *)
(* agents without a session one by one under their locks.                  *)
Scan(p) ==
  /\ pc[p] = "idle"
  /\ "refreshAll" \in Operations
  /\ Spend("ops")
  /\ Go(p, "scanned")
  /\ job' = [job EXCEPT ![p] = [NoJob EXCEPT !.op = "refreshAll",
               !.todo = {i \in Ids : Running(record[i])}]]
  /\ UNCHANGED <<diskVars, lockVars, tmuxVars>>

List(p) ==
  /\ pc[p] = "scanned"
  /\ Go(p, "listed")
  /\ job' = [job EXCEPT ![p].todo = {i \in @ : LiveRuns(i) = {}}]
  /\ UNCHANGED <<diskVars, lockVars, tmuxVars, budget>>

(* Under <id>.lock the record is loaded again; tmux is not asked again.    *)
RefreshNext(p) ==
  /\ pc[p] = "listed"
  /\ \E i \in job[p].todo :
       \/ /\ Running(record[i])
          /\ Take(p, i)
          /\ job' = [job EXCEPT ![p].id = i, ![p].todo = @ \ {i}, ![p].then = "listed",
                                ![p].old = record[i], ![p].new = Ended(record[i])]
          /\ Go(p, "save")
       \/ /\ ~Running(record[i])
          /\ agentLock[i] = None
          /\ job' = [job EXCEPT ![p].todo = @ \ {i}]
          /\ UNCHANGED <<agentLock, pc>>
  /\ UNCHANGED <<diskVars, createLock, tmuxVars, budget>>

RefreshDone(p) ==
  /\ pc[p] = "listed"
  /\ job[p].todo = {}
  /\ Leave({p})
  /\ UNCHANGED <<diskVars, tmuxVars, budget>>

----------------------------------------------------------------------------
(* hook, interrupt, update_ext and set_agent_tags *)

(* Mutant: a stale hook of an ended agent is applied. *)
HookOfAny(p) ==
  /\ Enter(p, "hook")
  /\ Loaded(p) # None
  /\ \E s \in HookStates, d \in Data :
       LET new == [Loaded(p) EXCEPT !.state = s, !.data = d]
       IN  new # Loaded(p) /\ Prepare(p, new)
  /\ Go(p, "save")

(* The engine turns the hook into a state and its own data.                *)
Hook(p) ==
  /\ Enter(p, "hook")
  /\ Running(Loaded(p))
  /\ \E s \in HookStates \cup {Loaded(p).state}, d \in Data :
       LET new == [Loaded(p) EXCEPT !.state = s, !.data = d]
       IN  new # Loaded(p) /\ Prepare(p, new)
  /\ Go(p, "save")

(* No record yet, a stale hook (the record has ended), or nothing changed. *)
HookIgnored(p) == Refuse(p, "hook")

Interrupt(p) ==
  /\ Enter(p, "interrupt")
  /\ Running(Loaded(p))
  /\ Loaded(p).state # "idle"
  /\ LiveRuns(job[p].id) # {}
  /\ Prepare(p, [Loaded(p) EXCEPT !.state = "idle"])
  /\ Go(p, "save")

(* Not running, not live, idle already, or the engine has no interrupt.    *)
InterruptRefused(p) == Refuse(p, "interrupt")

Update(p) ==
  /\ Enter(p, "update")
  /\ \E d \in Data : Prepare(p, [Loaded(p) EXCEPT !.data = d])
  /\ Go(p, "save")

----------------------------------------------------------------------------
(* Every record write: the record is replaced whole, then <id>.lock drops. *)

WriteRecord(p) == record' = [record EXCEPT ![job[p].id] = job[p].new]

Save(p) ==
  /\ pc[p] = "save"
  /\ WriteRecord(p)
  /\ IF job[p].then = "idle"
     THEN Leave({p})
     ELSE /\ Go(p, job[p].then)
          /\ agentLock' = [agentLock EXCEPT ![job[p].id] = None]
          /\ job' = [job EXCEPT ![p].old = None, ![p].new = None, ![p].then = "idle"]
          /\ UNCHANGED createLock
  /\ UNCHANGED <<minted, worktrees, profiles, tmuxVars, budget>>

(* The save fails before the file is replaced, or after it (the directory  *)
(* could not be synced).  A launch undoes itself, the others return.       *)
SaveFails(p) ==
  /\ pc[p] = "save"
  /\ Spend("faults")
  /\ WriteRecord(p) \/ UNCHANGED record
  /\ IF job[p].op \in {"create", "respawn"}
     THEN Go(p, "undo") /\ UNCHANGED <<lockVars, job>>
     ELSE Leave({p})
  /\ UNCHANGED <<minted, worktrees, profiles, tmuxVars>>

(* tmux's list-sessions, or git for a worktree, fails: nothing is written. *)
InspectionFails(p) ==
  /\ \/ pc[p] = "queue" /\ job[p].op = "create" /\ createLock = None
     \/ pc[p] = "want" /\ job[p].op \in {"respawn", "rename", "stop", "refresh", "interrupt"}
        /\ agentLock[job[p].id] = None
     \/ pc[p] = "scanned"
  /\ Spend("faults")
  /\ Leave({p})
  /\ UNCHANGED <<diskVars, tmuxVars>>

----------------------------------------------------------------------------
(* What happens around the operations *)

(* A program exits; it waits for its hook commands first, or takes them    *)
(* along.                                                                  *)
ProcessExits(r) == runs[r].alive /\ Dies(r, {})

(* Someone closes the session through tmux; the program wraps up.          *)
SessionClosed(r) ==
  /\ runs[r].open
  /\ Spend("closes")
  /\ CloseSessions({r})
  /\ UNCHANGED <<diskVars, lockVars, started, pc, job>>

(* A process is killed: the kernel drops its locks, nothing is undone.     *)
Crash(p) ==
  /\ pc[p] # "idle"
  /\ Spend("crashes")
  /\ Leave({p})
  /\ UNCHANGED <<diskVars, tmuxVars>>

----------------------------------------------------------------------------
BeginAny(p) ==
  \/ BeginCreate(p)
  \/ \E i \in Ids, op \in (NamingOps \ {"create"}) \cup OneAgentOps : BeginOnAgent(p, op, i)
  \/ \E r \in Runs : BeginHook(p, r)
  \/ Scan(p)

CreateStep(p) ==
  \/ TakeCreateLock(p) \/ ForkSnapshot(p) \/ NewAgent(p) \/ NoFreeName(p)
  \/ Launch(p) \/ PrepareFails(p) \/ LaunchFails(p) \/ Link(p) \/ LinkVanished(p) \/ LinkFails(p) \/ Undo(p)

NameStep(p) ==
  \/ Respawn(p) \/ RespawnRefused(p)
  \/ Rename(p) \/ RenameRefused(p) \/ TmuxRename(p) \/ TmuxRenameFails(p)

EndStep(p) ==
  \/ Stop(p) \/ StopVanished(p) \/ StopRefused(p) \/ StopTyped(p) \/ StopKilled(p)
  \/ DeliverFails(p) \/ ProcessLeft(p) \/ LeaveTimeout(p) \/ LeaveFails(p)
  \/ KillTimeout(p) \/ Refresh(p) \/ RefreshUnchanged(p) \/ List(p) \/ RefreshNext(p) \/ RefreshDone(p)

MoveStep(p) ==
  \/ Hook(p) \/ HookIgnored(p) \/ Interrupt(p) \/ InterruptRefused(p) \/ Update(p)

(* The steps a process takes inside an operation. *)
Step(p) ==
  \/ CreateStep(p) \/ NameStep(p) \/ EndStep(p) \/ MoveStep(p)
  \/ Save(p) \/ SaveFails(p) \/ InspectionFails(p)

Environment == \E r \in Runs : ProcessExits(r) \/ SessionClosed(r)

Next ==
  \/ \E p \in Procs : BeginAny(p) \/ Step(p) \/ Crash(p)
  \/ Environment

Spec == Init /\ [][Next]_vars

(* A process that is in an operation goes on with it: its calls to git,    *)
(* tmux and the file system return, its waits time out, and a lock it      *)
(* waits for is given to it once it stays free.  Nothing is assumed of the *)
(* programs in the sessions, or of the user.                               *)
Fairness == \A p \in Procs : WF_vars(Step(p))
FairSpec == Spec /\ Fairness
----------------------------------------------------------------------------
(* Properties *)

TypeOK ==
  /\ record \in [Ids -> Record \cup {None}]
  /\ createLock \in Procs \cup {None}
  /\ agentLock \in [Ids -> Procs \cup {None}]
  /\ minted \subseteq Ids /\ worktrees \subseteq Ids /\ profiles \subseteq Ids
  /\ runs \in [Runs -> Run]
  /\ started \in 0 .. MaxRuns
  /\ pc \in [Procs -> PCs]
  /\ job \in [Procs -> Job]
  /\ budget \in [BudgetKeys -> Nat]

(* README, core.rs: names are unique among the running agents.  The check  *)
(* and the save lie far apart, with tmux and git in between; create.lock   *)
(* has to bridge them in create, fork, respawn and rename alike.           *)
UniqueRunningNames == Registry!UniqueRunningNames

(* Whatever saves a record saves it over the one it loaded: no hook, stop, *)
(* rename, tag or refresh undoes another's write with a stale copy, also   *)
(* where create saves without <id>.lock and stop waits without it.         *)
NoLostUpdate ==
  \A p \in Procs : pc[p] = "save" => record[job[p].id] = job[p].old

(* "A record exists only after its tmux session does" (refresh_all): a     *)
(* running record's last program has been linked to it.                    *)
RecordedAfterLinked ==
  \A i \in Ids : Running(record[i]) =>
    \E r \in Runs :
      /\ runs[r].id = i /\ runs[r].linked
      /\ \A s \in Runs : runs[s].id = i => s <= r

Used(k) == Budget[k] - budget[k]

(* core.rs, start_locked: a failed create leaves no session, no profile    *)
(* and no worktree behind, wherever it fails; one fault at a time, as the  *)
(* undo ignores what fails in it.                                          *)
FailedCreateLeavesNothing ==
  Used("faults") <= 1 /\ Used("crashes") = 0 =>
    \A i \in minted :
      record[i] = None /\ (\A p \in Procs : job[p].id # i \/ job[p].op # "create") =>
        /\ i \notin worktrees \cup profiles
        /\ \A r \in Runs : runs[r].id = i => ~runs[r].open

(* Between renames, a running agent's session carries its record's name:   *)
(* the name a user attaches to is the name the registry shows.             *)
SessionNamedAsRecord ==
  Used("faults") = 0 /\ Used("crashes") = 0 /\ createLock = None =>
    \A i \in Ids : Running(record[i]) =>
      \A r \in LiveRuns(i) : runs[r].name = record[i].name

(* What the registry shows of a running agent is there in tmux, under the  *)
(* name it shows (start_locked, rename).                                   *)
SessionsAsRecorded == RecordedAfterLinked /\ SessionNamedAsRecord

(* refresh and stop call an agent exited only when no session that carries *)
(* its id is left, up to the moment they save it.  A session without the   *)
(* @tx-id is left only by a tx killed in a launch, or by an undo that      *)
(* failed like the launch before it.                                       *)
ExitedMeansGone ==
  \A p \in Procs :
    pc[p] = "save" /\ (job[p].op = "refresh" \/ (job[p].op = "stop" /\ job[p].run = None))
      => /\ LiveRuns(job[p].id) = {}
         /\ Used("faults") <= 1 /\ Used("crashes") = 0 => OpenRuns(job[p].id) = {}

(* refresh_all, "a record missing from a later listing has truly gone": it *)
(* ends only agents without a session.                                     *)
RefreshAllEndsOnlyGone ==
  \A p \in Procs :
    pc[p] = "save" /\ job[p].op = "refreshAll" => OpenRuns(job[p].id) = {}

(* The same of agents that were launched once, for which the reason the    *)
(* comment gives is a good one.                                            *)
RefreshAllEndsOnlyGoneOnce ==
  \A p \in Procs :
    /\ pc[p] = "save" /\ job[p].op = "refreshAll"
    /\ \A r, s \in Runs : runs[r].id = job[p].id /\ runs[s].id = job[p].id => r = s
    => OpenRuns(job[p].id) = {}

(* No exit is recorded of an agent whose session is open (refresh, stop,   *)
(* and refresh_all of agents launched once).                               *)
EndedMeansGone == ExitedMeansGone /\ RefreshAllEndsOnlyGoneOnce

(* The wait of stop_agent under create.lock: a new program of an agent is  *)
(* started only after the last one is gone, unless a fault, a killed tx    *)
(* process or someone closing the session behind tx's back interferes.     *)
Undisturbed == \A k \in {"faults", "crashes", "closes"} : Used(k) = 0
OneProgramPerAgent ==
  Undisturbed =>
    \A r, s \in Runs :
      runs[r].alive /\ runs[s].alive /\ runs[r].id = runs[s].id => r = s

(* core.rs, wait_or_kill: "no late hook of this run can reach a respawn".  *)
(* What a hook writes is about the program that is running.                *)
HookReachesItsOwnRun ==
  Undisturbed =>
    \A p \in Procs : pc[p] = "save" /\ job[p].op = "hook" =>
      \A r \in Runs : runs[r].id = job[p].id => r <= job[p].run

(* No lock order, wait or retry keeps an operation from returning, even if *)
(* the program it stops never leaves by itself.                            *)
OperationsFinish == \A p \in Procs : pc[p] # "idle" ~> pc[p] = "idle"

(* A stop that waits ends with the program gone, whatever the program does *)
(* and whatever failed before; only a crash or a tmux failure from then on *)
(* leaves the program to itself (stop_locked).                             *)
StopEndsTheProgram ==
  \A r \in Runs, n \in 0 .. Budget["faults"] :
    (Used("faults") = n /\ \E p \in Procs : pc[p] \in {"leaving", "killing"} /\ job[p].run = r)
      ~> (~runs[r].alive \/ Used("crashes") > 0 \/ Used("faults") > n)

(* The records change as AgentRegistry says.                               *)
RegistrySpec == Registry!Spec
============================================================================
