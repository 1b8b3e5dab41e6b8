------------------------ MODULE ConversationArchive ------------------------
(***************************************************************************)
(* The archive of one agent's conversations: hooks, stops and exits bring  *)
(* <agent>/archive up to date with the transcript the engine's CLI writes, *)
(* and a respawn puts a transcript back that the CLI has cleaned up        *)
(* (tx-core/src/core.rs, mirror.rs; archive and restore of the adapters).  *)
(*                                                                         *)
(* An archive runs outside <id>.lock, beside a program that goes on        *)
(* writing, under a lock of its own that is taken without waiting: who     *)
(* finds it held leaves the archive to the holder.                         *)
(*                                                                         *)
(* A file is a sequence of lines, read by its name in every step.  Waiting *)
(* for create.lock and <id>.lock is AgentLifecycle's; an operation takes   *)
(* here both that it needs in its first step.                              *)
(***************************************************************************)
EXTENDS Naturals, FiniteSets, Sequences, SequencesExt

CONSTANTS
  Procs,      \* processes running tx and txi
  Convs,      \* conversations; the program opens them one after the other
  FirstConv,  \* the one the agent starts with
  Lines,      \* lines of a transcript
  MaxLen,     \* bound: lines of a transcript
  Window,     \* trailing lines an offset mirror compares (PREFIX_CHECK_BYTES)
  None,       \* a file that is not there; no process
  MaxOps,     \* bound: operations begun
  Disturbances, MaxDisturbed  \* bounds: what may happen, once each, and how many of it

DisturbanceKinds ==
  {"fault",    \* a process is killed, or a file operation fails
   "close",    \* the session is closed by hand, the program lingers
   "orphan",   \* hooks outlive their program
   "rewrite",  \* the program changes a line in place
   "cleanup"}  \* the CLI deletes a transcript

Places == {"live", "copy"}
Archiving == {"tryLock", "compare", "read", "persist", "append", "sidecars", "copying"}
Restoring == {"read", "persist", "sidecars", "copying", "launch"}
PCs == Archiving \cup Restoring \cup {"idle", "leaving"}
Ops == {"hook", "refresh", "stop", "respawn"}

(* What a process mirrors, and in which state the record it was given is.  *)
Job == [op : Ops, conv : Convs, final : BOOLEAN, from : Places, to : Places,
        offset : Nat, bytes : Seq(Lines)]

ASSUME ArchiveAssumption ==
  /\ FirstConv \in Convs
  /\ MaxLen \in Nat /\ Window \in Nat
  /\ None \notin Procs \cup Lines \cup Seq(Lines) \cup Job
  /\ MaxOps \in Nat /\ MaxDisturbed \in Nat
  /\ Disturbances \subseteq DisturbanceKinds

VARIABLES
  file,        \* file.live[c], file.copy[c]: transcript and archived transcript
  sidecar,     \* likewise the sidecar files: "none", "part" of them or "whole"
  recorded,    \* the conversation the record's engine data names
  ended,       \* the record's state is Ended
  endHook,     \* the hook that ended it: "none", "last" of what was done in the run, or "early" (history)
  session,     \* the tmux session is open
  alive,       \* the program runs
  current,     \* the conversation the program is in
  createLock, agentLock, archiveLock,  \* who holds each
  pc, job,     \* each process: where it is, what it works on
  begun,       \* operations begun so far
  disturbed    \* the disturbances so far

agentVars == <<recorded, ended, endHook>>
programVars == <<session, alive, current>>
fileVars == <<file, sidecar>>
lockVars == <<createLock, agentLock, archiveLock>>
boundVars == <<begun, disturbed>>
vars == <<file, sidecar, recorded, ended, endHook, session, alive, current,
          createLock, agentLock, archiveLock, pc, job, begun, disturbed>>

Init ==
  /\ file = [k \in Places |-> [c \in Convs |-> None]]
  /\ sidecar = [k \in Places |-> [c \in Convs |-> "none"]]
  /\ recorded = FirstConv /\ ended = FALSE /\ endHook = "none"
  /\ session = TRUE /\ alive = TRUE /\ current = FirstConv
  /\ createLock = None /\ agentLock = None /\ archiveLock = None
  /\ pc = [p \in Procs |-> "idle"]
  /\ job = [p \in Procs |-> None]
  /\ begun = 0 /\ disturbed = {}

----------------------------------------------------------------------------
(* Helpers *)

Go(p, to) == pc' = [pc EXCEPT ![p] = to]

Disturb(kind) ==
  /\ kind \in Disturbances \ disturbed /\ Cardinality(disturbed) < MaxDisturbed
  /\ disturbed' = disturbed \cup {kind}
  /\ UNCHANGED begun

(* The processes of S return or die: every lock they hold is free.         *)
Leave(S) ==
  LET Free(lock) == IF lock \in S THEN None ELSE lock IN
  /\ pc' = [p \in Procs |-> IF p \in S THEN "idle" ELSE pc[p]]
  /\ job' = [p \in Procs |-> IF p \in S THEN None ELSE job[p]]
  /\ createLock' = Free(createLock)
  /\ agentLock' = Free(agentLock)
  /\ archiveLock' = Free(archiveLock)

Mirror(op, c, final) ==
  [op |-> op, conv |-> c, final |-> final, from |-> "live", to |-> "copy",
   offset |-> 0, bytes |-> <<>>]

Hooks == {p \in Procs : pc[p] # "idle" /\ job[p].op = "hook"}

(* Something its archive misses comes after the hook that ended the record.*)
WentOn == endHook' = IF endHook = "last" THEN "early" ELSE endHook

Source(p) == file[job[p].from][job[p].conv]
Target(p) == file[job[p].to][job[p].conv]
PutTarget(p, lines) == file' = [file EXCEPT ![job[p].to][job[p].conv] = lines]

(* is_prefix: the last Window lines of d stand at the same place in s; an  *)
(* older difference goes unnoticed.                                        *)
PrefixByWindow(d, s) ==
  /\ Len(d) <= Len(s)
  /\ \A k \in 1 .. Len(d) : k + Window > Len(d) => d[k] = s[k]

----------------------------------------------------------------------------
(* The engine's CLI *)

(* The first line makes the file.                                          *)
Lived(c) == IF file.live[c] = None THEN <<>> ELSE file.live[c]

WritesLine ==
  /\ alive /\ Len(Lived(current)) < MaxLen
  /\ \E l \in Lines :
       file' = [file EXCEPT !.live[current] = Append(Lived(current), l)]
  /\ WentOn
  /\ UNCHANGED <<sidecar, recorded, ended, programVars, lockVars, pc, job, boundVars>>

RewritesLine ==
  /\ alive /\ file.live[current] # None /\ Disturb("rewrite")
  /\ \E k \in 1 .. Len(file.live[current]), l \in Lines :
       file' = [file EXCEPT !.live[current][k] = l]
  /\ WentOn
  /\ UNCHANGED <<sidecar, recorded, ended, programVars, lockVars, pc, job>>

(* Sidecars: tool results, subagents' transcripts.                         *)
WritesSidecar ==
  /\ alive /\ file.live[current] # None /\ sidecar.live[current] # "whole"
  /\ sidecar' = [sidecar EXCEPT !.live[current] = "whole"]
  /\ WentOn
  /\ UNCHANGED <<file, recorded, ended, programVars, lockVars, pc, job, boundVars>>

(* /clear: a new conversation in the same program.                         *)
OpensConversation ==
  /\ alive
  /\ \E c \in Convs :
       /\ c # FirstConv /\ \A k \in Places : file[k][c] = None
       /\ current' = c
  /\ UNCHANGED <<fileVars, agentVars, session, alive, lockVars, pc, job, boundVars>>

(* The program leaves, of itself or killed, and the hook commands it began *)
(* with it, unless one has detached from it.                               *)
ProgramDies ==
  /\ alive' = FALSE
  /\ \/ /\ Leave(Hooks) /\ UNCHANGED boundVars
        /\ IF \E p \in Hooks : job[p].final THEN WentOn ELSE UNCHANGED endHook
     \/ Hooks # {} /\ Disturb("orphan") /\ UNCHANGED <<lockVars, pc, job, endHook>>
  /\ UNCHANGED <<fileVars, recorded, ended, current>>

ProgramExits == alive /\ ProgramDies /\ UNCHANGED session

SessionEnds ==
  /\ session /\ ~alive
  /\ session' = FALSE
  /\ UNCHANGED <<fileVars, agentVars, alive, current, lockVars, pc, job, boundVars>>

(* kill-session by hand: the CLI may still be wrapping up.                 *)
SessionClosed ==
  /\ session /\ alive /\ Disturb("close")
  /\ session' = FALSE
  /\ UNCHANGED <<fileVars, agentVars, alive, current, lockVars, pc, job>>

(* Claude deletes transcripts and sidecars nobody has touched for a while. *)
CleansUp ==
  /\ ~alive /\ file.live[recorded] # None /\ Disturb("cleanup")
  /\ \A p \in Procs : pc[p] \notin {"compare", "read", "persist", "append", "sidecars", "copying"}
  /\ file' = [file EXCEPT !.live[recorded] = None]
  /\ sidecar' = [sidecar EXCEPT !.live[recorded] = "none"]
  /\ UNCHANGED <<agentVars, programVars, lockVars, pc, job>>

----------------------------------------------------------------------------
(* The operations that archive *)

Begin(p) ==
  /\ pc[p] = "idle" /\ begun < MaxOps
  /\ begun' = begun + 1 /\ UNCHANGED disturbed

StartJob(p, to, j) == Go(p, to) /\ job' = [job EXCEPT ![p] = j]

(* hook: what on_hook makes of the engine data is saved under <id>.lock;   *)
(* the archive comes after.  A SessionStart names the conversation.        *)
Hook(p) ==
  /\ Begin(p) /\ alive /\ agentLock = None /\ ~ended
  /\ recorded' \in {recorded, current}
  /\ StartJob(p, "tryLock", Mirror("hook", recorded', FALSE))
  /\ UNCHANGED <<fileVars, ended, endHook, programVars, lockVars>>

(* Claude's SessionEnd, but at a /clear or resume: the record is ended, and *)
(* archived as one whose program is gone, although that lives.             *)
EndHook(p) ==
  /\ Begin(p) /\ alive /\ agentLock = None /\ ~ended
  /\ ended' = TRUE /\ endHook' = "last"
  /\ StartJob(p, "tryLock", Mirror("hook", recorded, TRUE))
  /\ UNCHANGED <<fileVars, recorded, programVars, lockVars>>

(* refresh, or a stop that finds the session gone: mark_exited archives    *)
(* with <id>.lock held.                                                    *)
MarkExited(p) ==
  /\ Begin(p) /\ agentLock = None /\ ~ended /\ ~session
  /\ ended' = TRUE
  /\ agentLock' = p
  /\ StartJob(p, "tryLock", Mirror("refresh", recorded, TRUE))
  /\ UNCHANGED <<fileVars, recorded, endHook, programVars, createLock, archiveLock>>

(* stop: the record is saved and <id>.lock released before the wait;       *)
(* create.lock is held to the end.                                         *)
Stop(p) ==
  /\ Begin(p) /\ createLock = None /\ agentLock = None /\ ~ended /\ session
  /\ ended' = TRUE
  /\ createLock' = p
  /\ StartJob(p, "leaving", Mirror("stop", recorded, TRUE))
  /\ UNCHANGED <<fileVars, recorded, endHook, programVars, agentLock, archiveLock>>

(* Mutant: kill-session is all a stop does to a program that stays. *)
StopHangsUp(p) ==
  /\ pc[p] = "leaving" /\ alive /\ session
  /\ session' = FALSE
  /\ UNCHANGED <<fileVars, agentVars, alive, current, lockVars, pc, job, boundVars>>

(* STOP_WAIT, kill-session, STOP_WAIT, SIGKILL: the program is gone.       *)
StopKills(p) ==
  /\ pc[p] = "leaving" /\ alive
  /\ ProgramDies
  /\ session' = FALSE

StopArchives(p) ==
  /\ pc[p] = "leaving" /\ ~alive
  /\ Go(p, "tryLock")
  /\ UNCHANGED <<fileVars, agentVars, programVars, lockVars, job, boundVars>>

----------------------------------------------------------------------------
(* One archive *)

Finish(p) ==
  /\ Leave({p})
  /\ UNCHANGED <<fileVars, agentVars, programVars, boundVars>>

(* Mutant: the archive lock is not exclusive.                              *)
TakeArchiveShared(p) == archiveLock' = p

TakeArchive(p) == archiveLock = None /\ archiveLock' = p

ArchiveLocked(p) ==
  /\ pc[p] = "tryLock" /\ TakeArchive(p)
  /\ Go(p, "compare")
  /\ UNCHANGED <<fileVars, agentVars, programVars, createLock, agentLock, job, boundVars>>

(* Another archive of this agent runs: it is left the work.                *)
ArchiveSkipped(p) ==
  /\ pc[p] = "tryLock" /\ archiveLock # None
  /\ Leave({p})
  /\ IF job[p].op = "hook" /\ job[p].final THEN WentOn ELSE UNCHANGED endHook
  /\ UNCHANGED <<fileVars, recorded, ended, programVars, boundVars>>

(* mirror_file_exact compares everything, mirror_file sizes and window.    *)
UpToDate(p) ==
  IF job[p].final THEN Target(p) = Source(p)
  ELSE Len(Target(p)) = Len(Source(p)) /\ PrefixByWindow(Target(p), Source(p))

(* Only past the target's end: when the process lives and what is there    *)
(* still matches.                                                          *)
AppendsTail(p) ==
  ~job[p].final /\ Len(Target(p)) < Len(Source(p)) /\ PrefixByWindow(Target(p), Source(p))

NoTranscript(p) ==
  /\ pc[p] = "compare" /\ Source(p) = None
  /\ Finish(p)

Compare(p) ==
  /\ pc[p] = "compare" /\ Source(p) # None
  /\ IF Target(p) = None THEN Go(p, "read") /\ UNCHANGED job
     ELSE \/ UpToDate(p) /\ Go(p, "sidecars") /\ UNCHANGED job
          \/ AppendsTail(p)
             /\ StartJob(p, "append", [job[p] EXCEPT !.offset = Len(Target(p))])
          \/ ~UpToDate(p) /\ ~AppendsTail(p) /\ Go(p, "read") /\ UNCHANGED job
  /\ UNCHANGED <<fileVars, agentVars, programVars, lockVars, boundVars>>

(* io::copy to the end of the source as it is then, line by line: the end  *)
(* moves on with the program, and a crash leaves part of the tail.         *)
AppendLine(p) ==
  /\ pc[p] = "append" /\ job[p].offset < Len(Source(p))
  /\ PutTarget(p, Append(Target(p), Source(p)[job[p].offset + 1]))
  /\ job' = [job EXCEPT ![p].offset = @ + 1]
  /\ UNCHANGED <<sidecar, agentVars, programVars, lockVars, pc, boundVars>>

AppendDone(p) ==
  /\ pc[p] = "append" /\ job[p].offset >= Len(Source(p))
  /\ Go(p, "sidecars")
  /\ UNCHANGED <<fileVars, agentVars, programVars, lockVars, job, boundVars>>

(* copy_whole: read, then a temporary file renamed over the target.        *)
ReadWhole(p) ==
  /\ pc[p] = "read"
  /\ StartJob(p, "persist", [job[p] EXCEPT !.bytes = Source(p)])
  /\ UNCHANGED <<fileVars, agentVars, programVars, lockVars, boundVars>>

Persist(p) ==
  /\ pc[p] = "persist"
  /\ PutTarget(p, job[p].bytes)
  /\ Go(p, "sidecars")
  /\ UNCHANGED <<sidecar, agentVars, programVars, lockVars, job, boundVars>>

(* mirror_tree: a sidecar that is there is left as it is, half of one too. *)
SidecarMissing(p) ==
  /\ sidecar[job[p].from][job[p].conv] # "none"
  /\ sidecar[job[p].to][job[p].conv] = "none"

StartSidecar(p) ==
  /\ pc[p] = "sidecars" /\ SidecarMissing(p)
  /\ sidecar' = [sidecar EXCEPT ![job[p].to][job[p].conv] = "part"]
  /\ Go(p, "copying")
  /\ UNCHANGED <<file, agentVars, programVars, lockVars, job, boundVars>>

CopySidecar(p) ==
  /\ pc[p] = "copying"
  /\ sidecar' = [sidecar EXCEPT ![job[p].to][job[p].conv] =
                                sidecar[job[p].from][job[p].conv]]
  /\ Go(p, "sidecars")
  /\ UNCHANGED <<file, agentVars, programVars, lockVars, job, boundVars>>

ArchiveDone(p) ==
  /\ pc[p] = "sidecars" /\ ~SidecarMissing(p) /\ job[p].op # "respawn"
  /\ Finish(p)

Archive(p) ==
  \/ ArchiveLocked(p) \/ ArchiveSkipped(p) \/ NoTranscript(p) \/ Compare(p)
  \/ AppendLine(p) \/ AppendDone(p) \/ ReadWhole(p) \/ Persist(p)
  \/ StartSidecar(p) \/ CopySidecar(p) \/ ArchiveDone(p)

----------------------------------------------------------------------------
(* A respawn: restore, then the launch *)

(* Mutant: the archive is put back whenever there is one. *)
NeedsRestoreAlways(c) == file.copy[c] # None

(* Only a transcript that is gone is put back.                             *)
NeedsRestore(c) == file.live[c] = None /\ file.copy[c] # None

Respawn(p) ==
  /\ Begin(p) /\ createLock = None /\ agentLock = None /\ ended /\ ~session
  /\ createLock' = p /\ agentLock' = p
  /\ StartJob(p, IF NeedsRestore(recorded) THEN "read" ELSE "launch",
              [Mirror("respawn", recorded, FALSE) EXCEPT !.from = "copy", !.to = "live"])
  /\ UNCHANGED <<fileVars, agentVars, programVars, archiveLock>>

Restored(p) ==
  /\ pc[p] = "sidecars" /\ ~SidecarMissing(p) /\ job[p].op = "respawn"
  /\ Go(p, "launch")
  /\ UNCHANGED <<fileVars, agentVars, programVars, lockVars, job, boundVars>>

(* The CLI resumes the conversation the record names ...                   *)
Launch(p) ==
  /\ pc[p] = "launch" /\ file.live[recorded] # None
  /\ session' = TRUE /\ alive' = TRUE /\ current' = recorded
  /\ ended' = FALSE /\ endHook' = "none"
  /\ Leave({p})
  /\ UNCHANGED <<fileVars, recorded, boundVars>>

(* ... and leaves at once when it finds none: the record stays ended.      *)
LaunchFindsNothing(p) ==
  /\ pc[p] = "launch" /\ file.live[recorded] = None
  /\ Finish(p)

----------------------------------------------------------------------------
(* A process is killed, or a call of it fails: an archive then ends in an  *)
(* event, a respawn is refused.                                            *)
Breaks(p) ==
  /\ pc[p] # "idle" /\ Disturb("fault")
  /\ Leave({p})
  /\ UNCHANGED <<fileVars, agentVars, programVars>>

Step(p) ==
  StopKills(p) \/ StopArchives(p) \/ Archive(p)
  \/ Restored(p) \/ Launch(p) \/ LaunchFindsNothing(p)

Next ==
  \/ \E p \in Procs :
       Hook(p) \/ EndHook(p) \/ MarkExited(p) \/ Stop(p) \/ Respawn(p) \/ Step(p) \/ Breaks(p)
  \/ WritesLine \/ RewritesLine \/ WritesSidecar \/ OpensConversation
  \/ ProgramExits \/ SessionEnds \/ SessionClosed \/ CleansUp

Spec == Init /\ [][Next]_vars

(* A running tx process goes on; the program and the hooks need not.       *)
FairSpec == Spec /\ \A p \in Procs : WF_vars(Step(p))

----------------------------------------------------------------------------
(* Properties *)

File == Seq(Lines) \cup {None}

(* Every variable has its type. *)
TypeOK ==
  /\ file \in [Places -> [Convs -> File]]
  /\ sidecar \in [Places -> [Convs -> {"none", "part", "whole"}]]
  /\ recorded \in Convs /\ current \in Convs
  /\ ended \in BOOLEAN /\ session \in BOOLEAN /\ alive \in BOOLEAN
  /\ endHook \in {"none", "last", "early"}
  /\ {createLock, agentLock, archiveLock} \subseteq Procs \cup {None}
  /\ pc \in [Procs -> PCs]
  /\ job \in [Procs -> Job \cup {None}]
  /\ \A p \in Procs : pc[p] = "idle" <=> job[p] = None
  /\ begun \in Nat /\ disturbed \in SUBSET Disturbances

Without(kinds) == disturbed \cap kinds = {}

(* As long as the program only appends, what is archived is the beginning  *)
(* of the transcript at every moment: through concurrent hooks, hooks that *)
(* die in the middle of a copy, clean-ups and restores (mirror_file's      *)
(* append by offset under the archive lock).                               *)
CopyIsPrefix ==
  Without({"rewrite"}) =>
    \A c \in Convs :
      file.live[c] # None /\ file.copy[c] # None => IsPrefix(file.copy[c], file.live[c])

(* Nobody is at work on an agent whose run is over.                        *)
Over == ended /\ ~alive /\ \A p \in Procs : pc[p] = "idle"

FinalArchive ==
  Over /\ file.live[recorded] # None
    => /\ file.copy[recorded] = file.live[recorded]
       /\ sidecar.live[recorded] # "none" => sidecar.copy[recorded] # "none"

(* After a stop or an exit the copy is exact and no sidecar is missing,    *)
(* although the program rewrote lines the offset mirror does not look at   *)
(* (engine.rs, archive: "the copy must be exact").  It needs that nothing  *)
(* failed, and that session, hooks and program end together; and where a   *)
(* hook ended the record, that its archive found the lock free and was     *)
(* done before the program left, and the program wrote nothing more.       *)
ExactWhenOver ==
  Without({"fault", "close", "orphan"}) /\ endHook # "early" => FinalArchive

(* Both of what the archive owes a restore, whatever ran beside it (mirror.rs). *)
ArchiveHolds == CopyIsPrefix /\ ExactWhenOver

(* After a stop or an exit the archive is "up to date with this session's  *)
(* conversation: the transcript [...] and its sidecars" (engine.rs, 329).  *)
(* Not when a hook died with its program in the middle of a sidecar.       *)
SidecarsWholeWhenOver ==
  Without({"fault", "close", "orphan"}) /\ endHook = "none" /\ Over =>
    (sidecar.live[recorded] = "whole" => sidecar.copy[recorded] = "whole")

(* core.rs, archive_conversation: "Called after every hook, and after a     *)
(* stop or an exit, once the process is gone and the transcript final."    *)
(* Not after the exit of a program whose hook has ended its record.        *)
ArchivedWhenOver == Without({"fault", "close", "orphan"}) => FinalArchive

(* Nothing tx does takes a line from a transcript that is there: a restore *)
(* never overwrites one with an older copy (LlmEngine::restore), also when *)
(* the last archive failed and the copy is behind.                         *)
TranscriptsOnlyGrow ==
  [][\A c \in Convs :
       file.live[c] # None /\ file'.live[c] # None /\ "rewrite" \notin disturbed' \ disturbed
         => IsPrefix(file.live[c], file'.live[c])]_vars

(* Neither a hook nor a stop waits for another archive, and a stop does    *)
(* not wait for a program that never leaves: every operation returns.      *)
OperationsReturn ==
  \A p \in Procs : (pc[p] # "idle") ~> (pc[p] = "idle")
=============================================================================
