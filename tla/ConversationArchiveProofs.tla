--------------------- MODULE ConversationArchiveProofs ---------------------
(***************************************************************************)
(* For any number of processes, conversations and lines: no restore takes  *)
(* a line from a transcript, what is archived is its beginning, and after  *)
(* an undisturbed stop or exit it is the whole of it.                      *)
(***************************************************************************)
EXTENDS ConversationArchive, TLAPS

Working(p) == pc[p] # "idle"
Restorer(p) == Working(p) /\ job[p].op = "respawn"
Archiver(p) == Working(p) /\ job[p].op # "respawn"
Final(p) == Archiver(p) /\ job[p].op # "hook"
Ending(p) == Archiver(p) /\ job[p].op = "hook" /\ job[p].final
Copying(p) == Archiver(p) /\ pc[p] # "leaving" /\ pc[p] # "tryLock"

(* An archive goes from the transcript to the copy, a restore back; only a *)
(* stop waits, only hooks that end no run append.                          *)
Directed ==
  \A p \in Procs :
    /\ Archiver(p) => /\ job[p].from = "live" /\ job[p].to = "copy"
                      /\ pc[p] \in Archiving \cup {"leaving"}
                      /\ pc[p] = "leaving" => job[p].op = "stop"
                      /\ pc[p] = "append" => ~job[p].final
                      /\ job[p].op # "hook" => job[p].final
    /\ Restorer(p) => /\ job[p].from = "copy" /\ job[p].to = "live"
                      /\ pc[p] \in Restoring

(* Who holds what: a copy is under the archive lock, what ends a run or    *)
(* begins one under create.lock or <id>.lock.                              *)
Held ==
  \A p \in Procs :
    /\ Copying(p) <=> archiveLock = p
    /\ Restorer(p) => createLock = p /\ agentLock = p
    /\ Working(p) /\ job[p].op = "refresh" => agentLock = p
    /\ Working(p) /\ job[p].op = "stop" => createLock = p

(* The run they work on is over, and its record stays as it is.            *)
OfOver ==
  \A p \in Procs :
    /\ Final(p) \/ Restorer(p) => ended /\ job[p].conv = recorded
    /\ Restorer(p) => ~session

Undisturbed == Without({"fault", "close", "orphan"})

(* What ended the run: a hook, or one of these.                            *)
EndedBy ==
  /\ endHook # "none" => ended /\ \A p \in Procs : ~Final(p)
  /\ Undisturbed => \A p \in Procs : Ending(p) => endHook # "none" /\ job[p].conv = recorded

OneFinal == \A p, q \in Procs : Final(p) /\ Final(q) => p = q

(* A transcript that was archived, or is about to be, is only missing      *)
(* after a clean-up of the conversation of a program that is gone.         *)
Seen(c) == file.copy[c] # None \/ \E p \in Procs : pc[p] = "persist" /\ job[p].conv = c
Missing(c) == Seen(c) /\ file.live[c] = None
CleanedUp == \A c \in Convs : Missing(c) => ~alive /\ c = recorded /\ "cleanup" \in disturbed

(* What is at work has the files it works on.                              *)
Sources ==
  \A p \in Procs :
    /\ Archiver(p) /\ pc[p] \in {"read", "persist", "append"} => file.live[job[p].conv] # None
    /\ Archiver(p) /\ pc[p] = "append" =>
         file.copy[job[p].conv] # None /\ job[p].offset = Len(file.copy[job[p].conv])
    /\ Restorer(p) /\ pc[p] \in {"read", "persist"} =>
         file.live[job[p].conv] = None /\ file.copy[job[p].conv] # None
    /\ Restorer(p) /\ pc[p] \in {"sidecars", "copying"} => file.live[job[p].conv] # None

Sidecars ==
  /\ \A c \in Convs : file.live[c] = None => sidecar.live[c] = "none"
  /\ \A p \in Procs : pc[p] = "copying" => sidecar[job[p].from][job[p].conv] # "none"

(* Hooks end with their program, a session with it.                        *)
Together ==
  /\ Without({"orphan"}) => \A p \in Procs : Archiver(p) /\ job[p].op = "hook" => alive
  /\ Without({"close"}) => (alive => session)

(* While lines are only added, a hook that ends no run copies a whole       *)
(* transcript only when there is no copy, and what is read is its beginning.*)
FirstCopy ==
  Without({"rewrite"}) =>
    \A p \in Procs : Archiver(p) /\ ~job[p].final /\ pc[p] \in {"read", "persist"} =>
       file.copy[job[p].conv] = None

ReadAhead ==
  Without({"rewrite"}) =>
    \A p \in Procs : Archiver(p) /\ pc[p] = "persist" /\ file.live[job[p].conv] # None =>
       IsPrefix(job[p].bytes, file.live[job[p].conv])

(* What is put back is the copy.                                           *)
ReadBack ==
  \A p \in Procs : Restorer(p) /\ pc[p] = "persist" =>
     job[p].bytes = file.copy[job[p].conv]

(* An ended run whose program lives is being stopped, or was ended by a    *)
(* hook; afterwards its last archive is at work or done.                   *)
Stopping ==
  Undisturbed =>
    /\ ended /\ alive /\ endHook = "none" => \E p \in Procs : pc[p] = "leaving"
    /\ \A p \in Procs : Final(p) /\ pc[p] # "leaving" => ~alive
    /\ ended /\ ~alive /\ endHook # "early" => FinalArchive \/ \E p \in Procs : Final(p)

(* Those after whose archive nothing is added to the transcript.           *)
IsLast(p) == Archiver(p) /\ job[p].final /\ (job[p].op = "hook" => endHook = "last")

LastArchive ==
  Undisturbed => \A p \in Procs : IsLast(p) /\ file.live[recorded] # None =>
    /\ pc[p] = "persist" => job[p].bytes = file.live[recorded]
    /\ pc[p] \in {"sidecars", "copying"} => file.copy[recorded] = file.live[recorded]

(* The hook that ended the run has archived it, and it stays archived also *)
(* while earlier hooks are still at it.                                    *)
Exact ==
  file.live[recorded] # None =>
    /\ file.copy[recorded] = file.live[recorded]
    /\ sidecar.live[recorded] # "none" => sidecar.copy[recorded] # "none"

EndArchived ==
  Undisturbed /\ alive /\ endHook = "last" =>
    \/ \E p \in Procs : Ending(p)
    \/ /\ Exact
       /\ \A p \in Procs : Archiver(p) /\ job[p].conv = recorded =>
            pc[p] \notin {"read", "persist", "append"}

IInv ==
  /\ TypeOK /\ Directed /\ Held /\ OfOver /\ EndedBy /\ OneFinal /\ CleanedUp /\ Sources
  /\ Sidecars /\ Together /\ FirstCopy /\ ReadAhead /\ ReadBack /\ CopyIsPrefix
  /\ Stopping /\ LastArchive /\ EndArchived
----------------------------------------------------------------------------
(* Kinds of steps *)

Starts(p) == Hook(p) \/ EndHook(p) \/ MarkExited(p) \/ Stop(p) \/ Respawn(p)

Goes(p) ==
  \/ StopArchives(p) \/ ArchiveLocked(p) \/ Compare(p) \/ AppendLine(p) \/ AppendDone(p)
  \/ ReadWhole(p) \/ Persist(p) \/ StartSidecar(p) \/ CopySidecar(p) \/ Restored(p)

Ends(p) ==
  \/ ArchiveSkipped(p) \/ NoTranscript(p) \/ ArchiveDone(p)
  \/ Launch(p) \/ LaunchFindsNothing(p) \/ Breaks(p)

Exits == ProgramExits \/ \E p \in Procs : StopKills(p)

Around ==
  \/ WritesLine \/ RewritesLine \/ WritesSidecar \/ OpensConversation
  \/ SessionEnds \/ SessionClosed \/ CleansUp \/ UNCHANGED vars

LEMMA NextKinds ==
  [Next]_vars => Exits \/ Around \/ \E p \in Procs : Starts(p) \/ Goes(p) \/ Ends(p)
  BY DEF Next, Step, Archive, Starts, Goes, Ends, Exits, Around

LEMMA Fields ==
  ASSUME TypeOK, NEW p \in Procs, Working(p)
  PROVE  /\ job[p] # None /\ job[p] \in Job
         /\ job[p].op \in Ops /\ job[p].conv \in Convs /\ job[p].final \in BOOLEAN
         /\ job[p].from \in Places /\ job[p].to \in Places
         /\ job[p].offset \in Nat /\ job[p].bytes \in Seq(Lines)
  BY DEF TypeOK, Working, Job

LEMMA MirrorTypes ==
  ASSUME NEW op \in Ops, NEW c \in Convs, NEW final \in BOOLEAN
  PROVE  /\ Mirror(op, c, final) \in Job
         /\ [Mirror(op, c, final) EXCEPT !.from = "copy", !.to = "live"] \in Job
  <1>1. Mirror(op, c, final) \in Job
    BY DEF Mirror, Job, Places
  <1>2. \A j \in Job : [j EXCEPT !.from = "copy", !.to = "live"] \in Job
    BY DEF Job, Places
  <1>. QED
    BY <1>1, <1>2

(* One file, or one sidecar, is replaced.                                  *)
LEMMA PutFile ==
  ASSUME TypeOK, NEW k \in Places, NEW c \in Convs, NEW v,
         file' = [file EXCEPT ![k][c] = v]
  PROVE  /\ \A j \in Places, d \in Convs :
              file'[j][d] = IF j = k /\ d = c THEN v ELSE file[j][d]
         /\ v \in File => file' \in [Places -> [Convs -> File]]
  BY DEF TypeOK

LEMMA PutSidecar ==
  ASSUME TypeOK, NEW k \in Places, NEW c \in Convs, NEW v,
         sidecar' = [sidecar EXCEPT ![k][c] = v]
  PROVE  /\ \A j \in Places, d \in Convs :
              sidecar'[j][d] = IF j = k /\ d = c THEN v ELSE sidecar[j][d]
         /\ v \in {"none", "part", "whole"} =>
              sidecar' \in [Places -> [Convs -> {"none", "part", "whole"}]]
  BY DEF TypeOK

(* Those who leave are gone with their locks, the others stay.             *)
Left(S) ==
  /\ \A q \in Procs \ S : pc'[q] = pc[q] /\ job'[q] = job[q]
  /\ \A q \in S : pc'[q] = "idle" /\ job'[q] = None
  /\ createLock' = IF createLock \in S THEN None ELSE createLock
  /\ agentLock' = IF agentLock \in S THEN None ELSE agentLock
  /\ archiveLock' = IF archiveLock \in S THEN None ELSE archiveLock
  /\ pc' \in [Procs -> PCs] /\ job' \in [Procs -> Job \cup {None}]

LEMMA Leaving ==
  ASSUME TypeOK, NEW S \in SUBSET Procs, Leave(S)
  PROVE  Left(S)
  BY DEF TypeOK, Leave, Left, PCs

LEMMA ExitsLeave ==
  ASSUME TypeOK, Exits
  PROVE  /\ \/ Left(Hooks)
            \/ Hooks # {} /\ "orphan" \in disturbed'
               /\ UNCHANGED <<createLock, agentLock, archiveLock, pc, job>>
         /\ alive /\ ~alive' /\ session' \in {session, FALSE}
         /\ UNCHANGED <<file, sidecar, recorded, ended, current, begun>>
         /\ disturbed \subseteq disturbed' /\ disturbed' \in SUBSET Disturbances
  BY Leaving DEF Exits, ProgramExits, StopKills, ProgramDies, Disturb, Hooks, fileVars,
       agentVars, boundVars, lockVars, TypeOK

LEMMA EndsLeave ==
  ASSUME TypeOK, NEW p \in Procs, Ends(p)
  PROVE  Left({p}) /\ UNCHANGED <<file, sidecar, recorded, begun>>
  BY Leaving DEF Ends, ArchiveSkipped, NoTranscript, ArchiveDone, Launch,
     LaunchFindsNothing, Breaks, Finish, fileVars, agentVars, boundVars, Disturb

(* What an operation begins with.                                          *)
Begun(p, j, to) ==
  /\ pc[p] = "idle" /\ pc'[p] = to /\ job'[p] = j /\ j \in Job /\ to \in PCs \ {"idle"}
  /\ \A q \in Procs \ {p} : pc'[q] = pc[q] /\ job'[q] = job[q]
  /\ pc' \in [Procs -> PCs] /\ job' \in [Procs -> Job \cup {None}]

LEMMA Beginning ==
  ASSUME TypeOK, NEW p \in Procs, NEW j \in Job, NEW to \in PCs \ {"idle"},
         pc[p] = "idle", StartJob(p, to, j)
  PROVE  Begun(p, j, to)
  BY DEF TypeOK, StartJob, Go, Begun

LEMMA HookBegins ==
  ASSUME TypeOK, NEW p \in Procs, Hook(p)
  PROVE  /\ recorded' \in Convs /\ alive /\ ~ended /\ recorded' \in {recorded, current}
         /\ Begun(p, Mirror("hook", recorded', FALSE), "tryLock")
         /\ UNCHANGED <<file, sidecar, ended, endHook, session, alive, current, disturbed,
                       createLock, agentLock, archiveLock>>
  <1>1. recorded' \in Convs /\ pc[p] = "idle"
    BY DEF Hook, Begin, TypeOK
  <1>2. Mirror("hook", recorded', FALSE) \in Job
    BY <1>1, MirrorTypes DEF Ops
  <1>3. "tryLock" \in PCs \ {"idle"}
    BY DEF PCs, Archiving
  <1>. QED
    BY <1>1, <1>2, <1>3, Beginning DEF Hook, Begin, fileVars, programVars, lockVars

LEMMA EndHookBegins ==
  ASSUME TypeOK, NEW p \in Procs, EndHook(p)
  PROVE  /\ alive /\ ~ended /\ ended' /\ endHook' = "last"
         /\ Begun(p, Mirror("hook", recorded, TRUE), "tryLock")
         /\ UNCHANGED <<file, sidecar, recorded, session, alive, current, disturbed,
                       createLock, agentLock, archiveLock>>
  <1>1. Mirror("hook", recorded, TRUE) \in Job
    BY MirrorTypes DEF Ops, TypeOK
  <1>2. "tryLock" \in PCs \ {"idle"}
    BY DEF PCs, Archiving
  <1>. QED
    BY <1>1, <1>2, Beginning DEF EndHook, Begin, fileVars, programVars, lockVars

LEMMA ExitBegins ==
  ASSUME TypeOK, NEW p \in Procs, MarkExited(p)
  PROVE  /\ ~ended /\ ended' /\ ~session /\ agentLock = None /\ agentLock' = p
         /\ Begun(p, Mirror("refresh", recorded, TRUE), "tryLock")
         /\ UNCHANGED <<file, sidecar, recorded, endHook, session, alive, current, disturbed,
                       createLock, archiveLock>>
  <1>1. Mirror("refresh", recorded, TRUE) \in Job
    BY MirrorTypes DEF Ops, TypeOK
  <1>2. "tryLock" \in PCs \ {"idle"}
    BY DEF PCs, Archiving
  <1>. QED
    BY <1>1, <1>2, Beginning DEF MarkExited, Begin, fileVars, programVars

LEMMA StopBegins ==
  ASSUME TypeOK, NEW p \in Procs, Stop(p)
  PROVE  /\ ~ended /\ ended' /\ session /\ createLock = None /\ createLock' = p
         /\ Begun(p, Mirror("stop", recorded, TRUE), "leaving")
         /\ UNCHANGED <<file, sidecar, recorded, endHook, session, alive, current, disturbed,
                       agentLock, archiveLock>>
  <1>1. Mirror("stop", recorded, TRUE) \in Job
    BY MirrorTypes DEF Ops, TypeOK
  <1>2. "leaving" \in PCs \ {"idle"}
    BY DEF PCs
  <1>. QED
    BY <1>1, <1>2, Beginning DEF Stop, Begin, fileVars, programVars

Backward(c) == [Mirror("respawn", c, FALSE) EXCEPT !.from = "copy", !.to = "live"]

LEMMA RespawnBegins ==
  ASSUME TypeOK, NEW p \in Procs, Respawn(p)
  PROVE  /\ ended /\ ~session /\ createLock = None /\ agentLock = None
         /\ createLock' = p /\ agentLock' = p
         /\ \/ Begun(p, Backward(recorded), "launch")
            \/ Begun(p, Backward(recorded), "read") /\ NeedsRestore(recorded)
         /\ UNCHANGED <<file, sidecar, recorded, ended, endHook, session, alive, current, disturbed,
                       archiveLock>>
  <1>1. Backward(recorded) \in Job
    BY MirrorTypes DEF Ops, TypeOK, Backward
  <1>2. {"read", "launch"} \subseteq PCs \ {"idle"}
    BY DEF PCs, Archiving, Restoring
  <1>3. pc[p] = "idle" /\ StartJob(p, IF NeedsRestore(recorded) THEN "read" ELSE "launch",
                                   Backward(recorded))
    BY DEF Respawn, Begin, Backward
  <1>4. \/ Begun(p, Backward(recorded), "launch")
        \/ Begun(p, Backward(recorded), "read") /\ NeedsRestore(recorded)
    <2>1. CASE NeedsRestore(recorded)
      BY <1>1, <1>2, <1>3, <2>1, Beginning
    <2>2. CASE ~NeedsRestore(recorded)
      BY <1>1, <1>2, <1>3, <2>2, Beginning
    <2>. QED
      BY <2>1, <2>2
  <1>. QED
    BY <1>4 DEF Respawn, Begin, fileVars, agentVars, programVars

(* What one step of a copy changes besides the files.                      *)
Went(p, to) ==
  /\ Working(p) /\ pc'[p] = to /\ to \in PCs \ {"idle"}
  /\ job'[p] \in Job
  /\ job'[p].op = job[p].op /\ job'[p].conv = job[p].conv /\ job'[p].final = job[p].final
  /\ job'[p].from = job[p].from /\ job'[p].to = job[p].to
  /\ \A q \in Procs \ {p} : pc'[q] = pc[q] /\ job'[q] = job[q]
  /\ pc' \in [Procs -> PCs] /\ job' \in [Procs -> Job \cup {None}]

LEMMA Keeping ==
  ASSUME TypeOK, NEW p \in Procs, Working(p), NEW to \in PCs \ {"idle"}, Go(p, to), UNCHANGED job
  PROVE  Went(p, to)
  BY Fields DEF TypeOK, Go, Went, Working

LEMMA Moving ==
  ASSUME TypeOK, NEW p \in Procs, Working(p), NEW to \in PCs \ {"idle"},
         NEW n \in Nat, StartJob(p, to, [job[p] EXCEPT !.offset = n])
  PROVE  Went(p, to) /\ job'[p].offset = n /\ job'[p].bytes = job[p].bytes
  <1>1. PICK j \in Job : j = job[p]
    BY Fields
  <1>2. [j EXCEPT !.offset = n] \in Job
    BY DEF Job
  <1>3. job' = [job EXCEPT ![p] = [j EXCEPT !.offset = n]] /\ pc' = [pc EXCEPT ![p] = to]
    BY <1>1 DEF StartJob, Go
  <1>4. job'[p] = [j EXCEPT !.offset = n]
    BY <1>3 DEF TypeOK
  <1>5. Went(p, to)
    BY <1>1, <1>2, <1>3, <1>4 DEF TypeOK, Went, Working, Job
  <1>. QED
    BY <1>1, <1>4, <1>5 DEF Job

LEMMA Reading ==
  ASSUME TypeOK, NEW p \in Procs, Working(p), NEW to \in PCs \ {"idle"},
         NEW b \in Seq(Lines), StartJob(p, to, [job[p] EXCEPT !.bytes = b])
  PROVE  Went(p, to) /\ job'[p].bytes = b
  <1>1. PICK j \in Job : j = job[p]
    BY Fields
  <1>2. [j EXCEPT !.bytes = b] \in Job
    BY DEF Job
  <1>3. job' = [job EXCEPT ![p] = [j EXCEPT !.bytes = b]] /\ pc' = [pc EXCEPT ![p] = to]
    BY <1>1 DEF StartJob, Go
  <1>4. job'[p] = [j EXCEPT !.bytes = b]
    BY <1>3 DEF TypeOK
  <1>5. Went(p, to)
    BY <1>1, <1>2, <1>3, <1>4 DEF TypeOK, Went, Working, Job
  <1>. QED
    BY <1>1, <1>4, <1>5 DEF Job

(* What the steps of one copy leave alone.                                 *)
Aside == UNCHANGED <<recorded, ended, endHook, session, alive, current, createLock, agentLock,
                     begun, disturbed>>

LEMMA SourceTypes ==
  ASSUME TypeOK, NEW p \in Procs, Working(p)
  PROVE  /\ Source(p) \in File /\ Target(p) \in File
         /\ Source(p) # None => Source(p) \in Seq(Lines) /\ Len(Source(p)) \in Nat
         /\ Target(p) # None => Target(p) \in Seq(Lines) /\ Len(Target(p)) \in Nat
  <1>1. Source(p) \in File /\ Target(p) \in File
    BY Fields DEF Source, Target, TypeOK
  <1>. QED
    BY <1>1 DEF File

(* A copying process goes from where it is to another place of its work.   *)
LEMMA GoesWent ==
  ASSUME TypeOK, Directed, Sources, NEW p \in Procs, Goes(p)
  PROVE  Went(p, pc'[p]) /\ Aside
  <1>0. {"tryLock", "compare", "read", "persist", "append", "sidecars", "copying", "launch"}
           \subseteq PCs \ {"idle"}
    BY DEF PCs, Archiving, Restoring
  <1>1. pc \in [Procs -> PCs] /\ Aside
    BY DEF Goes, StopArchives, ArchiveLocked, Compare, AppendLine, AppendDone, ReadWhole,
       Persist, StartSidecar, CopySidecar, Restored, fileVars, agentVars, programVars,
       lockVars, boundVars, Aside, TypeOK
  <1>. SUFFICES Went(p, pc'[p])
    BY <1>1
  <1>2. Working(p)
    BY DEF Goes, StopArchives, ArchiveLocked, Compare, AppendLine, AppendDone, ReadWhole,
       Persist, StartSidecar, CopySidecar, Restored, Working
  <1>3. ASSUME NEW to \in PCs \ {"idle"}, Go(p, to), UNCHANGED job PROVE Went(p, pc'[p])
    <2>1. pc'[p] = to
      BY <1>1, <1>3 DEF Go
    <2>. QED
      BY <1>2, <1>3, <2>1, Keeping
  <1>4. ASSUME NEW to \in PCs \ {"idle"}, NEW n \in Nat,
               StartJob(p, to, [job[p] EXCEPT !.offset = n])
        PROVE  Went(p, pc'[p])
    <2>1. pc'[p] = to
      BY <1>1, <1>4 DEF StartJob, Go
    <2>. QED
      BY <1>2, <1>4, <2>1, Moving
  <1>5. CASE StopArchives(p)
    BY <1>0, <1>3, <1>5 DEF StopArchives
  <1>6. CASE ArchiveLocked(p)
    BY <1>0, <1>3, <1>6 DEF ArchiveLocked
  <1>7. CASE Compare(p)
    <2>1. CASE Target(p) # None /\ StartJob(p, "append", [job[p] EXCEPT !.offset = Len(Target(p))])
      BY <1>0, <1>2, <1>4, <2>1, SourceTypes
    <2>2. CASE (Go(p, "read") \/ Go(p, "sidecars")) /\ UNCHANGED job
      BY <1>0, <1>3, <2>2
    <2>. QED
      BY <1>7, <2>1, <2>2 DEF Compare
  <1>8. CASE AppendLine(p)
    <2>1. PICK n \in Nat : n = job[p].offset + 1
      BY <1>2, Fields
    <2>2. pc' = [pc EXCEPT ![p] = "append"]
      BY <1>1, <1>8 DEF AppendLine
    <2>3. job' = [job EXCEPT ![p] = [job[p] EXCEPT !.offset = n]]
      BY <1>8, <2>1 DEF AppendLine
    <2>. QED
      BY <1>0, <1>4, <2>2, <2>3 DEF StartJob, Go
  <1>9. CASE AppendDone(p)
    BY <1>0, <1>3, <1>9 DEF AppendDone
  <1>10. CASE ReadWhole(p)
    <2>1. Source(p) \in Seq(Lines)
      <3>1. Source(p) # None
        BY <1>2, <1>10 DEF ReadWhole, Sources, Directed, Archiver, Restorer, Source
      <3>. QED
        BY <1>2, <3>1, SourceTypes
    <2>2. pc'[p] = "persist"
      BY <1>1, <1>10 DEF ReadWhole, StartJob, Go
    <2>. QED
      BY <1>0, <1>2, <1>10, <2>1, <2>2, Reading DEF ReadWhole
  <1>11. CASE Persist(p)
    BY <1>0, <1>3, <1>11 DEF Persist
  <1>12. CASE StartSidecar(p) \/ CopySidecar(p)
    BY <1>0, <1>3, <1>12 DEF StartSidecar, CopySidecar
  <1>13. CASE Restored(p)
    BY <1>0, <1>3, <1>13 DEF Restored
  <1>. QED
    BY <1>1, <1>5, <1>6, <1>7, <1>8, <1>9, <1>10, <1>11, <1>12, <1>13 DEF Goes

LEMMA PutEffect ==
  ASSUME TypeOK, NEW p \in Procs, Working(p), NEW v, PutTarget(p, v)
  PROVE  /\ \A j \in Places, d \in Convs :
              file'[j][d] = IF j = job[p].to /\ d = job[p].conv THEN v ELSE file[j][d]
         /\ v \in File => file' \in [Places -> [Convs -> File]]
  BY Fields, PutFile DEF PutTarget

LEMMA TypeStep == ASSUME TypeOK, Directed, Sources, [Next]_vars PROVE TypeOK'
  <1>. USE ArchiveAssumption
  <1>1. ASSUME NEW p \in Procs, Starts(p) PROVE TypeOK'
    <2>1. UNCHANGED <<file, sidecar, session, alive, current>> /\ recorded' \in Convs
          /\ ended' \in BOOLEAN /\ endHook' \in {"none", "last", "early"}
          /\ begun' \in Nat /\ UNCHANGED disturbed
      <3>0. begun \in Nat /\ begun' = begun + 1
        BY <1>1 DEF Starts, Hook, EndHook, MarkExited, Stop, Respawn, Begin, TypeOK
      <3>1. begun' \in Nat
        BY <3>0
      <3>2. ended' \in BOOLEAN /\ endHook' \in {"none", "last", "early"}
        BY <1>1 DEF Starts, Hook, EndHook, MarkExited, Stop, Respawn, agentVars, TypeOK
      <3>. QED
        BY <1>1, <3>1, <3>2, HookBegins, EndHookBegins, ExitBegins, StopBegins, RespawnBegins
        DEF Starts, TypeOK
    <2>2. {createLock', agentLock', archiveLock'} \subseteq Procs \cup {None}
      BY <1>1, HookBegins, EndHookBegins, ExitBegins, StopBegins, RespawnBegins DEF Starts, TypeOK
    <2>3. \E j, to : Begun(p, j, to)
      BY <1>1, HookBegins, EndHookBegins, ExitBegins, StopBegins, RespawnBegins DEF Starts
    <2>4. /\ pc' \in [Procs -> PCs] /\ job' \in [Procs -> Job \cup {None}]
          /\ \A q \in Procs : pc'[q] = "idle" <=> job'[q] = None
      BY <2>3 DEF Begun, TypeOK
    <2>. QED
      BY <2>1, <2>2, <2>4 DEF TypeOK
  <1>2. ASSUME NEW p \in Procs, Goes(p) PROVE TypeOK'
    <2>1. Went(p, pc'[p]) /\ Aside /\ Working(p)
      BY <1>2, GoesWent DEF Went
    <2>2. /\ pc' \in [Procs -> PCs] /\ job' \in [Procs -> Job \cup {None}]
          /\ \A q \in Procs : pc'[q] = "idle" <=> job'[q] = None
      BY <2>1 DEF Went, TypeOK
    <2>3. archiveLock' \in Procs \cup {None}
      BY <1>2 DEF Goes, StopArchives, ArchiveLocked, TakeArchive, Compare, AppendLine,
         AppendDone, ReadWhole, Persist, StartSidecar, CopySidecar, Restored, lockVars, TypeOK
    <2>4. file' \in [Places -> [Convs -> File]]
      <3>1. CASE UNCHANGED file
        BY <3>1 DEF TypeOK
      <3>2. CASE AppendLine(p)
        <4>1. Archiver(p) /\ Source(p) # None /\ Target(p) # None
          BY <2>1, <3>2 DEF AppendLine, Directed, Archiver, Restorer, Restoring, Sources,
             Source, Target
        <4>2. /\ Source(p) \in Seq(Lines) /\ Target(p) \in Seq(Lines)
              /\ job[p].offset \in Nat /\ job[p].offset < Len(Source(p))
          BY <2>1, <3>2, <4>1, SourceTypes, Fields DEF AppendLine
        <4>3. Append(Target(p), Source(p)[job[p].offset + 1]) \in Seq(Lines)
          BY <4>2
        <4>4. Append(Target(p), Source(p)[job[p].offset + 1]) \in File
          BY <4>3 DEF File
        <4>. QED
          BY <2>1, <3>2, <4>4, PutEffect DEF AppendLine
      <3>3. CASE Persist(p)
        <4>1. job[p].bytes \in File
          BY <2>1, Fields DEF File
        <4>. QED
          BY <2>1, <3>3, <4>1, PutEffect DEF Persist
      <3>. QED
        BY <1>2, <3>1, <3>2, <3>3 DEF Goes, StopArchives, ArchiveLocked, Compare, AppendDone,
           ReadWhole, StartSidecar, CopySidecar, Restored, fileVars
    <2>5. sidecar' \in [Places -> [Convs -> {"none", "part", "whole"}]]
      <3>1. CASE UNCHANGED sidecar
        BY <3>1 DEF TypeOK
      <3>2. CASE StartSidecar(p) \/ CopySidecar(p)
        <4>1. sidecar[job[p].from][job[p].conv] \in {"none", "part", "whole"}
          BY <2>1, Fields DEF TypeOK
        <4>2. job[p].to \in Places /\ job[p].conv \in Convs
          BY <2>1, Fields
        <4>3. CASE StartSidecar(p)
          BY <4>2, <4>3, PutSidecar DEF StartSidecar
        <4>4. CASE CopySidecar(p)
          BY <4>1, <4>2, <4>4, PutSidecar DEF CopySidecar
        <4>. QED
          BY <3>2, <4>3, <4>4
      <3>. QED
        BY <1>2, <3>1, <3>2 DEF Goes, StopArchives, ArchiveLocked, Compare, AppendLine,
           AppendDone, ReadWhole, Persist, Restored, fileVars
    <2>. QED
      BY <2>1, <2>2, <2>3, <2>4, <2>5 DEF Aside, TypeOK
  <1>3. ASSUME NEW p \in Procs, Ends(p) PROVE TypeOK'
    <2>1. Left({p}) /\ UNCHANGED <<file, sidecar, recorded, begun>>
      BY <1>3, EndsLeave
    <2>2. /\ session' \in BOOLEAN /\ alive' \in BOOLEAN /\ current' \in Convs
          /\ ended' \in BOOLEAN /\ disturbed' \in SUBSET Disturbances
          /\ endHook' \in {"none", "last", "early"}
      BY <1>3 DEF Ends, ArchiveSkipped, NoTranscript, ArchiveDone, Launch, LaunchFindsNothing,
         Breaks, Finish, Disturb, WentOn, agentVars, programVars, boundVars, TypeOK
    <2>. QED
      BY <2>1, <2>2 DEF Left, TypeOK
  <1>4. CASE Exits
    <2>1. Hooks \in SUBSET Procs
      BY DEF Hooks
    <2>2. /\ pc' \in [Procs -> PCs] /\ job' \in [Procs -> Job \cup {None}]
          /\ \A q \in Procs : pc'[q] = "idle" <=> job'[q] = None
          /\ {createLock', agentLock', archiveLock'} \subseteq Procs \cup {None}
      BY <1>4, <2>1, ExitsLeave DEF Left, TypeOK
    <2>3. /\ UNCHANGED <<file, sidecar, recorded, ended, current, begun>>
          /\ session' \in BOOLEAN /\ alive' \in BOOLEAN /\ disturbed' \in SUBSET Disturbances
          /\ endHook' \in {"none", "last", "early"}
      BY <1>4, ExitsLeave DEF Exits, ProgramExits, StopKills, ProgramDies, WentOn, TypeOK
    <2>. QED
      BY <2>2, <2>3 DEF TypeOK
  <1>5. CASE WritesLine
    <2>1. Lived(current) \in Seq(Lines)
      BY DEF Lived, TypeOK, File, Places
    <2>2. PICK l \in Lines : file' = [file EXCEPT !.live[current] = Append(Lived(current), l)]
      BY <1>5 DEF WritesLine
    <2>3. file' \in [Places -> [Convs -> File]]
      <3>1. Append(Lived(current), l) \in Seq(Lines)
        BY <2>1
      <3>2. Append(Lived(current), l) \in File
        BY <3>1 DEF File
      <3>. QED
        BY <2>2, <3>2 DEF TypeOK, Places
    <2>. QED
      BY <1>5, <2>3 DEF WritesLine, WentOn, TypeOK, agentVars, programVars, lockVars, boundVars
  <1>6. CASE RewritesLine
    <2>1. PICK k \in 1 .. Len(file.live[current]), l \in Lines :
            file' = [file EXCEPT !.live[current][k] = l]
      BY <1>6 DEF RewritesLine
    <2>2. file.live[current] \in Seq(Lines)
      BY <1>6 DEF RewritesLine, TypeOK, File, Places
    <2>3. [file.live[current] EXCEPT ![k] = l] \in Seq(Lines)
      BY <2>2
    <2>4. file' = [file EXCEPT !.live[current] = [file.live[current] EXCEPT ![k] = l]]
      BY <2>1 DEF TypeOK, Places
    <2>5. file' \in [Places -> [Convs -> File]]
      <3>1. [file.live[current] EXCEPT ![k] = l] \in File
        BY <2>3 DEF File
      <3>. QED
        BY <2>4, <3>1 DEF TypeOK, Places
    <2>. QED
      BY <1>6, <2>5 DEF RewritesLine, WentOn, Disturb, TypeOK, agentVars, programVars, lockVars
  <1>7. CASE WritesSidecar
    <2>1. sidecar' \in [Places -> [Convs -> {"none", "part", "whole"}]]
      BY <1>7 DEF WritesSidecar, TypeOK, Places
    <2>. QED
      BY <1>7, <2>1 DEF WritesSidecar, WentOn, TypeOK, agentVars, programVars, lockVars, boundVars
  <1>8. CASE CleansUp
    <2>1. sidecar' \in [Places -> [Convs -> {"none", "part", "whole"}]]
      BY <1>8 DEF CleansUp, TypeOK, Places
    <2>2. file' \in [Places -> [Convs -> File]]
      BY <1>8 DEF CleansUp, TypeOK, Places, File
    <2>. QED
      BY <1>8, <2>1, <2>2 DEF CleansUp, Disturb, TypeOK, agentVars, programVars, lockVars
  <1>9. CASE OpensConversation \/ SessionEnds \/ SessionClosed \/ UNCHANGED vars
    BY <1>9 DEF OpensConversation, SessionEnds, SessionClosed, Disturb, vars, TypeOK,
       fileVars, agentVars, lockVars, boundVars
  <1>. QED
    BY <1>1, <1>2, <1>3, <1>4, <1>5, <1>6, <1>7, <1>8, <1>9, NextKinds DEF Around

----------------------------------------------------------------------------
(* What a step does to one process, to the files and to the sidecars *)

Turn(p, from, to) == pc[p] = from /\ pc'[p] = to

LEMMA GoesTurns ==
  ASSUME TypeOK, Directed, Sources, NEW p \in Procs, Goes(p)
  PROVE  \/ StopArchives(p) /\ Turn(p, "leaving", "tryLock")
         \/ ArchiveLocked(p) /\ Turn(p, "tryLock", "compare")
         \/ /\ Compare(p) /\ Source(p) # None
            /\ \/ Turn(p, "compare", "read") /\ Target(p) = None
               \/ Turn(p, "compare", "read") /\ Target(p) # None /\ ~UpToDate(p) /\ ~AppendsTail(p)
               \/ Turn(p, "compare", "sidecars") /\ Target(p) # None /\ UpToDate(p)
               \/ /\ Turn(p, "compare", "append") /\ Target(p) # None /\ AppendsTail(p)
                  /\ job'[p].offset = Len(Target(p))
         \/ AppendLine(p) /\ Turn(p, "append", "append") /\ job'[p].offset = job[p].offset + 1
         \/ AppendDone(p) /\ Turn(p, "append", "sidecars")
         \/ ReadWhole(p) /\ Turn(p, "read", "persist") /\ job'[p].bytes = Source(p)
         \/ Persist(p) /\ Turn(p, "persist", "sidecars")
         \/ StartSidecar(p) /\ Turn(p, "sidecars", "copying")
         \/ CopySidecar(p) /\ Turn(p, "copying", "sidecars")
         \/ Restored(p) /\ Turn(p, "sidecars", "launch")
  <1>1. pc \in [Procs -> PCs] /\ job \in [Procs -> Job \cup {None}]
    BY DEF TypeOK
  <1>2. Went(p, pc'[p]) /\ Working(p)
    BY GoesWent DEF Went
  <1>3. \A to : Go(p, to) => pc'[p] = to
    BY <1>1 DEF Go
  <1>4. CASE Compare(p)
    <2>1. CASE AppendsTail(p) /\ Target(p) # None
               /\ StartJob(p, "append", [job[p] EXCEPT !.offset = Len(Target(p))])
      <3>1. "append" \in PCs \ {"idle"}
        BY DEF PCs, Archiving
      <3>2. Len(Target(p)) \in Nat
        BY <1>2, <2>1, SourceTypes
      <3>. QED
        BY <1>2, <1>3, <1>4, <2>1, <3>1, <3>2, Moving DEF Compare, Turn, StartJob
    <2>. QED
      BY <1>3, <1>4, <2>1 DEF Compare, Turn
  <1>5. CASE AppendLine(p)
    <2>1. PICK n \in Nat : n = job[p].offset + 1
      BY <1>2, Fields
    <2>2. pc' = [pc EXCEPT ![p] = "append"]
      BY <1>1, <1>5 DEF AppendLine
    <2>3. job' = [job EXCEPT ![p] = [job[p] EXCEPT !.offset = n]]
      BY <1>5, <2>1 DEF AppendLine
    <2>4. "append" \in PCs \ {"idle"}
      BY DEF PCs, Archiving
    <2>5. job'[p].offset = n
      BY <1>2, <2>2, <2>3, <2>4, Moving DEF StartJob, Go
    <2>. QED
      BY <1>5, <2>1, <2>2, <2>5, <1>1 DEF AppendLine, Turn
  <1>6. CASE ReadWhole(p)
    <2>1. Source(p) # None
      BY <1>2, <1>6 DEF ReadWhole, Sources, Directed, Archiver, Restorer, Source
    <2>2. Source(p) \in Seq(Lines)
      BY <1>2, <2>1, SourceTypes
    <2>3. "persist" \in PCs \ {"idle"}
      BY DEF PCs, Archiving
    <2>. QED
      BY <1>2, <1>3, <1>6, <2>2, <2>3, Reading DEF ReadWhole, Turn, StartJob
  <1>7. CASE StopArchives(p) \/ ArchiveLocked(p) \/ AppendDone(p)
    BY <1>3, <1>7 DEF StopArchives, ArchiveLocked, AppendDone, Turn
  <1>8. CASE Persist(p) \/ StartSidecar(p) \/ CopySidecar(p) \/ Restored(p)
    BY <1>3, <1>8 DEF Persist, StartSidecar, CopySidecar, Restored, Turn
  <1>. QED
    BY <1>4, <1>5, <1>6, <1>7, <1>8 DEF Goes

(* A process at work was at work before, unless it begins.                 *)
Stays(q) == pc'[q] = pc[q] /\ job'[q] = job[q]

LEMMA Fate ==
  ASSUME TypeOK, Directed, Sources, [Next]_vars, NEW q \in Procs, pc'[q] # "idle"
  PROVE  Stays(q) \/ Goes(q) \/ Starts(q)
  <1>1. CASE Exits
    <2>1. Hooks \in SUBSET Procs
      BY DEF Hooks
    <2>. QED
      BY <1>1, <2>1, ExitsLeave DEF Left, Stays
  <1>2. CASE Around
    BY <1>2 DEF Around, WritesLine, RewritesLine, WritesSidecar, OpensConversation, SessionEnds,
       SessionClosed, CleansUp, vars, Stays
  <1>3. ASSUME NEW p \in Procs, Starts(p) PROVE Stays(q) \/ Starts(q)
    <2>1. \E j, to : Begun(p, j, to)
      BY <1>3, HookBegins, EndHookBegins, ExitBegins, StopBegins, RespawnBegins DEF Starts
    <2>. QED
      BY <1>3, <2>1 DEF Begun, Stays
  <1>4. ASSUME NEW p \in Procs, Goes(p) PROVE Stays(q) \/ Goes(q)
    BY <1>4, GoesWent DEF Went, Stays
  <1>5. ASSUME NEW p \in Procs, Ends(p) PROVE Stays(q)
    BY <1>5, EndsLeave DEF Left, Stays
  <1>. QED
    BY <1>1, <1>2, <1>3, <1>4, <1>5, NextKinds

(* The file of place k and conversation c, and no other, becomes v.        *)
Writes(k, c, v) ==
  \A j \in Places, d \in Convs :
    file'[j][d] = IF j = k /\ d = c THEN v ELSE file[j][d]

LEMMA FileChanges ==
  ASSUME TypeOK, Directed, Sources, [Next]_vars
  PROVE  \/ UNCHANGED file
         \/ WritesLine /\ \E l \in Lines : Writes("live", current, Append(Lived(current), l))
         \/ RewritesLine /\ \E v \in Seq(Lines) : Writes("live", current, v)
         \/ CleansUp /\ Writes("live", recorded, None)
         \/ \E p \in Procs : /\ Goes(p) /\ AppendLine(p) /\ Archiver(p)
                             /\ Writes("copy", job[p].conv,
                                       Append(Target(p), Source(p)[job[p].offset + 1]))
         \/ \E p \in Procs : /\ Goes(p) /\ Persist(p) /\ Working(p)
                             /\ Writes(job[p].to, job[p].conv, job[p].bytes)
  <1>1. "live" \in Places /\ current \in Convs /\ recorded \in Convs
    BY DEF Places, TypeOK
  <1>0. ASSUME NEW c \in Convs, NEW v, file' = [file EXCEPT !["live"][c] = v]
        PROVE  Writes("live", c, v)
    BY <1>0, <1>1 DEF Writes, TypeOK
  <1>2. CASE WritesLine
    <2>1. PICK l \in Lines : file' = [file EXCEPT !.live[current] = Append(Lived(current), l)]
      BY <1>2 DEF WritesLine
    <2>2. file' = [file EXCEPT !["live"][current] = Append(Lived(current), l)]
      BY <2>1
    <2>3. Writes("live", current, Append(Lived(current), l))
      BY <1>0, <1>1, <2>2
    <2>. QED
      BY <1>2, <2>3
  <1>3. CASE RewritesLine
    <2>1. PICK k \in 1 .. Len(file.live[current]), l \in Lines :
            file' = [file EXCEPT !.live[current][k] = l]
      BY <1>3 DEF RewritesLine
    <2>2. file.live[current] \in Seq(Lines)
      BY <1>3 DEF RewritesLine, TypeOK, File, Places
    <2>3. [file.live[current] EXCEPT ![k] = l] \in Seq(Lines)
      BY <2>2
    <2>4. file' = [file EXCEPT !["live"][current] = [file.live[current] EXCEPT ![k] = l]]
      BY <2>1 DEF TypeOK, Places
    <2>5. Writes("live", current, [file.live[current] EXCEPT ![k] = l])
      BY <1>0, <1>1, <2>4
    <2>. QED
      BY <1>3, <2>3, <2>5
  <1>4. CASE CleansUp
    <2>1. file' = [file EXCEPT !["live"][recorded] = None]
      BY <1>4 DEF CleansUp
    <2>2. Writes("live", recorded, None)
      BY <1>0, <1>1, <2>1
    <2>. QED
      BY <1>4, <2>2
  <1>5. ASSUME NEW p \in Procs, AppendLine(p), Goes(p)
        PROVE  /\ Archiver(p)
               /\ Writes("copy", job[p].conv, Append(Target(p), Source(p)[job[p].offset + 1]))
    <2>1. Working(p)
      BY <1>5 DEF AppendLine, Working
    <2>2. Archiver(p) /\ job[p].to = "copy"
      BY <1>5, <2>1 DEF AppendLine, Directed, Archiver, Restorer, Restoring
    <2>3. PutTarget(p, Append(Target(p), Source(p)[job[p].offset + 1]))
      BY <1>5 DEF AppendLine
    <2>. QED
      BY <2>1, <2>2, <2>3, PutEffect DEF Writes
  <1>6. ASSUME NEW p \in Procs, Persist(p), Goes(p)
        PROVE  Working(p) /\ Writes(job[p].to, job[p].conv, job[p].bytes)
    <2>1. Working(p) /\ PutTarget(p, job[p].bytes)
      BY <1>6 DEF Persist, Working
    <2>. QED
      BY <2>1, PutEffect DEF Writes
  <1>7. ASSUME NEW p \in Procs, Goes(p), ~AppendLine(p), ~Persist(p) PROVE UNCHANGED file
    BY <1>7 DEF Goes, StopArchives, ArchiveLocked, Compare, AppendDone, ReadWhole,
       StartSidecar, CopySidecar, Restored, fileVars
  <1>8. ASSUME NEW p \in Procs, Starts(p) \/ Ends(p) PROVE UNCHANGED file
    BY <1>8, EndsLeave, HookBegins, EndHookBegins, ExitBegins, StopBegins, RespawnBegins DEF Starts
  <1>9. CASE Exits
    BY <1>9, ExitsLeave
  <1>10. CASE WritesSidecar \/ OpensConversation \/ SessionEnds \/ SessionClosed \/ UNCHANGED vars
    BY <1>10 DEF WritesSidecar, OpensConversation, SessionEnds, SessionClosed, fileVars, vars
  <1>. QED
    BY <1>2, <1>3, <1>4, <1>5, <1>6, <1>7, <1>8, <1>9, <1>10, NextKinds DEF Around

LEMMA SidecarChanges ==
  ASSUME TypeOK, Directed, Sources, [Next]_vars
  PROVE  LET Set(k, c, v) == \A j \in Places, d \in Convs :
                sidecar'[j][d] = IF j = k /\ d = c THEN v ELSE sidecar[j][d]
         IN  \/ UNCHANGED sidecar
             \/ WritesSidecar /\ Set("live", current, "whole")
             \/ CleansUp /\ Set("live", recorded, "none")
             \/ \E p \in Procs : /\ Goes(p) /\ StartSidecar(p) /\ Working(p)
                                 /\ Set(job[p].to, job[p].conv, "part")
             \/ \E p \in Procs : /\ Goes(p) /\ CopySidecar(p) /\ Working(p)
                                 /\ Set(job[p].to, job[p].conv,
                                        sidecar[job[p].from][job[p].conv])
  <1>. DEFINE Set(k, c, v) == \A j \in Places, d \in Convs :
                sidecar'[j][d] = IF j = k /\ d = c THEN v ELSE sidecar[j][d]
  <1>1. CASE WritesSidecar
    <2>1. Set("live", current, "whole")
      BY <1>1 DEF WritesSidecar, TypeOK, Places
    <2>. QED
      BY <1>1, <2>1
  <1>2. CASE CleansUp
    <2>1. Set("live", recorded, "none")
      BY <1>2 DEF CleansUp, TypeOK, Places
    <2>. QED
      BY <1>2, <2>1
  <1>3. ASSUME NEW p \in Procs, StartSidecar(p), Goes(p)
        PROVE  Working(p) /\ Set(job[p].to, job[p].conv, "part")
    <2>1. Working(p)
      BY <1>3 DEF StartSidecar, Working
    <2>2. job[p].to \in Places /\ job[p].conv \in Convs
      BY <2>1, Fields
    <2>. QED
      BY ZenonT(60), <1>3, <2>1, <2>2, PutSidecar DEF StartSidecar
  <1>4. ASSUME NEW p \in Procs, CopySidecar(p), Goes(p)
        PROVE  Working(p) /\ Set(job[p].to, job[p].conv, sidecar[job[p].from][job[p].conv])
    <2>1. Working(p)
      BY <1>4 DEF CopySidecar, Working
    <2>2. job[p].to \in Places /\ job[p].conv \in Convs
      BY <2>1, Fields
    <2>3. PICK v : v = sidecar[job[p].from][job[p].conv]
      OBVIOUS
    <2>4. sidecar' = [sidecar EXCEPT ![job[p].to][job[p].conv] = v]
      BY <1>4, <2>3 DEF CopySidecar
    <2>5. Set(job[p].to, job[p].conv, v)
      BY <2>2, <2>4 DEF TypeOK
    <2>. QED
      BY <2>1, <2>3, <2>5
  <1>5. ASSUME NEW p \in Procs, Goes(p), ~StartSidecar(p), ~CopySidecar(p)
        PROVE UNCHANGED sidecar
    BY <1>5 DEF Goes, StopArchives, ArchiveLocked, Compare, AppendLine, AppendDone, ReadWhole,
       Persist, Restored, fileVars
  <1>6. ASSUME NEW p \in Procs, Starts(p) \/ Ends(p) PROVE UNCHANGED sidecar
    BY <1>6, EndsLeave, HookBegins, EndHookBegins, ExitBegins, StopBegins, RespawnBegins DEF Starts
  <1>7. CASE Exits
    BY <1>7, ExitsLeave
  <1>8. CASE WritesLine \/ RewritesLine \/ OpensConversation \/ SessionEnds \/ SessionClosed
             \/ UNCHANGED vars
    BY <1>8 DEF WritesLine, RewritesLine, OpensConversation, SessionEnds, SessionClosed,
       fileVars, vars
  <1>. QED
    BY <1>1, <1>2, <1>3, <1>4, <1>5, <1>6, <1>7, <1>8, NextKinds DEF Around

(* The record, the session and the program.                                *)
LEMMA RunChanges ==
  ASSUME TypeOK, Directed, Sources, [Next]_vars
  PROVE  /\ disturbed \subseteq disturbed'
         /\ \/ UNCHANGED <<recorded, ended, session, alive, disturbed>>
            \/ \E p \in Procs : Hook(p) /\ ~ended /\ UNCHANGED <<ended, session, alive>>
            \/ \E p \in Procs : /\ EndHook(p) /\ ~ended /\ ended' /\ alive
                                /\ UNCHANGED <<recorded, session, alive>>
            \/ \E p \in Procs : /\ MarkExited(p) /\ ~ended /\ ended' /\ ~session
                                /\ UNCHANGED <<recorded, session, alive>>
            \/ \E p \in Procs : /\ Stop(p) /\ ~ended /\ ended'
                                /\ UNCHANGED <<recorded, session, alive>>
            \/ \E p \in Procs : /\ Ends(p) /\ Launch(p) /\ session' /\ alive' /\ ~ended'
                                /\ UNCHANGED recorded
            \/ \E p \in Procs : Ends(p) /\ Breaks(p) /\ "fault" \in disturbed'
                                /\ UNCHANGED <<recorded, ended, session, alive>>
            \/ Exits /\ alive /\ ~alive' /\ session' \in {session, FALSE}
               /\ UNCHANGED <<recorded, ended>>
            \/ SessionEnds /\ ~alive /\ ~session' /\ UNCHANGED <<recorded, ended, alive>>
            \/ SessionClosed /\ "close" \in disturbed' /\ ~session'
               /\ UNCHANGED <<recorded, ended, alive>>
            \/ RewritesLine /\ alive /\ "rewrite" \in disturbed'
               /\ UNCHANGED <<recorded, ended, session, alive>>
            \/ CleansUp /\ ~alive /\ "cleanup" \in disturbed'
               /\ UNCHANGED <<recorded, ended, session, alive>>
  <1>1. ASSUME NEW p \in Procs, Hook(p) \/ EndHook(p) \/ MarkExited(p) \/ Stop(p)
        PROVE  /\ ~ended /\ UNCHANGED <<session, alive, disturbed>>
               /\ Hook(p) => UNCHANGED ended
               /\ EndHook(p) => ended' /\ alive /\ UNCHANGED recorded
               /\ MarkExited(p) => ended' /\ ~session /\ UNCHANGED recorded
               /\ Stop(p) => ended' /\ UNCHANGED recorded
    BY <1>1, HookBegins, EndHookBegins, ExitBegins, StopBegins
  <1>2. ASSUME NEW p \in Procs, Respawn(p)
        PROVE  UNCHANGED <<recorded, ended, session, alive, disturbed>>
    BY <1>2, RespawnBegins
  <1>3. ASSUME NEW p \in Procs, Goes(p)
        PROVE  UNCHANGED <<recorded, ended, session, alive, disturbed>>
    BY <1>3, GoesWent DEF Aside
  <1>4. ASSUME NEW p \in Procs, Ends(p)
        PROVE  \/ UNCHANGED <<recorded, ended, session, alive, disturbed>>
               \/ /\ Launch(p) /\ session' /\ alive' /\ ~ended'
                  /\ UNCHANGED <<recorded, disturbed>>
               \/ /\ Breaks(p) /\ disturbed \subseteq disturbed' /\ "fault" \in disturbed'
                  /\ UNCHANGED <<recorded, ended, session, alive>>
    BY <1>4 DEF Ends, ArchiveSkipped, NoTranscript, ArchiveDone, Launch, LaunchFindsNothing,
       Breaks, Finish, Disturb, agentVars, programVars, boundVars
  <1>5. CASE Exits
    BY <1>5, ExitsLeave
  <1>6. CASE Around
    BY <1>6 DEF Around, WritesLine, RewritesLine, WritesSidecar, OpensConversation, SessionEnds,
       SessionClosed, CleansUp, Disturb, agentVars, programVars, boundVars, vars
  <1>. QED
    BY <1>1, <1>2, <1>3, <1>4, <1>5, <1>6, NextKinds DEF Starts

(* A hook's end of a run is noted with it, stays so until the next launch, *)
(* and is only ever found to have come early.                              *)
LEMMA EndHookChanges ==
  ASSUME TypeOK, Directed, Sources, [Next]_vars
  PROVE  \/ endHook' = endHook
         \/ \E p \in Procs : EndHook(p) /\ ~ended /\ endHook' = "last"
         \/ \E p \in Procs : Ends(p) /\ Launch(p) /\ endHook' = "none"
         \/ endHook = "last" /\ endHook' = "early"
  <1>1. ASSUME NEW p \in Procs, Starts(p)
        PROVE  (UNCHANGED endHook) \/ (EndHook(p) /\ ~ended /\ endHook' = "last")
    BY <1>1, HookBegins, EndHookBegins, ExitBegins, StopBegins, RespawnBegins DEF Starts
  <1>2. ASSUME NEW p \in Procs, Goes(p) PROVE UNCHANGED endHook
    BY <1>2, GoesWent DEF Aside
  <1>3. ASSUME NEW p \in Procs, Ends(p)
        PROVE  \/ UNCHANGED endHook
               \/ Launch(p) /\ endHook' = "none"
               \/ endHook = "last" /\ endHook' = "early"
    BY <1>3 DEF Ends, ArchiveSkipped, NoTranscript, ArchiveDone, Launch, LaunchFindsNothing,
       Breaks, Finish, WentOn, agentVars
  <1>4. CASE Exits
    BY <1>4 DEF Exits, ProgramExits, StopKills, ProgramDies, WentOn
  <1>5. CASE Around
    BY <1>5 DEF Around, WritesLine, RewritesLine, WritesSidecar, OpensConversation, SessionEnds,
       SessionClosed, CleansUp, WentOn, agentVars, vars
  <1>. QED
    BY <1>1, <1>2, <1>3, <1>4, <1>5, NextKinds

LEMMA WithoutStays ==
  ASSUME TypeOK, Directed, Sources, [Next]_vars, NEW kinds, Without(kinds)'
  PROVE  Without(kinds)
  BY RunChanges DEF Without

(* Under the locks of a respawn nobody ends the run or restores besides.   *)
LEMMA RestorerAlone ==
  ASSUME TypeOK, Held, NEW p \in Procs, Restorer(p), NEW q \in Procs, Restorer(q) \/ Final(q)
  PROVE  q = p /\ ~Final(q)
  <1>1. Working(q) /\ job[q].op \in Ops
    BY Fields DEF Restorer, Final, Archiver
  <1>2. createLock = p /\ agentLock = p
    BY DEF Held
  <1>3. createLock = q \/ agentLock = q
    BY <1>1 DEF Held, Ops, Restorer, Final, Archiver
  <1>. QED
    BY <1>2, <1>3 DEF Restorer, Final, Archiver

LEMMA OneCopier ==
  ASSUME Held, NEW p \in Procs, Copying(p), NEW q \in Procs, Copying(q)
  PROVE  p = q
  BY DEF Held
----------------------------------------------------------------------------
(* The invariant, part by part *)

LEMMA DirectedStep == ASSUME TypeOK, Directed, Sources, [Next]_vars PROVE Directed'
  <1>. SUFFICES ASSUME NEW q \in Procs, pc'[q] # "idle"
                PROVE  /\ job'[q].op # "respawn" =>
                            /\ job'[q].from = "live" /\ job'[q].to = "copy"
                            /\ pc'[q] \in Archiving \cup {"leaving"}
                            /\ pc'[q] = "leaving" => job'[q].op = "stop"
                            /\ pc'[q] = "append" => ~job'[q].final
                            /\ job'[q].op # "hook" => job'[q].final
                       /\ job'[q].op = "respawn" =>
                            /\ job'[q].from = "copy" /\ job'[q].to = "live"
                            /\ pc'[q] \in Restoring
    BY DEF Directed, Archiver, Restorer, Working
  <1>1. CASE Stays(q)
    BY <1>1 DEF Directed, Archiver, Restorer, Working, Stays
  <1>2. CASE Goes(q)
    <2>1. Went(q, pc'[q]) /\ Working(q)
      BY <1>2, GoesWent DEF Went
    <2>2. job'[q].op = job[q].op /\ job'[q].final = job[q].final
          /\ job'[q].from = job[q].from /\ job'[q].to = job[q].to
      BY <2>1 DEF Went
    <2>3. CASE job[q].op # "respawn"
      <3>1. pc'[q] \in Archiving
        BY <1>2, <2>1, <2>3, GoesTurns DEF Turn, Archiving, Restored
      <3>2. pc'[q] = "append" => ~job[q].final
        BY <1>2, <2>1, <2>3, GoesTurns DEF Turn, AppendsTail, Directed, Archiver
      <3>. QED
        BY <2>1, <2>2, <2>3, <3>1, <3>2 DEF Directed, Archiver, Archiving
    <2>4. CASE job[q].op = "respawn"
      <3>1. pc[q] \in Restoring
        BY <2>1, <2>4 DEF Directed, Restorer
      <3>2. pc'[q] \in Restoring
        BY <1>2, <3>1, GoesTurns DEF Turn, Restoring
      <3>. QED
        BY <2>1, <2>2, <2>4, <3>2 DEF Directed, Restorer
    <2>. QED
      BY <2>3, <2>4
  <1>3. CASE Starts(q)
    <2>2. \A c : /\ Backward(c).op = "respawn"
                 /\ Backward(c).from = "copy" /\ Backward(c).to = "live"
      BY DEF Mirror, Backward
    <2>3. recorded \in Convs
      BY DEF TypeOK
    <2>4. CASE Hook(q)
      <3>1. recorded' \in Convs /\ Begun(q, Mirror("hook", recorded', FALSE), "tryLock")
        BY <2>4, HookBegins
      <3>2. /\ job'[q].op = "hook" /\ job'[q].final = FALSE
            /\ job'[q].from = "live" /\ job'[q].to = "copy" /\ pc'[q] = "tryLock"
        BY <3>1 DEF Begun, Mirror
      <3>. QED
        BY <3>2 DEF Archiving
    <2>8. CASE EndHook(q)
      <3>1. Begun(q, Mirror("hook", recorded, TRUE), "tryLock")
        BY <2>8, EndHookBegins
      <3>2. /\ job'[q].op = "hook" /\ job'[q].final = TRUE
            /\ job'[q].from = "live" /\ job'[q].to = "copy" /\ pc'[q] = "tryLock"
        BY <3>1 DEF Begun, Mirror
      <3>. QED
        BY <3>2 DEF Archiving
    <2>5. CASE MarkExited(q)
      <3>1. Begun(q, Mirror("refresh", recorded, TRUE), "tryLock")
        BY <2>5, ExitBegins
      <3>2. /\ job'[q].op = "refresh" /\ job'[q].final = TRUE
            /\ job'[q].from = "live" /\ job'[q].to = "copy" /\ pc'[q] = "tryLock"
        BY <3>1 DEF Begun, Mirror
      <3>. QED
        BY <3>2 DEF Archiving
    <2>6. CASE Stop(q)
      <3>1. Begun(q, Mirror("stop", recorded, TRUE), "leaving")
        BY <2>6, StopBegins
      <3>2. /\ job'[q].op = "stop" /\ job'[q].final = TRUE
            /\ job'[q].from = "live" /\ job'[q].to = "copy" /\ pc'[q] = "leaving"
        BY <3>1 DEF Begun, Mirror
      <3>. QED
        BY <3>2 DEF Archiving
    <2>7. CASE Respawn(q)
      <3>1. Begun(q, Backward(recorded), "launch") \/ Begun(q, Backward(recorded), "read")
        BY <2>7, RespawnBegins
      <3>. QED
        BY <2>2, <3>1 DEF Begun, Restoring
    <2>. QED
      BY <1>3, <2>4, <2>5, <2>6, <2>7, <2>8 DEF Starts
  <1>. QED
    BY <1>1, <1>2, <1>3, Fate

LEMMA HeldStep ==
  ASSUME TypeOK, Directed, Held, OfOver, Sources, [Next]_vars
  PROVE  Held'
  <1>. USE ArchiveAssumption
  <1>1. ASSUME NEW p \in Procs, Starts(p) PROVE Held'
    <2>0. ~Copying(p) /\ archiveLock # p /\ \A q \in Procs : createLock = q => q # None
      BY <1>1 DEF Starts, Hook, EndHook, MarkExited, Stop, Respawn, Begin, Held, Copying, Archiver, Working
    <2>1. CASE Hook(p)
      <3>1. /\ Begun(p, Mirror("hook", recorded', FALSE), "tryLock")
            /\ UNCHANGED <<createLock, agentLock, archiveLock>>
        BY <2>1, HookBegins
      <3>2. job'[p].op = "hook" /\ pc'[p] = "tryLock"
        BY <3>1 DEF Begun, Mirror
      <3>. QED
        BY ZenonT(60), <2>0, <3>1, <3>2 DEF Held, Begun, Copying, Archiver, Restorer, Working
    <2>5. CASE EndHook(p)
      <3>1. /\ Begun(p, Mirror("hook", recorded, TRUE), "tryLock")
            /\ UNCHANGED <<createLock, agentLock, archiveLock>>
        BY <2>5, EndHookBegins
      <3>2. job'[p].op = "hook" /\ pc'[p] = "tryLock"
        BY <3>1 DEF Begun, Mirror
      <3>. QED
        BY ZenonT(60), <2>0, <3>1, <3>2 DEF Held, Begun, Copying, Archiver, Restorer, Working
    <2>2. CASE MarkExited(p)
      <3>1. /\ Begun(p, Mirror("refresh", recorded, TRUE), "tryLock")
            /\ UNCHANGED <<createLock, archiveLock>> /\ agentLock' = p /\ agentLock = None
        BY <2>2, ExitBegins
      <3>2. job'[p].op = "refresh" /\ pc'[p] = "tryLock"
        BY <3>1 DEF Begun, Mirror
      <3>. QED
        BY ZenonT(60), <2>0, <3>1, <3>2 DEF Held, Begun, Copying, Archiver, Restorer, Working
    <2>3. CASE Stop(p)
      <3>1. /\ Begun(p, Mirror("stop", recorded, TRUE), "leaving")
            /\ UNCHANGED <<agentLock, archiveLock>> /\ createLock' = p /\ createLock = None
        BY <2>3, StopBegins
      <3>2. job'[p].op = "stop" /\ pc'[p] = "leaving"
        BY <3>1 DEF Begun, Mirror
      <3>. QED
        BY ZenonT(60), <2>0, <3>1, <3>2 DEF Held, Begun, Copying, Archiver, Restorer, Working
    <2>4. CASE Respawn(p)
      <3>1. /\ \E to : Begun(p, Backward(recorded), to)
            /\ UNCHANGED archiveLock /\ createLock = None /\ agentLock = None
            /\ createLock' = p /\ agentLock' = p
        BY <2>4, RespawnBegins
      <3>2. job'[p].op = "respawn"
        BY <3>1 DEF Begun, Mirror, Backward
      <3>. QED
        BY <2>0, <3>1, <3>2 DEF Held, Begun, Copying, Archiver, Restorer, Working
    <2>. QED
      BY <1>1, <2>1, <2>2, <2>3, <2>4, <2>5 DEF Starts
  <1>2. ASSUME NEW p \in Procs, Goes(p) PROVE Held'
    <2>1. Went(p, pc'[p]) /\ Aside /\ Working(p) /\ pc'[p] # "idle"
      BY <1>2, GoesWent DEF Went
    <2>2. CASE ArchiveLocked(p)
      <3>1. archiveLock = None /\ archiveLock' = p /\ pc'[p] = "compare" /\ pc[p] = "tryLock"
        BY <1>2, <2>2, GoesTurns DEF ArchiveLocked, TakeArchive, Turn
      <3>2. job[p].op # "respawn"
        BY <2>1, <3>1 DEF Directed, Restorer, Restoring
      <3>. QED
        BY <2>1, <3>1, <3>2 DEF Held, Went, Aside, Copying, Archiver, Restorer, Working
    <2>3. CASE ~ArchiveLocked(p)
      <3>1. UNCHANGED archiveLock
        BY <1>2, <2>3 DEF Goes, StopArchives, Compare, AppendLine, AppendDone, ReadWhole,
           Persist, StartSidecar, CopySidecar, Restored, lockVars
      <3>2. Copying(p)' <=> Copying(p)
        BY <1>2, <2>1, <2>3, GoesTurns DEF Went, Copying, Archiver, Working, Turn
      <3>. QED
        BY <2>1, <3>1, <3>2 DEF Held, Went, Aside, Copying, Archiver, Restorer, Working
    <2>. QED
      BY <2>2, <2>3
  <1>3. ASSUME NEW S \in SUBSET Procs, Left(S) PROVE Held'
    BY <1>3 DEF Left, Held, Copying, Archiver, Restorer, Working
  <1>4. ASSUME UNCHANGED <<createLock, agentLock, archiveLock, pc, job>> PROVE Held'
    BY <1>4 DEF Held, Copying, Archiver, Restorer, Working
  <1>5. ASSUME NEW p \in Procs, Ends(p) PROVE Held'
    BY <1>3, <1>5, EndsLeave
  <1>6. CASE Exits
    <2>1. Hooks \in SUBSET Procs
      BY DEF Hooks
    <2>. QED
      BY <1>3, <1>4, <1>6, <2>1, ExitsLeave
  <1>7. CASE Around
    BY <1>4, <1>7 DEF Around, WritesLine, RewritesLine, WritesSidecar, OpensConversation,
       SessionEnds, SessionClosed, CleansUp, lockVars, vars
  <1>. QED
    BY <1>1, <1>2, <1>5, <1>6, <1>7, NextKinds

(* Who ends or restores a run began with it, or stays with it.             *)
LEMMA OverBegins ==
  ASSUME TypeOK, Directed, Sources, [Next]_vars, NEW q \in Procs, Final(q)' \/ Restorer(q)'
  PROVE  /\ Final(q)' => \/ MarkExited(q) \/ Stop(q)
                         \/ Final(q) /\ (Stays(q) \/ Goes(q)) /\ job'[q].conv = job[q].conv
         /\ Restorer(q)' => \/ Respawn(q)
                            \/ Restorer(q) /\ (Stays(q) \/ Goes(q)) /\ job'[q].conv = job[q].conv
  <1>1. pc'[q] # "idle"
    BY DEF Final, Restorer, Archiver, Working
  <1>2. CASE Stays(q)
    BY <1>2 DEF Stays, Final, Restorer, Archiver, Working
  <1>3. CASE Goes(q)
    <2>1. Went(q, pc'[q])
      BY <1>3, GoesWent
    <2>. QED
      BY <1>3, <2>1 DEF Went, Final, Restorer, Archiver, Working
  <1>4. CASE Hook(q) \/ EndHook(q)
    <2>1. job'[q].op = "hook"
      BY <1>4, HookBegins, EndHookBegins DEF Begun, Mirror
    <2>. QED
      BY <2>1 DEF Final, Restorer, Archiver
  <1>5. CASE MarkExited(q)
    <2>1. job'[q].op = "refresh"
      BY <1>5, ExitBegins DEF Begun, Mirror
    <2>. QED
      BY <1>5, <2>1 DEF Final, Restorer, Archiver
  <1>6. CASE Stop(q)
    <2>1. job'[q].op = "stop"
      BY <1>6, StopBegins DEF Begun, Mirror
    <2>. QED
      BY <1>6, <2>1 DEF Final, Restorer, Archiver
  <1>7. CASE Respawn(q)
    <2>1. job'[q].op = "respawn"
      BY <1>7, RespawnBegins DEF Begun, Mirror, Backward
    <2>. QED
      BY <1>7, <2>1 DEF Final, Restorer, Archiver
  <1>. QED
    BY <1>1, <1>2, <1>3, <1>4, <1>5, <1>6, <1>7, Fate DEF Starts

LEMMA OfOverStep ==
  ASSUME TypeOK, Directed, Held, OfOver, Sources, [Next]_vars
  PROVE  OfOver'
  <1>. SUFFICES ASSUME NEW q \in Procs, Final(q)' \/ Restorer(q)'
                PROVE  ended' /\ job'[q].conv = recorded' /\ (Restorer(q)' => ~session')
    BY DEF OfOver
  <1>1. CASE MarkExited(q)
    <2>1. ended' /\ ~session /\ Begun(q, Mirror("refresh", recorded, TRUE), "tryLock")
          /\ UNCHANGED <<session, recorded>>
      BY <1>1, ExitBegins
    <2>. QED
      BY <2>1 DEF Begun, Mirror
  <1>2. CASE Stop(q)
    <2>1. ended' /\ Begun(q, Mirror("stop", recorded, TRUE), "leaving")
          /\ UNCHANGED recorded
      BY <1>2, StopBegins
    <2>2. job'[q].conv = recorded' /\ job'[q].op = "stop"
      BY <2>1 DEF Begun, Mirror
    <2>. QED
      BY <2>1, <2>2 DEF Restorer
  <1>3. CASE Respawn(q)
    <2>1. ended /\ ~session /\ (\E to : Begun(q, Backward(recorded), to))
          /\ UNCHANGED <<session, recorded, ended>>
      BY <1>3, RespawnBegins
    <2>. QED
      BY <2>1 DEF Begun, Mirror, Backward
  <1>4. CASE /\ Final(q) \/ Restorer(q)
             /\ Stays(q) \/ Goes(q)
             /\ job'[q].conv = job[q].conv
             /\ Restorer(q)' => Restorer(q)
    <2>1. ended /\ job[q].conv = recorded /\ (Restorer(q) => ~session)
      BY <1>4 DEF OfOver
    <2>2. \A p \in Procs : ~(Ends(p) /\ Launch(p))
      <3>. SUFFICES ASSUME NEW p \in Procs, Ends(p), Launch(p) PROVE FALSE
        OBVIOUS
      <3>1. Restorer(p)
        BY DEF Launch, Directed, Restorer, Archiver, Archiving, Working
      <3>2. p = q /\ Restorer(q)
        BY <1>4, <3>1, RestorerAlone
      <3>3. pc'[q] = "idle" /\ pc[q] # "idle"
        BY <3>2, EndsLeave DEF Left, Restorer, Working
      <3>4. Goes(q)
        BY <1>4, <3>3 DEF Stays
      <3>. QED
        BY <3>3, <3>4, GoesWent DEF Went
    <2>3. ended \in BOOLEAN /\ session \in BOOLEAN
      BY DEF TypeOK
    <2>4. ended'
      BY <2>1, <2>2, <2>3, RunChanges
    <2>5. recorded' = recorded
      BY <2>1, <2>2, <2>3, RunChanges
    <2>6. ~session => ~session'
      BY <2>1, <2>2, <2>3, RunChanges
    <2>. QED
      BY <1>4, <2>1, <2>4, <2>5, <2>6
  <1>. QED
    BY <1>1, <1>2, <1>3, <1>4, OverBegins

LEMMA EndingBegins ==
  ASSUME TypeOK, Directed, Sources, [Next]_vars, NEW q \in Procs, Ending(q)'
  PROVE  \/ EndHook(q)
         \/ Ending(q) /\ (Stays(q) \/ Goes(q)) /\ job'[q].conv = job[q].conv
  <1>1. pc'[q] # "idle" /\ job'[q].op = "hook" /\ job'[q].final
    BY DEF Ending, Archiver, Working
  <1>2. CASE Stays(q)
    BY <1>2 DEF Stays, Ending, Archiver, Working
  <1>3. CASE Goes(q)
    <2>1. Went(q, pc'[q])
      BY <1>3, GoesWent
    <2>. QED
      BY <1>3, <2>1 DEF Went, Ending, Archiver, Working
  <1>4. ~Hook(q)
    BY <1>1, HookBegins DEF Begun, Mirror
  <1>5. ~MarkExited(q)
    BY <1>1, ExitBegins DEF Begun, Mirror
  <1>6. ~Stop(q)
    BY <1>1, StopBegins DEF Begun, Mirror
  <1>7. ~Respawn(q)
    BY <1>1, RespawnBegins DEF Begun, Mirror, Backward
  <1>. QED
    BY <1>1, <1>2, <1>3, <1>4, <1>5, <1>6, <1>7, Fate DEF Starts

(* Without orphans and closed sessions nothing is launched beside a hook.  *)
LEMMA LaunchAlone ==
  ASSUME TypeOK, Directed, OfOver, Together, Undisturbed, NEW p \in Procs, Launch(p)
  PROVE  ~alive /\ \A q \in Procs : ~Ending(q)
  <1>1. Restorer(p)
    BY DEF Launch, Directed, Restorer, Archiver, Archiving, Working
  <1>2. ~session
    BY <1>1 DEF OfOver
  <1>. QED
    BY <1>2 DEF Together, Undisturbed, Without, Ending

LEMMA EndedByStep ==
  ASSUME TypeOK, Directed, Held, OfOver, EndedBy, Sources, Together, [Next]_vars
  PROVE  EndedBy'
  <1>0. ended \in BOOLEAN /\ endHook \in {"none", "last", "early"}
    BY DEF TypeOK
  <1>1. ASSUME endHook' # "none" PROVE ended'
    <2>1. CASE \E p \in Procs : EndHook(p)
      BY <2>1, EndHookBegins
    <2>2. CASE endHook # "none"
      <3>1. ended
        BY <2>2 DEF EndedBy
      <3>2. \A p \in Procs : ~Launch(p)
        BY <1>1 DEF Launch
      <3>. QED
        BY <1>0, <3>1, <3>2, RunChanges
    <2>. QED
      BY <1>1, <2>1, <2>2, EndHookChanges
  <1>2. ASSUME endHook' # "none", NEW q \in Procs, Final(q)' PROVE FALSE
    <2>1. CASE MarkExited(q) \/ Stop(q)
      <3>1. ~ended /\ UNCHANGED endHook
        BY <2>1, ExitBegins, StopBegins
      <3>. QED
        BY <1>2, <3>1 DEF EndedBy
    <2>2. CASE Final(q)
      <3>1. ended /\ endHook = "none"
        BY <2>2 DEF OfOver, EndedBy
      <3>. QED
        BY <1>2, <3>1, EndHookChanges
    <2>. QED
      BY <1>2, <2>1, <2>2, OverBegins
  <1>3. ASSUME Undisturbed', NEW q \in Procs, Ending(q)'
        PROVE  endHook' # "none" /\ job'[q].conv = recorded'
    <2>1. CASE EndHook(q)
      BY <2>1, EndHookBegins DEF Begun, Mirror
    <2>2. CASE Ending(q) /\ job'[q].conv = job[q].conv
      <3>1. Undisturbed
        BY <1>3, WithoutStays DEF Undisturbed
      <3>2. endHook # "none" /\ job[q].conv = recorded /\ ended
        BY <2>2, <3>1 DEF EndedBy
      <3>3. \A p \in Procs : ~Launch(p)
        BY <2>2, <3>1, LaunchAlone
      <3>4. endHook' # "none"
        BY <3>2, <3>3, EndHookChanges
      <3>5. recorded' = recorded
        BY <1>0, <3>2, <3>3, RunChanges
      <3>. QED
        BY <2>2, <3>2, <3>4, <3>5
    <2>. QED
      BY <1>3, <2>1, <2>2, EndingBegins
  <1>. QED
    BY <1>1, <1>2, <1>3 DEF EndedBy

LEMMA OneFinalStep ==
  ASSUME TypeOK, Directed, Sources, OfOver, OneFinal, [Next]_vars
  PROVE  OneFinal'
  <1>. SUFFICES ASSUME NEW p \in Procs, NEW q \in Procs, Final(p)', Final(q)' PROVE p = q
    BY DEF OneFinal
  <1>1. \A r \in Procs : Final(r) => ended
    BY DEF OfOver
  <1>2. ASSUME NEW r \in Procs, MarkExited(r) \/ Stop(r), NEW t \in Procs, Final(t)'
        PROVE  t = r
    <2>1. ~ended /\ \E j, to : Begun(r, j, to)
      BY <1>2, ExitBegins, StopBegins
    <2>2. \A u \in Procs \ {r} : Final(u)' => Final(u)
      BY <2>1 DEF Begun, Final, Archiver, Working
    <2>. QED
      BY <1>1, <1>2, <2>1, <2>2
  <1>. QED
    BY <1>2, OverBegins DEF OneFinal

(* What makes a seen transcript missing is a clean-up, nothing else.       *)
LEMMA NoneIsNoFile == \A s \in Seq(Lines) : s # None /\ s \in File
  BY ArchiveAssumption DEF File

LEMMA SeenBefore ==
  ASSUME TypeOK, Directed, Sources, [Next]_vars, NEW c \in Convs, Seen(c)'
  PROVE  Seen(c) \/ file.live[c] # None
  <1>1. CASE file'.copy[c] # None
    <2>1. CASE \E p \in Procs : /\ Goes(p) /\ Persist(p) /\ Working(p)
                                /\ Writes(job[p].to, job[p].conv, job[p].bytes)
      <3>1. PICK p \in Procs : /\ Goes(p) /\ Persist(p) /\ Working(p)
                               /\ Writes(job[p].to, job[p].conv, job[p].bytes)
        BY <2>1
      <3>2. pc[p] = "persist"
        BY <3>1 DEF Persist
      <3>. QED
        BY <1>1, <3>1, <3>2 DEF Writes, Seen, Places
    <2>2. CASE \E p \in Procs : /\ Goes(p) /\ AppendLine(p) /\ Archiver(p)
                                /\ Writes("copy", job[p].conv,
                                          Append(Target(p), Source(p)[job[p].offset + 1]))
      <3>1. PICK p \in Procs : /\ Goes(p) /\ AppendLine(p) /\ Archiver(p)
                               /\ Writes("copy", job[p].conv,
                                         Append(Target(p), Source(p)[job[p].offset + 1]))
        BY <2>2
      <3>2. file.copy[job[p].conv] # None
        BY <3>1 DEF AppendLine, Sources
      <3>. QED
        BY <1>1, <3>1, <3>2 DEF Writes, Seen, Places
    <2>3. CASE UNCHANGED file
      BY <1>1, <2>3 DEF Seen
    <2>4. CASE \E v : Writes("live", current, v) \/ Writes("live", recorded, v)
      BY <1>1, <2>4 DEF Writes, Seen, Places
    <2>. QED
      BY <2>1, <2>2, <2>3, <2>4, FileChanges
  <1>2. CASE \E p \in Procs : pc'[p] = "persist" /\ job'[p].conv = c
    <2>1. PICK p \in Procs : pc'[p] = "persist" /\ job'[p].conv = c
      BY <1>2
    <2>2. CASE Stays(p)
      BY <2>1, <2>2 DEF Stays, Seen
    <2>3. CASE Goes(p)
      <3>1. ReadWhole(p) /\ pc[p] = "read"
        BY <2>1, <2>3, GoesTurns DEF Turn
      <3>2. Working(p) /\ job[p].conv = c
        BY <2>1, <2>3, GoesWent DEF Went
      <3>. QED
        BY <3>1, <3>2 DEF Sources, Archiver, Restorer, Seen
    <2>4. ~Starts(p)
      BY <2>1, HookBegins, EndHookBegins, ExitBegins, StopBegins, RespawnBegins DEF Starts, Begun
    <2>. QED
      BY <2>1, <2>2, <2>3, <2>4, Fate
  <1>. QED
    BY <1>1, <1>2 DEF Seen

LEMMA BecomesMissing ==
  ASSUME TypeOK, Directed, Sources, [Next]_vars, NEW c \in Convs,
         file.live[c] # None, file'.live[c] = None
  PROVE  CleansUp /\ c = recorded
  <1>1. CASE \E p \in Procs : /\ Goes(p) /\ Persist(p) /\ Working(p)
                              /\ Writes(job[p].to, job[p].conv, job[p].bytes)
    <2>1. PICK p \in Procs : /\ Working(p)
                             /\ Writes(job[p].to, job[p].conv, job[p].bytes)
      BY <1>1
    <2>2. job[p].bytes # None
      BY <2>1, Fields, NoneIsNoFile
    <2>. QED
      BY <2>1, <2>2 DEF Writes, Places
  <1>2. CASE \E v, d : Writes("copy", d, v)
    BY <1>2 DEF Writes, Places
  <1>3. CASE \E v \in Seq(Lines) : Writes("live", current, v)
    BY <1>3, NoneIsNoFile DEF Writes, Places
  <1>4. CASE CleansUp /\ Writes("live", recorded, None)
    BY <1>4 DEF Writes, Places
  <1>5. CASE \E l \in Lines : Writes("live", current, Append(Lived(current), l))
    <2>1. Lived(current) \in Seq(Lines)
      BY DEF Lived, TypeOK, File, Places
    <2>2. \A l \in Lines : Append(Lived(current), l) \in Seq(Lines)
      BY <2>1
    <2>. QED
      BY <1>5, <2>2, NoneIsNoFile DEF Writes, Places
  <1>. QED
    BY <1>1, <1>2, <1>3, <1>4, <1>5, FileChanges

LEMMA CleanedUpStep ==
  ASSUME TypeOK, Directed, Sources, CleanedUp, [Next]_vars
  PROVE  CleanedUp'
  <1>. SUFFICES ASSUME NEW c \in Convs, Missing(c)'
                PROVE  ~alive' /\ c = recorded' /\ "cleanup" \in disturbed'
    BY DEF CleanedUp
  <1>1. CASE CleansUp /\ c = recorded
    BY <1>1 DEF CleansUp, Disturb, agentVars, programVars
  <1>2. CASE file.live[c] = None
    <2>1. Missing(c)
      BY <1>2, SeenBefore DEF Missing
    <2>2. ~alive /\ c = recorded /\ "cleanup" \in disturbed
      BY <2>1 DEF CleanedUp
    <2>3. \A p \in Procs : ~Hook(p) /\ ~Launch(p)
      BY <1>2, <2>2 DEF Hook, Launch
    <2>4. alive \in BOOLEAN
      BY DEF TypeOK
    <2>5. ~alive'
      BY <2>2, <2>3, <2>4, RunChanges
    <2>6. recorded' = recorded
      BY <2>3, RunChanges
    <2>7. "cleanup" \in disturbed'
      BY <2>2, RunChanges
    <2>. QED
      BY <2>2, <2>5, <2>6, <2>7
  <1>. QED
    BY <1>1, <1>2, BecomesMissing DEF Missing

LEMMA AliveHasAll ==
  ASSUME CleanedUp, alive, NEW c \in Convs
  PROVE  ~Missing(c)
  BY DEF CleanedUp

LEMMA LiveChanges ==
  ASSUME TypeOK, Directed, Sources, [Next]_vars, NEW c \in Convs, file'.live[c] # file.live[c]
  PROVE  \/ /\ WritesLine /\ alive /\ c = current
            /\ \E l \in Lines : file'.live[c] = Append(Lived(c), l)
         \/ RewritesLine /\ alive /\ c = current /\ "rewrite" \in disturbed'
         \/ CleansUp /\ ~alive /\ c = recorded /\ file'.live[c] = None
         \/ \E p \in Procs : /\ Goes(p) /\ Persist(p) /\ Restorer(p) /\ job[p].conv = c
                             /\ pc[p] = "persist" /\ file'.live[c] = job[p].bytes
  <1>1. CASE \E p \in Procs : /\ Goes(p) /\ Persist(p) /\ Working(p)
                              /\ Writes(job[p].to, job[p].conv, job[p].bytes)
    <2>1. PICK p \in Procs : /\ Goes(p) /\ Persist(p) /\ Working(p)
                             /\ Writes(job[p].to, job[p].conv, job[p].bytes)
      BY <1>1
    <2>2. job[p].to = "live" /\ job[p].conv = c
      BY <2>1 DEF Writes, Places
    <2>3. Restorer(p) /\ pc[p] = "persist"
      BY <2>1, <2>2 DEF Directed, Restorer, Archiver, Persist
    <2>. QED
      BY <2>1, <2>2, <2>3 DEF Writes, Places
  <1>2. ASSUME NEW v, NEW d, Writes("copy", d, v) PROVE FALSE
    BY <1>2 DEF Writes, Places
  <1>3. ASSUME NEW v, Writes("live", current, v) PROVE c = current /\ file'.live[c] = v
    BY <1>3 DEF Writes, Places
  <1>4. ASSUME NEW v, Writes("live", recorded, v) PROVE c = recorded /\ file'.live[c] = v
    BY <1>4 DEF Writes, Places
  <1>5. WritesLine => alive
    BY DEF WritesLine
  <1>6. RewritesLine => alive /\ "rewrite" \in disturbed'
    BY DEF RewritesLine, Disturb
  <1>7. CleansUp => ~alive
    BY DEF CleansUp
  <1>. QED
    BY <1>1, <1>2, <1>3, <1>4, <1>5, <1>6, <1>7, FileChanges

LEMMA CopyChanges ==
  ASSUME TypeOK, Directed, Sources, [Next]_vars, NEW c \in Convs, file'.copy[c] # file.copy[c]
  PROVE  /\ \A d \in Convs : file'.live[d] = file.live[d]
         /\ \E p \in Procs :
              /\ Goes(p) /\ Archiver(p) /\ job[p].conv = c
              /\ \/ /\ AppendLine(p) /\ pc[p] = "append" /\ file.copy[c] # None
                    /\ file'.copy[c] = Append(file.copy[c], file.live[c][job[p].offset + 1])
                 \/ Persist(p) /\ pc[p] = "persist" /\ file'.copy[c] = job[p].bytes
  <1>1. CASE \E p \in Procs : /\ Goes(p) /\ Persist(p) /\ Working(p)
                              /\ Writes(job[p].to, job[p].conv, job[p].bytes)
    <2>1. PICK p \in Procs : /\ Goes(p) /\ Persist(p) /\ Working(p)
                             /\ Writes(job[p].to, job[p].conv, job[p].bytes)
      BY <1>1
    <2>2. job[p].to = "copy" /\ job[p].conv = c
      BY <2>1 DEF Writes, Places
    <2>3. Archiver(p) /\ pc[p] = "persist"
      BY <2>1, <2>2 DEF Directed, Restorer, Archiver, Persist
    <2>. QED
      BY <2>1, <2>2, <2>3 DEF Writes, Places
  <1>2. CASE \E p \in Procs : /\ Goes(p) /\ AppendLine(p) /\ Archiver(p)
                              /\ Writes("copy", job[p].conv,
                                        Append(Target(p), Source(p)[job[p].offset + 1]))
    <2>1. PICK p \in Procs : /\ Goes(p) /\ AppendLine(p) /\ Archiver(p)
                             /\ Writes("copy", job[p].conv,
                                       Append(Target(p), Source(p)[job[p].offset + 1]))
      BY <1>2
    <2>2. job[p].conv = c /\ pc[p] = "append" /\ job[p].from = "live" /\ job[p].to = "copy"
      BY <2>1 DEF Writes, Places, AppendLine, Directed
    <2>. QED
      BY <2>1, <2>2 DEF Writes, Places, Source, Target, Sources
  <1>3. ASSUME NEW v, NEW d, Writes("live", d, v) PROVE FALSE
    BY <1>3 DEF Writes, Places
  <1>. QED
    BY <1>1, <1>2, <1>3, FileChanges

(* A step of a copy shows in its process.                                  *)
LEMMA GoesMoves ==
  ASSUME TypeOK, Directed, Sources, NEW p \in Procs, Goes(p)
  PROVE  ~Stays(p)
  <1>1. job[p].offset \in Nat
    BY GoesWent, Fields DEF Went
  <1>2. job[p].offset + 1 # job[p].offset
    BY <1>1
  <1>. QED
    BY <1>2, GoesTurns DEF Turn, Stays

(* Beside one who copies nobody writes a copy, beside one who restores     *)
(* nobody restores.                                                        *)
LEMMA CopyKept ==
  ASSUME TypeOK, Directed, Held, Sources, [Next]_vars,
         NEW q \in Procs, Copying(q), Stays(q), NEW c \in Convs
  PROVE  file'.copy[c] = file.copy[c]
  <1>. SUFFICES ASSUME file'.copy[c] # file.copy[c] PROVE FALSE
    OBVIOUS
  <1>1. PICK p \in Procs : Goes(p) /\ Archiver(p) /\ pc[p] \in {"append", "persist"}
    BY CopyChanges
  <1>2. Copying(p)
    BY <1>1 DEF Copying
  <1>. QED
    BY <1>1, <1>2, OneCopier, GoesMoves

LEMMA NotRestored ==
  ASSUME TypeOK, Directed, Held, Sources, [Next]_vars,
         NEW q \in Procs, Restorer(q) \/ Final(q), Stays(q), NEW p \in Procs, Goes(p), Restorer(p)
  PROVE  FALSE
  BY RestorerAlone, GoesMoves

LEMMA SourcesStep ==
  ASSUME TypeOK, Directed, Held, Sources, CleanedUp, [Next]_vars
  PROVE  Sources'
  <1>. USE NoneIsNoFile
  <1>. SUFFICES ASSUME NEW q \in Procs, pc'[q] # "idle"
       PROVE  /\ job'[q].op # "respawn" /\ pc'[q] \in {"read", "persist", "append"} =>
                   file'.live[job'[q].conv] # None
              /\ job'[q].op # "respawn" /\ pc'[q] = "append" =>
                   /\ file'.copy[job'[q].conv] # None
                   /\ job'[q].offset = Len(file'.copy[job'[q].conv])
              /\ job'[q].op = "respawn" /\ pc'[q] \in {"read", "persist"} =>
                   file'.live[job'[q].conv] = None /\ file'.copy[job'[q].conv] # None
              /\ job'[q].op = "respawn" /\ pc'[q] \in {"sidecars", "copying"} =>
                   file'.live[job'[q].conv] # None
    BY DEF Sources, Archiver, Restorer, Working
  <1>1. ASSUME NEW c \in Convs, file.copy[c] # None PROVE file'.copy[c] # None
    <2>1. CASE file'.copy[c] = file.copy[c]
      BY <1>1, <2>1
    <2>2. CASE file'.copy[c] # file.copy[c]
      <3>1. PICK p \in Procs :
              /\ Goes(p) /\ Archiver(p) /\ job[p].conv = c
              /\ \/ /\ AppendLine(p) /\ pc[p] = "append" /\ file.copy[c] # None
                    /\ file'.copy[c] = Append(file.copy[c], file.live[c][job[p].offset + 1])
                 \/ Persist(p) /\ pc[p] = "persist" /\ file'.copy[c] = job[p].bytes
        BY <2>2, CopyChanges
      <3>2. job[p].bytes # None /\ Working(p)
        BY <3>1, Fields DEF Archiver
      <3>3. CASE AppendLine(p) /\ file'.copy[c] = Append(file.copy[c], file.live[c][job[p].offset + 1])
        <4>1. Source(p) = file.live[c] /\ Target(p) = file.copy[c] /\ Source(p) # None
          BY <3>1, <3>3 DEF Directed, Source, Target, Sources, AppendLine, Archiver
        <4>2. /\ Source(p) \in Seq(Lines) /\ Target(p) \in Seq(Lines)
              /\ job[p].offset \in Nat /\ job[p].offset < Len(Source(p))
          BY <1>1, <3>2, <3>3, <4>1, SourceTypes, Fields DEF AppendLine
        <4>3. Append(Target(p), Source(p)[job[p].offset + 1]) \in Seq(Lines)
          BY <4>2
        <4>. QED
          BY <3>3, <4>1, <4>3
      <3>. QED
        BY <3>1, <3>2, <3>3
    <2>. QED
      BY <2>1, <2>2
  <1>2. CASE Stays(q)
    <2>1. Working(q) /\ pc'[q] = pc[q] /\ job'[q] = job[q] /\ job[q].conv \in Convs
      BY <1>2, Fields DEF Working, Stays
    <2>2. ASSUME pc[q] \in {"read", "persist", "append", "sidecars", "copying"}, file.live[job[q].conv] # None
          PROVE  file'.live[job[q].conv] # None
      <3>1. ~CleansUp
        BY <2>2 DEF CleansUp
      <3>. QED
        BY <2>1, <2>2, <3>1, BecomesMissing
    <2>3. CASE Archiver(q) /\ pc[q] \in {"read", "persist", "append"}
      <3>1. file'.live[job[q].conv] # None
        BY <2>2, <2>3 DEF Sources
      <3>2. Copying(q)
        BY <2>3 DEF Copying
      <3>3. file'.copy[job[q].conv] = file.copy[job[q].conv]
        BY <1>2, <2>1, <3>2, CopyKept
      <3>. QED
        BY <2>1, <2>3, <3>1, <3>3 DEF Sources, Archiver
    <2>4. CASE Restorer(q) /\ pc[q] \in {"read", "persist"}
      <3>1. file.live[job[q].conv] = None /\ file.copy[job[q].conv] # None
        BY <2>4 DEF Sources
      <3>2. ~alive
        BY <2>1, <3>1, AliveHasAll DEF Missing, Seen
      <3>3. file'.live[job[q].conv] = None
        <4>. SUFFICES ASSUME file'.live[job[q].conv] # file.live[job[q].conv] PROVE FALSE
          BY <3>1
        <4>1. PICK p \in Procs : Goes(p) /\ Restorer(p)
          BY <2>1, <3>1, <3>2, LiveChanges
        <4>. QED
          BY <1>2, <2>4, <4>1, NotRestored
      <3>. QED
        BY <1>1, <2>1, <2>4, <3>1, <3>3 DEF Restorer
    <2>5. CASE Restorer(q) /\ pc[q] \in {"sidecars", "copying"}
      BY <2>1, <2>2, <2>5 DEF Sources, Restorer
    <2>. QED
      BY <2>1, <2>3, <2>4, <2>5 DEF Archiver, Restorer
  <1>3. CASE Goes(q)
    <2>1. Working(q) /\ job'[q].op = job[q].op /\ job'[q].conv = job[q].conv /\ job[q].conv \in Convs
      BY <1>3, GoesWent, Fields DEF Went
    <2>2. CASE UNCHANGED file /\ ~Compare(q) /\ ~AppendLine(q) /\ ~Persist(q)
      <3>1. CASE job[q].op # "respawn"
        BY <1>3, <2>1, <2>2, <3>1, GoesTurns DEF Turn, Sources, Archiver
      <3>2. CASE Restorer(q)
        <4>1. pc[q] \in Restoring
          BY <3>2 DEF Directed
        <4>2. \/ pc[q] = "read" /\ pc'[q] = "persist"
              \/ pc[q] = "sidecars" /\ pc'[q] = "copying"
              \/ pc[q] = "copying" /\ pc'[q] = "sidecars"
              \/ pc'[q] = "launch"
          BY <1>3, <2>2, <4>1, GoesTurns DEF Turn, Restoring
        <4>. QED
          BY <2>1, <2>2, <3>2, <4>2 DEF Sources, Restorer
      <3>. QED
        BY <2>1, <3>1, <3>2 DEF Restorer
    <2>3. CASE Compare(q)
      <3>1. pc[q] = "compare" /\ Archiver(q) /\ UNCHANGED file
        BY <2>1, <2>3 DEF Compare, Directed, Archiver, Restorer, Restoring, fileVars
      <3>2. Source(q) = file.live[job[q].conv] /\ Target(q) = file.copy[job[q].conv]
        BY <3>1 DEF Directed, Source, Target
      <3>3. Source(q) # None
        BY <2>3 DEF Compare
      <3>4. pc'[q] = "append" => Target(q) # None /\ job'[q].offset = Len(Target(q))
        BY <1>3, <2>3, <3>1, GoesTurns DEF Turn, AppendLine
      <3>. QED
        BY <2>1, <3>1, <3>2, <3>3, <3>4 DEF Archiver
    <2>4. CASE AppendLine(q)
      <3>1. pc[q] = "append" /\ Archiver(q)
        BY <2>1, <2>4 DEF AppendLine, Directed, Archiver, Restorer, Restoring
      <3>2. PICK s \in Seq(Lines) : s = file.copy[job[q].conv]
        BY <2>1, <3>1 DEF Sources, TypeOK, File, Places
      <3>3. PICK x \in Lines : x = file.live[job[q].conv][job[q].offset + 1]
        <4>1. Source(q) = file.live[job[q].conv] /\ Source(q) # None
          BY <3>1 DEF Directed, Source, Sources
        <4>2. Source(q) \in Seq(Lines) /\ job[q].offset \in Nat /\ job[q].offset < Len(Source(q))
          BY <2>1, <2>4, <4>1, SourceTypes, Fields DEF AppendLine
        <4>. QED
          BY <4>1, <4>2
      <3>4. file'.copy[job[q].conv] = Append(s, x) /\ file'.live[job[q].conv] = file.live[job[q].conv]
        <4>1. job[q].from = "live" /\ job[q].to = "copy"
          BY <3>1 DEF Directed
        <4>2. PutTarget(q, Append(s, x))
          BY <2>4, <3>2, <3>3, <4>1 DEF AppendLine, Source, Target
        <4>. QED
          BY ZenonT(60), <2>1, <4>1, <4>2, PutEffect DEF Places
      <3>5. job'[q].offset = Len(s) + 1 /\ pc'[q] = "append"
        <4>1. pc'[q] = "append" /\ job[q].offset = Len(s)
          BY <2>4, <3>1, <3>2 DEF AppendLine, Sources
        <4>. QED
          BY <1>3, <3>1, <4>1, GoesTurns DEF Turn
      <3>6. Append(s, x) # None /\ Len(Append(s, x)) = Len(s) + 1
        OBVIOUS
      <3>. QED
        BY <2>1, <3>1, <3>4, <3>5, <3>6 DEF Archiver, Sources
    <2>5. CASE Persist(q)
      <3>1. pc'[q] = "sidecars" /\ pc[q] = "persist"
        BY <1>3, <2>5, GoesTurns DEF Turn, StopArchives, ArchiveLocked, Compare, AppendLine,
           AppendDone, ReadWhole, Persist, StartSidecar, CopySidecar, Restored
      <3>2. PutTarget(q, job[q].bytes) /\ job[q].bytes # None
        BY <2>1, <2>5, Fields DEF Persist
      <3>3. Restorer(q) => file'.live[job[q].conv] # None
        BY <2>1, <3>2, PutEffect DEF Directed, Places
      <3>. QED
        BY <2>1, <3>1, <3>3 DEF Restorer
    <2>. QED
      BY <1>3, <2>2, <2>3, <2>4, <2>5 DEF Goes, StopArchives, ArchiveLocked, AppendDone,
         ReadWhole, StartSidecar, CopySidecar, Restored, fileVars
  <1>4. CASE Starts(q)
    <2>1. CASE Respawn(q) /\ pc'[q] = "read"
      <3>1. Begun(q, Backward(recorded), "read") /\ NeedsRestore(recorded) /\ UNCHANGED file
        BY <2>1, RespawnBegins DEF Begun
      <3>2. job'[q].conv = recorded /\ job'[q].op = "respawn"
        BY <3>1 DEF Begun, Mirror, Backward
      <3>. QED
        BY <2>1, <3>1, <3>2 DEF NeedsRestore
    <2>2. CASE pc'[q] \in {"tryLock", "leaving", "launch"}
      BY <2>2
    <2>. QED
      BY <1>4, <2>1, <2>2, HookBegins, EndHookBegins, ExitBegins, StopBegins, RespawnBegins DEF Starts, Begun
  <1>. QED
    BY <1>2, <1>3, <1>4, Fate

LEMMA SidecarsStep ==
  ASSUME TypeOK, Directed, Held, Sources, Sidecars, CleanedUp, [Next]_vars
  PROVE  Sidecars'
  <1>. DEFINE Set(k, c, v) == \A j \in Places, d \in Convs :
                sidecar'[j][d] = IF j = k /\ d = c THEN v ELSE sidecar[j][d]
  <1>1. ASSUME NEW c \in Convs, file'.live[c] = None PROVE sidecar'.live[c] = "none"
    <2>1. CASE CleansUp /\ c = recorded
      BY <2>1 DEF CleansUp, TypeOK, Places
    <2>2. CASE file.live[c] = None /\ ~CleansUp
      <3>1. sidecar.live[c] = "none"
        BY <2>2 DEF Sidecars
      <3>2. CASE WritesSidecar /\ Set("live", current, "whole")
        BY <2>2, <3>1, <3>2 DEF WritesSidecar, Places
      <3>3. ASSUME NEW p \in Procs, NEW v, pc[p] \in {"sidecars", "copying"}, Working(p),
                   Set(job[p].to, job[p].conv, v)
            PROVE  sidecar'.live[c] = sidecar.live[c]
        <4>1. job[p].to = "live" => Restorer(p)
          BY <3>3 DEF Directed, Restorer, Archiver
        <4>2. job[p].to = "live" => job[p].conv # c
          BY <2>2, <3>3, <4>1 DEF Sources
        <4>. QED
          BY <3>3, <4>2 DEF Places
      <3>4. \A p \in Procs : /\ StartSidecar(p) => pc[p] = "sidecars"
                             /\ CopySidecar(p) => pc[p] = "copying"
        BY DEF StartSidecar, CopySidecar
      <3>5. CASE \E p \in Procs : /\ Goes(p) /\ StartSidecar(p) /\ Working(p)
                                  /\ Set(job[p].to, job[p].conv, "part")
        BY <3>1, <3>3, <3>4, <3>5
      <3>6. CASE \E p \in Procs : /\ Goes(p) /\ CopySidecar(p) /\ Working(p)
                                  /\ Set(job[p].to, job[p].conv,
                                         sidecar[job[p].from][job[p].conv])
        BY <3>1, <3>3, <3>4, <3>6
      <3>7. CASE UNCHANGED sidecar
        BY <3>1, <3>7
      <3>. QED
        BY <2>2, <3>2, <3>5, <3>6, <3>7, SidecarChanges
    <2>3. CASE file.live[c] = None /\ CleansUp
      BY <2>3 DEF CleansUp, Sidecars, TypeOK, Places
    <2>. QED
      BY <1>1, <2>1, <2>2, <2>3, BecomesMissing
  <1>2. ASSUME NEW q \in Procs, pc'[q] = "copying"
        PROVE  sidecar'[job'[q].from][job'[q].conv] # "none"
    <2>1. ~Starts(q)
      BY <1>2, HookBegins, EndHookBegins, ExitBegins, StopBegins, RespawnBegins DEF Starts, Begun
    <2>2. CASE Stays(q)
      <3>1. pc[q] = "copying" /\ job'[q] = job[q]
        BY <1>2, <2>2 DEF Stays
      <3>2. job[q].from \in Places /\ job[q].conv \in Convs
        BY <3>1, Fields DEF Working
      <3>3. sidecar[job[q].from][job[q].conv] # "none" /\ ~CleansUp
        BY <3>1 DEF Sidecars, CleansUp
      <3>4. \A p \in Procs : CopySidecar(p) => sidecar[job[p].from][job[p].conv] # "none"
        BY DEF Sidecars, CopySidecar
      <3>. QED
        BY <3>1, <3>2, <3>3, <3>4, SidecarChanges
    <2>3. CASE Goes(q)
      <3>1. StartSidecar(q) /\ Went(q, pc'[q])
        BY <1>2, <2>3, GoesTurns, GoesWent DEF Turn
      <3>2. /\ job'[q].from = job[q].from /\ job'[q].conv = job[q].conv
            /\ job[q].from \in Places /\ job[q].to \in Places /\ job[q].conv \in Convs
            /\ job[q].from # job[q].to
        BY <3>1, Fields DEF Went, Directed, Archiver, Restorer
      <3>3. sidecar[job[q].from][job[q].conv] # "none"
            /\ sidecar' = [sidecar EXCEPT ![job[q].to][job[q].conv] = "part"]
        BY <3>1 DEF StartSidecar, SidecarMissing
      <3>. QED
        BY <3>2, <3>3 DEF TypeOK
    <2>. QED
      BY <1>2, <2>1, <2>2, <2>3, Fate
  <1>. QED
    BY <1>1, <1>2 DEF Sidecars

LEMMA TogetherStep ==
  ASSUME TypeOK, Directed, Held, OfOver, Sources, Together, [Next]_vars
  PROVE  Together'
  <1>0. alive \in BOOLEAN /\ session \in BOOLEAN
    BY DEF TypeOK
  <1>1. ASSUME Without({"orphan"})', NEW q \in Procs, Archiver(q)', job'[q].op = "hook"
        PROVE  alive'
    <2>1. pc'[q] # "idle"
      BY <1>1 DEF Archiver, Working
    <2>2. CASE Hook(q) \/ EndHook(q)
      BY <1>0, <2>2, HookBegins, EndHookBegins
    <2>3. CASE Archiver(q) /\ job[q].op = "hook"
      <3>1. alive
        BY <1>1, <2>3, WithoutStays DEF Together
      <3>2. ~Exits
        <4>. SUFFICES ASSUME Exits PROVE FALSE
          OBVIOUS
        <4>1. "orphan" \notin disturbed'
          BY <1>1 DEF Without
        <4>2. Left(Hooks) /\ q \in Hooks
          BY <2>3, <4>1, ExitsLeave DEF Hooks, Archiver, Working
        <4>. QED
          BY <2>1, <4>2 DEF Left
      <3>. QED
        BY <1>0, <3>1, <3>2, RunChanges
    <2>4. CASE Stays(q)
      BY <1>1, <2>1, <2>3, <2>4 DEF Stays, Archiver, Working
    <2>5. CASE Goes(q)
      BY <1>1, <2>3, <2>5, GoesWent DEF Went, Archiver, Working
    <2>6. CASE Starts(q)
      <3>1. ~MarkExited(q)
        BY <1>1, ExitBegins DEF Begun, Mirror
      <3>2. ~Stop(q)
        BY <1>1, StopBegins DEF Begun, Mirror
      <3>3. ~Respawn(q)
        BY <1>1, RespawnBegins DEF Begun, Mirror, Backward
      <3>. QED
        BY <2>2, <2>6, <3>1, <3>2, <3>3 DEF Starts
    <2>. QED
      BY <2>1, <2>4, <2>5, <2>6, Fate
  <1>2. ASSUME Without({"close"})', alive' PROVE session'
    <2>1. (alive => session) /\ "close" \notin disturbed'
      BY <1>2, WithoutStays DEF Together, Without
    <2>. QED
      BY <1>0, <1>2, <2>1, RunChanges
  <1>. QED
    BY <1>1, <1>2 DEF Together

----------------------------------------------------------------------------
(* Prefixes *)

LEMMA PrefixByElement ==
  ASSUME NEW s \in Seq(Lines), NEW t \in Seq(Lines)
  PROVE  IsPrefix(s, t) <=> Len(s) <= Len(t) /\ \A i \in 1 .. Len(s) : s[i] = t[i]
  <1>1. ASSUME Len(s) <= Len(t), \A i \in 1 .. Len(s) : s[i] = t[i]
        PROVE  SubSeq(s, 1, Len(s)) = SubSeq(t, 1, Len(s))
    BY <1>1
  <1>2. ASSUME Len(s) <= Len(t), SubSeq(s, 1, Len(s)) = SubSeq(t, 1, Len(s)), NEW i \in 1 .. Len(s)
        PROVE  s[i] = t[i]
    <2>1. SubSeq(s, 1, Len(s))[i] = s[i] /\ SubSeq(t, 1, Len(s))[i] = t[i]
      BY <1>2
    <2>. QED
      BY <1>2, <2>1
  <1>. QED
    BY <1>1, <1>2 DEF IsPrefix

LEMMA PrefixSelf == ASSUME NEW s \in Seq(Lines) PROVE IsPrefix(s, s)
  BY PrefixByElement

LEMMA PrefixLonger ==
  ASSUME NEW s \in Seq(Lines), NEW t \in Seq(Lines), NEW x \in Lines, IsPrefix(s, t)
  PROVE  IsPrefix(s, Append(t, x))
  <1>1. Append(t, x) \in Seq(Lines)
    OBVIOUS
  <1>2. Len(s) <= Len(t) /\ \A i \in 1 .. Len(s) : s[i] = t[i]
    BY PrefixByElement
  <1>3. Len(s) <= Len(Append(t, x)) /\ \A i \in 1 .. Len(s) : s[i] = Append(t, x)[i]
    BY <1>2
  <1>. QED
    BY <1>1, <1>3, PrefixByElement

LEMMA PrefixNext ==
  ASSUME NEW s \in Seq(Lines), NEW t \in Seq(Lines), IsPrefix(s, t), Len(s) < Len(t)
  PROVE  IsPrefix(Append(s, t[Len(s) + 1]), t)
  <1>1. PICK x \in Lines : x = t[Len(s) + 1]
    OBVIOUS
  <1>2. Append(s, x) \in Seq(Lines)
    OBVIOUS
  <1>3. Len(s) <= Len(t) /\ \A i \in 1 .. Len(s) : s[i] = t[i]
    BY PrefixByElement
  <1>4. Len(Append(s, x)) <= Len(t) /\ \A i \in 1 .. Len(Append(s, x)) : Append(s, x)[i] = t[i]
    BY <1>1, <1>3
  <1>. QED
    BY <1>1, <1>2, <1>4, PrefixByElement

LEMMA PrefixMatches ==
  ASSUME NEW s \in Seq(Lines), NEW t \in Seq(Lines), IsPrefix(s, t)
  PROVE  PrefixByWindow(s, t) /\ (Len(s) = Len(t) \/ Len(s) < Len(t))
  <1>1. Len(s) <= Len(t) /\ \A i \in 1 .. Len(s) : s[i] = t[i]
    BY PrefixByElement
  <1>. QED
    BY <1>1 DEF PrefixByWindow

----------------------------------------------------------------------------
(* While lines are only added *)

(* A step of a hook or a stop, of an exit or a restore, as one sees it     *)
(* from the process.                                                       *)
LEMMA JobBefore ==
  ASSUME TypeOK, Directed, Sources, [Next]_vars, NEW q \in Procs, pc'[q] # "idle",
         pc'[q] \notin {"tryLock", "leaving", "launch"}, ~Respawn(q)
  PROVE  /\ Working(q) /\ job'[q].op = job[q].op /\ job'[q].conv = job[q].conv
         /\ job[q].conv \in Convs
         /\ Stays(q) \/ Goes(q)
  <1>1. ~Starts(q)
    BY HookBegins, EndHookBegins, ExitBegins, StopBegins DEF Starts, Begun
  <1>2. CASE Stays(q)
    BY <1>2, Fields DEF Stays, Working
  <1>3. CASE Goes(q)
    BY <1>3, GoesWent, Fields DEF Went
  <1>. QED
    BY <1>1, <1>2, <1>3, Fate

LEMMA FirstCopyStep ==
  ASSUME TypeOK, Directed, Held, Sources, FirstCopy, CopyIsPrefix, [Next]_vars
  PROVE  FirstCopy'
  <1>. SUFFICES ASSUME Without({"rewrite"})', NEW q \in Procs, Archiver(q)',
                       ~job'[q].final, pc'[q] \in {"read", "persist"}
                PROVE  file'.copy[job'[q].conv] = None
    BY DEF FirstCopy
  <1>1. Without({"rewrite"})
    BY WithoutStays
  <1>2. ~Respawn(q)
    BY RespawnBegins DEF Begun, Mirror, Backward, Archiver
  <1>0. /\ Archiver(q) /\ job'[q].conv = job[q].conv /\ job[q].conv \in Convs
        /\ Stays(q) \/ Goes(q)
    BY <1>2, JobBefore DEF Archiver
  <1>3. /\ Archiver(q) /\ ~job[q].final /\ job'[q].conv = job[q].conv /\ job[q].conv \in Convs
        /\ Stays(q) \/ Goes(q)
    BY <1>0, GoesWent DEF Stays, Went
  <1>4. CASE Stays(q)
    <2>1. pc[q] \in {"read", "persist"} /\ Copying(q)
      BY <1>3, <1>4 DEF Stays, Copying
    <2>2. file.copy[job[q].conv] = None
      BY <1>1, <1>3, <2>1 DEF FirstCopy
    <2>. QED
      BY <1>3, <1>4, <2>1, <2>2, CopyKept
  <1>5. CASE Goes(q)
    <2>1. CASE ReadWhole(q)
      <3>1. pc[q] = "read" /\ UNCHANGED file
        BY <2>1 DEF ReadWhole, fileVars
      <3>. QED
        BY <1>1, <1>3, <3>1 DEF FirstCopy
    <2>2. CASE Compare(q) /\ pc'[q] = "read"
      <3>1. /\ Source(q) = file.live[job[q].conv] /\ Target(q) = file.copy[job[q].conv]
            /\ ~job[q].final
        BY <1>3 DEF Directed, Source, Target
      <3>2. UNCHANGED file /\ Source(q) # None /\ pc[q] = "compare"
        BY <2>2 DEF Compare, fileVars
      <3>3. CASE Target(q) # None
        <4>1. Working(q)
          BY <1>3 DEF Archiver
        <4>2. PICK s \in Seq(Lines) : s = Target(q)
          BY <4>1, <3>3, SourceTypes
        <4>3. PICK t \in Seq(Lines) : t = Source(q)
          BY <4>1, <3>2, SourceTypes
        <4>4. IsPrefix(s, t)
          BY <1>1, <1>3, <3>1, <3>2, <3>3, <4>2, <4>3 DEF CopyIsPrefix
        <4>5. PrefixByWindow(s, t) /\ (Len(s) = Len(t) \/ Len(s) < Len(t))
          BY <4>4, PrefixMatches
        <4>6. UpToDate(q) \/ AppendsTail(q)
          BY <3>1, <4>2, <4>3, <4>5 DEF UpToDate, AppendsTail
        <4>. QED
          BY <1>5, <2>2, <3>2, <3>3, <4>6, GoesTurns DEF Turn
      <3>. QED
        BY <1>3, <3>1, <3>2, <3>3
    <2>. QED
      BY <1>5, <2>1, <2>2, GoesTurns DEF Turn
  <1>. QED
    BY <1>3, <1>4, <1>5

LEMMA LinesOf ==
  ASSUME TypeOK, NEW c \in Convs
  PROVE  /\ file.live[c] # None => file.live[c] \in Seq(Lines)
         /\ file.copy[c] # None => file.copy[c] \in Seq(Lines)
  BY DEF TypeOK, File, Places

(* What a program that lives writes comes after what has been archived.    *)
LEMMA WritesAfter ==
  ASSUME TypeOK, CleanedUp, WritesLine, NEW c \in Convs, Seen(c),
         NEW l \in Lines, file'.live[c] = Append(Lived(c), l),
         NEW s \in Seq(Lines), file.live[c] # None => IsPrefix(s, file.live[c])
  PROVE  IsPrefix(s, file'.live[c])
  <1>1. file.live[c] # None
    BY AliveHasAll DEF WritesLine, Missing
  <1>2. PICK t \in Seq(Lines) : t = file.live[c]
    BY <1>1, LinesOf
  <1>. QED
    BY <1>1, <1>2, PrefixLonger DEF Lived

LEMMA ReadAheadStep ==
  ASSUME TypeOK, Directed, Held, Sources, CleanedUp, ReadAhead, [Next]_vars
  PROVE  ReadAhead'
  <1>. SUFFICES ASSUME Without({"rewrite"})', NEW q \in Procs, Archiver(q)', pc'[q] = "persist",
                       file'.live[job'[q].conv] # None
                PROVE  IsPrefix(job'[q].bytes, file'.live[job'[q].conv])
    BY DEF ReadAhead
  <1>1. Without({"rewrite"}) /\ "rewrite" \notin disturbed'
    BY WithoutStays DEF Without
  <1>2. ~Respawn(q)
    BY RespawnBegins DEF Begun, Mirror, Backward
  <1>3. /\ Archiver(q) /\ job'[q].conv = job[q].conv /\ job[q].conv \in Convs
        /\ Stays(q) \/ Goes(q)
    BY <1>2, JobBefore DEF Archiver
  <1>4. CASE Stays(q)
    <2>1. PICK c \in Convs : c = job[q].conv /\ c = job'[q].conv
      BY <1>3
    <2>2. PICK s \in Seq(Lines) : s = job[q].bytes /\ s = job'[q].bytes
      BY <1>3, <1>4, Fields DEF Stays, Archiver
    <2>3. pc[q] = "persist" /\ Seen(c)
      BY <1>4, <2>1 DEF Stays, Seen
    <2>4. file.live[c] # None => IsPrefix(s, file.live[c])
      BY <1>1, <1>3, <2>1, <2>2, <2>3 DEF ReadAhead
    <2>5. CASE file'.live[c] = file.live[c]
      BY <2>1, <2>2, <2>4, <2>5
    <2>6. CASE WritesLine /\ \E l \in Lines : file'.live[c] = Append(Lived(c), l)
      BY <2>1, <2>2, <2>3, <2>4, <2>6, WritesAfter
    <2>7. ASSUME NEW p \in Procs, Restorer(p), job[p].conv = c, pc[p] = "persist" PROVE FALSE
      <3>1. file.live[c] # None
        BY <1>3, <2>1, <2>3 DEF Sources
      <3>. QED
        BY <2>7, <3>1 DEF Sources
    <2>. QED
      BY <1>1, <2>1, <2>5, <2>6, <2>7, LiveChanges
  <1>5. CASE Goes(q)
    <2>1. ReadWhole(q) /\ job'[q].bytes = Source(q)
      BY <1>5, GoesTurns DEF Turn
    <2>2. Source(q) = file.live[job[q].conv] /\ UNCHANGED file
      BY <1>3, <2>1 DEF Directed, Source, ReadWhole, fileVars
    <2>3. PICK s \in Seq(Lines) : s = Source(q)
      BY <1>3, <2>2, LinesOf
    <2>. QED
      BY <1>3, <2>1, <2>2, <2>3, PrefixSelf
  <1>. QED
    BY <1>3, <1>4, <1>5

LEMMA ReadBackStep ==
  ASSUME TypeOK, Directed, Sources, ReadBack, [Next]_vars
  PROVE  ReadBack'
  <1>. SUFFICES ASSUME NEW q \in Procs, Restorer(q)', pc'[q] = "persist"
                PROVE  job'[q].bytes = file'.copy[job'[q].conv]
    BY DEF ReadBack
  <1>2. ~Respawn(q)
    BY RespawnBegins DEF Begun
  <1>3. /\ Restorer(q) /\ job'[q].conv = job[q].conv /\ job[q].conv \in Convs
        /\ Stays(q) \/ Goes(q)
    BY <1>2, JobBefore DEF Restorer
  <1>4. CASE Stays(q)
    <2>1. pc[q] = "persist" /\ job'[q].bytes = job[q].bytes
      BY <1>4 DEF Stays
    <2>2. PICK c \in Convs : c = job[q].conv
      BY <1>3
    <2>3. job[q].bytes = file.copy[c] /\ file.live[c] = None /\ file.copy[c] # None
      BY <1>3, <2>1, <2>2 DEF ReadBack, Sources
    <2>5. file'.copy[c] = file.copy[c]
      <3>. SUFFICES ASSUME file'.copy[c] # file.copy[c] PROVE FALSE
        OBVIOUS
      <3>1. \E p \in Procs : Archiver(p) /\ job[p].conv = c /\ pc[p] \in {"append", "persist"}
        BY CopyChanges
      <3>. QED
        BY <2>3, <3>1 DEF Sources
    <2>. QED
      BY <1>3, <2>1, <2>2, <2>3, <2>5
  <1>5. CASE Goes(q)
    <2>1. ReadWhole(q) /\ job'[q].bytes = Source(q)
      BY <1>5, GoesTurns DEF Turn
    <2>. QED
      BY <1>3, <2>1 DEF Directed, Source, ReadWhole, fileVars
  <1>. QED
    BY <1>3, <1>4, <1>5

LEMMA PrefixStep ==
  ASSUME TypeOK, Directed, Sources, CleanedUp, ReadAhead, ReadBack, CopyIsPrefix, [Next]_vars
  PROVE  CopyIsPrefix'
  <1>. SUFFICES ASSUME Without({"rewrite"})', NEW c \in Convs,
                       file'.live[c] # None, file'.copy[c] # None
                PROVE  IsPrefix(file'.copy[c], file'.live[c])
    BY DEF CopyIsPrefix
  <1>1. Without({"rewrite"}) /\ "rewrite" \notin disturbed'
    BY WithoutStays DEF Without
  <1>2. CASE file'.copy[c] # file.copy[c]
    <2>1. file'.live[c] = file.live[c]
      BY <1>2, CopyChanges
    <2>2. PICK p \in Procs :
            /\ Archiver(p) /\ job[p].conv = c
            /\ \/ /\ AppendLine(p) /\ pc[p] = "append" /\ file.copy[c] # None
                  /\ file'.copy[c] = Append(file.copy[c], file.live[c][job[p].offset + 1])
               \/ pc[p] = "persist" /\ file'.copy[c] = job[p].bytes
      BY <1>2, CopyChanges
    <2>3. CASE AppendLine(p) /\ pc[p] = "append" /\ file.copy[c] # None
               /\ file'.copy[c] = Append(file.copy[c], file.live[c][job[p].offset + 1])
      <3>1. /\ job[p].offset = Len(file.copy[c]) /\ Source(p) = file.live[c]
            /\ job[p].offset < Len(Source(p))
        BY <2>2, <2>3 DEF Sources, Directed, Source, AppendLine
      <3>2. PICK s \in Seq(Lines) : s = file.copy[c]
        BY <2>3, LinesOf
      <3>3. PICK t \in Seq(Lines) : t = file.live[c]
        BY <2>1, LinesOf
      <3>4. IsPrefix(s, t)
        BY <1>1, <2>1, <2>3, <3>2, <3>3 DEF CopyIsPrefix
      <3>. QED
        BY <2>1, <2>3, <3>1, <3>2, <3>3, <3>4, PrefixNext
    <2>4. CASE pc[p] = "persist" /\ file'.copy[c] = job[p].bytes
      BY <1>1, <2>1, <2>2, <2>4 DEF ReadAhead
    <2>. QED
      BY <2>2, <2>3, <2>4
  <1>3. CASE file'.copy[c] = file.copy[c] /\ file'.live[c] = file.live[c]
    BY <1>1, <1>3 DEF CopyIsPrefix
  <1>4. CASE file'.copy[c] = file.copy[c] /\ file'.live[c] # file.live[c]
    <2>1. PICK s \in Seq(Lines) : s = file.copy[c] /\ s = file'.copy[c]
      BY <1>4, LinesOf
    <2>2. Seen(c)
      BY <1>4 DEF Seen
    <2>3. file.live[c] # None => IsPrefix(s, file.live[c])
      BY <1>1, <1>4, <2>1 DEF CopyIsPrefix
    <2>4. CASE WritesLine /\ \E l \in Lines : file'.live[c] = Append(Lived(c), l)
      BY <2>1, <2>2, <2>3, <2>4, WritesAfter
    <2>5. CASE \E p \in Procs : /\ Restorer(p) /\ job[p].conv = c /\ pc[p] = "persist"
                                /\ file'.live[c] = job[p].bytes
      <3>1. file'.live[c] = s
        BY <1>1, <2>1, <2>5, <1>4 DEF ReadBack
      <3>. QED
        BY <2>1, <3>1, PrefixSelf
    <2>. QED
      BY <1>1, <1>4, <2>4, <2>5, LiveChanges
  <1>. QED
    BY <1>2, <1>3, <1>4

----------------------------------------------------------------------------
(* The archive that ends a run *)

(* Nothing failed, and session, hooks and program end together.            *)
LEMMA UndisturbedStays ==
  ASSUME TypeOK, Directed, Sources, [Next]_vars, Undisturbed'
  PROVE  /\ Undisturbed /\ Without({"orphan"}) /\ Without({"close"})
         /\ "fault" \notin disturbed' /\ "close" \notin disturbed' /\ "orphan" \notin disturbed'
  BY WithoutStays DEF Undisturbed, Without

(* A run that is stopped stays so until its program is gone.               *)
LEMMA StopWaits ==
  ASSUME TypeOK, Directed, Held, OfOver, Sources, Together, Stopping, [Next]_vars, Undisturbed',
         ended', alive', endHook' = "none"
  PROVE  \E p \in Procs : pc'[p] = "leaving"
  <1>0. alive \in BOOLEAN /\ ended \in BOOLEAN /\ session \in BOOLEAN
    BY DEF TypeOK
  <1>1. /\ Undisturbed /\ "fault" \notin disturbed' /\ (alive => session)
    BY UndisturbedStays DEF Together
  <1>2. ASSUME NEW p \in Procs, Stop(p) PROVE pc'[p] = "leaving"
    BY <1>2, StopBegins DEF Begun
  <1>3. ASSUME NEW p \in Procs, MarkExited(p) PROVE FALSE
    BY <1>0, <1>1, <1>3, ExitBegins
  <1>4. CASE ended /\ alive
    <2>0. endHook = "none"
      BY <1>1, <1>4, LaunchAlone, EndHookChanges
    <2>1. PICK p \in Procs : pc[p] = "leaving"
      BY <1>1, <1>4, <2>0 DEF Stopping
    <2>2. CASE Exits
      BY <1>4, <2>2, ExitsLeave
    <2>3. CASE Around
      BY <2>1, <2>3 DEF Around, WritesLine, RewritesLine, WritesSidecar, OpensConversation,
         SessionEnds, SessionClosed, CleansUp, vars
    <2>4. ASSUME NEW q \in Procs, Starts(q) PROVE pc'[p] = "leaving"
      <3>1. \E j, to : Begun(q, j, to)
        BY <2>4, HookBegins, EndHookBegins, ExitBegins, StopBegins, RespawnBegins DEF Starts
      <3>. QED
        BY <2>1, <3>1 DEF Begun
    <2>5. ASSUME NEW q \in Procs, Goes(q) PROVE pc'[p] = "leaving"
      <3>1. Went(q, pc'[q])
        BY <2>5, GoesWent
      <3>2. q # p
        BY <1>4, <2>1, <2>5, GoesTurns DEF Turn, StopArchives
      <3>. QED
        BY <2>1, <3>1, <3>2 DEF Went
    <2>6. ASSUME NEW q \in Procs, Ends(q) PROVE pc'[p] = "leaving"
      <3>1. Left({q}) /\ ~Breaks(q)
        BY <1>1, <2>6, EndsLeave DEF Breaks, Disturb
      <3>2. q # p
        BY <2>1, <2>6, <3>1 DEF Ends, ArchiveSkipped, NoTranscript, ArchiveDone, Launch,
           LaunchFindsNothing
      <3>. QED
        BY <2>1, <3>1, <3>2 DEF Left
    <2>. QED
      BY <2>1, <2>2, <2>3, <2>4, <2>5, <2>6, NextKinds
  <1>5. CASE ~ended
    <2>0. \A p \in Procs : ~EndHook(p)
      BY EndHookBegins
    <2>1. \E p \in Procs : MarkExited(p) \/ Stop(p)
      BY <1>0, <1>5, <2>0, RunChanges
    <2>. QED
      BY <1>2, <1>3, <2>1
  <1>6. CASE ~alive
    <2>1. \E p \in Procs : Launch(p) /\ ~ended'
      BY <1>0, <1>6, RunChanges
    <2>. QED
      BY <2>1
  <1>. QED
    BY <1>0, <1>4, <1>5, <1>6

(* The archive of an exit or a stop runs when the program is gone.         *)
LEMMA FinalAfter ==
  ASSUME TypeOK, Directed, Held, OfOver, Sources, Together, Stopping, [Next]_vars, Undisturbed',
         NEW q \in Procs, Final(q)', pc'[q] # "leaving"
  PROVE  ~alive'
  <1>0. alive \in BOOLEAN /\ session \in BOOLEAN
    BY DEF TypeOK
  <1>1. Undisturbed /\ (alive => session)
    BY UndisturbedStays DEF Together
  <1>2. CASE MarkExited(q)
    BY <1>0, <1>1, <1>2, ExitBegins
  <1>3. ~Stop(q)
    BY StopBegins DEF Begun
  <1>4. CASE Final(q) /\ (Stays(q) \/ Goes(q))
    <2>1. ~alive
      <3>1. CASE pc[q] # "leaving"
        BY <1>1, <1>4, <3>1 DEF Stopping
      <3>2. CASE pc[q] = "leaving"
        <4>1. Goes(q)
          BY <1>4, <3>2 DEF Stays
        <4>. QED
          BY <3>2, <4>1, GoesTurns DEF Turn, StopArchives
      <3>. QED
        BY <3>1, <3>2
    <2>2. \A p \in Procs : ~(Ends(p) /\ Launch(p))
      <3>. SUFFICES ASSUME NEW p \in Procs, Launch(p) PROVE FALSE
        OBVIOUS
      <3>1. Restorer(p)
        BY DEF Launch, Directed, Restorer, Archiver, Archiving, Working
      <3>. QED
        BY <1>4, <3>1, RestorerAlone
    <2>. QED
      BY <1>0, <2>1, <2>2, RunChanges
  <1>. QED
    BY <1>2, <1>3, <1>4, OverBegins

(* Who is at work on a run that is over: its last archive, or a restore.   *)
LEMMA WorkOnOver ==
  ASSUME TypeOK, Together, Without({"orphan"}), ~alive, NEW p \in Procs, Working(p)
  PROVE  Final(p) \/ Restorer(p)
  BY DEF Together, Final, Restorer, Archiver

(* The last archive is not left to another, ...                            *)
LEMMA FinalNotSkipped ==
  ASSUME TypeOK, Directed, Held, OfOver, OneFinal, Together, Stopping, Undisturbed,
         Without({"orphan"}), NEW p \in Procs, Final(p)
  PROVE  ~ArchiveSkipped(p)
  <1>. SUFFICES ASSUME ArchiveSkipped(p) PROVE FALSE
    OBVIOUS
  <1>1. pc[p] = "tryLock" /\ archiveLock # None
    BY DEF ArchiveSkipped
  <1>2. PICK r \in Procs : archiveLock = r
    BY <1>1 DEF TypeOK
  <1>3. Copying(r)
    BY <1>2 DEF Held
  <1>4. ~alive
    BY <1>1 DEF Stopping
  <1>5. Final(r)
    BY <1>3, <1>4 DEF Together, Final, Archiver, Copying
  <1>. QED
    BY <1>1, <1>3, <1>5 DEF OneFinal, Copying

(* ... and when it is done, the copy is the transcript.                    *)
LEMMA FinalDone ==
  ASSUME TypeOK, Directed, Held, OfOver, OneFinal, Together, Stopping, LastArchive, Undisturbed,
         Without({"orphan"}), NEW p \in Procs, Final(p), Ends(p), ~Breaks(p)
  PROVE  FinalArchive'
  <1>1. UNCHANGED <<file, sidecar, recorded>> /\ recorded \in Convs
    BY EndsLeave DEF TypeOK
  <1>2. job[p].conv = recorded /\ job[p].from = "live" /\ job[p].to = "copy"
        /\ pc[p] \in Archiving \cup {"leaving"}
    BY DEF OfOver, Directed, Final
  <1>3. CASE NoTranscript(p)
    <2>1. file.live[recorded] = None
      BY <1>2, <1>3 DEF NoTranscript, Source
    <2>. QED
      BY <1>1, <2>1 DEF FinalArchive
  <1>4. CASE ArchiveDone(p)
    <2>1. pc[p] = "sidecars" /\ ~SidecarMissing(p)
      BY <1>4 DEF ArchiveDone
    <2>2. file.live[recorded] # None => file.copy[recorded] = file.live[recorded]
      BY <2>1 DEF LastArchive, IsLast, Directed, Final
    <2>3. sidecar.live[recorded] # "none" => sidecar.copy[recorded] # "none"
      BY <1>2, <2>1 DEF SidecarMissing
    <2>. QED
      BY <1>1, <2>2, <2>3 DEF FinalArchive
  <1>. QED
    BY <1>2, <1>3, <1>4, FinalNotSkipped DEF Ends, Launch, LaunchFindsNothing, Archiving

LEMMA OverIsArchived ==
  ASSUME TypeOK, Directed, Held, OfOver, EndedBy, OneFinal, Sources, Together, Stopping,
         LastArchive, EndArchived, [Next]_vars, Undisturbed', ended', ~alive', endHook' # "early"
  PROVE  FinalArchive' \/ \E p \in Procs : Final(p)'
  <1>0. alive \in BOOLEAN /\ ended \in BOOLEAN
    BY DEF TypeOK
  <1>1. Undisturbed /\ Without({"orphan"}) /\ "orphan" \notin disturbed' /\ "fault" \notin disturbed'
    BY UndisturbedStays
  <1>2. CASE Exits
    <2>1. Left(Hooks) /\ ended /\ alive
      BY <1>0, <1>1, <1>2, ExitsLeave
    <2>5. CASE endHook # "none"
      <3>1. endHook = "last" /\ ~\E p \in Hooks : job[p].final
        BY <1>1, <1>2, <2>1, <2>5 DEF Exits, ProgramExits, StopKills, ProgramDies, WentOn, Disturb,
           TypeOK
      <3>2. Exact
        BY <1>1, <2>1, <3>1 DEF EndArchived, Ending, Archiver, Working, Hooks
      <3>3. UNCHANGED <<file, sidecar, recorded>>
        BY <1>2, ExitsLeave
      <3>. QED
        BY <3>2, <3>3 DEF Exact, FinalArchive
    <2>. SUFFICES ASSUME endHook = "none" PROVE FinalArchive' \/ \E p \in Procs : Final(p)'
      BY <2>5
    <2>2. PICK p \in Procs : pc[p] = "leaving"
      BY <1>1, <2>1 DEF Stopping
    <2>3. Archiver(p) /\ job[p].op = "stop"
      BY <2>2 DEF Directed, Archiver, Restorer, Restoring, Working
    <2>4. pc'[p] = pc[p] /\ job'[p] = job[p]
      BY <2>1, <2>3 DEF Left, Hooks
    <2>. QED
      BY <2>3, <2>4 DEF Final, Archiver, Working
  <1>3. ASSUME NEW p \in Procs, Starts(p) PROVE FinalArchive' \/ Final(p)'
    <2>1. pc'[p] # "idle"
      BY <1>3, HookBegins, EndHookBegins, ExitBegins, StopBegins, RespawnBegins DEF Starts, Begun
    <2>. QED
      BY <2>1 DEF FinalArchive, Over
  <1>4. ASSUME NEW p \in Procs, Goes(p) PROVE FinalArchive'
    BY <1>4, GoesWent DEF Went, FinalArchive, Over
  <1>5. ASSUME NEW p \in Procs, Ends(p) PROVE FinalArchive'
    <2>1. ~Launch(p) /\ ~Breaks(p)
      BY <1>1, <1>0 DEF Launch, Breaks, Disturb
    <2>2. ~alive
      <3>1. UNCHANGED alive
        BY <1>5, <2>1 DEF Ends, ArchiveSkipped, NoTranscript, ArchiveDone, LaunchFindsNothing,
           Finish, programVars
      <3>. QED
        BY <1>0, <3>1
    <2>3. Working(p)
      BY <1>5 DEF Ends, ArchiveSkipped, NoTranscript, ArchiveDone, Launch, LaunchFindsNothing,
         Breaks, Working
    <2>4. CASE Final(p)
      BY <1>1, <1>5, <2>1, <2>4, FinalDone
    <2>5. CASE Restorer(p)
      <3>1. pc[p] \in Restoring /\ job[p].op = "respawn"
        BY <2>5 DEF Directed, Restorer
      <3>2. LaunchFindsNothing(p)
        BY <1>5, <2>1, <3>1 DEF Ends, ArchiveSkipped, NoTranscript, ArchiveDone, Restoring
      <3>3. UNCHANGED <<file, recorded>>
        BY <1>5, EndsLeave
      <3>. QED
        BY <3>2, <3>3 DEF LaunchFindsNothing, FinalArchive
    <2>. QED
      BY <1>1, <2>2, <2>3, <2>4, <2>5, WorkOnOver
  <1>6. CASE Around
    <2>1. CASE CleansUp
      <3>1. file'.live[recorded'] = None
        BY <2>1 DEF CleansUp, TypeOK, Places, agentVars
      <3>. QED
        BY <3>1 DEF FinalArchive
    <2>2. CASE SessionEnds \/ UNCHANGED vars
      <3>1. UNCHANGED <<file, sidecar, recorded, ended, endHook, alive, pc, job>>
        BY <2>2 DEF SessionEnds, vars, fileVars, agentVars
      <3>2. FinalArchive \/ \E p \in Procs : Final(p)
        BY <1>0, <1>1, <3>1 DEF Stopping
      <3>3. CASE FinalArchive
        BY <3>1, <3>3 DEF FinalArchive, Over
      <3>4. CASE \E p \in Procs : Final(p)
        BY <3>1, <3>4 DEF Final, Archiver, Working
      <3>. QED
        BY <3>2, <3>3, <3>4
    <2>3. CASE WritesLine \/ RewritesLine \/ WritesSidecar \/ OpensConversation \/ SessionClosed
      <3>1. alive /\ UNCHANGED alive
        BY <2>3 DEF WritesLine, RewritesLine, WritesSidecar, OpensConversation, SessionClosed,
           programVars
      <3>. QED
        BY <1>0, <3>1
    <2>. QED
      BY <1>6, <2>1, <2>2, <2>3 DEF Around
  <1>. QED
    BY <1>2, <1>3, <1>4, <1>5, <1>6, NextKinds

LEMMA StoppingStep ==
  ASSUME TypeOK, Directed, Held, OfOver, EndedBy, OneFinal, Sources, Together, Stopping,
         LastArchive, EndArchived, [Next]_vars
  PROVE  Stopping'
  <1>1. ASSUME Undisturbed', ended', alive', endHook' = "none" PROVE \E p \in Procs : pc'[p] = "leaving"
    BY <1>1, StopWaits
  <1>2. ASSUME Undisturbed', NEW q \in Procs, Final(q)', pc'[q] # "leaving" PROVE ~alive'
    BY <1>2, FinalAfter
  <1>3. ASSUME Undisturbed', ended', ~alive', endHook' # "early"
        PROVE  FinalArchive' \/ \E p \in Procs : Final(p)'
    BY <1>3, OverIsArchived
  <1>. QED
    BY <1>1, <1>2, <1>3 DEF Stopping

LEMMA LastArchiveStep ==
  ASSUME TypeOK, Directed, Held, OfOver, EndedBy, OneFinal, Sources, Together, Stopping,
         LastArchive, [Next]_vars
  PROVE  LastArchive'
  <1>. SUFFICES ASSUME Undisturbed', NEW q \in Procs, IsLast(q)', file'.live[recorded'] # None,
                       pc'[q] \in {"persist", "sidecars", "copying"}
                PROVE  /\ pc'[q] = "persist" => job'[q].bytes = file'.live[recorded']
                       /\ pc'[q] \in {"sidecars", "copying"} =>
                            file'.copy[recorded'] = file'.live[recorded']
    BY DEF LastArchive
  <1>1. /\ Undisturbed /\ Without({"orphan"}) /\ Without({"close"})
        /\ recorded \in Convs /\ pc'[q] # "idle"
    BY UndisturbedStays DEF TypeOK, IsLast, Archiver, Working
  <1>6. /\ Archiver(q) /\ job'[q].conv = job[q].conv /\ job'[q].op = job[q].op
        /\ Stays(q) \/ Goes(q)
    <2>1. ~Respawn(q)
      BY RespawnBegins DEF Begun, Mirror, Backward, IsLast, Archiver
    <2>. QED
      BY <1>1, <2>1, JobBefore DEF IsLast, Archiver
  <1>7. job[q].final
    BY <1>6, GoesWent DEF Stays, Went, IsLast
  <1>2. IsLast(q) /\ job'[q].conv = job[q].conv /\ (Stays(q) \/ Goes(q))
    <2>1. CASE Ending(q)
      <3>1. endHook' = "last" /\ ended
        BY <1>1, <1>6, <2>1 DEF IsLast, Ending, EndedBy
      <3>2. endHook = "last"
        BY <3>1, EndHookChanges
      <3>. QED
        BY <1>6, <1>7, <3>2 DEF IsLast
    <2>. QED
      BY <1>6, <1>7, <2>1 DEF IsLast, Ending
  <1>8. Final(q) \/ (Ending(q) /\ alive)
    <2>1. Archiver(q) /\ job[q].op = "hook" => alive
      BY <1>1 DEF Together
    <2>. QED
      BY Zenon, <1>6, <1>7, <2>1 DEF Final, Ending
  <1>3. job[q].conv = recorded /\ recorded' = recorded
    <2>1. CASE Final(q)
      <3>1. Final(q)'
        BY <1>6, <2>1 DEF Final, IsLast, Archiver
      <3>. QED
        BY <1>2, <2>1, <3>1, OfOverStep DEF OfOver
    <2>2. CASE Ending(q)
      <3>1. Ending(q)'
        BY <1>6, <2>2 DEF Ending, IsLast, Archiver
      <3>. QED
        BY <1>1, <1>2, <2>2, <3>1, EndedByStep DEF EndedBy
    <2>. QED
      BY <1>8, <2>1, <2>2
  <1>4. CASE Stays(q)
    <2>1. pc[q] = pc'[q] /\ job[q].bytes = job'[q].bytes
      BY <1>4 DEF Stays
    <2>2. Copying(q)
      BY <1>6, <2>1 DEF Copying
    <2>3. file'.copy[recorded] = file.copy[recorded]
      BY <1>1, <1>4, <2>2, CopyKept
    <2>4. file'.live[recorded] = file.live[recorded]
      <3>. SUFFICES ASSUME file'.live[recorded] # file.live[recorded] PROVE FALSE
        OBVIOUS
      <3>1. CASE Final(q)
        <4>1. ~alive
          BY <1>1, <2>1, <3>1 DEF Stopping
        <4>2. \E p \in Procs : Goes(p) /\ Restorer(p)
          BY <1>1, <1>3, <4>1, LiveChanges
        <4>. QED
          BY <1>4, <3>1, <4>2, NotRestored
      <3>2. CASE Ending(q) /\ alive
        <4>1. ~WritesLine /\ ~RewritesLine
          BY <3>2 DEF IsLast, Ending, WritesLine, RewritesLine, WentOn
        <4>2. PICK p \in Procs : Restorer(p)
          BY <1>1, <1>3, <3>2, <4>1, LiveChanges
        <4>. QED
          BY <1>1, <3>2, <4>2 DEF OfOver, Together
      <3>. QED
        BY <1>8, <3>1, <3>2
    <2>. QED
      BY <1>1, <1>2, <1>3, <2>1, <2>3, <2>4 DEF LastArchive
  <1>5. CASE Goes(q)
    <2>1. /\ job[q].from = "live" /\ job[q].to = "copy" /\ job[q].final
      BY <1>6, <1>7 DEF Directed
    <2>2. Source(q) = file.live[recorded] /\ Target(q) = file.copy[recorded] /\ Working(q)
      BY <1>3, <1>6, <2>1 DEF Source, Target, Archiver
    <2>3. CASE Compare(q)
      <3>1. pc[q] = "compare" /\ UNCHANGED file
        BY <2>3 DEF Compare, fileVars
      <3>2. pc'[q] = "sidecars" => UpToDate(q)
        BY <1>5, <3>1, GoesTurns DEF Turn
      <3>3. pc'[q] # "copying" /\ pc'[q] # "persist"
        BY <1>5, <3>1, GoesTurns DEF Turn
      <3>. QED
        BY <1>3, <2>1, <2>2, <3>1, <3>2, <3>3 DEF UpToDate
    <2>4. CASE ReadWhole(q)
      <3>1. pc[q] = "read" /\ UNCHANGED file
        BY <2>4 DEF ReadWhole, fileVars
      <3>2. pc'[q] = "persist" /\ job'[q].bytes = Source(q)
        BY <1>5, <3>1, GoesTurns DEF Turn
      <3>. QED
        BY <1>3, <2>2, <3>1, <3>2
    <2>5. CASE Persist(q)
      <3>1. pc[q] = "persist" /\ PutTarget(q, job[q].bytes)
        BY <2>5 DEF Persist
      <3>2. pc'[q] = "sidecars"
        BY <1>5, <3>1, GoesTurns DEF Turn
      <3>3. file'.live[recorded] = file.live[recorded] /\ file'.copy[recorded] = job[q].bytes
        BY <1>1, <1>3, <2>1, <2>2, <3>1, PutEffect DEF Places
      <3>. QED
        BY <1>1, <1>2, <1>3, <3>1, <3>2, <3>3 DEF LastArchive
    <2>6. CASE StartSidecar(q) \/ CopySidecar(q)
      <3>1. pc[q] \in {"sidecars", "copying"} /\ UNCHANGED file
        BY <2>6 DEF StartSidecar, CopySidecar
      <3>2. pc'[q] # "persist"
        BY <1>5, <3>1, GoesTurns DEF Turn
      <3>. QED
        BY <1>1, <1>2, <1>3, <3>1, <3>2 DEF LastArchive
    <2>7. ~AppendDone(q)
      BY <1>6, <2>1 DEF AppendDone, Directed
    <2>. QED
      BY <1>5, <2>3, <2>4, <2>5, <2>6, <2>7, GoesTurns DEF Turn
  <1>. QED
    BY <1>2, <1>4, <1>5

(* A hook that ended a run has left its archive exact, or it is still at   *)
(* it; whoever of the run archives after it finds nothing to do.           *)
LEMMA EndingDone ==
  ASSUME TypeOK, Directed, Held, OfOver, EndedBy, Sources, LastArchive, Undisturbed,
         [Next]_vars, "fault" \notin disturbed', endHook = "last", endHook' = "last",
         NEW p \in Procs, Ending(p), Ends(p)
  PROVE  /\ Exact
         /\ \A q \in Procs : q # p /\ Archiver(q) /\ job[q].conv = recorded =>
              pc[q] \notin {"read", "persist", "append"}
  <1>1. /\ Archiver(p) /\ job[p].op = "hook" /\ job[p].final /\ job[p].conv = recorded
        /\ job[p].from = "live" /\ job[p].to = "copy"
        /\ pc[p] \in Archiving \cup {"leaving"}
    BY DEF Ending, EndedBy, Directed
  <1>2. ~ArchiveSkipped(p) /\ ~Breaks(p) /\ ~Launch(p) /\ ~LaunchFindsNothing(p)
    BY <1>1 DEF ArchiveSkipped, WentOn, Breaks, Disturb, Launch, LaunchFindsNothing, Archiving
  <1>3. CASE NoTranscript(p)
    <2>1. file.live[recorded] = None
      BY <1>1, <1>3 DEF NoTranscript, Source
    <2>. QED
      BY <2>1 DEF Exact, Sources
  <1>4. CASE ArchiveDone(p)
    <2>1. pc[p] = "sidecars" /\ ~SidecarMissing(p)
      BY <1>4 DEF ArchiveDone
    <2>2. file.live[recorded] # None => file.copy[recorded] = file.live[recorded]
      BY <1>1, <2>1 DEF LastArchive, IsLast
    <2>3. sidecar.live[recorded] # "none" => sidecar.copy[recorded] # "none"
      BY <1>1, <2>1 DEF SidecarMissing
    <2>4. Copying(p)
      BY <1>1, <2>1 DEF Copying
    <2>5. \A q \in Procs : Archiver(q) /\ pc[q] \in {"read", "persist", "append"} => q = p
      BY <2>4, OneCopier DEF Copying
    <2>. QED
      BY <2>2, <2>3, <2>5 DEF Exact
  <1>. QED
    BY <1>2, <1>3, <1>4 DEF Ends

LEMMA NothingToDo ==
  ASSUME TypeOK, Directed, Sources, Sidecars, Exact, NEW p \in Procs, Goes(p), Archiver(p),
         ~Final(p), recorded' = recorded,
         job[p].conv = recorded => pc[p] \notin {"read", "persist", "append"},
         [Next]_vars
  PROVE  Exact' /\ (job'[p].conv = recorded => pc'[p] \notin {"read", "persist", "append"})
  <1>1. /\ job'[p].conv = job[p].conv /\ Working(p)
        /\ job[p].from = "live" /\ job[p].to = "copy" /\ recorded \in Convs /\ job[p].conv \in Convs
    BY GoesWent, Fields DEF Went, Directed, TypeOK, Archiver
  <1>2. file'.live = file.live /\ sidecar'.live = sidecar.live
    <2>1. \A c \in Convs : file'.live[c] = file.live[c] /\ sidecar'.live[c] = sidecar.live[c]
      <3>1. UNCHANGED file \/ \E v : PutTarget(p, v)
        BY DEF Goes, StopArchives, ArchiveLocked, Compare, AppendLine, AppendDone, ReadWhole,
           Persist, StartSidecar, CopySidecar, Restored, fileVars
      <3>2. UNCHANGED sidecar \/ \E v : sidecar' = [sidecar EXCEPT ![job[p].to][job[p].conv] = v]
        BY DEF Goes, StopArchives, ArchiveLocked, Compare, AppendLine, AppendDone, ReadWhole,
           Persist, StartSidecar, CopySidecar, Restored, fileVars
      <3>3. \A c \in Convs : file'.live[c] = file.live[c]
        BY <1>1, <3>1, PutEffect DEF Places
      <3>4. \A c \in Convs : sidecar'.live[c] = sidecar.live[c]
        BY <1>1, <3>2, PutSidecar DEF Places
      <3>. QED
        BY <3>3, <3>4
    <2>2. TypeOK'
      BY TypeStep
    <2>. QED
      BY <2>1, <2>2 DEF TypeOK, Places
  <1>3. CASE job[p].conv # recorded
    <2>1. file'.copy[recorded] = file.copy[recorded]
      <3>1. UNCHANGED file \/ \E v : PutTarget(p, v)
        BY DEF Goes, StopArchives, ArchiveLocked, Compare, AppendLine, AppendDone, ReadWhole,
           Persist, StartSidecar, CopySidecar, Restored, fileVars
      <3>. QED
        BY <1>1, <1>3, <3>1, PutEffect DEF Places
    <2>2. sidecar'.copy[recorded] = sidecar.copy[recorded]
      <3>1. UNCHANGED sidecar \/ \E v : sidecar' = [sidecar EXCEPT ![job[p].to][job[p].conv] = v]
        BY DEF Goes, StopArchives, ArchiveLocked, Compare, AppendLine, AppendDone, ReadWhole,
           Persist, StartSidecar, CopySidecar, Restored, fileVars
      <3>. QED
        BY <1>1, <1>3, <3>1, PutSidecar DEF Places
    <2>. QED
      BY <1>1, <1>2, <1>3, <2>1, <2>2 DEF Exact
  <1>4. CASE job[p].conv = recorded
    <2>1. Source(p) = file.live[recorded] /\ Target(p) = file.copy[recorded]
      BY <1>1, <1>4 DEF Source, Target
    <2>2. pc[p] \notin {"leaving", "read", "persist", "append"}
      BY <1>4 DEF Directed, Final
    <2>3. CASE Compare(p)
      <3>1. Source(p) # None /\ Target(p) = Source(p) /\ UNCHANGED fileVars /\ pc[p] = "compare"
        BY <2>1, <2>3 DEF Compare, Exact
      <3>2. PICK t \in Seq(Lines) : t = Source(p)
        BY <1>1, <3>1, SourceTypes
      <3>3. PrefixByWindow(t, t) /\ ~(Len(t) < Len(t))
        BY <3>2 DEF PrefixByWindow
      <3>4. UpToDate(p) /\ ~AppendsTail(p)
        BY <3>1, <3>2, <3>3 DEF UpToDate, AppendsTail
      <3>5. pc'[p] = "sidecars"
        BY <2>3, <3>1, <3>4, GoesTurns DEF Turn
      <3>. QED
        BY <3>1, <3>5 DEF Exact, fileVars
    <2>4. CASE StartSidecar(p) \/ CopySidecar(p)
      <3>0. /\ StartSidecar(p) => pc[p] = "sidecars" /\ Go(p, "copying")
            /\ CopySidecar(p) => pc[p] = "copying" /\ Go(p, "sidecars")
        BY DEF StartSidecar, CopySidecar
      <3>1. UNCHANGED file /\ pc'[p] \in {"copying", "sidecars"}
        BY <2>4, <3>0 DEF StartSidecar, CopySidecar, Go, TypeOK
      <3>3. "copy" \in Places
        BY DEF Places
      <3>2. sidecar'.copy[recorded] # "none"
        <4>1. StartSidecar(p) => sidecar'.copy[recorded] = "part"
          <5>1. StartSidecar(p) => sidecar' = [sidecar EXCEPT !["copy"][recorded] = "part"]
            BY <1>1, <1>4 DEF StartSidecar
          <5>. QED
            BY <1>1, <3>3, <5>1, PutSidecar
        <4>2. CopySidecar(p) => sidecar'.copy[recorded] = sidecar.live[recorded]
                                /\ sidecar.live[recorded] # "none"
          <5>1. CopySidecar(p) =>
                  sidecar' = [sidecar EXCEPT !["copy"][recorded] = sidecar.live[recorded]]
            BY <1>1, <1>4 DEF CopySidecar
          <5>2. CopySidecar(p) => sidecar.live[recorded] # "none"
            BY <1>1, <1>4, <3>0 DEF Sidecars
          <5>. QED
            BY <1>1, <3>3, <5>1, <5>2, PutSidecar
        <4>. QED
          BY <2>4, <4>1, <4>2
      <3>. QED
        BY <1>2, <3>1, <3>2 DEF Exact
    <2>5. CASE ArchiveLocked(p) \/ Restored(p)
      <3>0. UNCHANGED fileVars /\ (Go(p, "compare") \/ Go(p, "launch"))
        BY <2>5 DEF ArchiveLocked, Restored
      <3>1. UNCHANGED fileVars /\ pc'[p] \in {"compare", "launch"}
        BY <3>0 DEF Go, TypeOK
      <3>. QED
        BY <3>1 DEF Exact, fileVars
    <2>. QED
      BY <2>2, <2>3, <2>4, <2>5, GoesTurns DEF Turn
  <1>. QED
    BY <1>3, <1>4

LEMMA EndArchivedStep ==
  ASSUME TypeOK, Directed, Held, OfOver, EndedBy, Sources, Sidecars, Together, LastArchive,
         EndArchived, [Next]_vars
  PROVE  EndArchived'
  <1>. DEFINE Idle(q) == Archiver(q) /\ job[q].conv = recorded =>
                           pc[q] \notin {"read", "persist", "append"}
  <1>. SUFFICES ASSUME Undisturbed', alive', endHook' = "last", ~\E p \in Procs : Ending(p)'
                PROVE  Exact' /\ \A q \in Procs : Idle(q)'
    BY DEF EndArchived
  <1>1. /\ Undisturbed /\ Without({"orphan"}) /\ Without({"close"}) /\ "fault" \notin disturbed'
        /\ "close" \notin disturbed'
    BY UndisturbedStays
  <1>2. \A p \in Procs : ~EndHook(p) /\ ~Launch(p)
    <2>1. ASSUME NEW p \in Procs, EndHook(p) PROVE Ending(p)'
      <3>1. Begun(p, Mirror("hook", recorded, TRUE), "tryLock")
        BY <2>1, EndHookBegins
      <3>2. pc'[p] = "tryLock" /\ job'[p].op = "hook" /\ job'[p].final = TRUE
        BY <3>1 DEF Begun, Mirror
      <3>. QED
        BY <3>2 DEF Ending, Archiver, Working
    <2>. QED
      BY <2>1 DEF Launch
  <1>3. endHook = "last" /\ ended /\ \A p \in Procs : ~Final(p)
    BY <1>2, EndHookChanges DEF EndedBy
  <1>4. alive /\ session
    <2>1. alive \in BOOLEAN
      BY DEF TypeOK
    <2>2. alive
      BY <1>2, <2>1, RunChanges
    <2>. QED
      BY <1>1, <2>2 DEF Together
  <1>5. \A p \in Procs : ~Restorer(p)
    BY <1>4 DEF OfOver
  <1>6. recorded' = recorded
    BY <1>2, <1>3, RunChanges
  <1>7. CASE \E p \in Procs : Ending(p)
    <2>1. PICK p \in Procs : Ending(p)
      BY <1>7
    <2>2. ~Stays(p) /\ ~Goes(p)
      BY <2>1, GoesWent DEF Stays, Went, Ending, Archiver, Working
    <2>3. Ends(p)
      <3>1. ~Exits
        BY <1>4, ExitsLeave
      <3>2. ~Around
        BY <2>2 DEF Around, WritesLine, RewritesLine, WritesSidecar, OpensConversation, SessionEnds,
           SessionClosed, CleansUp, vars, Stays
      <3>3. ASSUME NEW q \in Procs, Starts(q) PROVE FALSE
        <4>1. \E j, to : Begun(q, j, to)
          BY <3>3, HookBegins, EndHookBegins, ExitBegins, StopBegins, RespawnBegins DEF Starts
        <4>. QED
          BY <2>1, <2>2, <4>1 DEF Begun, Stays, Ending, Archiver, Working
      <3>4. ASSUME NEW q \in Procs, Goes(q) PROVE FALSE
        BY <2>2, <3>4, GoesWent DEF Went, Stays
      <3>5. ASSUME NEW q \in Procs, Ends(q) PROVE q = p
        BY <2>2, <3>5, EndsLeave DEF Left, Stays
      <3>. QED
        BY <3>1, <3>2, <3>3, <3>4, <3>5, NextKinds
    <2>4. Left({p}) /\ UNCHANGED <<file, sidecar>>
      BY <2>3, EndsLeave
    <2>5. /\ Exact
          /\ \A q \in Procs : q # p /\ Archiver(q) /\ job[q].conv = recorded =>
               pc[q] \notin {"read", "persist", "append"}
      BY <1>1, <1>3, <2>1, <2>3, EndingDone
    <2>. QED
      BY <1>6, <2>4, <2>5 DEF Left, Exact, Archiver, Working
  <1>8. CASE Exact /\ \A q \in Procs : Idle(q)
    <2>1. CASE UNCHANGED <<file, sidecar, pc, job>>
      BY <1>6, <1>8, <2>1 DEF Exact, Archiver, Working
    <2>2. ASSUME NEW p \in Procs, Starts(p) PROVE FALSE
      BY <1>2, <1>3, <1>4, <2>2, HookBegins, ExitBegins, StopBegins, RespawnBegins DEF Starts
    <2>3. ASSUME NEW p \in Procs, Ends(p) PROVE Exact' /\ \A q \in Procs : Idle(q)'
      <3>1. Left({p}) /\ UNCHANGED <<file, sidecar>>
        BY <2>3, EndsLeave
      <3>. QED
        BY <1>6, <1>8, <3>1 DEF Left, Exact, Archiver, Working
    <2>4. ASSUME NEW p \in Procs, Goes(p) PROVE Exact' /\ \A q \in Procs : Idle(q)'
      <3>1. Went(p, pc'[p]) /\ Archiver(p)
        BY <1>5, <2>4, GoesWent DEF Went, Archiver, Restorer
      <3>2. Exact' /\ (job'[p].conv = recorded => pc'[p] \notin {"read", "persist", "append"})
        BY <1>3, <1>6, <1>8, <2>4, <3>1, NothingToDo
      <3>3. \A q \in Procs \ {p} : Idle(q)'
        BY <1>6, <1>8, <3>1 DEF Went, Archiver, Working
      <3>. QED
        BY <1>6, <3>2, <3>3
    <2>5. CASE Around
      <3>1. ~WritesLine /\ ~RewritesLine /\ ~WritesSidecar
        BY <1>3 DEF WritesLine, RewritesLine, WritesSidecar, WentOn
      <3>2. ~CleansUp
        BY <1>4 DEF CleansUp
      <3>. QED
        BY <2>1, <2>5, <3>1, <3>2 DEF Around, OpensConversation, SessionEnds, SessionClosed,
           fileVars, vars
    <2>6. ~Exits
      BY <1>4, ExitsLeave
    <2>. QED
      BY <2>2, <2>3, <2>4, <2>5, <2>6, NextKinds
  <1>. QED
    BY <1>1, <1>3, <1>4, <1>7, <1>8 DEF EndArchived

----------------------------------------------------------------------------
(* The invariant holds in every state *)

LEMMA InitIInv == Init => IInv
  <1>. SUFFICES ASSUME Init PROVE IInv
    OBVIOUS
  <1>. USE ArchiveAssumption
  <1>1. TypeOK
    BY DEF Init, TypeOK, File, PCs
  <1>2. \A p \in Procs : ~Working(p) /\ pc[p] = "idle"
    BY DEF Init, Working
  <1>3. \A c \in Convs : file.live[c] = None /\ file.copy[c] = None /\ sidecar.live[c] = "none"
    BY DEF Init, Places
  <1>4. ~ended /\ alive /\ session /\ archiveLock = None /\ endHook = "none"
    BY DEF Init
  <1>5. Directed /\ Held /\ OfOver /\ EndedBy /\ OneFinal
    BY <1>2, <1>4 DEF Directed, Held, OfOver, EndedBy, OneFinal, Copying, Restorer, Archiver, Final,
       Ending
  <1>6. CleanedUp /\ Sources /\ Sidecars /\ Together
    BY <1>2, <1>3, <1>4 DEF CleanedUp, Missing, Seen, Sources, Sidecars, Together, Restorer, Archiver
  <1>7. FirstCopy /\ ReadAhead /\ ReadBack /\ CopyIsPrefix
    BY <1>2, <1>3 DEF FirstCopy, ReadAhead, ReadBack, CopyIsPrefix, Restorer, Archiver
  <1>8. Stopping /\ LastArchive /\ EndArchived
    BY <1>2, <1>4 DEF Stopping, LastArchive, EndArchived, IsLast, Final, Archiver
  <1>. QED
    BY <1>1, <1>5, <1>6, <1>7, <1>8 DEF IInv

LEMMA StepIInv == IInv /\ [Next]_vars => IInv'
  <1>. SUFFICES ASSUME IInv, [Next]_vars PROVE IInv'
    OBVIOUS
  <1>1. TypeOK' /\ Directed' /\ Held' /\ OfOver' /\ EndedBy' /\ OneFinal'
    BY TypeStep, DirectedStep, HeldStep, OfOverStep, EndedByStep, OneFinalStep DEF IInv
  <1>2. CleanedUp' /\ Sources' /\ Sidecars' /\ Together'
    BY CleanedUpStep, SourcesStep, SidecarsStep, TogetherStep DEF IInv
  <1>3. FirstCopy' /\ ReadAhead' /\ ReadBack' /\ CopyIsPrefix'
    BY FirstCopyStep, ReadAheadStep, ReadBackStep, PrefixStep DEF IInv
  <1>4. Stopping' /\ LastArchive' /\ EndArchived'
    BY StoppingStep, LastArchiveStep, EndArchivedStep DEF IInv
  <1>. QED
    BY <1>1, <1>2, <1>3, <1>4 DEF IInv

THEOREM ArchiveInvariance == Spec => []IInv
  BY InitIInv, StepIInv, PTL DEF Spec

(* Every variable has its type. *)
THEOREM ArchiveTypeCorrect == Spec => []TypeOK
  <1>1. IInv => TypeOK
    BY DEF IInv
  <1>. QED
    BY <1>1, ArchiveInvariance, PTL

(* What is archived is the beginning of the transcript as long as lines    *)
(* are only added, and the whole of it once an undisturbed run is over,    *)
(* unless the hook that ended it was not the last of it: it died with its  *)
(* program, found the lock held, or the program wrote on (mirror_file,     *)
(* mirror_file_exact under the archive lock).                              *)
THEOREM ArchiveExact == Spec => []ArchiveHolds
  <1>1. IInv => ArchiveHolds
    <2>. SUFFICES ASSUME IInv PROVE ArchiveHolds
      OBVIOUS
    <2>1. CopyIsPrefix
      BY DEF IInv
    <2>2. ASSUME Without({"fault", "close", "orphan"}), endHook # "early", Over PROVE FinalArchive
      <3>1. \A p \in Procs : ~Final(p)
        BY <2>2 DEF Over, Final, Archiver, Working
      <3>. QED
        BY <2>2, <3>1 DEF IInv, Stopping, Undisturbed, Over
    <2>3. ExactWhenOver
      BY <2>2 DEF ExactWhenOver, FinalArchive
    <2>. QED
      BY <2>1, <2>3 DEF ArchiveHolds
  <1>. QED
    BY <1>1, ArchiveInvariance, PTL

(* Nothing tx does takes a line from a transcript that is there: a restore *)
(* only puts back one that is gone (LlmEngine::restore).                   *)
LEMMA StepGrows ==
  IInv /\ [Next]_vars =>
    [\A c \in Convs :
       file.live[c] # None /\ file'.live[c] # None /\ "rewrite" \notin disturbed' \ disturbed
         => IsPrefix(file.live[c], file'.live[c])]_vars
  <1>. SUFFICES ASSUME IInv, [Next]_vars, NEW c \in Convs,
                       file.live[c] # None, file'.live[c] # None,
                       "rewrite" \notin disturbed' \ disturbed
                PROVE  IsPrefix(file.live[c], file'.live[c])
    OBVIOUS
  <1>1. PICK s \in Seq(Lines) : s = file.live[c]
    BY LinesOf DEF IInv
  <1>2. IsPrefix(s, s)
    BY PrefixSelf
  <1>3. CASE file'.live[c] = file.live[c]
    BY <1>1, <1>2, <1>3
  <1>4. ASSUME NEW l \in Lines, file'.live[c] = Append(Lived(c), l)
        PROVE  IsPrefix(s, file'.live[c])
    BY <1>1, <1>2, <1>4, PrefixLonger DEF Lived
  <1>5. ~RewritesLine
    BY DEF RewritesLine, Disturb
  <1>6. ASSUME NEW p \in Procs, Restorer(p), job[p].conv = c, pc[p] = "persist" PROVE FALSE
    BY <1>6 DEF IInv, Sources
  <1>. QED
    BY <1>1, <1>3, <1>4, <1>5, <1>6, LiveChanges DEF IInv

THEOREM RestoresOnlyAdd == Spec => TranscriptsOnlyGrow
  BY ArchiveInvariance, StepGrows, PTL DEF TranscriptsOnlyGrow, Spec
=============================================================================
