---------------------------- MODULE StateFiles ----------------------------
(***************************************************************************)
(* The files under the state directory that several tx processes share:   *)
(* lock files (locks.rs), records (store.rs) and what the in-process       *)
(* sinks hear of them (events.rs, TxCore::emit).                             *)
(***************************************************************************)
EXTENDS Naturals, Sequences, FiniteSets

CONSTANTS
  Writers,        \* tx processes
  RecordIds,    \* agent ids
  Attempts,     \* tries of Locks::acquire (8 in the code)
  MaxUpdates,   \* bound: operations begun
  MaxRemovals,  \* bound: lock files something outside tx removes
  MaxLosses,    \* bound: power losses
  NoFile, OtherBuild, Garbled  \* no record, one of another build, an unreadable one

(* Records are read as numbers: their versions. *)
ASSUME FilesAssumption ==
  RecordIds # {} /\ {NoFile, OtherBuild, Garbled} \cap Nat = {}

VARIABLES
  lockFile,  \* lockFile[i]: the inode at <locks>/<i>.lock, 0 when there is none
  flocks,    \* flocks[n]: the processes (at most one) that hold the lock of inode n
  stolen,    \* ids whose lock file was removed under a holder (history)
  disk,      \* disk[i]: agent.json as it reads, and as a power loss leaves it
  dirs,      \* ids with an agent directory
  proc,      \* proc[p]: the operation process p is in
  scan,      \* the pass over the directory a reader is in
  heard,     \* what the sinks were called with, and under which lock (history)
  updates, removals, losses

fileVars == <<lockFile, flocks, stolen, disk, dirs, proc, scan, heard,
              updates, removals, losses>>
fileBounds == <<updates, removals, losses>>

Idle == [at |-> "idle", op |-> "none", id |-> CHOOSE i \in RecordIds : TRUE,
         inode |-> 0, tries |-> 0, read |-> 0]
NoScan == [at |-> "idle", left |-> {}, found |-> [i \in RecordIds |-> NoFile],
           was |-> [i \in RecordIds |-> {}]]
At(p, place) == proc[p].at = place

FilesInit ==
  /\ \E first \in [RecordIds -> {NoFile, OtherBuild, Garbled, 0}] :
        /\ disk = [i \in RecordIds |-> [now |-> first[i], durable |-> first[i]]]
        /\ dirs = {i \in RecordIds : first[i] # NoFile}
  /\ lockFile = [i \in RecordIds |-> 0] /\ flocks = <<>> /\ stolen = {}
  /\ proc = [p \in Writers |-> Idle] /\ scan = NoScan
  /\ heard = {} /\ updates = 0 /\ removals = 0 /\ losses = 0

-----------------------------------------------------------------------------
(* Locks::acquire *)

FileGo(p, place) == proc' = [proc EXCEPT ![p].at = place]
Freed(p) == [n \in DOMAIN flocks |-> flocks[n] \ {p}]
Seen(i, v) == scan' = [scan EXCEPT !.was[i] = IF scan.at = "idle" THEN @ ELSE @ \cup {v}]

BeginUpdate(p, i, op) ==
  /\ At(p, "idle") /\ updates < MaxUpdates
  /\ updates' = updates + 1
  /\ proc' = [proc EXCEPT ![p] = [@ EXCEPT !.at = "open", !.op = op, !.id = i, !.tries = 1]]
  /\ UNCHANGED <<lockFile, flocks, stolen, disk, dirs, scan, heard, removals, losses>>

(* OpenOptions::create: the inode at the path, a fresh one when there is none *)
OpenLock(p) ==
  /\ At(p, "open")
  /\ LET i == proc[p].id
         fresh == lockFile[i] = 0
         inode == IF fresh THEN Len(flocks) + 1 ELSE lockFile[i] IN
     /\ flocks' = IF fresh THEN Append(flocks, {}) ELSE flocks
     /\ lockFile' = [lockFile EXCEPT ![i] = inode]
     /\ proc' = [proc EXCEPT ![p] = [@ EXCEPT !.at = "flock", !.inode = inode]]
  /\ UNCHANGED <<stolen, disk, dirs, scan, heard, fileBounds>>

(* File::lock waits for the holder of that inode *)
TakeLock(p) ==
  /\ At(p, "flock") /\ flocks[proc[p].inode] = {}
  /\ flocks' = [flocks EXCEPT ![proc[p].inode] = {p}]
  /\ FileGo(p, "confirm")
  /\ UNCHANGED <<lockFile, stolen, disk, dirs, scan, heard, fileBounds>>

(* Mutant: no look at the path once the lock is held.                      *)
IsCurrentUnchecked(p) == TRUE

IsCurrent(p) == lockFile[proc[p].id] = proc[p].inode

(* the path must still name the inode; otherwise drop the guard and retry *)
ConfirmLock(p) ==
  /\ At(p, "confirm")
  /\ IF IsCurrent(p)
       THEN FileGo(p, "load") /\ UNCHANGED flocks
       ELSE /\ flocks' = Freed(p)
            /\ IF proc[p].tries = Attempts
                 THEN proc' = [proc EXCEPT ![p] = Idle]
                 ELSE proc' = [proc EXCEPT ![p].at = "open", ![p].tries = @ + 1]
  /\ UNCHANGED <<lockFile, stolen, disk, dirs, scan, heard, fileBounds>>

LoseLockFile(i) ==
  /\ lockFile[i] # 0 /\ removals < MaxRemovals
  /\ removals' = removals + 1
  /\ lockFile' = [lockFile EXCEPT ![i] = 0]
  /\ stolen' = IF flocks[lockFile[i]] # {} THEN stolen \cup {i} ELSE stolen
  /\ UNCHANGED <<flocks, disk, dirs, proc, scan, heard, updates, losses>>

-----------------------------------------------------------------------------
(* Reading, changing and saving a record under its lock *)

Fails(p) == flocks' = Freed(p) /\ proc' = [proc EXCEPT ![p] = Idle]

(* AgentStore::load: a missing record, or one of another build, is none;   *)
(* what cannot be read is an error. Either ends the operation.             *)
LoadRecord(p) ==
  /\ At(p, "load")
  /\ LET v == disk[proc[p].id].now IN
     IF v \notin Nat THEN Fails(p)
     ELSE /\ proc' = [proc EXCEPT ![p] = [@ EXCEPT !.at = "write", !.read = v]]
          /\ UNCHANGED flocks
  /\ UNCHANGED <<lockFile, stolen, disk, dirs, scan, heard, fileBounds>>

(* a created agent's id is fresh; its first save needs no lock of its own *)
BeginCreate(p, i) ==
  /\ At(p, "idle") /\ updates < MaxUpdates
  /\ i \notin dirs /\ \A q \in Writers : proc[q].at # "idle" => proc[q].id # i
  /\ updates' = updates + 1
  /\ proc' = [proc EXCEPT ![p] = [Idle EXCEPT !.at = "write", !.op = "create", !.id = i]]
  /\ UNCHANGED <<lockFile, flocks, stolen, disk, dirs, scan, heard, removals, losses>>

(* AgentStore::save up to the rename: the temporary file is written and    *)
(* synced, or removed.                                                     *)
WriteTemp(p) ==
  /\ At(p, "write")
  /\ dirs' = dirs \cup {proc[p].id}
  /\ \/ FileGo(p, "rename") /\ UNCHANGED flocks
     \/ Fails(p)
  /\ UNCHANGED <<lockFile, stolen, disk, scan, heard, fileBounds>>

(* rename(2) over agent.json: readers see the whole new record at once *)
RenameRecord(p) ==
  /\ At(p, "rename")
  /\ LET i == proc[p].id IN
     /\ disk' = [disk EXCEPT ![i].now = proc[p].read + 1]
     /\ Seen(i, proc[p].read + 1)
  /\ FileGo(p, "sync")
  /\ UNCHANGED <<lockFile, flocks, stolen, dirs, heard, fileBounds>>

SyncDirectory(p) ==
  /\ At(p, "sync")
  /\ \/ /\ disk' = [disk EXCEPT ![proc[p].id].durable = disk[proc[p].id].now]
        /\ FileGo(p, IF proc[p].op = "exit" THEN "archive" ELSE "unlock")
        /\ UNCHANGED flocks
     \/ Fails(p) /\ UNCHANGED disk
  /\ UNCHANGED <<lockFile, stolen, dirs, scan, heard, fileBounds>>

-----------------------------------------------------------------------------
(* TxCore::emit: the log line first (a failed append fails nothing; the    *)
(* log is not kept here), then every sink.                                 *)

Emit(p, type) ==
  LET e == [type |-> type, id |-> proc[p].id, version |-> proc[p].read + 1] IN
  heard' = heard \cup {[event |-> e, locked |-> \E n \in DOMAIN flocks : p \in flocks[n]]}

(* archive_conversation, inside mark_exited: a failure is emitted there *)
ArchiveExited(p) ==
  /\ At(p, "archive")
  /\ FileGo(p, "unlock")
  /\ \/ UNCHANGED heard
     \/ Emit(p, "archive-failed")
  /\ UNCHANGED <<lockFile, flocks, stolen, disk, dirs, scan, fileBounds>>

Unlock(p) ==
  /\ At(p, "unlock")
  /\ flocks' = Freed(p)
  /\ FileGo(p, "emit")
  /\ UNCHANGED <<lockFile, stolen, disk, dirs, scan, heard, fileBounds>>

EmitChange(p) ==
  /\ At(p, "emit")
  /\ Emit(p, proc[p].op)
  /\ proc' = [proc EXCEPT ![p] = Idle]
  /\ UNCHANGED <<lockFile, flocks, stolen, disk, dirs, scan, fileBounds>>

(* the kernel drops a dead process's locks; its temporary file stays *)
DieInUpdate(p) ==
  /\ ~At(p, "idle")
  /\ Fails(p)
  /\ UNCHANGED <<lockFile, stolen, disk, dirs, scan, heard, fileBounds>>

(* what was renamed but not synced may come back as it was *)
LosePower ==
  /\ losses < MaxLosses
  /\ losses' = losses + 1
  /\ \E kept \in SUBSET RecordIds :
       disk' = [i \in RecordIds |->
                  LET v == IF i \in kept THEN disk[i].now ELSE disk[i].durable IN
                  [now |-> v, durable |-> v]]
  /\ proc' = [p \in Writers |-> Idle] /\ scan' = NoScan
  /\ flocks' = [n \in DOMAIN flocks |-> {}]
  /\ UNCHANGED <<lockFile, stolen, dirs, heard, updates, removals>>

-----------------------------------------------------------------------------
(* AgentStore::scan: lists the directory, then reads each record without a *)
(* lock. A record that vanished or is another build's is skipped; any      *)
(* other that cannot be read fails the scan.                               *)

BeginScan ==
  /\ scan.at = "idle"
  /\ scan' = [at |-> "reading", left |-> dirs, found |-> NoScan.found,
              was |-> [i \in RecordIds |-> {disk[i].now}]]
  /\ UNCHANGED <<lockFile, flocks, stolen, disk, dirs, proc, heard, fileBounds>>

ScanRecord(i) ==
  /\ scan.at = "reading" /\ i \in scan.left
  /\ LET v == disk[i].now IN
     scan' = [scan EXCEPT !.left = @ \ {i}, !.found[i] = IF v \in Nat THEN v ELSE @,
                !.at = IF v = Garbled THEN "failed"
                       ELSE IF scan.left = {i} THEN "done" ELSE "reading"]
  /\ UNCHANGED <<lockFile, flocks, stolen, disk, dirs, proc, heard, fileBounds>>

EndScan ==
  /\ scan.at \in {"done", "failed"} \/ scan.left = {}
  /\ scan.at # "idle"
  /\ scan' = NoScan
  /\ UNCHANGED <<lockFile, flocks, stolen, disk, dirs, proc, heard, fileBounds>>

FilesNext ==
  \/ \E p \in Writers :
       \/ \E i \in RecordIds :
            BeginCreate(p, i) \/ BeginUpdate(p, i, "edit") \/ BeginUpdate(p, i, "exit")
       \/ OpenLock(p) \/ TakeLock(p) \/ ConfirmLock(p)
       \/ LoadRecord(p) \/ WriteTemp(p) \/ RenameRecord(p)
       \/ SyncDirectory(p) \/ ArchiveExited(p) \/ Unlock(p) \/ EmitChange(p)
       \/ DieInUpdate(p)
  \/ \E i \in RecordIds : LoseLockFile(i) \/ ScanRecord(i)
  \/ BeginScan \/ EndScan \/ LosePower

FilesSpec == FilesInit /\ [][FilesNext]_fileVars

-----------------------------------------------------------------------------
(* A process that took a record's lock works on the record as it is on     *)
(* disk until its rename, whatever lock files were replaced between an     *)
(* open and its lock; only a file removed under a holder breaks that       *)
(* (Locks::acquire, LockGuard::is_current).                                *)
LockedReadIsCurrent ==
  \A p \in Writers :
    proc[p].at \in {"write", "rename"} /\ proc[p].id \notin stolen =>
      disk[proc[p].id].now = IF proc[p].op = "create" THEN NoFile ELSE proc[p].read

(* A finished scan, taken without a lock, has each record in a form it had *)
(* during the scan, and every record that was there throughout             *)
(* (AgentStore::scan against save).                                        *)
ScanIsHonest ==
  scan.at = "done" =>
    \A i \in RecordIds :
      IF scan.found[i] \in Nat THEN scan.found[i] \in scan.was[i]
      ELSE scan.was[i] \cap {NoFile, OtherBuild} # {}

(* An event was emitted only for a record that a power loss does not take  *)
(* back (AgentStore::save syncs the file and its directory before the      *)
(* operation reports).                                                     *)
ReportedIsDurable ==
  \A h \in heard : LET e == h.event IN
    e.id \notin stolen =>
      disk[e.id].durable \in Nat /\ disk[e.id].durable >= e.version

(* What the locks, the scan and the events of the state files promise      *)
(* (Locks, AgentStore, TxCore::emit).                                      *)
FilesHold == LockedReadIsCurrent /\ ScanIsHonest /\ ReportedIsDurable

(* Sinks run once the operation has released its locks (TxCore::emit's     *)
(* comment and EventSink's).                                               *)
SinksRunUnlocked == \A h \in heard : ~h.locked
=============================================================================
