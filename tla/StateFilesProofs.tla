-------------------------- MODULE StateFilesProofs --------------------------
(***************************************************************************)
(* The proofs about the state files, for any number of processes, records, *)
(* updates, lock files removed and power losses: a record is changed as it *)
(* is on disk, a scan without a lock is honest, and what was reported      *)
(* stays.                                                                  *)
(***************************************************************************)
EXTENDS StateFiles, TLAPS

Readings == {NoFile, OtherBuild, Garbled} \cup Nat
FilePlaces ==
  {"idle", "open", "flock", "confirm", "load", "write", "rename", "sync", "archive", "unlock", "emit"}
LockedPlaces == {"confirm", "load", "write", "rename", "sync", "archive", "unlock"}
AProcess ==
  [at : FilePlaces, op : {"none", "edit", "exit", "create"}, id : RecordIds, inode : Nat,
   tries : Nat, read : Nat]
AnEvent ==
  [event : [type : {"none", "edit", "exit", "create", "archive-failed"}, id : RecordIds, version : Nat],
   locked : BOOLEAN]

AScan ==
  [at : {"idle", "reading", "done", "failed"}, left : SUBSET RecordIds, found : [RecordIds -> {NoFile} \cup Nat],
   was : [RecordIds -> SUBSET Readings]]

FilesTypeOK ==
  /\ flocks \in Seq(SUBSET Writers)
  /\ lockFile \in [RecordIds -> 0..Len(flocks)]
  /\ stolen \subseteq RecordIds /\ dirs \subseteq RecordIds
  /\ disk \in [RecordIds -> [now : Readings, durable : Readings]]
  /\ proc \in [Writers -> AProcess]
  /\ heard \subseteq AnEvent
  /\ scan \in AScan

(* Whoever is past its lock holds it alone, and unless the file was taken  *)
(* from under it, on the inode the path names.                             *)
Locked(p) == proc[p].op # "create" /\ proc[p].at \in LockedPlaces
LockHeld(p) ==
  /\ proc[p].at = "flock" \/ Locked(p) => proc[p].inode \in DOMAIN flocks
  /\ Locked(p) => flocks[proc[p].inode] = {p}
  /\ Locked(p) /\ proc[p].at # "confirm" /\ proc[p].id \notin stolen =>
       lockFile[proc[p].id] = proc[p].inode
LocksHeld == \A p \in Writers : LockHeld(p)

(* An id without a directory has no record.                                *)
DirsKnown == \A i \in RecordIds \ dirs : disk[i].now = NoFile /\ disk[i].durable = NoFile

(* A record about to be written is the one that was read; the one that     *)
(* creates it is the only one to.                                          *)
Writes(p) == proc[p].at \in {"write", "rename"}
WriteKnown(p) ==
  /\ proc[p].op = "create" => proc[p].at \in {"write", "rename", "sync", "archive", "unlock", "emit"}
  /\ proc[p].at = "rename" => proc[p].id \in dirs
  /\ Writes(p) /\ proc[p].op = "create" =>
       /\ disk[proc[p].id].now = NoFile
       /\ \A q \in Writers :
            Writes(q) /\ proc[q].op = "create" /\ proc[q].id = proc[p].id => q = p
  /\ Writes(p) /\ proc[p].op # "create" =>
       /\ disk[proc[p].id].now \in Nat
       /\ proc[p].id \notin stolen => disk[proc[p].id].now = proc[p].read
WritesKnown == \A p \in Writers : WriteKnown(p)

(* What a power loss leaves of a record is never newer than what is read;  *)
(* what was renamed is there, what was synced and reported stays.          *)
AtLeast(value, version) == value \in Nat /\ value >= version
Durable ==
  /\ \A i \in RecordIds \ stolen :
       disk[i].durable \in Nat => AtLeast(disk[i].now, disk[i].durable)
  /\ \A p \in Writers : proc[p].id \notin stolen =>
       /\ proc[p].at = "sync" => AtLeast(disk[proc[p].id].now, proc[p].read + 1)
       /\ proc[p].at \in {"archive", "unlock", "emit"} =>
            AtLeast(disk[proc[p].id].durable, proc[p].read + 1)
  /\ ReportedIsDurable

ScanKnown ==
  /\ scan.at # "idle" => \A i \in RecordIds : disk[i].now \in scan.was[i]
  /\ \A i \in RecordIds : scan.found[i] \in Nat => scan.found[i] \in scan.was[i]
  /\ scan.at \in {"reading", "done"} =>
       \A i \in RecordIds : i \notin scan.left /\ scan.found[i] \notin Nat =>
         scan.was[i] \cap {NoFile, OtherBuild} # {}
  /\ scan.at = "done" => scan.left = {}

FilesInv == FilesTypeOK /\ LocksHeld /\ DirsKnown /\ WritesKnown /\ Durable /\ ScanKnown

-----------------------------------------------------------------------------
(* What the steps do to a process, to the locks and to a scan              *)

LEMMA IdleTyped == Idle \in AProcess /\ Idle.at = "idle" /\ Idle.op = "none"
BY FilesAssumption DEF Idle, AProcess, FilePlaces

LEMMA NoScanTyped ==
  NoScan \in AScan /\ NoScan.at = "idle" /\ NoScan.found = [i \in RecordIds |-> NoFile]
BY DEF NoScan, AScan

LEMMA FileGoes ==
  ASSUME FilesTypeOK, NEW p \in Writers, NEW place \in FilePlaces, FileGo(p, place)
  PROVE  /\ proc' \in [Writers -> AProcess]
         /\ proc'[p].at = place /\ proc'[p].op = proc[p].op /\ proc'[p].id = proc[p].id
         /\ proc'[p].inode = proc[p].inode /\ proc'[p].read = proc[p].read
         /\ \A q \in Writers : q # p => proc'[q] = proc[q]
BY DEF FilesTypeOK, AProcess, FileGo

LEMMA FileStops ==
  ASSUME FilesTypeOK, NEW p \in Writers, proc' = [proc EXCEPT ![p] = Idle]
  PROVE  /\ proc' \in [Writers -> AProcess] /\ proc'[p].at = "idle"
         /\ \A q \in Writers : q # p => proc'[q] = proc[q]
BY IdleTyped DEF FilesTypeOK

LEMMA LocksFreed ==
  ASSUME FilesTypeOK, NEW p \in Writers, flocks' = Freed(p)
  PROVE  /\ flocks' \in Seq(SUBSET Writers) /\ Len(flocks') = Len(flocks)
         /\ DOMAIN flocks' = DOMAIN flocks
         /\ \A n \in DOMAIN flocks : flocks'[n] = flocks[n] \ {p}
<1>1. DOMAIN flocks = 1..Len(flocks) /\ Len(flocks) \in Nat
  BY DEF FilesTypeOK
<1>2. \A n \in 1..Len(flocks) : flocks[n] \ {p} \in SUBSET Writers
  BY DEF FilesTypeOK
<1>3. flocks' = [n \in 1..Len(flocks) |-> flocks[n] \ {p}]
  BY <1>1 DEF Freed
<1>4. flocks' \in Seq(SUBSET Writers) /\ Len(flocks') = Len(flocks)
  BY <1>1, <1>2, <1>3
<1> QED BY <1>1, <1>3, <1>4

-----------------------------------------------------------------------------
(* Types *)

LEMMA FilesTyped ==
  ASSUME FilesTypeOK, FilesNext PROVE FilesTypeOK'
<1>0. Len(flocks) \in Nat /\ DOMAIN flocks = 1..Len(flocks)
  BY DEF FilesTypeOK
<1>1. ASSUME NEW p \in Writers, NEW i \in RecordIds,
             BeginCreate(p, i) \/ BeginUpdate(p, i, "edit") \/ BeginUpdate(p, i, "exit")
      PROVE  FilesTypeOK'
  <2>1. proc' \in [Writers -> AProcess]
    <3>1. [Idle EXCEPT !.at = "write", !.op = "create", !.id = i] \in AProcess
      BY IdleTyped DEF AProcess, FilePlaces
    <3>2. \A op \in {"edit", "exit"} :
            [proc[p] EXCEPT !.at = "open", !.op = op, !.id = i, !.tries = 1] \in AProcess
      BY ZenonT(60) DEF FilesTypeOK, AProcess, FilePlaces
    <3> QED BY <1>1, <3>1, <3>2 DEF BeginCreate, BeginUpdate, FilesTypeOK
  <2> QED BY <1>1, <2>1 DEF BeginCreate, BeginUpdate, FilesTypeOK
<1>2. ASSUME NEW p \in Writers, OpenLock(p) PROVE FilesTypeOK'
  <2> DEFINE i == proc[p].id
             fresh == lockFile[i] = 0
             inode == IF fresh THEN Len(flocks) + 1 ELSE lockFile[i]
  <2>1. i \in RecordIds /\ lockFile[i] \in 0..Len(flocks)
    BY DEF FilesTypeOK, AProcess
  <2>2. /\ flocks' = (IF fresh THEN Append(flocks, {}) ELSE flocks)
        /\ lockFile' = [lockFile EXCEPT ![i] = inode]
        /\ proc' = [proc EXCEPT ![p] = [@ EXCEPT !.at = "flock", !.inode = inode]]
    BY <1>2 DEF OpenLock
  <2>3. /\ flocks' \in Seq(SUBSET Writers) /\ Len(flocks) <= Len(flocks') /\ inode <= Len(flocks')
        /\ Len(flocks') \in Nat
    <3>1. CASE fresh
      <4>1. flocks' = Append(flocks, {}) /\ inode = Len(flocks) + 1
        BY <2>2, <3>1
      <4> QED BY <4>1, <1>0 DEF FilesTypeOK
    <3>2. CASE ~fresh
      BY <1>0, <2>1, <2>2, <3>2 DEF FilesTypeOK
    <3> QED BY <3>1, <3>2
  <2>4. inode \in Nat
    BY <1>0, <2>1
  <2>5. inode \in 0..Len(flocks')
    BY <2>3, <2>4
  <2> HIDE DEF inode
  <2>6. lockFile' \in [RecordIds -> 0..Len(flocks')]
    <3>1. \A j \in RecordIds : lockFile[j] \in 0..Len(flocks')
      BY <1>0, <2>3 DEF FilesTypeOK
    <3> QED BY <2>2, <2>5, <3>1 DEF FilesTypeOK
  <2>7. proc' \in [Writers -> AProcess]
    BY <2>2, <2>4, ZenonT(60) DEF FilesTypeOK, AProcess, FilePlaces
  <2> QED BY <1>2, <2>3, <2>6, <2>7 DEF OpenLock, FilesTypeOK
<1>3. ASSUME NEW p \in Writers, TakeLock(p) PROVE FilesTypeOK'
  <2>1. flocks' = [flocks EXCEPT ![proc[p].inode] = {p}] /\ FileGo(p, "confirm")
    BY <1>3 DEF TakeLock
  <2>2. flocks' \in Seq(SUBSET Writers) /\ Len(flocks') = Len(flocks)
    <3>1. flocks \in [1..Len(flocks) -> SUBSET Writers]
      BY DEF FilesTypeOK
    <3>2. flocks' \in [1..Len(flocks) -> SUBSET Writers]
      BY <2>1, <3>1
    <3> QED BY <1>0, <3>2
  <2>3. proc' \in [Writers -> AProcess]
    BY <2>1, FileGoes DEF FilePlaces
  <2> QED BY <1>3, <2>2, <2>3 DEF TakeLock, FilesTypeOK
<1>4. ASSUME NEW p \in Writers, Fails(p), UNCHANGED <<lockFile, stolen, heard>>,
             dirs' \subseteq RecordIds, disk' = disk, scan' = scan
      PROVE  FilesTypeOK'
  <2>1. flocks' \in Seq(SUBSET Writers) /\ Len(flocks') = Len(flocks)
    BY <1>4, LocksFreed DEF Fails
  <2>2. proc' \in [Writers -> AProcess]
    BY <1>4, FileStops DEF Fails
  <2> QED BY <1>4, <2>1, <2>2 DEF FilesTypeOK
<1>5. ASSUME NEW p \in Writers, ConfirmLock(p) PROVE FilesTypeOK'
  <2>1. CASE IsCurrent(p)
    <3>1. FileGo(p, "load") /\ UNCHANGED flocks
      BY <1>5, <2>1 DEF ConfirmLock
    <3>2. proc' \in [Writers -> AProcess]
      BY <3>1, FileGoes DEF FilePlaces
    <3> QED BY <1>5, <3>1, <3>2 DEF ConfirmLock, FilesTypeOK
  <2>2. CASE ~IsCurrent(p)
    <3>1. /\ flocks' = Freed(p)
          /\ \/ proc' = [proc EXCEPT ![p] = Idle]
             \/ proc' = [proc EXCEPT ![p].at = "open", ![p].tries = @ + 1]
      BY <1>5, <2>2 DEF ConfirmLock
    <3>2. flocks' \in Seq(SUBSET Writers) /\ Len(flocks') = Len(flocks)
      BY <3>1, LocksFreed
    <3>3. proc[p].tries + 1 \in Nat
      BY DEF FilesTypeOK, AProcess
    <3>4. proc' \in [Writers -> AProcess]
      <4>1. CASE proc' = [proc EXCEPT ![p] = Idle]
        BY <4>1, IdleTyped DEF FilesTypeOK
      <4>2. CASE proc' = [proc EXCEPT ![p].at = "open", ![p].tries = @ + 1]
        BY <3>3, <4>2, ZenonT(60) DEF FilesTypeOK, AProcess, FilePlaces
      <4> QED BY <3>1, <4>1, <4>2
    <3> QED BY <1>5, <3>2, <3>4 DEF ConfirmLock, FilesTypeOK
  <2> QED BY <2>1, <2>2
<1>6. ASSUME NEW p \in Writers, LoadRecord(p) PROVE FilesTypeOK'
  <2>1. CASE disk[proc[p].id].now \notin Nat
    BY <1>4, <1>6, <2>1 DEF LoadRecord, FilesTypeOK
  <2>2. CASE disk[proc[p].id].now \in Nat
    <3>1. proc' = [proc EXCEPT ![p] = [@ EXCEPT !.at = "write", !.read = disk[proc[p].id].now]]
      BY <1>6, <2>2 DEF LoadRecord
    <3>2. proc' \in [Writers -> AProcess]
      BY <2>2, <3>1, ZenonT(60) DEF FilesTypeOK, AProcess, FilePlaces
    <3> QED BY <1>6, <2>2, <3>2 DEF LoadRecord, FilesTypeOK
  <2> QED BY <2>1, <2>2
<1>7. ASSUME NEW p \in Writers, WriteTemp(p) PROVE FilesTypeOK'
  <2>1. dirs' \subseteq RecordIds
    BY <1>7 DEF WriteTemp, FilesTypeOK, AProcess
  <2>2. CASE Fails(p)
    BY <1>4, <1>7, <2>1, <2>2 DEF WriteTemp
  <2>3. CASE FileGo(p, "rename") /\ UNCHANGED flocks
    <3>1. proc' \in [Writers -> AProcess]
      BY <2>3, FileGoes DEF FilePlaces
    <3> QED BY <1>7, <2>1, <2>3, <3>1 DEF WriteTemp, FilesTypeOK
  <2> QED BY <1>7, <2>2, <2>3 DEF WriteTemp
<1>8. ASSUME NEW p \in Writers, RenameRecord(p) PROVE FilesTypeOK'
  <2>1. proc[p].id \in RecordIds /\ proc[p].read + 1 \in Nat
    BY DEF FilesTypeOK, AProcess
  <2>2. /\ disk' = [disk EXCEPT ![proc[p].id].now = proc[p].read + 1]
        /\ Seen(proc[p].id, proc[p].read + 1) /\ FileGo(p, "sync")
    BY <1>8 DEF RenameRecord
  <2>3. disk' \in [RecordIds -> [now : Readings, durable : Readings]]
    BY <2>1, <2>2 DEF FilesTypeOK, Readings
  <2>4. scan' \in AScan
    BY <2>1, <2>2 DEF Seen, FilesTypeOK, AScan, Readings
  <2>5. proc' \in [Writers -> AProcess]
    BY <2>2, FileGoes DEF FilePlaces
  <2> QED BY <1>8, <2>3, <2>4, <2>5 DEF RenameRecord, FilesTypeOK
<1>9. ASSUME NEW p \in Writers, SyncDirectory(p) PROVE FilesTypeOK'
  <2>1. CASE Fails(p) /\ UNCHANGED disk
    BY <1>4, <1>9, <2>1 DEF SyncDirectory, FilesTypeOK
  <2>2. CASE /\ disk' = [disk EXCEPT ![proc[p].id].durable = disk[proc[p].id].now]
             /\ FileGo(p, IF proc[p].op = "exit" THEN "archive" ELSE "unlock")
             /\ UNCHANGED flocks
    <3>1. disk' \in [RecordIds -> [now : Readings, durable : Readings]]
      BY <2>2 DEF FilesTypeOK, AProcess
    <3>2. proc' \in [Writers -> AProcess]
      BY <2>2, FileGoes DEF FilePlaces
    <3> QED BY <1>9, <2>2, <3>1, <3>2 DEF SyncDirectory, FilesTypeOK
  <2> QED BY <1>9, <2>1, <2>2 DEF SyncDirectory
<1>10. ASSUME NEW p \in Writers, NEW type \in {"edit", "exit", "create", "none", "archive-failed"},
              Emit(p, type)
       PROVE  heard' \subseteq AnEvent
  <2>1. PICK b \in BOOLEAN : b = (\E n \in DOMAIN flocks : p \in flocks[n])
    OBVIOUS
  <2>2. heard' = heard \cup {[event |-> [type |-> type, id |-> proc[p].id,
                                        version |-> proc[p].read + 1], locked |-> b]}
    BY <1>10, <2>1 DEF Emit
  <2>3. proc[p].id \in RecordIds /\ proc[p].read + 1 \in Nat
    BY DEF FilesTypeOK, AProcess
  <2> QED BY <2>2, <2>3 DEF FilesTypeOK, AnEvent
<1>11. ASSUME NEW p \in Writers, ArchiveExited(p) PROVE FilesTypeOK'
  <2>1. proc' \in [Writers -> AProcess]
    BY <1>11, FileGoes DEF ArchiveExited, FilePlaces
  <2>2. heard' \subseteq AnEvent
    BY <1>10, <1>11 DEF ArchiveExited, FilesTypeOK
  <2> QED BY <1>11, <2>1, <2>2 DEF ArchiveExited, FilesTypeOK
<1>12. ASSUME NEW p \in Writers, Unlock(p) PROVE FilesTypeOK'
  <2>1. proc' \in [Writers -> AProcess]
    BY <1>12, FileGoes DEF Unlock, FilePlaces
  <2>2. flocks' \in Seq(SUBSET Writers) /\ Len(flocks') = Len(flocks)
    BY <1>12, LocksFreed DEF Unlock
  <2> QED BY <1>12, <2>1, <2>2 DEF Unlock, FilesTypeOK
<1>13. ASSUME NEW p \in Writers, EmitChange(p) PROVE FilesTypeOK'
  <2>1. proc' \in [Writers -> AProcess]
    BY <1>13, FileStops DEF EmitChange
  <2>2. proc[p].op \in {"edit", "exit", "create", "none", "archive-failed"}
    BY DEF FilesTypeOK, AProcess
  <2>3. heard' \subseteq AnEvent
    BY <1>10, <1>13, <2>2 DEF EmitChange
  <2> QED BY <1>13, <2>1, <2>3 DEF EmitChange, FilesTypeOK
<1>14. ASSUME NEW p \in Writers, DieInUpdate(p) PROVE FilesTypeOK'
  BY <1>4, <1>14 DEF DieInUpdate, FilesTypeOK
<1>15. CASE LosePower
  <2>1. PICK kept \in SUBSET RecordIds :
          disk' = [i \in RecordIds |->
                     LET v == IF i \in kept THEN disk[i].now ELSE disk[i].durable IN
                     [now |-> v, durable |-> v]]
    BY <1>15 DEF LosePower
  <2>2. disk' \in [RecordIds -> [now : Readings, durable : Readings]]
    BY <2>1 DEF FilesTypeOK
  <2>3. proc' \in [Writers -> AProcess] /\ scan' \in AScan
    BY <1>15, IdleTyped, NoScanTyped DEF LosePower
  <2>4. flocks' \in Seq(SUBSET Writers) /\ Len(flocks') = Len(flocks)
    <3>1. flocks' = [n \in 1..Len(flocks) |-> {}]
      BY <1>0, <1>15 DEF LosePower
    <3> QED BY <1>0, <3>1
  <2> QED BY <1>15, <2>2, <2>3, <2>4 DEF LosePower, FilesTypeOK
<1>16. ASSUME NEW i \in RecordIds, LoseLockFile(i) PROVE FilesTypeOK'
  <2>1. lockFile' \in [RecordIds -> 0..Len(flocks)]
    BY <1>0, <1>16 DEF LoseLockFile, FilesTypeOK
  <2> QED BY <1>16, <2>1 DEF LoseLockFile, FilesTypeOK
<1>17. ASSUME NEW i \in RecordIds, ScanRecord(i) PROVE FilesTypeOK'
  <2>1. scan' \in AScan
    BY <1>17 DEF ScanRecord, FilesTypeOK, AScan
  <2> QED BY <1>17, <2>1 DEF ScanRecord, FilesTypeOK
<1>18. CASE BeginScan
  <2>1. NoScan.found \in [RecordIds -> {NoFile} \cup Nat]
    BY NoScanTyped
  <2>2. [i \in RecordIds |-> {disk[i].now}] \in [RecordIds -> SUBSET Readings]
    BY DEF FilesTypeOK
  <2>3. scan' \in AScan
    BY <1>18, <2>1, <2>2 DEF BeginScan, FilesTypeOK, AScan
  <2> QED BY <1>18, <2>3 DEF BeginScan, FilesTypeOK
<1>19. CASE EndScan
  BY <1>19, NoScanTyped DEF EndScan, FilesTypeOK
<1> QED
  BY <1>1, <1>2, <1>3, <1>5, <1>6, <1>7, <1>8, <1>9, <1>11, <1>12, <1>13, <1>14, <1>15, <1>16,
     <1>17, <1>18, <1>19 DEF FilesNext

-----------------------------------------------------------------------------
(* Locks *)

(* What a step of p leaves of the other processes' locks.                  *)
LEMMA OthersKeepLocks ==
  ASSUME FilesTypeOK, LocksHeld, NEW p \in Writers,
         \A q \in Writers : q # p => proc'[q] = proc[q],
         \A n \in DOMAIN flocks :
           n \in DOMAIN flocks' /\ \A q \in Writers : q # p /\ flocks[n] = {q} => flocks'[n] = {q},
         \A i \in RecordIds : lockFile[i] # 0 => lockFile'[i] = lockFile[i],
         stolen' = stolen,
         LockHeld(p)'
  PROVE  LocksHeld'
<1>1. ASSUME NEW q \in Writers, q # p PROVE LockHeld(q)'
  <2>1. LockHeld(q) /\ proc'[q] = proc[q] /\ proc[q].id \in RecordIds
    BY <1>1 DEF LocksHeld, FilesTypeOK, AProcess
  <2>2. \A n \in DOMAIN flocks : n # 0
    BY DEF FilesTypeOK
  <2> QED BY <1>1, <2>1, <2>2 DEF LockHeld, Locked
<1> QED BY <1>1 DEF LocksHeld

LEMMA LocksStay ==
  ASSUME FilesTypeOK, FilesNext, LocksHeld PROVE LocksHeld'
<1>0. Len(flocks) \in Nat /\ DOMAIN flocks = 1..Len(flocks)
  BY DEF FilesTypeOK
<1>1. ASSUME NEW p \in Writers, UNCHANGED <<flocks, lockFile, stolen>>,
             \A q \in Writers : q # p => proc'[q] = proc[q], LockHeld(p)'
      PROVE  LocksHeld'
  BY <1>1, OthersKeepLocks
<1>2. ASSUME NEW p \in Writers, flocks' = Freed(p), UNCHANGED <<lockFile, stolen>>,
             \A q \in Writers : q # p => proc'[q] = proc[q],
             proc'[p].at \in {"idle", "open", "emit"}
      PROVE  LocksHeld'
  <2>1. \A n \in DOMAIN flocks :
          n \in DOMAIN flocks' /\ \A q \in Writers : q # p /\ flocks[n] = {q} => flocks'[n] = {q}
    BY <1>2, LocksFreed
  <2>2. LockHeld(p)'
    BY <1>2 DEF LockHeld, Locked, LockedPlaces
  <2> QED BY <1>2, <2>1, <2>2, OthersKeepLocks
<1>3. ASSUME NEW p \in Writers, Fails(p), UNCHANGED <<lockFile, stolen>> PROVE LocksHeld'
  <2>1. proc'[p].at = "idle" /\ \A q \in Writers : q # p => proc'[q] = proc[q]
    BY <1>3, FileStops DEF Fails
  <2> QED BY <1>2, <1>3, <2>1 DEF Fails
(* a step from one locked place to the next *)
<1>4. ASSUME NEW p \in Writers, NEW place \in FilePlaces, FileGo(p, place),
             UNCHANGED <<flocks, lockFile, stolen>>, proc[p].at \in LockedPlaces,
             place # "flock", proc[p].at = "confirm" => IsCurrent(p)
      PROVE  LocksHeld'
  <2>1. /\ proc'[p].at = place /\ proc'[p].op = proc[p].op /\ proc'[p].id = proc[p].id
        /\ proc'[p].inode = proc[p].inode
        /\ \A q \in Writers : q # p => proc'[q] = proc[q]
    BY <1>4, FileGoes
  <2>2. LockHeld(p)
    BY DEF LocksHeld
  <2>3. LockHeld(p)'
    BY <1>4, <2>1, <2>2 DEF LockHeld, Locked, IsCurrent
  <2> QED BY <1>1, <1>4, <2>1, <2>3
<1>5. ASSUME NEW p \in Writers, NEW i \in RecordIds,
             BeginCreate(p, i) \/ BeginUpdate(p, i, "edit") \/ BeginUpdate(p, i, "exit")
      PROVE  LocksHeld'
  <2>1. /\ UNCHANGED <<flocks, lockFile, stolen>> /\ \A q \in Writers : q # p => proc'[q] = proc[q]
        /\ proc'[p].at = "open" \/ (proc'[p].at = "write" /\ proc'[p].op = "create")
    <3>1. CASE BeginCreate(p, i)
      <4>1. proc' = [proc EXCEPT ![p] = [Idle EXCEPT !.at = "write", !.op = "create", !.id = i]]
        BY <3>1 DEF BeginCreate
      <4> QED BY <3>1, <4>1, IdleTyped DEF BeginCreate, FilesTypeOK, AProcess
    <3>2. CASE BeginUpdate(p, i, "edit") \/ BeginUpdate(p, i, "exit")
      BY <3>2, ZenonT(60) DEF BeginUpdate, FilesTypeOK, AProcess
    <3> QED BY <1>5, <3>1, <3>2
  <2>2. LockHeld(p)'
    BY <2>1 DEF LockHeld, Locked, LockedPlaces
  <2> QED BY <1>1, <2>1, <2>2
<1>6. ASSUME NEW p \in Writers, OpenLock(p) PROVE LocksHeld'
  <2> DEFINE i == proc[p].id
             fresh == lockFile[i] = 0
             inode == IF fresh THEN Len(flocks) + 1 ELSE lockFile[i]
  <2>1. /\ flocks' = (IF fresh THEN Append(flocks, {}) ELSE flocks)
        /\ lockFile' = [lockFile EXCEPT ![i] = inode]
        /\ proc' = [proc EXCEPT ![p] = [@ EXCEPT !.at = "flock", !.inode = inode]]
        /\ UNCHANGED stolen
    BY <1>6 DEF OpenLock
  <2>2. i \in RecordIds /\ lockFile[i] \in 0..Len(flocks)
    BY DEF FilesTypeOK, AProcess
  <2>3. \A n \in DOMAIN flocks : n \in DOMAIN flocks' /\ flocks'[n] = flocks[n]
    BY <1>0, <2>1 DEF FilesTypeOK
  <2>4. inode \in DOMAIN flocks'
    <3>1. CASE fresh
      <4>1. flocks' = Append(flocks, {}) /\ inode = Len(flocks) + 1
        BY <2>1, <3>1
      <4> QED BY <4>1, <1>0 DEF FilesTypeOK
    <3>2. CASE ~fresh
      BY <1>0, <2>1, <2>2, <3>2
    <3> QED BY <3>1, <3>2
  <2>5. /\ proc'[p].at = "flock" /\ proc'[p].inode = inode
        /\ \A q \in Writers : q # p => proc'[q] = proc[q]
    BY <2>1 DEF FilesTypeOK, AProcess
  <2>6. LockHeld(p)'
    BY <2>4, <2>5 DEF LockHeld, Locked, LockedPlaces
  <2>7. \A j \in RecordIds : lockFile[j] # 0 => lockFile'[j] = lockFile[j]
    BY <2>1, <2>2 DEF FilesTypeOK
  <2> QED BY <2>1, <2>3, <2>5, <2>6, <2>7, OthersKeepLocks
<1>7. ASSUME NEW p \in Writers, TakeLock(p) PROVE LocksHeld'
  <2>1. /\ proc[p].at = "flock" /\ flocks[proc[p].inode] = {}
        /\ flocks' = [flocks EXCEPT ![proc[p].inode] = {p}] /\ FileGo(p, "confirm")
        /\ UNCHANGED <<lockFile, stolen>>
    BY <1>7 DEF TakeLock, At
  <2>2. /\ proc'[p].at = "confirm" /\ proc'[p].inode = proc[p].inode
        /\ \A q \in Writers : q # p => proc'[q] = proc[q]
    BY <2>1, FileGoes DEF FilePlaces
  <2>3. proc[p].inode \in DOMAIN flocks
    BY <2>1 DEF LocksHeld, LockHeld
  <2>4. LockHeld(p)'
    BY <2>1, <2>2, <2>3 DEF LockHeld, Locked
  <2>5. \A n \in DOMAIN flocks :
          n \in DOMAIN flocks' /\ \A q \in Writers : q # p /\ flocks[n] = {q} => flocks'[n] = {q}
    BY <2>1
  <2> QED BY <2>1, <2>2, <2>4, <2>5, OthersKeepLocks
<1>8. ASSUME NEW p \in Writers, ConfirmLock(p) PROVE LocksHeld'
  <2>1. CASE IsCurrent(p)
    BY <1>4, <1>8, <2>1 DEF ConfirmLock, FilePlaces, LockedPlaces, At
  <2>2. CASE ~IsCurrent(p)
    <3>1. /\ flocks' = Freed(p) /\ UNCHANGED <<lockFile, stolen>>
          /\ \/ proc' = [proc EXCEPT ![p] = Idle]
             \/ proc' = [proc EXCEPT ![p].at = "open", ![p].tries = @ + 1]
      BY <1>8, <2>2 DEF ConfirmLock
    <3>2. proc'[p].at \in {"idle", "open"} /\ \A q \in Writers : q # p => proc'[q] = proc[q]
      <4>1. CASE proc' = [proc EXCEPT ![p] = Idle]
        BY <4>1, FileStops
      <4>2. CASE proc' = [proc EXCEPT ![p].at = "open", ![p].tries = @ + 1]
        BY <4>2 DEF FilesTypeOK, AProcess
      <4> QED BY <3>1, <4>1, <4>2
    <3> QED BY <1>2, <3>1, <3>2
  <2> QED BY <2>1, <2>2
<1>9. ASSUME NEW p \in Writers, LoadRecord(p) PROVE LocksHeld'
  <2>1. CASE disk[proc[p].id].now \notin Nat
    BY <1>3, <1>9, <2>1 DEF LoadRecord
  <2>2. CASE disk[proc[p].id].now \in Nat
    <3>1. /\ proc[p].at = "load" /\ UNCHANGED <<flocks, lockFile, stolen>>
          /\ proc' = [proc EXCEPT ![p] = [@ EXCEPT !.at = "write", !.read = disk[proc[p].id].now]]
      BY <1>9, <2>2 DEF LoadRecord, At
    <3>2. /\ proc'[p].at = "write" /\ proc'[p].op = proc[p].op /\ proc'[p].id = proc[p].id
          /\ proc'[p].inode = proc[p].inode
          /\ \A q \in Writers : q # p => proc'[q] = proc[q]
      BY <3>1 DEF FilesTypeOK, AProcess
    <3>3. LockHeld(p)'
      BY <3>1, <3>2 DEF LocksHeld, LockHeld, Locked, LockedPlaces
    <3> QED BY <1>1, <3>1, <3>2, <3>3
  <2> QED BY <2>1, <2>2
<1>10. ASSUME NEW p \in Writers, WriteTemp(p) \/ SyncDirectory(p) PROVE LocksHeld'
  <2>1. CASE Fails(p)
    BY <1>3, <1>10, <2>1 DEF WriteTemp, SyncDirectory
  <2>2. CASE ~Fails(p)
    <3>1. /\ proc[p].at \in {"write", "sync"} /\ UNCHANGED <<flocks, lockFile, stolen>>
          /\ \E place \in {"rename", "archive", "unlock"} : FileGo(p, place)
      BY <1>10, <2>2 DEF WriteTemp, SyncDirectory, At
    <3> QED BY <1>4, <3>1 DEF FilePlaces, LockedPlaces
  <2> QED BY <2>1, <2>2
<1>11. ASSUME NEW p \in Writers, RenameRecord(p) \/ ArchiveExited(p) PROVE LocksHeld'
  <2>1. /\ proc[p].at \in {"rename", "archive"} /\ UNCHANGED <<flocks, lockFile, stolen>>
        /\ \E place \in {"sync", "unlock"} : FileGo(p, place)
    BY <1>11 DEF RenameRecord, ArchiveExited, At
  <2> QED BY <1>4, <2>1 DEF FilePlaces, LockedPlaces
<1>12. ASSUME NEW p \in Writers, Unlock(p) PROVE LocksHeld'
  <2>1. flocks' = Freed(p) /\ UNCHANGED <<lockFile, stolen>> /\ FileGo(p, "emit")
    BY <1>12 DEF Unlock
  <2>2. proc'[p].at = "emit" /\ \A q \in Writers : q # p => proc'[q] = proc[q]
    BY <2>1, FileGoes DEF FilePlaces
  <2> QED BY <1>2, <2>1, <2>2
<1>13. ASSUME NEW p \in Writers, EmitChange(p) PROVE LocksHeld'
  <2>1. UNCHANGED <<flocks, lockFile, stolen>> /\ proc' = [proc EXCEPT ![p] = Idle]
    BY <1>13 DEF EmitChange
  <2>2. proc'[p].at = "idle" /\ \A q \in Writers : q # p => proc'[q] = proc[q]
    BY <2>1, FileStops
  <2>3. LockHeld(p)'
    BY <2>2 DEF LockHeld, Locked, LockedPlaces
  <2> QED BY <1>1, <2>1, <2>2, <2>3
<1>14. ASSUME NEW p \in Writers, DieInUpdate(p) PROVE LocksHeld'
  BY <1>3, <1>14 DEF DieInUpdate
<1>15. CASE LosePower
  <2>1. \A p \in Writers : proc'[p] = Idle
    BY <1>15 DEF LosePower
  <2> QED BY <2>1, IdleTyped DEF LocksHeld, LockHeld, Locked, LockedPlaces
<1>16. ASSUME NEW i \in RecordIds, LoseLockFile(i) PROVE LocksHeld'
  <2>1. /\ lockFile[i] # 0 /\ lockFile' = [lockFile EXCEPT ![i] = 0] /\ UNCHANGED <<flocks, proc>>
        /\ stolen' = IF flocks[lockFile[i]] # {} THEN stolen \cup {i} ELSE stolen
    BY <1>16 DEF LoseLockFile
  <2>2. ASSUME NEW q \in Writers PROVE LockHeld(q)'
    <3>1. LockHeld(q) /\ proc[q].id \in RecordIds
      BY DEF LocksHeld, FilesTypeOK, AProcess
    <3>2. CASE proc[q].id # i
      <4>1. lockFile'[proc[q].id] = lockFile[proc[q].id] /\ (proc[q].id \in stolen' <=> proc[q].id \in stolen)
        BY <2>1, <3>1, <3>2 DEF FilesTypeOK
      <4> QED BY <2>1, <3>1, <4>1 DEF LockHeld, Locked
    <3>3. CASE proc[q].id = i
      <4>1. Locked(q) /\ proc[q].at # "confirm" => i \in stolen'
        BY <2>1, <3>1, <3>3 DEF LockHeld
      <4> QED BY <2>1, <3>1, <3>3, <4>1 DEF LockHeld, Locked
    <3> QED BY <3>2, <3>3
  <2> QED BY <2>2 DEF LocksHeld
<1>17. CASE UNCHANGED <<flocks, lockFile, stolen, proc>>
  BY <1>17 DEF LocksHeld, LockHeld, Locked
<1> QED
  BY <1>5, <1>6, <1>7, <1>8, <1>9, <1>10, <1>11, <1>12, <1>13, <1>14, <1>15, <1>16, <1>17
  DEF FilesNext, ScanRecord, BeginScan, EndScan

-----------------------------------------------------------------------------
(* Records *)

LEMMA DirsStay ==
  ASSUME FilesTypeOK, DirsKnown, WritesKnown, FilesNext PROVE DirsKnown'
<1>1. CASE dirs \subseteq dirs' /\ UNCHANGED disk
  BY <1>1 DEF DirsKnown
<1>2. ASSUME NEW p \in Writers, RenameRecord(p) PROVE DirsKnown'
  <2>1. /\ proc[p].id \in dirs /\ UNCHANGED dirs
        /\ disk' = [disk EXCEPT ![proc[p].id].now = proc[p].read + 1]
    BY <1>2 DEF RenameRecord, At, WritesKnown, WriteKnown
  <2>2. \A i \in RecordIds \ dirs : disk'[i] = disk[i]
    BY <2>1 DEF FilesTypeOK
  <2> QED BY <2>1, <2>2 DEF DirsKnown
<1>3. ASSUME NEW p \in Writers, SyncDirectory(p) PROVE DirsKnown'
  <2>1. CASE UNCHANGED disk
    BY <1>1, <1>3, <2>1 DEF SyncDirectory
  <2>2. CASE disk' = [disk EXCEPT ![proc[p].id].durable = disk[proc[p].id].now]
    <3>1. \A i \in RecordIds : /\ disk'[i].now = disk[i].now
                               /\ disk'[i].durable \in {disk[i].durable, disk[i].now}
      BY <2>2 DEF FilesTypeOK, AProcess
    <3> QED BY <1>3, <3>1 DEF SyncDirectory, DirsKnown
  <2> QED BY <1>3, <2>1, <2>2 DEF SyncDirectory
<1>4. CASE LosePower
  <2>1. \A i \in RecordIds : /\ disk'[i].now \in {disk[i].durable, disk[i].now}
                             /\ disk'[i].durable \in {disk[i].durable, disk[i].now}
    BY <1>4 DEF LosePower
  <2> QED BY <1>4, <2>1 DEF LosePower, DirsKnown
<1> QED
  BY <1>1, <1>2, <1>3, <1>4
  DEF FilesNext, BeginCreate, BeginUpdate, OpenLock, TakeLock, ConfirmLock, LoadRecord, WriteTemp,
      ArchiveExited, Unlock, EmitChange, DieInUpdate, LoseLockFile, ScanRecord, BeginScan, EndScan

(* Two processes that are about to write one record, whose lock file was   *)
(* not removed, are one.                                                   *)
LEMMA OneWriter ==
  ASSUME FilesTypeOK, LocksHeld, WritesKnown, NEW p \in Writers, NEW q \in Writers,
         Writes(p), Writes(q), proc[p].id = proc[q].id,
         proc[p].id \notin stolen \/ proc[p].op = "create" \/ proc[q].op = "create"
  PROVE  p = q
<1>1. CASE proc[p].op = "create" \/ proc[q].op = "create"
  BY <1>1, FilesAssumption DEF WritesKnown, WriteKnown
<1>2. CASE proc[p].op # "create" /\ proc[q].op # "create"
  <2>1. Locked(p) /\ Locked(q) /\ proc[p].at # "confirm" /\ proc[q].at # "confirm"
    BY <1>2 DEF Locked, LockedPlaces, Writes
  <2>2. flocks[proc[p].inode] = {p} /\ flocks[proc[q].inode] = {q} /\ proc[p].inode = proc[q].inode
    BY <1>2, <2>1 DEF LocksHeld, LockHeld
  <2> QED BY <2>2
<1> QED BY <1>1, <1>2

LEMMA OthersKeepWrites ==
  ASSUME FilesTypeOK, WritesKnown, NEW p \in Writers,
         \A q \in Writers : q # p => proc'[q] = proc[q],
         \A i \in RecordIds : disk'[i].now = disk[i].now,
         dirs \subseteq dirs', stolen \subseteq stolen',
         Writes(p)' /\ proc'[p].op = "create" =>
           Writes(p) /\ proc[p].op = "create" /\ proc'[p].id = proc[p].id,
         WriteKnown(p)'
  PROVE  WritesKnown'
<1>1. ASSUME NEW q \in Writers, q # p PROVE WriteKnown(q)'
  <2>1. proc'[q] = proc[q] /\ WriteKnown(q) /\ proc[q].id \in RecordIds
    BY <1>1 DEF WritesKnown, FilesTypeOK, AProcess
  <2>2. ASSUME Writes(q)', proc'[q].op = "create", NEW r \in Writers, Writes(r)',
               proc'[r].op = "create", proc'[r].id = proc'[q].id
        PROVE  r = q
    <3>1. Writes(r) /\ proc[r].op = "create" /\ proc'[r].id = proc[r].id
      BY <2>2 DEF Writes
    <3> QED BY <2>1, <2>2, <3>1 DEF WriteKnown, Writes
  <2> QED BY <2>1, <2>2 DEF WriteKnown, Writes
<1> QED BY <1>1 DEF WritesKnown

LEMMA WritesStay ==
  ASSUME FilesTypeOK, LocksHeld, DirsKnown, WritesKnown, FilesNext PROVE WritesKnown'
<1>0. \A q \in Writers : proc[q].id \in RecordIds
  BY DEF FilesTypeOK, AProcess
(* a process that moves to a place where nothing is written *)
<1>1. ASSUME NEW p \in Writers, \A q \in Writers : q # p => proc'[q] = proc[q],
             \A i \in RecordIds : disk'[i].now = disk[i].now,
             dirs \subseteq dirs', UNCHANGED stolen, proc'[p].at \notin {"write", "rename"},
             proc'[p].op = "create" =>
               proc'[p].at \in {"write", "rename", "sync", "archive", "unlock", "emit"}
      PROVE  WritesKnown'
  <2>1. WriteKnown(p)' /\ ~Writes(p)'
    BY <1>1 DEF WriteKnown, Writes
  <2> QED BY <1>1, <2>1, OthersKeepWrites
<1>2. ASSUME NEW p \in Writers, proc' = [proc EXCEPT ![p] = Idle],
             \A i \in RecordIds : disk'[i].now = disk[i].now, dirs \subseteq dirs', UNCHANGED stolen
      PROVE  WritesKnown'
  <2>1. proc'[p] = Idle /\ \A q \in Writers : q # p => proc'[q] = proc[q]
    BY <1>2, FileStops DEF FilesTypeOK
  <2>2. proc'[p].at \notin {"write", "rename"} /\ proc'[p].op # "create"
    BY <2>1, IdleTyped
  <2> QED BY <1>1, <1>2, <2>1, <2>2
<1>3. ASSUME NEW p \in Writers, NEW place \in FilePlaces \ {"write", "rename"}, FileGo(p, place),
             \A i \in RecordIds : disk'[i].now = disk[i].now, dirs \subseteq dirs', UNCHANGED stolen,
             place \in {"sync", "archive", "unlock", "emit"} \/ proc[p].at \in {"flock", "confirm"}
      PROVE  WritesKnown'
  <2>1. /\ proc'[p].at = place /\ proc'[p].op = proc[p].op
        /\ \A q \in Writers : q # p => proc'[q] = proc[q]
    BY <1>3, FileGoes
  <2>2. proc'[p].op = "create" =>
          proc'[p].at \in {"write", "rename", "sync", "archive", "unlock", "emit"}
    BY <1>3, <2>1 DEF WritesKnown, WriteKnown
  <2> QED BY <1>1, <1>3, <2>1, <2>2
<1>4. ASSUME NEW p \in Writers, NEW i \in RecordIds, BeginCreate(p, i) PROVE WritesKnown'
  <2>1. /\ UNCHANGED <<disk, dirs, stolen>> /\ i \notin dirs
        /\ \A q \in Writers : proc[q].at # "idle" => proc[q].id # i
        /\ proc' = [proc EXCEPT ![p] = [Idle EXCEPT !.at = "write", !.op = "create", !.id = i]]
    BY <1>4 DEF BeginCreate
  <2>2. /\ proc'[p].at = "write" /\ proc'[p].op = "create" /\ proc'[p].id = i
        /\ \A q \in Writers : q # p => proc'[q] = proc[q]
    BY <2>1, IdleTyped DEF FilesTypeOK, AProcess
  <2>3. disk[i].now = NoFile
    BY <2>1 DEF DirsKnown
  <2>4. ASSUME NEW q \in Writers, Writes(q)', proc'[q].id = i PROVE q = p
    BY <2>1, <2>2, <2>4 DEF Writes
  <2>5. ASSUME NEW q \in Writers, q # p PROVE WriteKnown(q)'
    <3>1. proc'[q] = proc[q] /\ WriteKnown(q)
      BY <2>2, <2>5 DEF WritesKnown
    <3>2. Writes(q) => proc[q].id # i
      BY <2>1 DEF Writes
    <3>3. ASSUME NEW r \in Writers, Writes(q), Writes(r)', proc'[r].id = proc[q].id PROVE Writes(r) /\ r # p
      BY <2>2, <3>2, <3>3 DEF Writes
    <3>4. ASSUME Writes(q), proc[q].op = "create", NEW r \in Writers, Writes(r)',
                 proc'[r].op = "create", proc'[r].id = proc[q].id
          PROVE  r = q
      BY <2>2, <3>1, <3>3, <3>4 DEF WriteKnown
    <3>5. proc[q].at \in {"write", "rename"} /\ proc[q].op = "create" =>
            \A r \in Writers :
              proc'[r].at \in {"write", "rename"} /\ proc'[r].op = "create" /\ proc'[r].id = proc[q].id
                => r = q
      BY <3>4 DEF Writes
    <3>6. UNCHANGED <<disk, dirs, stolen>>
      BY <2>1
    <3> QED BY <3>1, <3>5, <3>6 DEF WriteKnown, Writes
  <2>6. WriteKnown(p)'
    BY <2>1, <2>2, <2>3, <2>4 DEF WriteKnown, Writes
  <2> QED BY <2>5, <2>6 DEF WritesKnown
<1>5. ASSUME NEW p \in Writers, NEW i \in RecordIds,
             BeginUpdate(p, i, "edit") \/ BeginUpdate(p, i, "exit")
      PROVE  WritesKnown'
  <2>1. /\ UNCHANGED <<disk, dirs, stolen>> /\ proc'[p].at = "open" /\ proc'[p].op # "create"
        /\ \A q \in Writers : q # p => proc'[q] = proc[q]
    <3>1. PICK op \in {"edit", "exit"} : BeginUpdate(p, i, op)
      BY <1>5
    <3>2. /\ UNCHANGED <<disk, dirs, stolen>>
          /\ proc' = [proc EXCEPT ![p] = [@ EXCEPT !.at = "open", !.op = op, !.id = i, !.tries = 1]]
      BY <3>1 DEF BeginUpdate
    <3>3. proc'[p].at = "open" /\ proc'[p].op = op
      BY <3>2 DEF FilesTypeOK, AProcess
    <3> QED BY <3>2, <3>3 DEF FilesTypeOK
  <2> QED BY <1>1, <2>1
<1>6. ASSUME NEW p \in Writers, OpenLock(p) PROVE WritesKnown'
  <2>1. /\ UNCHANGED <<disk, dirs, stolen>> /\ proc'[p].at = "flock" /\ proc'[p].op = proc[p].op
        /\ \A q \in Writers : q # p => proc'[q] = proc[q]
    BY <1>6 DEF OpenLock, FilesTypeOK, AProcess
  <2>2. proc[p].op # "create"
    BY <1>6 DEF OpenLock, At, WritesKnown, WriteKnown
  <2> QED BY <1>1, <2>1, <2>2
<1>7. ASSUME NEW p \in Writers, TakeLock(p) PROVE WritesKnown'
  BY <1>3, <1>7 DEF TakeLock, At, FilePlaces
<1>8. ASSUME NEW p \in Writers, ConfirmLock(p) PROVE WritesKnown'
  <2>1. UNCHANGED <<disk, dirs, stolen>> /\ proc[p].at = "confirm"
    BY <1>8 DEF ConfirmLock, At
  <2>2. CASE FileGo(p, "load")
    BY <1>3, <2>1, <2>2 DEF FilePlaces
  <2>3. CASE proc' = [proc EXCEPT ![p] = Idle]
    BY <1>2, <2>1, <2>3
  <2>4. CASE proc' = [proc EXCEPT ![p].at = "open", ![p].tries = @ + 1]
    <3>1. /\ proc'[p].at = "open" /\ proc'[p].op = proc[p].op
          /\ \A q \in Writers : q # p => proc'[q] = proc[q]
      BY <2>4 DEF FilesTypeOK, AProcess
    <3>2. proc[p].op # "create"
      BY <2>1 DEF WritesKnown, WriteKnown
    <3> QED BY <1>1, <2>1, <3>1, <3>2
  <2> QED BY <1>8, <2>2, <2>3, <2>4 DEF ConfirmLock
<1>9. ASSUME NEW p \in Writers, LoadRecord(p) PROVE WritesKnown'
  <2>1. UNCHANGED <<disk, dirs, stolen>> /\ proc[p].at = "load"
    BY <1>9 DEF LoadRecord, At
  <2>2. CASE disk[proc[p].id].now \notin Nat
    BY <1>2, <1>9, <2>1, <2>2 DEF LoadRecord, Fails
  <2>3. CASE disk[proc[p].id].now \in Nat
    <3>1. proc' = [proc EXCEPT ![p] = [@ EXCEPT !.at = "write", !.read = disk[proc[p].id].now]]
      BY <1>9, <2>3 DEF LoadRecord
    <3>2. /\ proc'[p].at = "write" /\ proc'[p].op = proc[p].op /\ proc'[p].id = proc[p].id
          /\ proc'[p].read = disk[proc[p].id].now
          /\ \A q \in Writers : q # p => proc'[q] = proc[q]
      BY <3>1 DEF FilesTypeOK, AProcess
    <3>3. proc[p].op # "create"
      BY <2>1 DEF WritesKnown, WriteKnown
    <3>4. WriteKnown(p)'
      BY <2>1, <2>3, <3>2, <3>3 DEF WriteKnown
    <3> QED BY <2>1, <3>2, <3>3, <3>4, OthersKeepWrites
  <2> QED BY <2>2, <2>3
<1>10. ASSUME NEW p \in Writers, WriteTemp(p) PROVE WritesKnown'
  <2>1. UNCHANGED <<disk, stolen>> /\ dirs' = dirs \cup {proc[p].id} /\ proc[p].at = "write"
    BY <1>10 DEF WriteTemp, At
  <2>2. CASE Fails(p)
    BY <1>2, <2>1, <2>2 DEF Fails
  <2>3. CASE FileGo(p, "rename")
    <3>1. /\ proc'[p].at = "rename" /\ proc'[p].op = proc[p].op /\ proc'[p].id = proc[p].id
          /\ proc'[p].read = proc[p].read /\ \A q \in Writers : q # p => proc'[q] = proc[q]
      BY <2>3, FileGoes DEF FilePlaces
    <3>2. WriteKnown(p) /\ Writes(p)
      BY <2>1 DEF WritesKnown, Writes
    <3>3. \A q \in Writers : Writes(q)' => Writes(q)
      BY <3>1, <3>2 DEF Writes
    <3>4. \A q \in Writers : proc'[q].op = proc[q].op /\ proc'[q].id = proc[q].id
      BY <3>1
    <3>5. WriteKnown(p)'
      BY <2>1, <3>1, <3>2, <3>3, <3>4 DEF WriteKnown
    <3> QED BY <2>1, <3>1, <3>2, <3>5, OthersKeepWrites
  <2> QED BY <1>10, <2>2, <2>3 DEF WriteTemp
<1>11. ASSUME NEW p \in Writers, RenameRecord(p) PROVE WritesKnown'
  <2>1. /\ UNCHANGED <<dirs, stolen>> /\ proc[p].at = "rename" /\ FileGo(p, "sync")
        /\ disk' = [disk EXCEPT ![proc[p].id].now = proc[p].read + 1]
    BY <1>11 DEF RenameRecord, At
  <2>2. /\ proc'[p].at = "sync" /\ proc'[p].op = proc[p].op
        /\ \A q \in Writers : q # p => proc'[q] = proc[q]
    BY <2>1, FileGoes DEF FilePlaces
  <2>3. WriteKnown(p)'
    BY <2>2 DEF WriteKnown, Writes
  <2>4. /\ disk'[proc[p].id].now \in Nat
        /\ \A i \in RecordIds : i # proc[p].id => disk'[i] = disk[i]
    BY <2>1 DEF FilesTypeOK, AProcess
  <2>5. ASSUME NEW q \in Writers, q # p PROVE WriteKnown(q)'
    <3>1. proc'[q] = proc[q] /\ WriteKnown(q)
      BY <2>2, <2>5 DEF WritesKnown
    <3>2. Writes(q) /\ proc[q].id = proc[p].id => proc[q].id \in stolen /\ proc[q].op # "create"
      BY <2>1, <2>5, OneWriter DEF Writes
    <3>3. \A r \in Writers : Writes(r)' => Writes(r) /\ proc'[r] = proc[r]
      BY <2>2 DEF Writes
    <3>4. CASE Writes(q) /\ proc[q].id = proc[p].id
      BY <2>1, <2>4, <3>1, <3>2, <3>4 DEF WriteKnown, Writes
    <3>5. CASE Writes(q) /\ proc[q].id # proc[p].id
      BY <1>0, <2>1, <2>4, <3>1, <3>3, <3>5 DEF WriteKnown
    <3>6. CASE ~Writes(q)
      BY <2>1, <3>1, <3>6 DEF WriteKnown, Writes
    <3> QED BY <3>4, <3>5, <3>6
  <2> QED BY <2>3, <2>5 DEF WritesKnown
<1>12. ASSUME NEW p \in Writers, SyncDirectory(p) PROVE WritesKnown'
  <2>1. UNCHANGED <<dirs, stolen>> /\ \A i \in RecordIds : disk'[i].now = disk[i].now
    <3>1. CASE UNCHANGED disk
      BY <1>12, <3>1 DEF SyncDirectory
    <3>2. CASE disk' = [disk EXCEPT ![proc[p].id].durable = disk[proc[p].id].now]
      <4>1. \A i \in RecordIds : disk'[i].now = disk[i].now
        BY <3>2 DEF FilesTypeOK, AProcess
      <4> QED BY <1>12, <4>1 DEF SyncDirectory
    <3> QED BY <1>12, <3>1, <3>2 DEF SyncDirectory
  <2>2. CASE Fails(p)
    BY <1>2, <2>1, <2>2 DEF Fails
  <2>3. CASE ~Fails(p)
    <3>1. PICK place \in {"archive", "unlock"} : FileGo(p, place)
      BY <1>12, <2>3 DEF SyncDirectory
    <3> QED BY <1>3, <2>1, <3>1 DEF FilePlaces
  <2> QED BY <2>2, <2>3
<1>13. ASSUME NEW p \in Writers, ArchiveExited(p) \/ Unlock(p) PROVE WritesKnown'
  <2>1. UNCHANGED <<disk, dirs, stolen>> /\ \E place \in {"unlock", "emit"} : FileGo(p, place)
    BY <1>13 DEF ArchiveExited, Unlock
  <2> QED BY <1>3, <2>1 DEF FilePlaces
<1>14. ASSUME NEW p \in Writers, EmitChange(p) \/ DieInUpdate(p) PROVE WritesKnown'
  BY <1>2, <1>14 DEF EmitChange, DieInUpdate, Fails
<1>15. CASE LosePower
  <2>1. \A q \in Writers : proc'[q] = Idle
    BY <1>15 DEF LosePower
  <2> QED BY <2>1, IdleTyped DEF WritesKnown, WriteKnown, Writes
<1>16. CASE UNCHANGED <<proc, disk, dirs>> /\ stolen \subseteq stolen'
  BY <1>0, <1>16 DEF WritesKnown, WriteKnown, Writes
<1> QED
  BY <1>4, <1>5, <1>6, <1>7, <1>8, <1>9, <1>10, <1>11, <1>12, <1>13, <1>14, <1>15, <1>16
  DEF FilesNext, LoseLockFile, ScanRecord, BeginScan, EndScan

-----------------------------------------------------------------------------
(* What a power loss leaves                                                *)

LEMMA EventsTyped ==
  ASSUME FilesTypeOK, NEW h \in heard PROVE h.event.id \in RecordIds /\ h.event.version \in Nat
BY DEF FilesTypeOK, AnEvent

(* A step of p that takes no record back.                                  *)
LEMMA DurableKept ==
  ASSUME FilesTypeOK, Durable, NEW p \in Writers, UNCHANGED stolen,
         \A q \in Writers : q # p => proc'[q] = proc[q],
         \A i \in RecordIds \ stolen : \A v \in Nat :
           /\ AtLeast(disk[i].now, v) => AtLeast(disk'[i].now, v)
           /\ AtLeast(disk[i].durable, v) => AtLeast(disk'[i].durable, v),
         \A i \in RecordIds \ stolen :
           disk'[i].durable \in Nat => AtLeast(disk'[i].now, disk'[i].durable),
         proc'[p].id \notin stolen =>
           /\ proc'[p].at = "sync" => AtLeast(disk'[proc'[p].id].now, proc'[p].read + 1)
           /\ proc'[p].at \in {"archive", "unlock", "emit"} =>
                AtLeast(disk'[proc'[p].id].durable, proc'[p].read + 1),
         \A h \in heard' : h \in heard \/
           (h.event.id \notin stolen => AtLeast(disk'[h.event.id].durable, h.event.version))
  PROVE  Durable'
<1>1. ASSUME NEW q \in Writers, q # p, proc[q].id \notin stolen
      PROVE  /\ proc[q].at = "sync" => AtLeast(disk'[proc[q].id].now, proc[q].read + 1)
             /\ proc[q].at \in {"archive", "unlock", "emit"} =>
                  AtLeast(disk'[proc[q].id].durable, proc[q].read + 1)
  <2>1. proc[q].id \in RecordIds \ stolen /\ proc[q].read + 1 \in Nat
    BY <1>1 DEF FilesTypeOK, AProcess
  <2>2. /\ proc[q].at = "sync" => AtLeast(disk[proc[q].id].now, proc[q].read + 1)
        /\ proc[q].at \in {"archive", "unlock", "emit"} =>
             AtLeast(disk[proc[q].id].durable, proc[q].read + 1)
    BY <1>1 DEF Durable
  <2> QED BY <2>1, <2>2
<1>2. \A q \in Writers : proc'[q].id \notin stolen =>
        /\ proc'[q].at = "sync" => AtLeast(disk'[proc'[q].id].now, proc'[q].read + 1)
        /\ proc'[q].at \in {"archive", "unlock", "emit"} =>
             AtLeast(disk'[proc'[q].id].durable, proc'[q].read + 1)
  BY <1>1
<1>3. \A h \in heard' : h.event.id \notin stolen => AtLeast(disk'[h.event.id].durable, h.event.version)
  <2>1. ASSUME NEW h \in heard, h.event.id \notin stolen
        PROVE  AtLeast(disk'[h.event.id].durable, h.event.version)
    <3>1. AtLeast(disk[h.event.id].durable, h.event.version)
      BY <2>1 DEF Durable, ReportedIsDurable, AtLeast
    <3> QED BY <2>1, <3>1, EventsTyped
  <2> QED BY <2>1
<1> QED BY <1>2, <1>3 DEF Durable, ReportedIsDurable, AtLeast

LEMMA DurableStays ==
  ASSUME FilesTypeOK, WritesKnown, Durable, FilesNext PROVE Durable'
<1>0. \A q \in Writers : proc[q].id \in RecordIds /\ proc[q].read \in Nat
  BY DEF FilesTypeOK, AProcess
<1>1. \A i \in RecordIds \ stolen : disk[i].durable \in Nat => AtLeast(disk[i].now, disk[i].durable)
  BY DEF Durable
(* nothing is written, and p reports nothing it has not synced *)
<1>2. ASSUME NEW p \in Writers, UNCHANGED <<disk, stolen>>,
             \A q \in Writers : q # p => proc'[q] = proc[q],
             \/ proc'[p].at \notin {"sync", "archive", "unlock", "emit"}
             \/ /\ proc[p].at \in {"archive", "unlock", "emit"} /\ proc'[p].at \in {"unlock", "emit"}
                /\ proc'[p].id = proc[p].id /\ proc'[p].read = proc[p].read,
             \A h \in heard' : h \in heard \/
               /\ proc[p].at \in {"archive", "emit"}
               /\ h.event.id = proc[p].id /\ h.event.version = proc[p].read + 1
      PROVE  Durable'
  <2>1. proc[p].id \notin stolen /\ proc[p].at \in {"archive", "unlock", "emit"} =>
          AtLeast(disk'[proc[p].id].durable, proc[p].read + 1)
    BY <1>2 DEF Durable
  <2>2. proc'[p].id \notin stolen =>
          /\ proc'[p].at = "sync" => AtLeast(disk'[proc'[p].id].now, proc'[p].read + 1)
          /\ proc'[p].at \in {"archive", "unlock", "emit"} =>
               AtLeast(disk'[proc'[p].id].durable, proc'[p].read + 1)
    BY <1>2, <2>1
  <2>3. \A h \in heard' : h \in heard \/
          (h.event.id \notin stolen => AtLeast(disk'[h.event.id].durable, h.event.version))
    BY <1>2, <2>1
  <2>4. disk' = disk
    BY <1>2
  <2> QED BY <1>1, <1>2, <2>2, <2>3, <2>4, DurableKept
<1>3. ASSUME NEW p \in Writers, Fails(p), UNCHANGED <<disk, stolen, heard>> PROVE Durable'
  <2>1. proc'[p].at = "idle" /\ \A q \in Writers : q # p => proc'[q] = proc[q]
    BY <1>3, FileStops DEF Fails
  <2> QED BY <1>2, <1>3, <2>1
<1>4. ASSUME NEW p \in Writers, NEW i \in RecordIds,
             BeginCreate(p, i) \/ BeginUpdate(p, i, "edit") \/ BeginUpdate(p, i, "exit")
      PROVE  Durable'
  <2>1. UNCHANGED <<disk, stolen, heard>> /\ \A q \in Writers : q # p => proc'[q] = proc[q]
    <3>1. CASE BeginCreate(p, i)
      BY <3>1 DEF BeginCreate, FilesTypeOK
    <3>2. CASE BeginUpdate(p, i, "edit") \/ BeginUpdate(p, i, "exit")
      BY <3>2 DEF BeginUpdate, FilesTypeOK
    <3> QED BY <1>4, <3>1, <3>2
  <2>2. proc'[p].at \in {"write", "open"}
    <3>1. CASE BeginCreate(p, i)
      BY <3>1, IdleTyped DEF BeginCreate, FilesTypeOK, AProcess
    <3>2. CASE BeginUpdate(p, i, "edit") \/ BeginUpdate(p, i, "exit")
      <4>1. PICK op \in {"edit", "exit"} : BeginUpdate(p, i, op)
        BY <3>2
      <4> QED BY <4>1 DEF BeginUpdate, FilesTypeOK, AProcess
    <3> QED BY <1>4, <3>1, <3>2
  <2> QED BY <1>2, <2>1, <2>2
<1>5. ASSUME NEW p \in Writers, OpenLock(p) PROVE Durable'
  <2>1. /\ UNCHANGED <<disk, stolen, heard>> /\ proc'[p].at = "flock"
        /\ \A q \in Writers : q # p => proc'[q] = proc[q]
    BY <1>5 DEF OpenLock, FilesTypeOK, AProcess
  <2> QED BY <1>2, <2>1
<1>6. ASSUME NEW p \in Writers, TakeLock(p) PROVE Durable'
  <2>1. /\ UNCHANGED <<disk, stolen, heard>> /\ proc'[p].at = "confirm"
        /\ \A q \in Writers : q # p => proc'[q] = proc[q]
    BY <1>6, FileGoes DEF TakeLock, FilePlaces
  <2> QED BY <1>2, <2>1
<1>7. ASSUME NEW p \in Writers, ConfirmLock(p) PROVE Durable'
  <2>1. UNCHANGED <<disk, stolen, heard>>
    BY <1>7 DEF ConfirmLock
  <2>2. proc'[p].at \in {"idle", "open", "load"} /\ \A q \in Writers : q # p => proc'[q] = proc[q]
    <3>1. CASE FileGo(p, "load")
      BY <3>1, FileGoes DEF FilePlaces
    <3>2. CASE proc' = [proc EXCEPT ![p] = Idle]
      BY <3>2, FileStops
    <3>3. CASE proc' = [proc EXCEPT ![p].at = "open", ![p].tries = @ + 1]
      BY <3>3 DEF FilesTypeOK, AProcess
    <3> QED BY <1>7, <3>1, <3>2, <3>3 DEF ConfirmLock
  <2> QED BY <1>2, <2>1, <2>2
<1>8. ASSUME NEW p \in Writers, LoadRecord(p) PROVE Durable'
  <2>1. UNCHANGED <<disk, stolen, heard>>
    BY <1>8 DEF LoadRecord
  <2>2. CASE disk[proc[p].id].now \notin Nat
    BY <1>3, <1>8, <2>1, <2>2 DEF LoadRecord
  <2>3. CASE disk[proc[p].id].now \in Nat
    <3>1. proc' = [proc EXCEPT ![p] = [@ EXCEPT !.at = "write", !.read = disk[proc[p].id].now]]
      BY <1>8, <2>3 DEF LoadRecord
    <3>2. proc'[p].at = "write" /\ \A q \in Writers : q # p => proc'[q] = proc[q]
      BY <3>1 DEF FilesTypeOK, AProcess
    <3> QED BY <1>2, <2>1, <3>2
  <2> QED BY <2>2, <2>3
<1>9. ASSUME NEW p \in Writers, WriteTemp(p) PROVE Durable'
  <2>1. UNCHANGED <<disk, stolen, heard>>
    BY <1>9 DEF WriteTemp
  <2>2. CASE Fails(p)
    BY <1>3, <2>1, <2>2
  <2>3. CASE FileGo(p, "rename")
    <3>1. proc'[p].at = "rename" /\ \A q \in Writers : q # p => proc'[q] = proc[q]
      BY <2>3, FileGoes DEF FilePlaces
    <3> QED BY <1>2, <2>1, <3>1
  <2> QED BY <1>9, <2>2, <2>3 DEF WriteTemp
<1>10. ASSUME NEW p \in Writers, RenameRecord(p) PROVE Durable'
  <2> DEFINE id == proc[p].id
             new == proc[p].read + 1
  <2>1. /\ UNCHANGED <<stolen, heard>> /\ FileGo(p, "sync") /\ proc[p].at = "rename"
        /\ disk' = [disk EXCEPT ![id].now = new]
    BY <1>10 DEF RenameRecord, At
  <2>2. /\ proc'[p].at = "sync" /\ proc'[p].id = id /\ proc'[p].read = proc[p].read
        /\ \A q \in Writers : q # p => proc'[q] = proc[q]
    BY <2>1, FileGoes DEF FilePlaces
  <2>3. \A i \in RecordIds : disk'[i].durable = disk[i].durable /\ (i # id => disk'[i].now = disk[i].now)
    BY <2>1 DEF FilesTypeOK
  <2>4. id \in RecordIds /\ new \in Nat /\ disk'[id].now = new /\ proc[p].read \in Nat
    BY <1>0, <2>1 DEF FilesTypeOK
  <2>5. id \notin stolen => disk[id].now = NoFile \/ disk[id].now = proc[p].read
    BY <2>1 DEF WritesKnown, WriteKnown, Writes
  <2>6. \A v \in Nat : id \notin stolen /\ AtLeast(disk[id].now, v) => new >= v
    BY <2>4, <2>5, FilesAssumption DEF AtLeast
  <2>7. \A i \in RecordIds \ stolen : \A v \in Nat :
          /\ AtLeast(disk[i].now, v) => AtLeast(disk'[i].now, v)
          /\ AtLeast(disk[i].durable, v) => AtLeast(disk'[i].durable, v)
    BY <2>3, <2>4, <2>6 DEF AtLeast
  <2>8. \A i \in RecordIds \ stolen : disk'[i].durable \in Nat => AtLeast(disk'[i].now, disk'[i].durable)
    BY <1>1, <2>3, <2>7
  <2>9. proc'[p].id \notin stolen =>
          /\ proc'[p].at = "sync" => AtLeast(disk'[proc'[p].id].now, proc'[p].read + 1)
          /\ proc'[p].at \in {"archive", "unlock", "emit"} =>
               AtLeast(disk'[proc'[p].id].durable, proc'[p].read + 1)
    BY <2>2, <2>4 DEF AtLeast
  <2> HIDE DEF id, new
  <2> QED BY <2>1, <2>2, <2>7, <2>8, <2>9, DurableKept
<1>11. ASSUME NEW p \in Writers, SyncDirectory(p) PROVE Durable'
  <2>1. CASE Fails(p) /\ UNCHANGED disk
    BY <1>3, <1>11, <2>1 DEF SyncDirectory
  <2>2. CASE /\ disk' = [disk EXCEPT ![proc[p].id].durable = disk[proc[p].id].now]
             /\ FileGo(p, IF proc[p].op = "exit" THEN "archive" ELSE "unlock")
    <3> DEFINE id == proc[p].id
    <3>1. UNCHANGED <<stolen, heard>> /\ proc[p].at = "sync" /\ id \in RecordIds
      BY <1>0, <1>11 DEF SyncDirectory, At
    <3>2. /\ proc'[p].at \in {"archive", "unlock"} /\ proc'[p].id = id /\ proc'[p].read = proc[p].read
          /\ \A q \in Writers : q # p => proc'[q] = proc[q]
      BY <2>2, FileGoes DEF FilePlaces
    <3>3. \A i \in RecordIds : disk'[i].now = disk[i].now /\ (i # id => disk'[i].durable = disk[i].durable)
      BY <2>2 DEF FilesTypeOK
    <3>4. disk'[id].durable = disk[id].now
      BY <2>2, <3>1 DEF FilesTypeOK
    <3>5. id \notin stolen => AtLeast(disk[id].now, proc[p].read + 1)
      BY <3>1 DEF Durable
    <3>6. \A v \in Nat : id \notin stolen /\ AtLeast(disk[id].durable, v) => AtLeast(disk[id].now, v)
      BY <1>1, <3>1 DEF AtLeast
    <3>7. \A i \in RecordIds \ stolen : \A v \in Nat :
            /\ AtLeast(disk[i].now, v) => AtLeast(disk'[i].now, v)
            /\ AtLeast(disk[i].durable, v) => AtLeast(disk'[i].durable, v)
      BY <3>3, <3>4, <3>6
    <3>8. \A i \in RecordIds \ stolen : disk'[i].durable \in Nat => AtLeast(disk'[i].now, disk'[i].durable)
      <4>1. disk'[id].durable \in Nat => AtLeast(disk'[id].now, disk'[id].durable)
        BY <3>1, <3>3, <3>4 DEF AtLeast
      <4> QED BY <1>1, <3>3, <4>1
    <3>9. proc'[p].id \notin stolen =>
            /\ proc'[p].at = "sync" => AtLeast(disk'[proc'[p].id].now, proc'[p].read + 1)
            /\ proc'[p].at \in {"archive", "unlock", "emit"} =>
                 AtLeast(disk'[proc'[p].id].durable, proc'[p].read + 1)
      BY <3>2, <3>4, <3>5
    <3> HIDE DEF id
    <3> QED BY <3>1, <3>2, <3>7, <3>8, <3>9, DurableKept
  <2> QED BY <1>11, <2>1, <2>2 DEF SyncDirectory
<1>12. ASSUME NEW p \in Writers, NEW type, Emit(p, type), NEW h \in heard'
       PROVE  h \in heard \/ (h.event.id = proc[p].id /\ h.event.version = proc[p].read + 1)
  BY <1>12 DEF Emit
<1>13. ASSUME NEW p \in Writers, ArchiveExited(p) PROVE Durable'
  <2>1. /\ UNCHANGED <<disk, stolen>> /\ proc[p].at = "archive" /\ FileGo(p, "unlock")
        /\ UNCHANGED heard \/ Emit(p, "archive-failed")
    BY <1>13 DEF ArchiveExited, At
  <2>2. /\ proc'[p].at = "unlock" /\ proc'[p].id = proc[p].id /\ proc'[p].read = proc[p].read
        /\ \A q \in Writers : q # p => proc'[q] = proc[q]
    BY <2>1, FileGoes DEF FilePlaces
  <2>3. \A h \in heard' : h \in heard \/ (h.event.id = proc[p].id /\ h.event.version = proc[p].read + 1)
    BY <1>12, <2>1
  <2> QED BY <1>2, <2>1, <2>2, <2>3
<1>14. ASSUME NEW p \in Writers, Unlock(p) PROVE Durable'
  <2>1. UNCHANGED <<disk, stolen, heard>> /\ proc[p].at = "unlock" /\ FileGo(p, "emit")
    BY <1>14 DEF Unlock, At
  <2>2. /\ proc'[p].at = "emit" /\ proc'[p].id = proc[p].id /\ proc'[p].read = proc[p].read
        /\ \A q \in Writers : q # p => proc'[q] = proc[q]
    BY <2>1, FileGoes DEF FilePlaces
  <2> QED BY <1>2, <2>1, <2>2
<1>15. ASSUME NEW p \in Writers, EmitChange(p) PROVE Durable'
  <2>1. /\ UNCHANGED <<disk, stolen>> /\ proc[p].at = "emit" /\ Emit(p, proc[p].op)
        /\ proc' = [proc EXCEPT ![p] = Idle]
    BY <1>15 DEF EmitChange, At
  <2>2. proc'[p].at = "idle" /\ \A q \in Writers : q # p => proc'[q] = proc[q]
    BY <2>1, FileStops
  <2>3. \A h \in heard' : h \in heard \/ (h.event.id = proc[p].id /\ h.event.version = proc[p].read + 1)
    BY <1>12, <2>1
  <2> QED BY <1>2, <2>1, <2>2, <2>3
<1>16. ASSUME NEW p \in Writers, DieInUpdate(p) PROVE Durable'
  BY <1>3, <1>16 DEF DieInUpdate
<1>17. CASE LosePower
  <2>1. \A i \in RecordIds : /\ disk'[i].now = disk'[i].durable
                             /\ disk'[i].durable \in {disk[i].durable, disk[i].now}
    BY <1>17 DEF LosePower
  <2>2. UNCHANGED <<stolen, heard>> /\ \A q \in Writers : proc'[q] = Idle
    BY <1>17 DEF LosePower
  <2>3. ASSUME NEW i \in RecordIds \ stolen, NEW v \in Nat, AtLeast(disk[i].durable, v)
        PROVE  AtLeast(disk'[i].durable, v)
    BY <1>1, <2>1, <2>3 DEF AtLeast
  <2>4. \A h \in heard : h.event.id \notin stolen =>
          AtLeast(disk'[h.event.id].durable, h.event.version)
    <3>1. ASSUME NEW h \in heard, h.event.id \notin stolen
          PROVE  AtLeast(disk[h.event.id].durable, h.event.version)
      BY <3>1 DEF Durable, ReportedIsDurable, AtLeast
    <3> QED BY <2>3, <3>1, EventsTyped
  <2>5. \A i \in RecordIds \ stolen : disk'[i].durable \in Nat => AtLeast(disk'[i].now, disk'[i].durable)
    BY <2>1 DEF AtLeast
  <2> QED BY <2>2, <2>4, <2>5, IdleTyped DEF Durable, ReportedIsDurable, AtLeast
<1>18. CASE UNCHANGED <<disk, proc, heard>> /\ stolen \subseteq stolen'
  BY <1>18 DEF Durable, ReportedIsDurable
<1> QED
  BY <1>4, <1>5, <1>6, <1>7, <1>8, <1>9, <1>10, <1>11, <1>13, <1>14, <1>15, <1>16, <1>17, <1>18
  DEF FilesNext, LoseLockFile, ScanRecord, BeginScan, EndScan

-----------------------------------------------------------------------------
(* Scans                                                                   *)

LEMMA ScanStays ==
  ASSUME FilesTypeOK, DirsKnown, ScanKnown, FilesNext PROVE ScanKnown'
<1>0. scan \in AScan /\ \A i \in RecordIds : disk[i].now \in Readings
  BY DEF FilesTypeOK
<1>1. CASE UNCHANGED scan /\ \A i \in RecordIds : disk'[i].now = disk[i].now
  BY <1>1 DEF ScanKnown
<1>2. CASE scan' = NoScan
  BY <1>2, NoScanTyped, FilesAssumption DEF ScanKnown
<1>3. ASSUME NEW p \in Writers, RenameRecord(p) PROVE ScanKnown'
  <2> DEFINE id == proc[p].id
             new == proc[p].read + 1
  <2>1. disk' = [disk EXCEPT ![id].now = new] /\ Seen(id, new)
    BY <1>3 DEF RenameRecord
  <2>2. id \in RecordIds
    BY DEF FilesTypeOK, AProcess
  <2>3. \A i \in RecordIds : disk'[i].now = (IF i = id THEN new ELSE disk[i].now)
    BY <2>1, <2>2 DEF FilesTypeOK
  <2> HIDE DEF id, new
  <2>4. CASE scan.at = "idle"
    <3>1. scan' = scan
      BY <1>0, <2>1, <2>2, <2>4 DEF Seen, AScan
    <3> QED BY <2>4, <3>1 DEF ScanKnown
  <2>5. CASE scan.at # "idle"
    <3>1. /\ scan'.at = scan.at /\ scan'.left = scan.left /\ scan'.found = scan.found
          /\ \A i \in RecordIds : scan'.was[i] = (IF i = id THEN scan.was[i] \cup {new} ELSE scan.was[i])
      BY <1>0, <2>1, <2>2, <2>5 DEF Seen, AScan
    <3> QED BY <2>3, <2>5, <3>1 DEF ScanKnown
  <2> QED BY <2>4, <2>5
<1>4. ASSUME NEW p \in Writers, SyncDirectory(p) PROVE ScanKnown'
  <2>1. UNCHANGED scan
    BY <1>4 DEF SyncDirectory
  <2>2. CASE UNCHANGED disk
    BY <1>1, <2>1, <2>2
  <2>3. CASE disk' = [disk EXCEPT ![proc[p].id].durable = disk[proc[p].id].now]
    <3>1. \A i \in RecordIds : disk'[i].now = disk[i].now
      BY <2>3 DEF FilesTypeOK, AProcess
    <3> QED BY <1>1, <2>1, <3>1
  <2> QED BY <1>4, <2>2, <2>3 DEF SyncDirectory
<1>5. CASE BeginScan
  <2>1. /\ scan' = [at |-> "reading", left |-> dirs, found |-> NoScan.found,
                    was |-> [i \in RecordIds |-> {disk[i].now}]]
        /\ UNCHANGED disk
    BY <1>5 DEF BeginScan
  <2>2. /\ scan'.at = "reading" /\ scan'.left = dirs
        /\ \A i \in RecordIds : scan'.found[i] = NoFile /\ scan'.was[i] = {disk[i].now}
    BY <2>1, NoScanTyped
  <2>3. \A i \in RecordIds : i \notin dirs => disk[i].now = NoFile
    BY DEF DirsKnown
  <2> QED BY <2>1, <2>2, <2>3, FilesAssumption DEF ScanKnown
<1>6. ASSUME NEW i \in RecordIds, ScanRecord(i) PROVE ScanKnown'
  <2> DEFINE v == disk[i].now
  <2>1. /\ scan.at = "reading" /\ UNCHANGED disk
        /\ scan' = [scan EXCEPT !.left = @ \ {i}, !.found[i] = IF v \in Nat THEN v ELSE @,
                      !.at = IF v = Garbled THEN "failed"
                             ELSE IF scan.left = {i} THEN "done" ELSE "reading"]
    BY <1>6 DEF ScanRecord
  <2>2. /\ scan'.left = scan.left \ {i} /\ scan'.was = scan.was
        /\ scan'.at = (IF v = Garbled THEN "failed"
                       ELSE IF scan.left = {i} THEN "done" ELSE "reading")
        /\ scan'.found[i] = (IF v \in Nat THEN v ELSE scan.found[i])
        /\ \A j \in RecordIds : j # i => scan'.found[j] = scan.found[j]
    BY <1>0, <2>1 DEF AScan
  <2>3. v \in scan.was[i] /\ (v \in Nat \/ v \in {NoFile, OtherBuild} \/ v = Garbled)
    BY <1>0, <2>1 DEF ScanKnown, Readings
  <2> HIDE DEF v
  <2>4. \A j \in RecordIds : scan'.found[j] \in Nat => scan'.found[j] \in scan'.was[j]
    BY <2>2, <2>3 DEF ScanKnown
  <2>5. ASSUME scan'.at \in {"reading", "done"}, NEW j \in RecordIds,
               j \notin scan'.left, scan'.found[j] \notin Nat
        PROVE  scan'.was[j] \cap {NoFile, OtherBuild} # {}
    <3>1. CASE j = i
      BY <2>2, <2>3, <2>5, <3>1
    <3>2. CASE j # i
      BY <2>1, <2>2, <2>5, <3>2 DEF ScanKnown
    <3> QED BY <3>1, <3>2
  <2>6. scan'.at = "done" => scan'.left = {}
    BY <2>2
  <2>7. \A j \in RecordIds : disk'[j].now \in scan'.was[j]
    BY <2>1, <2>2 DEF ScanKnown
  <2> QED BY <2>4, <2>5, <2>6, <2>7 DEF ScanKnown
<1> QED
  BY <1>1, <1>2, <1>3, <1>4, <1>5, <1>6
  DEF FilesNext, BeginCreate, BeginUpdate, OpenLock, TakeLock, ConfirmLock, LoadRecord, WriteTemp,
      ArchiveExited, Unlock, EmitChange, DieInUpdate, LosePower, LoseLockFile, EndScan

-----------------------------------------------------------------------------
(* The theorems                                                            *)

LEMMA FilesBegin == FilesInit => FilesInv
<1> SUFFICES ASSUME FilesInit PROVE FilesInv
  OBVIOUS
<1>1. PICK first \in [RecordIds -> {NoFile, OtherBuild, Garbled, 0}] :
        /\ disk = [i \in RecordIds |-> [now |-> first[i], durable |-> first[i]]]
        /\ dirs = {i \in RecordIds : first[i] # NoFile}
  BY DEF FilesInit
<1>2. /\ lockFile = [i \in RecordIds |-> 0] /\ flocks = <<>> /\ stolen = {}
      /\ proc = [p \in Writers |-> Idle] /\ scan = NoScan /\ heard = {}
  BY DEF FilesInit
<1>3. \A i \in RecordIds : disk[i].now = first[i] /\ disk[i].durable = first[i]
  BY <1>1
<1>4. FilesTypeOK
  <2>1. disk \in [RecordIds -> [now : Readings, durable : Readings]]
    BY <1>1 DEF Readings
  <2>2. proc \in [Writers -> AProcess] /\ scan \in AScan
    BY <1>2, IdleTyped, NoScanTyped
  <2>3. flocks \in Seq(SUBSET Writers) /\ Len(flocks) = 0
    BY <1>2
  <2> QED BY <1>1, <1>2, <2>1, <2>2, <2>3 DEF FilesTypeOK
<1>5. \A p \in Writers : proc[p] = Idle
  BY <1>2
<1>6. LocksHeld
  BY <1>5, IdleTyped DEF LocksHeld, LockHeld, Locked, LockedPlaces
<1>7. DirsKnown
  BY <1>1, <1>3 DEF DirsKnown
<1>8. WritesKnown
  BY <1>5, IdleTyped DEF WritesKnown, WriteKnown, Writes
<1>9. Durable
  <2>1. \A i \in RecordIds \ stolen : disk[i].durable \in Nat => AtLeast(disk[i].now, disk[i].durable)
    BY <1>3 DEF AtLeast
  <2> QED BY <1>2, <1>5, <2>1, IdleTyped DEF Durable, ReportedIsDurable
<1>10. ScanKnown
  BY <1>2, NoScanTyped, FilesAssumption DEF ScanKnown
<1> QED BY <1>4, <1>6, <1>7, <1>8, <1>9, <1>10 DEF FilesInv

LEMMA FilesStep == FilesInv /\ [FilesNext]_fileVars => FilesInv'
<1> SUFFICES ASSUME FilesInv, [FilesNext]_fileVars PROVE FilesInv'
  OBVIOUS
<1>1. CASE FilesNext
  BY <1>1, FilesTyped, LocksStay, DirsStay, WritesStay, DurableStays, ScanStays DEF FilesInv
<1>2. CASE UNCHANGED fileVars
  BY <1>2 DEF fileVars, fileBounds, FilesInv, FilesTypeOK, LocksHeld, LockHeld, Locked, DirsKnown,
      WritesKnown, WriteKnown, Writes, Durable, ReportedIsDurable, ScanKnown
<1> QED BY <1>1, <1>2

(* What is known of the state files throughout: whoever is past            *)
(* Locks::acquire holds the lock the path names, a record is written by    *)
(* the one process that read it, and nothing that is synced is lost.       *)
THEOREM FilesInvariance == FilesSpec => []FilesInv
<1>1. FilesInit => FilesInv
  BY FilesBegin
<1>2. FilesInv /\ [FilesNext]_fileVars => FilesInv'
  BY FilesStep
<1> QED BY <1>1, <1>2, PTL DEF FilesSpec

(* A locked read is current until the rename, a scan without a lock is     *)
(* honest, and what was emitted survives a power loss (Locks::acquire,     *)
(* AgentStore::scan and save, TxCore::emit).                               *)
THEOREM FilesAreHeld == FilesSpec => []FilesHold
<1>1. FilesInv => FilesHold
  <2> SUFFICES ASSUME FilesInv PROVE FilesHold
    OBVIOUS
  <2>1. LockedReadIsCurrent
    BY DEF FilesInv, WritesKnown, WriteKnown, Writes, LockedReadIsCurrent
  <2>2. ScanIsHonest
    <3> SUFFICES ASSUME scan.at = "done", NEW i \in RecordIds
                 PROVE  IF scan.found[i] \in Nat THEN scan.found[i] \in scan.was[i]
                        ELSE scan.was[i] \cap {NoFile, OtherBuild} # {}
      BY DEF ScanIsHonest
    <3> QED BY DEF FilesInv, ScanKnown
  <2>3. ReportedIsDurable
    BY DEF FilesInv, Durable
  <2> QED BY <2>1, <2>2, <2>3 DEF FilesHold
<1> QED BY <1>1, FilesInvariance, PTL
=============================================================================
