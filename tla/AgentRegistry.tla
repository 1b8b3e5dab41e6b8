--------------------------- MODULE AgentRegistry ---------------------------
(***************************************************************************)
(* What the record store of tx-core promises, whatever processes, locks    *)
(* and tmux sessions lie behind it: one record per agent, changed one      *)
(* agent at a time, and a name that belongs to one running agent only.     *)
(* AgentLifecycle implements it.                                           *)
(***************************************************************************)
CONSTANTS
  Ids,        \* agent ids; one is minted per create and never reused
  Names,      \* agent names
  Data,       \* the rest of a record: tags, engine data, plugin data
  None        \* an id without a record

VARIABLE record

LiveStates == {"starting", "idle", "working"}
Record == [name : Names, state : LiveStates \cup {"ended"}, data : Data]

Running(r) == r # None /\ r.state # "ended"

(* The running agents other than i leave name n alone. *)
NameFree(n, i) ==
  \A j \in Ids \ {i} : Running(record[j]) => record[j].name # n

TypeOK == record \in [Ids -> Record \cup {None}]

(* No two running agents answer to one name: create, rename and respawn    *)
(* are refused a name a running agent holds (README, "core").              *)
UniqueRunningNames ==
  \A i, j \in Ids :
    Running(record[i]) /\ Running(record[j]) /\ record[i].name = record[j].name
      => i = j

----------------------------------------------------------------------------
Init == record = [i \in Ids |-> None]

Write(i, r) == record' = [record EXCEPT ![i] = r]

(* A launched program is starting, or has ended before it could be linked. *)
Launched == {"starting", "ended"}

Create(i) ==
  /\ record[i] = None
  /\ \E n \in Names, s \in Launched, d \in Data :
       /\ NameFree(n, i)
       /\ Write(i, [name |-> n, state |-> s, data |-> d])

Respawn(i) ==
  /\ record[i] # None
  /\ record[i].state = "ended"
  /\ NameFree(record[i].name, i)
  /\ \E s \in Launched, d \in Data :
       Write(i, [record[i] EXCEPT !.state = s, !.data = d])

(* Only an agent whose run is not over moves, and never back to starting. *)
Move(i) ==
  /\ Running(record[i])
  /\ \E s \in {"idle", "working", record[i].state}, d \in Data :
       Write(i, [record[i] EXCEPT !.state = s, !.data = d])

End(i) ==
  /\ Running(record[i])
  /\ \E d \in Data : Write(i, [record[i] EXCEPT !.state = "ended", !.data = d])

Rename(i) ==
  /\ record[i] # None
  /\ \E n \in Names :
       /\ NameFree(n, i)
       /\ Write(i, [record[i] EXCEPT !.name = n])

Annotate(i) ==
  /\ record[i] # None
  /\ \E d \in Data : Write(i, [record[i] EXCEPT !.data = d])

Next ==
  \E i \in Ids :
    Create(i) \/ Respawn(i) \/ Move(i) \/ End(i) \/ Rename(i) \/ Annotate(i)

Spec == Init /\ [][Next]_record
============================================================================
