-------------------------- MODULE MessageDelivery --------------------------
(***************************************************************************)
(* What reaches the pane of one agent when several tx processes type into  *)
(* it: messages, the engine's stop line and its interrupt key (send_message*)
(* stop_locked and interrupt_agent of tx-core/src/core.rs, messaging.rs,   *)
(* tmux.rs).  A text is one or more send-keys calls, then a pause, then    *)
(* Enter, and tmux serves whoever calls; only <id>.lock keeps deliveries   *)
(* apart.  keys is what the pane was sent, key by key.                     *)
(***************************************************************************)
EXTENDS Integers, Sequences

CONSTANTS
  Deliveries,  \* calls of send_message, stop and interrupt, one process each
  Kind,        \* Kind[d]: "message", "stop" or "interrupt"
  Parts,       \* Parts[d]: send-keys calls its text takes
  User,        \* the operator, attached to the session
  None,        \* no process, no pane
  MaxPanes,    \* bound: launches of the agent
  Budget       \* bounds: faults, keys the operator types

Kinds == {"message", "stop", "interrupt"}
BudgetKeys == {"faults", "typing"}
Panes == 1 .. MaxPanes

ASSUME DeliveryAssumption ==
  /\ Kind \in [Deliveries -> Kinds]
  /\ Parts \in [Deliveries -> Nat]
  /\ User \notin Deliveries /\ None \notin Deliveries /\ None \notin Panes
  /\ MaxPanes \in Nat \ {0}
  /\ Budget \in [BudgetKeys -> Nat]

(* A key is a part of a text, by its number, or one of these.              *)
Enter == 0
Escape == -1
Key == [pane : Panes, by : Deliveries \cup {User}, what : Int]

VARIABLES
  lock,    \* who holds <id>.lock
  ended,   \* the record's state is Ended
  pane,    \* the pane of the agent's session, None when there is none
  panes,   \* how many there were
  keys,    \* what the panes were sent, in order
  pc,      \* each delivery: where it is
  at,      \* the pane it found
  typed,   \* how many parts of its text it has typed
  budget   \* what is left of Budget

agentVars == <<ended, pane, panes>>
vars == <<lock, ended, pane, panes, keys, pc, at, typed, budget>>

PCs == {"new", "typing", "submitted", "sent", "failed"}

Init ==
  /\ lock = None
  /\ ended = FALSE /\ pane = 1 /\ panes = 1
  /\ keys = <<>>
  /\ pc = [d \in Deliveries |-> "new"]
  /\ at = [d \in Deliveries |-> None]
  /\ typed = [d \in Deliveries |-> 0]
  /\ budget = Budget

----------------------------------------------------------------------------
Go(d, to) == pc' = [pc EXCEPT ![d] = to]

Spend(k) == budget[k] > 0 /\ budget' = [budget EXCEPT ![k] = @ - 1]

(* The call returns: its guard is dropped.                                 *)
Return(d, to) == Go(d, to) /\ lock' = None

(* send-keys to the pane that was looked up; fails once it is gone.        *)
SendKey(d, what) ==
  /\ pane = at[d]
  /\ keys' = Append(keys, [pane |-> at[d], by |-> d, what |-> what])

(* Mutants: <id>.lock is not waited for; the record is not asked. *)
FreeToAll(d) == pc[d] = "new"
ReachableInTmux == pane # None

LockFree(d) == pc[d] = "new" /\ lock = None

(* The record is running and list-sessions has the agent.                  *)
Reachable == ~ended /\ pane # None

Begin(d) ==
  /\ LockFree(d) /\ Reachable
  /\ lock' = d
  /\ at' = [at EXCEPT ![d] = pane]
  /\ Go(d, "typing")
  /\ UNCHANGED <<agentVars, keys, typed, budget>>

(* NotRunning; a stop that finds no session records the exit.              *)
NotRunning(d) ==
  /\ LockFree(d) /\ ~Reachable
  /\ Go(d, "failed")
  /\ ended' = (ended \/ Kind[d] = "stop")
  /\ UNCHANGED <<lock, pane, panes, keys, at, typed, budget>>

(* send_keys_literal: one call for the text without its trailing           *)
(* semicolons, one for each of these.                                      *)
TypePart(d) ==
  /\ pc[d] = "typing" /\ Kind[d] # "interrupt" /\ typed[d] < Parts[d]
  /\ SendKey(d, typed[d] + 1)
  /\ typed' = [typed EXCEPT ![d] = @ + 1]
  /\ UNCHANGED <<lock, agentVars, pc, at, budget>>

(* Mutant: only the head of the text is typed. *)
HeadTyped(d) == typed[d] = 1

AllTyped(d) == typed[d] = Parts[d]

(* After DELIVERY_PAUSE. *)
PressEnter(d) ==
  /\ pc[d] = "typing" /\ Kind[d] # "interrupt" /\ AllTyped(d)
  /\ SendKey(d, Enter)
  /\ Go(d, "submitted")
  /\ UNCHANGED <<lock, agentVars, at, typed, budget>>

PressEscape(d) ==
  /\ pc[d] = "typing" /\ Kind[d] = "interrupt"
  /\ SendKey(d, Escape)
  /\ Go(d, "submitted")
  /\ UNCHANGED <<lock, agentVars, at, typed, budget>>

(* The receipt; a stop has saved the record as ended, an interrupt its     *)
(* state.                                                                  *)
Finish(d) ==
  /\ pc[d] = "submitted"
  /\ ended' = (ended \/ Kind[d] = "stop")
  /\ Return(d, "sent")
  /\ UNCHANGED <<pane, panes, keys, at, typed, budget>>

(* Mutant: waits for a pane that does not come back. *)
PaneAwaited(d) ==
  /\ pc[d] = "typing" /\ pane # at[d] /\ pane # None
  /\ Return(d, "failed")
  /\ UNCHANGED <<agentVars, keys, at, typed, budget>>

(* send-keys fails: the session has ended meanwhile.                       *)
PaneGone(d) ==
  /\ pc[d] = "typing" /\ pane # at[d]
  /\ Return(d, "failed")
  /\ UNCHANGED <<agentVars, keys, at, typed, budget>>

(* The process is killed or a call fails; what it has typed stays.         *)
Breaks(d) ==
  /\ pc[d] \in {"typing", "submitted"} /\ Spend("faults")
  /\ Return(d, "failed")
  /\ UNCHANGED <<agentVars, keys, at, typed>>

----------------------------------------------------------------------------
(* Around them *)

SessionEnds ==
  /\ pane # None
  /\ pane' = None
  /\ UNCHANGED <<lock, ended, panes, keys, pc, at, typed, budget>>

(* A refresh, or a SessionEnd hook: saved under <id>.lock.                 *)
RecordEnds ==
  /\ lock = None /\ ~ended
  /\ ended' = TRUE
  /\ UNCHANGED <<lock, pane, panes, keys, pc, at, typed, budget>>

(* Under <id>.lock, from the check to the save.                            *)
Respawn ==
  /\ lock = None /\ ended /\ pane = None /\ panes < MaxPanes
  /\ panes' = panes + 1 /\ pane' = panes + 1
  /\ ended' = FALSE
  /\ UNCHANGED <<lock, keys, pc, at, typed, budget>>

UserTypes ==
  /\ pane # None /\ Spend("typing")
  /\ \E w \in {Enter, 1} :
       keys' = Append(keys, [pane |-> pane, by |-> User, what |-> w])
  /\ UNCHANGED <<lock, agentVars, pc, at, typed>>

Step(d) ==
  \/ Begin(d) \/ NotRunning(d) \/ TypePart(d) \/ PressEnter(d)
  \/ PressEscape(d) \/ Finish(d) \/ PaneGone(d)

Next ==
  \/ \E d \in Deliveries : Step(d) \/ Breaks(d)
  \/ SessionEnds \/ RecordEnds \/ Respawn \/ UserTypes

Spec == Init /\ [][Next]_vars

(* A running tx process goes on, and gets a lock that stays free.          *)
FairSpec == Spec /\ \A d \in Deliveries : WF_vars(Step(d))

----------------------------------------------------------------------------
(* Properties *)

(* Every variable has its type. *)
TypeOK ==
  /\ lock \in Deliveries \cup {None}
  /\ ended \in BOOLEAN
  /\ pane \in Panes \cup {None}
  /\ panes \in Panes
  /\ keys \in Seq(Key)
  /\ pc \in [Deliveries -> PCs]
  /\ at \in [Deliveries -> Panes \cup {None}]
  /\ typed \in [Deliveries -> Nat]
  /\ budget \in [BudgetKeys -> Nat]

Unspent(k) == budget[k] = Budget[k]

(* "The whole delivery holds <id>.lock, so concurrent senders never        *)
(* interleave" (README): between two keys of one delivery stands no key of *)
(* another, whatever dies or fails on the way.                             *)
NeverInterleave ==
  \A i, j, k \in 1 .. Len(keys) :
    i < j /\ j < k /\ keys[i].by = keys[k].by /\ keys[i].by # User
      => keys[j].by \in {keys[i].by, User}

KeysOf(d) == {i \in 1 .. Len(keys) : keys[i].by = d}

(* The place of the key in the text of d: Enter comes last.                *)
Place(d, key) == IF key.what = Enter THEN Parts[d] + 1 ELSE key.what

(* What d has typed is the first n keys of its text, in order, and all of  *)
(* it reached the pane it began with.                                      *)
Laid(d, n) ==
  /\ \A i \in KeysOf(d) : keys[i].pane = at[d] /\ Place(d, keys[i]) \in 1 .. n
  /\ \A m \in 1 .. n : \E i \in KeysOf(d) : Place(d, keys[i]) = m
  /\ \A i, j \in KeysOf(d) : i < j => Place(d, keys[i]) < Place(d, keys[j])

(* A receipt means submitted (DeliveryReceipt): the recipient's pane, the  *)
(* one the delivery began with, got the whole text in order and Enter.     *)
ReceiptMeansSubmitted ==
  \A d \in Deliveries :
    pc[d] = "sent" /\ Kind[d] # "interrupt" => Laid(d, Parts[d] + 1)

(* k ends a line that part i belongs to.                                   *)
SameLine(i, k) ==
  /\ i < k /\ keys[i].pane = keys[k].pane /\ keys[k].what = Enter
  /\ \A j \in i .. k - 1 : keys[j].pane = keys[k].pane => keys[j].what # Enter

(* What is submitted is one message: a line holds the text of one          *)
(* delivery, unless a sender died between text and Enter or the operator   *)
(* typed into the pane.                                                    *)
OneMessagePerLine ==
  Unspent("faults") /\ Unspent("typing") =>
    \A i, k \in 1 .. Len(keys) :
      SameLine(i, k) /\ keys[i].what # Escape => keys[i].by = keys[k].by

(* What tx says was sent was submitted whole, and every submitted line is  *)
(* one message (deliver, send_message).                                    *)
MessagesArriveWhole == ReceiptMeansSubmitted /\ OneMessagePerLine

(* Once a stop has saved the record nothing is typed into that pane any    *)
(* more: the stop line is the last one tx sends it.                        *)
NothingAfterStop ==
  \A d \in Deliveries, i, k \in 1 .. Len(keys) :
    /\ Kind[d] = "stop" /\ pc[d] = "sent" /\ keys[i].by = d
    /\ i < k /\ keys[k].pane = keys[i].pane
    => keys[k].by \in {d, User}

(* Every delivery comes to an end, also when its pane goes away under it   *)
(* or the sender before it died with the lock.                             *)
DeliveriesEnd == \A d \in Deliveries : <>(pc[d] \in {"sent", "failed"})

-----------------------------------------------------------------------------
(* An instance: two messages, the text of one ending in a semicolon, a stop *)
(* and an interrupt; one fault, and one key of the operator's.             *)
FourKinds == [m1 |-> "message", m2 |-> "message", s1 |-> "stop", i1 |-> "interrupt"]
FourParts == [m1 |-> 2, m2 |-> 1, s1 |-> 1, i1 |-> 0]
Disturbed == [faults |-> 1, typing |-> 1]
=============================================================================
