----------------------- MODULE MessageDeliveryProofs -----------------------
(***************************************************************************)
(* Deliveries never interleave, what is receipted was submitted whole, a   *)
(* submitted line is one message, and nothing is typed after a stop, for   *)
(* every number of deliveries, parts and panes, whatever fails.            *)
(***************************************************************************)
EXTENDS MessageDelivery, TLAPS

Indices == 1 .. Len(keys)

Active(d) == pc[d] \in {"typing", "submitted"}

(* Who types holds <id>.lock.                                              *)
Locked == \A d \in Deliveries : Active(d) => lock = d

(* Who has not begun has typed nothing.                                    *)
Fresh == \A d \in Deliveries, i \in Indices : pc[d] = "new" => keys[i].by # d

(* From the first key of who types on, nobody else has typed.              *)
LastWord ==
  \A d \in Deliveries, i, j \in Indices :
    Active(d) /\ i < j /\ keys[i].by = d => keys[j].by \in {d, User}

(* Panes are numbered as they come.                                        *)
Numbered ==
  /\ \A i \in Indices : keys[i].pane <= panes
  /\ \A d \in Deliveries : at[d] # None => at[d] <= panes
  /\ pane # None => pane <= panes
  /\ \A d \in Deliveries : Active(d) => at[d] # None

(* The pane of a stop that returned is not the pane of a running record,   *)
(* and nobody has it in hand.                                              *)
Stopped(d, i) == Kind[d] = "stop" /\ pc[d] = "sent" /\ keys[i].by = d

Closed ==
  \A d \in Deliveries, i \in Indices : Stopped(d, i) =>
    /\ ended \/ pane # keys[i].pane
    /\ \A e \in Deliveries \ {d} : Active(e) => at[e] # keys[i].pane

(* A delivery has typed no more than its text, and before it begins none.  *)
Begun ==
  \A d \in Deliveries : typed[d] <= Parts[d] /\ (pc[d] = "new" => typed[d] = 0)

(* So far a delivery has laid down the beginning of its text; from Enter   *)
(* on all of it.                                                           *)
Laying(d) == IF pc[d] = "typing" THEN typed[d] ELSE Parts[d] + 1

Written ==
  \A d \in Deliveries :
    Kind[d] # "interrupt" /\ (Active(d) \/ pc[d] = "sent") => Laid(d, Laying(d))

(* An interrupt types nothing but Escape.                                  *)
OnlyEscape ==
  \A i \in Indices :
    keys[i].by \in Deliveries /\ Kind[keys[i].by] = "interrupt" => keys[i].what = Escape

(* Budgets only shrink.                                                    *)
Within == \A k \in BudgetKeys : budget[k] <= Budget[k]

(* A line that has been begun in a pane and not submitted: when nothing    *)
(* failed and the operator kept away, its delivery is still at it, or the  *)
(* pane is gone.                                                           *)
Open(i) ==
  /\ keys[i].what # Enter /\ keys[i].what # Escape
  /\ \A j \in Indices : i < j /\ keys[j].pane = keys[i].pane => keys[j].what # Enter

OpenIsTyped ==
  Unspent("faults") /\ Unspent("typing") =>
    \A i \in Indices : Open(i) =>
      pane # keys[i].pane \/ (keys[i].by \in Deliveries /\ pc[keys[i].by] = "typing")

IInv ==
  TypeOK /\ Locked /\ Fresh /\ LastWord /\ Numbered /\ Closed
    /\ Begun /\ Written /\ OnlyEscape /\ Within /\ OpenIsTyped
    /\ NeverInterleave /\ NothingAfterStop /\ OneMessagePerLine

LEMMA Appended ==
  ASSUME TypeOK, NEW x \in Key, keys' = Append(keys, x)
  PROVE  /\ keys' \in Seq(Key)
         /\ Len(keys) \in Nat
         /\ Len(keys') = Len(keys) + 1
         /\ keys'[Len(keys) + 1] = x
         /\ \A i \in Indices : keys'[i] = keys[i]
         /\ Indices' = Indices \cup {Len(keys) + 1}
  BY DEF TypeOK, Indices

LEMMA SpendTypes ==
  ASSUME TypeOK, NEW k \in BudgetKeys, Spend(k)
  PROVE  budget' \in [BudgetKeys -> Nat]
  BY DEF TypeOK, Spend

LEMMA InitIInv == Init => IInv
  <1>. SUFFICES ASSUME Init PROVE IInv
    OBVIOUS
  <1>1. Len(keys) = 0 /\ Indices = {} /\ keys \in Seq(Key)
    BY DEF Init, Indices
  <1>2. 1 \in Panes
    BY DeliveryAssumption DEF Panes
  <1>3. TypeOK
    BY <1>1, <1>2, DeliveryAssumption DEF Init, TypeOK, PCs
  <1>4. \A d \in Deliveries : ~Active(d) /\ at[d] = None
    BY DEF Init, Active
  <1>5. Locked /\ Fresh /\ LastWord /\ Closed
    BY <1>1, <1>4 DEF Locked, Fresh, LastWord, Closed
  <1>6. Numbered
    BY <1>1, <1>4 DEF Init, Numbered
  <1>7. NeverInterleave /\ NothingAfterStop
    BY <1>1 DEF Indices, NeverInterleave, NothingAfterStop
  <1>8. Begun /\ Written /\ OnlyEscape /\ Within /\ OpenIsTyped /\ OneMessagePerLine
    <2>1. Begun
      <3>1. SUFFICES ASSUME NEW d \in Deliveries PROVE typed[d] = 0 /\ 0 <= Parts[d]
        BY DEF Begun
      <3>2. Parts[d] \in Nat
        BY DeliveryAssumption
      <3>. QED
        BY <3>2 DEF Init
    <2>2. Within
      BY DeliveryAssumption DEF Init, Within
    <2>. QED
      BY <1>1, <1>4, <2>1, <2>2
      DEF Init, Written, OnlyEscape, OpenIsTyped, OneMessagePerLine, Indices
  <1>. QED
    BY <1>3, <1>5, <1>6, <1>7, <1>8 DEF IInv

(* A key reaches a pane only from who types, or from the operator.         *)
Keyed(d) == TypePart(d) \/ PressEnter(d) \/ PressEscape(d)

(* ... and it is the next one of its text.                                 *)
NextKey(d) ==
  IF Kind[d] = "interrupt" THEN Escape
  ELSE IF typed[d] < Parts[d] THEN typed[d] + 1 ELSE Enter

LEMMA KeyedKey ==
  ASSUME TypeOK, Numbered, NEW d \in Deliveries, Keyed(d)
  PROVE  /\ pc[d] = "typing" /\ pane = at[d] /\ pane \in Panes
         /\ \E x \in Key : /\ keys' = Append(keys, x)
                          /\ x.by = d /\ x.pane = at[d] /\ x.what = NextKey(d)
  <1>1. pc[d] = "typing" /\ pane = at[d] /\ pane \in Panes
    BY DEF Keyed, TypePart, PressEnter, PressEscape, SendKey, TypeOK, Numbered, Active
  <1>2. typed[d] \in Nat /\ Parts[d] \in Nat
    BY DeliveryAssumption DEF TypeOK
  <1>3. keys' = Append(keys, [pane |-> at[d], by |-> d, what |-> NextKey(d)])
    BY <1>2 DEF Keyed, TypePart, PressEnter, PressEscape, SendKey, AllTyped, NextKey
  <1>4. NextKey(d) \in Int
    BY <1>2 DEF NextKey, Enter, Escape
  <1>5. [pane |-> at[d], by |-> d, what |-> NextKey(d)] \in Key
    BY <1>1, <1>4 DEF Key
  <1>. QED
    BY <1>1, <1>3, <1>5

LEMMA UserKey ==
  ASSUME TypeOK, UserTypes
  PROVE  \E x \in Key : keys' = Append(keys, x) /\ x.by = User /\ x.pane = pane
  <1>1. PICK w \in {Enter, 1} :
          keys' = Append(keys, [pane |-> pane, by |-> User, what |-> w])
    BY DEF UserTypes
  <1>2. [pane |-> pane, by |-> User, what |-> w] \in Key
    BY DEF UserTypes, Key, Enter, TypeOK
  <1>. QED
    BY <1>1, <1>2

LEMMA TypeStep == ASSUME TypeOK, Numbered, [Next]_vars PROVE TypeOK'
  <1>. USE DeliveryAssumption DEF TypeOK, PCs
  <1>1. ASSUME NEW d \in Deliveries, Begin(d) PROVE TypeOK'
    BY <1>1 DEF Begin, LockFree, Reachable, Go, agentVars
  <1>2. ASSUME NEW d \in Deliveries, NotRunning(d) PROVE TypeOK'
    BY <1>2 DEF NotRunning, LockFree, Go
  <1>3. ASSUME NEW d \in Deliveries, Keyed(d) PROVE TypeOK'
    <2>1. keys' \in Seq(Key)
      BY <1>3, KeyedKey, Appended
    <2>2. typed' \in [Deliveries -> Nat]
      BY <1>3 DEF Keyed, TypePart, PressEnter, PressEscape
    <2>. QED
      BY <1>3, <2>1, <2>2 DEF Keyed, TypePart, PressEnter, PressEscape, Go, agentVars
  <1>5. ASSUME NEW d \in Deliveries, Finish(d) PROVE TypeOK'
    BY <1>5 DEF Finish, Return, Go
  <1>6. ASSUME NEW d \in Deliveries, PaneGone(d) PROVE TypeOK'
    BY <1>6 DEF PaneGone, Return, Go, agentVars
  <1>7. ASSUME NEW d \in Deliveries, Breaks(d) PROVE TypeOK'
    <2>1. budget' \in [BudgetKeys -> Nat]
      BY <1>7, SpendTypes DEF Breaks, BudgetKeys
    <2>. QED
      BY <1>7, <2>1 DEF Breaks, Return, Go, agentVars
  <1>8. CASE SessionEnds
    BY <1>8 DEF SessionEnds
  <1>9. CASE RecordEnds
    BY <1>9 DEF RecordEnds
  <1>10. CASE Respawn
    <2>1. panes + 1 \in Panes
      BY <1>10 DEF Respawn, Panes
    <2>. QED
      BY <1>10, <2>1 DEF Respawn
  <1>11. CASE UserTypes
    <2>1. keys' \in Seq(Key)
      BY <1>11, UserKey, Appended
    <2>2. budget' \in [BudgetKeys -> Nat]
      BY <1>11, SpendTypes DEF UserTypes, BudgetKeys
    <2>. QED
      BY <1>11, <2>1, <2>2 DEF UserTypes, agentVars
  <1>12. CASE UNCHANGED vars
    BY <1>12 DEF vars
  <1>. QED
    BY <1>1, <1>2, <1>3, <1>5, <1>6, <1>7, <1>8, <1>9, <1>10, <1>11, <1>12
    DEF Next, Step, Keyed

----------------------------------------------------------------------------
(* What a step does to the keys and to those who type.                     *)

(* The keys stay; who types afterwards typed before, or begins with        *)
(* <id>.lock, which was free, on the pane of a running record.             *)
Quiet ==
  /\ UNCHANGED keys
  /\ \A d \in Deliveries :
       /\ pc'[d] = "new" => pc[d] = "new"
       /\ pc'[d] = "sent" => pc[d] = "sent" \/ Active(d)
       /\ Active(d)' => \/ Active(d) /\ at'[d] = at[d] /\ lock' = lock
                        \/ /\ pc[d] = "new" /\ lock = None /\ lock' = d
                           /\ ~ended /\ pane # None /\ at'[d] = pane

(* One key is added, by who types or by the operator; the rest stays.      *)
Loud ==
  /\ UNCHANGED <<lock, ended, pane, panes, at>>
  /\ \A d \in Deliveries :
       /\ pc'[d] = "new" <=> pc[d] = "new"
       /\ pc'[d] = "sent" <=> pc[d] = "sent"
       /\ Active(d)' <=> Active(d)
  /\ \E x \in Key :
       /\ keys' = Append(keys, x) /\ x.pane = pane
       /\ \/ x.by = User
          \/ x.by \in Deliveries /\ Active(x.by) /\ pane = at[x.by]

QuietNext ==
  \/ \E d \in Deliveries :
       Begin(d) \/ NotRunning(d) \/ Finish(d) \/ PaneGone(d) \/ Breaks(d)
  \/ SessionEnds \/ RecordEnds \/ Respawn \/ UNCHANGED vars

LEMMA NextSplit ==
  [Next]_vars => QuietNext \/ UserTypes \/ \E d \in Deliveries : Keyed(d)
  BY DEF Next, Step, QuietNext, Keyed

LEMMA QuietSteps == ASSUME TypeOK, Locked, QuietNext PROVE Quiet
  <1>. USE DeliveryAssumption DEF TypeOK, Quiet, Active
  <1>1. ASSUME NEW d \in Deliveries, Begin(d) PROVE Quiet
    <2>1. lock = None /\ pc[d] = "new" /\ ~ended /\ pane # None
          /\ lock' = d /\ at'[d] = pane /\ pc'[d] = "typing" /\ UNCHANGED keys
      BY <1>1 DEF Begin, LockFree, Reachable, Go
    <2>2. \A e \in Deliveries \ {d} : pc'[e] = pc[e]
      BY <1>1 DEF Begin, Go
    <2>3. \A e \in Deliveries : ~Active(e)
      BY <2>1 DEF Locked
    <2>. QED
      BY <2>1, <2>2, <2>3
  <1>2. ASSUME NEW d \in Deliveries, NotRunning(d) PROVE Quiet
    BY <1>2 DEF NotRunning, LockFree, Go
  <1>3. ASSUME NEW d \in Deliveries, Finish(d) \/ PaneGone(d) \/ Breaks(d) PROVE Quiet
    <2>1. /\ Active(d) /\ pc'[d] \in {"sent", "failed"}
          /\ UNCHANGED <<keys, at>>
          /\ \A e \in Deliveries \ {d} : pc'[e] = pc[e]
      BY <1>3 DEF Finish, PaneGone, Breaks, Return, Go
    <2>2. \A e \in Deliveries \ {d} : ~Active(e)
      BY <2>1 DEF Locked
    <2>. QED
      BY <2>1, <2>2
  <1>4. CASE SessionEnds \/ RecordEnds \/ Respawn \/ UNCHANGED vars
    BY <1>4 DEF SessionEnds, RecordEnds, Respawn, vars
  <1>. QED
    BY <1>1, <1>2, <1>3, <1>4 DEF QuietNext

LEMMA LoudSteps ==
  ASSUME TypeOK, Numbered, UserTypes \/ \E d \in Deliveries : Keyed(d)
  PROVE  Loud
  <1>1. CASE UserTypes
    BY <1>1, UserKey DEF UserTypes, agentVars, Loud, Active
  <1>2. ASSUME NEW d \in Deliveries, Keyed(d) PROVE Loud
    <2>1. /\ pc[d] = "typing" /\ pane = at[d]
          /\ \E x \in Key : keys' = Append(keys, x) /\ x.by = d /\ x.pane = at[d]
      BY <1>2, KeyedKey
    <2>2. UNCHANGED <<lock, ended, pane, panes, at>>
      BY <1>2 DEF Keyed, TypePart, PressEnter, PressEscape, agentVars
    <2>3. pc' = pc \/ pc' = [pc EXCEPT ![d] = "submitted"]
      BY <1>2 DEF Keyed, TypePart, PressEnter, PressEscape, Go
    <2>4. \A e \in Deliveries :
            /\ pc'[e] = "new" <=> pc[e] = "new"
            /\ pc'[e] = "sent" <=> pc[e] = "sent"
            /\ Active(e)' <=> Active(e)
      BY <2>1, <2>3 DEF TypeOK, Active
    <2>. QED
      BY <2>1, <2>2, <2>4 DEF Loud, Active
  <1>. QED
    BY <1>1, <1>2

----------------------------------------------------------------------------
(* The parts of the invariant *)

LEMMA LockedStep == ASSUME TypeOK, Locked, Quiet \/ Loud PROVE Locked'
  BY DEF Locked, Quiet, Loud

LEMMA FreshStep == ASSUME TypeOK, Fresh, Quiet \/ Loud PROVE Fresh'
  <1>1. CASE Quiet
    BY <1>1 DEF Fresh, Quiet, Indices
  <1>2. CASE Loud
    <2>1. PICK x \in Key : keys' = Append(keys, x)
                           /\ (x.by = User \/ (x.by \in Deliveries /\ Active(x.by)))
      BY <1>2 DEF Loud
    <2>2. \A d \in Deliveries : pc[d] = "new" => x.by # d
      BY <2>1, DeliveryAssumption DEF Active
    <2>3. SUFFICES ASSUME NEW d \in Deliveries, NEW i \in Indices', pc'[d] = "new"
                   PROVE  keys'[i].by # d
      BY DEF Fresh
    <2>4. pc[d] = "new"
      BY <1>2, <2>3 DEF Loud
    <2>5. CASE i \in Indices
      BY <2>1, <2>4, <2>5, Appended DEF Fresh
    <2>6. CASE i = Len(keys) + 1
      BY <2>1, <2>2, <2>4, <2>6, Appended
    <2>7. Indices' = Indices \cup {Len(keys) + 1}
      BY <2>1, Appended
    <2>. QED
      BY <2>5, <2>6, <2>7
  <1>. QED
    BY <1>1, <1>2

LEMMA TailStep ==
  ASSUME TypeOK, Locked, Fresh, LastWord, Quiet \/ Loud
  PROVE  LastWord'
  <1>1. CASE Quiet
    BY <1>1 DEF LastWord, Fresh, Quiet, Indices
  <1>2. CASE Loud
    <2>1. PICK x \in Key : keys' = Append(keys, x)
                           /\ (x.by = User \/ (x.by \in Deliveries /\ Active(x.by)))
      BY <1>2 DEF Loud
    <2>2. \A d \in Deliveries : Active(d) => x.by \in {d, User}
      BY <2>1 DEF Locked
    <2>3. SUFFICES ASSUME NEW d \in Deliveries, NEW i \in Indices', NEW j \in Indices',
                          Active(d)', i < j, keys'[i].by = d
                   PROVE  keys'[j].by \in {d, User}
      BY DEF LastWord
    <2>4. Active(d)
      BY <1>2, <2>3 DEF Loud
    <2>5. CASE j = Len(keys) + 1
      BY <2>1, <2>2, <2>4, <2>5, Appended
    <2>6. CASE j \in Indices
      <3>1. i \in Indices
        BY <2>3, <2>6, <2>1, Appended DEF Indices
      <3>. QED
        BY <3>1, <2>1, <2>3, <2>4, <2>6, Appended DEF LastWord
    <2>. QED
      BY <2>1, <2>5, <2>6, Appended
  <1>. QED
    BY <1>1, <1>2

LEMMA NeverStep ==
  ASSUME TypeOK, Locked, LastWord, NeverInterleave, Quiet \/ Loud
  PROVE  NeverInterleave'
  <1>1. CASE Quiet
    BY <1>1 DEF NeverInterleave, Quiet
  <1>2. CASE Loud
    <2>1. PICK x \in Key : keys' = Append(keys, x)
                           /\ (x.by = User \/ (x.by \in Deliveries /\ Active(x.by)))
      BY <1>2 DEF Loud
    <2>2. SUFFICES ASSUME NEW i \in Indices', NEW j \in Indices', NEW k \in Indices',
                          i < j, j < k, keys'[i].by = keys'[k].by, keys'[i].by # User
                   PROVE  keys'[j].by \in {keys'[i].by, User}
      BY DEF NeverInterleave, Indices
    <2>3. i \in Indices /\ j \in Indices
      BY <2>1, <2>2, Appended DEF Indices
    <2>4. CASE k = Len(keys) + 1
      <3>1. keys[i].by = x.by /\ x.by \in Deliveries /\ Active(x.by)
        BY <2>1, <2>2, <2>3, <2>4, Appended
      <3>. QED
        BY <3>1, <2>1, <2>2, <2>3, Appended DEF LastWord
    <2>5. CASE k \in Indices
      BY <2>1, <2>2, <2>3, <2>5, Appended DEF NeverInterleave, Indices
    <2>6. Indices' = Indices \cup {Len(keys) + 1}
      BY <2>1, Appended
    <2>. QED
      BY <2>4, <2>5, <2>6
  <1>. QED
    BY <1>1, <1>2

LEMMA NumberedStep ==
  ASSUME TypeOK, Numbered, QuietNext \/ Loud
  PROVE  Numbered'
  <1>. USE DeliveryAssumption DEF TypeOK, Panes
  <1>1. CASE Loud
    <2>1. PICK x \in Key : keys' = Append(keys, x) /\ x.pane = pane
      BY <1>1 DEF Loud
    <2>2. x.pane <= panes
      <3>1. x.pane \in Panes
        BY DEF Key
      <3>. QED
        BY <2>1, <3>1 DEF Numbered
    <2>3. \A i \in Indices' : keys'[i].pane <= panes
      <3>1. Indices' = Indices \cup {Len(keys) + 1}
        BY <2>1, Appended
      <3>2. keys'[Len(keys) + 1] = x /\ \A i \in Indices : keys'[i] = keys[i]
        BY <2>1, Appended
      <3>. QED
        BY <2>2, <3>1, <3>2 DEF Numbered
    <2>. QED
      BY <1>1, <2>3 DEF Loud, Numbered
  <1>2. ASSUME NEW d \in Deliveries, Begin(d) PROVE Numbered'
    BY <1>2 DEF Begin, LockFree, Reachable, Go, agentVars, Numbered, Indices, Active
  <1>3. ASSUME NEW d \in Deliveries,
               NotRunning(d) \/ Finish(d) \/ PaneGone(d) \/ Breaks(d)
        PROVE  Numbered'
    <2>1. UNCHANGED <<keys, panes, pane, at>>
      BY <1>3 DEF NotRunning, Finish, PaneGone, Breaks, agentVars
    <2>2. \A e \in Deliveries : Active(e)' => Active(e)
      BY <1>3 DEF NotRunning, Finish, PaneGone, Breaks, Return, Go, Active
    <2>. QED
      BY <2>1, <2>2 DEF Numbered, Indices
  <1>4. CASE Respawn
    <2>1. UNCHANGED <<keys, at, pc>> /\ panes \in Nat /\ panes' = panes + 1 /\ pane' = panes + 1
      BY <1>4 DEF Respawn
    <2>2. \A i \in Indices : keys[i] \in Key
      BY DEF Indices
    <2>3. \A i \in Indices : keys[i].pane \in Nat
      BY <2>2 DEF Key
    <2>. QED
      BY <2>1, <2>3 DEF Numbered, Indices, Active
  <1>5. CASE SessionEnds \/ RecordEnds \/ UNCHANGED vars
    BY <1>5 DEF SessionEnds, RecordEnds, vars, Numbered, Indices, Active
  <1>. QED
    BY <1>1, <1>2, <1>3, <1>4, <1>5 DEF QuietNext

LEMMA ClosedStep ==
  ASSUME TypeOK, Locked, Numbered, Closed, QuietNext \/ Loud
  PROVE  Closed'
  <1>. USE DeliveryAssumption DEF TypeOK
  <1>0. \A i \in Indices : keys[i].pane \in Panes /\ keys[i].pane # None
    <2>1. \A i \in Indices : keys[i] \in Key
      BY DEF Indices
    <2>. QED
      BY <2>1 DEF Key
  <1>1. CASE Loud
    <2>1. PICK x \in Key : keys' = Append(keys, x)
                           /\ (x.by = User \/ (x.by \in Deliveries /\ Active(x.by)))
      BY <1>1 DEF Loud
    <2>2. SUFFICES ASSUME NEW d \in Deliveries, NEW i \in Indices', Stopped(d, i)'
                   PROVE  /\ ended' \/ pane' # keys'[i].pane
                          /\ \A e \in Deliveries \ {d} : Active(e)' => at'[e] # keys'[i].pane
      BY DEF Closed
    <2>3. pc[d] = "sent" /\ ~Active(d)
      BY <1>1, <2>2 DEF Loud, Stopped, Active
    <2>4. i # Len(keys) + 1
      BY <2>1, <2>2, <2>3, Appended DEF Stopped
    <2>5. i \in Indices /\ keys'[i] = keys[i]
      <3>1. Indices' = Indices \cup {Len(keys) + 1}
        BY <2>1, Appended
      <3>2. i \in Indices
        BY <2>2, <2>4, <3>1
      <3>. QED
        BY <2>1, <3>2, Appended
    <2>6. Stopped(d, i)
      BY <2>2, <2>3, <2>5 DEF Stopped
    <2>. QED
      BY <1>1, <2>5, <2>6 DEF Loud, Closed
  <1>2. ASSUME NEW b \in Deliveries, Begin(b) PROVE Closed'
    <2>1. UNCHANGED <<keys, ended, pane>> /\ ~ended /\ at' = [at EXCEPT ![b] = pane]
          /\ pc' = [pc EXCEPT ![b] = "typing"]
      BY <1>2 DEF Begin, Reachable, Go, agentVars
    <2>. QED
      BY <2>1 DEF Closed, Stopped, Active, Indices
  <1>3. ASSUME NEW b \in Deliveries, NotRunning(b) \/ PaneGone(b) \/ Breaks(b)
        PROVE  Closed'
    <2>1. UNCHANGED <<keys, pane, at>> /\ (ended => ended')
          /\ pc' = [pc EXCEPT ![b] = "failed"]
      BY <1>3 DEF NotRunning, PaneGone, Breaks, Return, Go, agentVars
    <2>. QED
      BY <2>1 DEF Closed, Stopped, Active, Indices
  <1>4. ASSUME NEW b \in Deliveries, Finish(b) PROVE Closed'
    <2>1. UNCHANGED <<keys, pane, at>> /\ (ended => ended') /\ (Kind[b] = "stop" => ended')
          /\ pc' = [pc EXCEPT ![b] = "sent"] /\ Active(b)
      BY <1>4 DEF Finish, Return, Go, Active
    <2>2. \A e \in Deliveries : ~Active(e)'
      BY <2>1 DEF Locked, Active
    <2>. QED
      BY <2>1, <2>2 DEF Closed, Stopped, Indices
  <1>5. CASE Respawn
    <2>1. UNCHANGED <<keys, at, pc>> /\ pane' = panes + 1 /\ lock = None
      BY <1>5 DEF Respawn
    <2>2. \A e \in Deliveries : ~Active(e)'
      BY <2>1 DEF Locked, Active
    <2>3. \A i \in Indices : pane' # keys[i].pane
      BY <1>0, <2>1 DEF Numbered, Panes
    <2>. QED
      BY <2>1, <2>2, <2>3 DEF Closed, Stopped, Indices
  <1>6. CASE SessionEnds \/ RecordEnds \/ UNCHANGED vars
    <2>1. UNCHANGED <<keys, at, pc>> /\ (ended => ended') /\ (pane' = pane \/ pane' = None)
      BY <1>6 DEF SessionEnds, RecordEnds, vars
    <2>2. SUFFICES ASSUME NEW d \in Deliveries, NEW i \in Indices, Stopped(d, i)
                   PROVE  /\ ended' \/ pane' # keys[i].pane
                          /\ \A e \in Deliveries \ {d} : Active(e) => at[e] # keys[i].pane
      BY <2>1 DEF Closed, Stopped, Active, Indices
    <2>3. ended \/ pane # keys[i].pane
      BY <2>2 DEF Closed
    <2>4. ended' \/ pane' # keys[i].pane
      BY <1>0, <2>1, <2>3
    <2>. QED
      BY <2>2, <2>4 DEF Closed
  <1>. QED
    BY <1>1, <1>2, <1>3, <1>4, <1>5, <1>6 DEF QuietNext

LEMMA AfterStopStep ==
  ASSUME TypeOK, LastWord, Closed, NothingAfterStop, Quiet \/ Loud
  PROVE  NothingAfterStop'
  <1>1. SUFFICES ASSUME NEW d \in Deliveries, NEW i \in Indices', NEW k \in Indices',
                        Kind[d] = "stop", pc'[d] = "sent", keys'[i].by = d,
                        i < k, keys'[k].pane = keys'[i].pane
                 PROVE  keys'[k].by \in {d, User}
    BY DEF NothingAfterStop, Indices
  <1>2. CASE Quiet
    <2>1. UNCHANGED keys /\ (pc[d] = "sent" \/ Active(d))
      BY <1>1, <1>2 DEF Quiet
    <2>. QED
      BY <1>1, <2>1 DEF LastWord, NothingAfterStop, Indices
  <1>3. CASE Loud
    <2>1. PICK x \in Key :
            /\ keys' = Append(keys, x) /\ x.pane = pane
            /\ \/ x.by = User
               \/ x.by \in Deliveries /\ Active(x.by) /\ pane = at[x.by]
      BY <1>3 DEF Loud
    <2>2. pc[d] = "sent"
      BY <1>1, <1>3 DEF Loud
    <2>3. i \in Indices
      BY <1>1, <2>1, Appended DEF Indices
    <2>4. keys'[i] = keys[i]
      BY <2>1, <2>3, Appended
    <2>5. CASE k = Len(keys) + 1
      <3>1. Stopped(d, i)
        BY <1>1, <2>2, <2>4 DEF Stopped
      <3>2. keys'[k] = x
        BY <2>1, <2>5, Appended
      <3>3. x.pane = keys[i].pane
        BY <1>1, <2>4, <3>2
      <3>. QED
        BY <2>1, <2>3, <3>1, <3>2, <3>3 DEF Closed
    <2>6. CASE k \in Indices
      <3>1. keys'[k] = keys[k]
        BY <2>1, <2>6, Appended
      <3>. QED
        BY <1>1, <2>2, <2>3, <2>4, <2>6, <3>1 DEF NothingAfterStop, Indices
    <2>7. Indices' = Indices \cup {Len(keys) + 1}
      BY <2>1, Appended
    <2>. QED
      BY <1>1, <2>5, <2>6, <2>7
  <1>. QED
    BY <1>2, <1>3

----------------------------------------------------------------------------
(* What a delivery has laid down *)

LEMMA BegunStep == ASSUME TypeOK, Begun, [Next]_vars PROVE Begun'
  <1>. USE DeliveryAssumption DEF TypeOK, Begun
  <1>1. ASSUME NEW d \in Deliveries, TypePart(d) PROVE Begun'
    <2>1. typed' = [typed EXCEPT ![d] = @ + 1] /\ pc' = pc /\ pc[d] = "typing"
          /\ typed[d] < Parts[d] /\ typed[d] \in Nat /\ Parts[d] \in Nat
      BY <1>1 DEF TypePart
    <2>. QED
      BY <2>1
  <1>2. ASSUME NEW d \in Deliveries,
               Begin(d) \/ NotRunning(d) \/ PressEnter(d) \/ PressEscape(d)
                 \/ Finish(d) \/ PaneGone(d) \/ Breaks(d)
        PROVE  Begun'
    <2>1. UNCHANGED typed /\ \E to \in PCs \ {"new"} : pc' = [pc EXCEPT ![d] = to]
      BY <1>2 DEF Begin, NotRunning, PressEnter, PressEscape, Finish, PaneGone,
                  Breaks, Return, Go, PCs
    <2>. QED
      BY <2>1
  <1>3. CASE SessionEnds \/ RecordEnds \/ Respawn \/ UserTypes \/ UNCHANGED vars
    BY <1>3 DEF SessionEnds, RecordEnds, Respawn, UserTypes, vars
  <1>. QED
    BY <1>1, <1>2, <1>3 DEF Next, Step

(* A key of another leaves what e has laid down.                           *)
LEMMA OthersKey ==
  ASSUME TypeOK, NEW x \in Key, keys' = Append(keys, x),
         NEW e \in Deliveries, x.by # e, at'[e] = at[e], NEW n \in Nat, Laid(e, n)
  PROVE  Laid(e, n)'
  <1>1. KeysOf(e)' = KeysOf(e) /\ \A i \in KeysOf(e) : keys'[i] = keys[i]
    BY Appended DEF KeysOf, Indices
  <1>2. \A i \in KeysOf(e) : Place(e, keys'[i]) = Place(e, keys[i])
    BY <1>1 DEF Place
  <1>. QED
    BY <1>1, <1>2 DEF Laid

(* What e has laid down stays while no key is typed and e keeps its pane.  *)
LEMMA StillLaid ==
  ASSUME keys' = keys, NEW e \in Deliveries, at'[e] = at[e], NEW n \in Nat, Laid(e, n)
  PROVE  Laid(e, n)'
  <1>1. KeysOf(e)' = KeysOf(e) /\ \A i \in KeysOf(e) : keys'[i] = keys[i]
    BY DEF KeysOf, Indices
  <1>2. \A i \in KeysOf(e) : Place(e, keys'[i]) = Place(e, keys[i])
    BY <1>1
  <1>. QED
    BY <1>1, <1>2 DEF Laid

(* The next key of its own text adds one place.                            *)
LEMMA OwnKey ==
  ASSUME TypeOK, NEW x \in Key, keys' = Append(keys, x), UNCHANGED at,
         NEW d \in Deliveries, x.by = d, x.pane = at[d],
         NEW n \in Nat, Laid(d, n),
         (IF x.what = Enter THEN Parts[d] + 1 ELSE x.what) = n + 1
  PROVE  Laid(d, n + 1)'
  <1>1. /\ Len(keys) \in Nat
        /\ KeysOf(d)' = KeysOf(d) \cup {Len(keys) + 1}
        /\ keys'[Len(keys) + 1] = x
        /\ \A i \in KeysOf(d) : keys'[i] = keys[i] /\ i \in Nat /\ i < Len(keys) + 1
    BY Appended DEF KeysOf, Indices
  <1>2. \A i \in KeysOf(d) : Place(d, keys'[i]) = Place(d, keys[i]) /\ Place(d, keys[i]) \in 1 .. n
    BY <1>1 DEF Place, Laid
  <1>3. Place(d, keys'[Len(keys) + 1]) = n + 1
    BY <1>1 DEF Place
  <1>4. ASSUME NEW i \in KeysOf(d)'
        PROVE  keys'[i].pane = at'[d] /\ Place(d, keys'[i]) \in 1 .. n + 1
    <2>1. CASE i = Len(keys) + 1
      BY <1>1, <1>3, <2>1
    <2>2. CASE i \in KeysOf(d)
      <3>1. keys[i].pane = at[d]
        BY <2>2 DEF Laid
      <3>2. PICK a \in 1 .. n : Place(d, keys'[i]) = a
        BY <1>2, <2>2
      <3>3. a \in 1 .. n + 1
        OBVIOUS
      <3>. QED
        BY <1>1, <2>2, <3>1, <3>2, <3>3
    <2>. QED
      BY <1>1, <2>1, <2>2
  <1>5. ASSUME NEW m \in 1 .. n + 1
        PROVE  \E i \in KeysOf(d)' : Place(d, keys'[i]) = m
    <2>1. CASE m = n + 1
      BY <1>1, <1>3, <2>1
    <2>2. CASE m \in 1 .. n
      <3>1. PICK i \in KeysOf(d) : Place(d, keys[i]) = m
        BY <2>2 DEF Laid
      <3>2. i \in KeysOf(d)' /\ Place(d, keys'[i]) = m
        BY <1>1, <1>2, <3>1
      <3>. QED
        BY <3>2
    <2>3. m = n + 1 \/ m \in 1 .. n
      OBVIOUS
    <2>. QED
      BY <2>1, <2>2, <2>3
  <1>6. ASSUME NEW i \in KeysOf(d)', NEW j \in KeysOf(d)', i < j
        PROVE  Place(d, keys'[i]) < Place(d, keys'[j])
    <2>1. i \in KeysOf(d)
      BY <1>1, <1>6
    <2>2. CASE j = Len(keys) + 1
      <3>1. PICK a \in 1 .. n : Place(d, keys'[i]) = a
        BY <1>2, <2>1
      <3>2. a < n + 1
        OBVIOUS
      <3>. QED
        BY <1>3, <2>2, <3>1, <3>2
    <2>3. CASE j \in KeysOf(d)
      <3>1. Place(d, keys[i]) < Place(d, keys[j])
        BY <1>6, <2>1, <2>3 DEF Laid
      <3>. QED
        BY <1>2, <2>1, <2>3, <3>1
    <2>. QED
      BY <1>1, <2>2, <2>3
  <1>. QED
    BY <1>4, <1>5, <1>6 DEF Laid

LEMMA WrittenStep ==
  ASSUME TypeOK, Numbered, Fresh, Begun, Written, [Next]_vars
  PROVE  Written'
  <1>. USE DeliveryAssumption DEF TypeOK
  <1>1. SUFFICES ASSUME NEW e \in Deliveries, Kind[e] # "interrupt",
                        Active(e)' \/ pc'[e] = "sent"
                 PROVE  Laid(e, Laying(e))'
    BY DEF Written
  <1>2. Parts[e] \in Nat /\ typed[e] \in Nat /\ Laying(e) \in Nat
    BY DEF Laying
  <1>3. ASSUME NEW d \in Deliveries, Begin(d) PROVE Laid(e, Laying(e))'
    <2>1. UNCHANGED <<keys, typed>> /\ pc[d] = "new"
          /\ pc' = [pc EXCEPT ![d] = "typing"] /\ at' = [at EXCEPT ![d] = pane]
      BY <1>3 DEF Begin, LockFree, Go
    <2>2. CASE e = d
      <3>1. KeysOf(e)' = {} /\ Laying(e)' = 0
        BY <2>1, <2>2 DEF Fresh, Begun, KeysOf, Indices, Laying
      <3>. QED
        BY <3>1 DEF Laid
    <2>3. CASE e # d
      <3>1. PICK n \in Nat : n = Laying(e)
        BY <1>2
      <3>2. Laid(e, n) /\ Laying(e)' = n /\ at'[e] = at[e]
        BY <1>1, <2>1, <2>3, <3>1 DEF Written, Laying, Active
      <3>3. Laid(e, n)'
        BY <2>1, <3>2, StillLaid
      <3>. QED
        BY <3>2, <3>3 DEF Laid
    <2>. QED
      BY <2>2, <2>3
  <1>4. ASSUME NEW d \in Deliveries, NotRunning(d) \/ PaneGone(d) \/ Breaks(d)
        PROVE  Laid(e, Laying(e))'
    <2>1. UNCHANGED <<keys, typed, at>> /\ pc' = [pc EXCEPT ![d] = "failed"]
      BY <1>4 DEF NotRunning, PaneGone, Breaks, Return, Go
    <2>2. PICK n \in Nat : n = Laying(e)
      BY <1>2
    <2>3. Laid(e, n) /\ Laying(e)' = n
      BY <1>1, <2>1, <2>2 DEF Written, Laying, Active
    <2>4. Laid(e, n)'
      BY <2>1, <2>3, StillLaid
    <2>. QED
      BY <2>3, <2>4 DEF Laid
  <1>5. ASSUME NEW d \in Deliveries, Finish(d) PROVE Laid(e, Laying(e))'
    <2>1. UNCHANGED <<keys, typed, at>> /\ pc[d] = "submitted"
          /\ pc' = [pc EXCEPT ![d] = "sent"]
      BY <1>5 DEF Finish, Return, Go
    <2>2. PICK n \in Nat : n = Laying(e)
      BY <1>2
    <2>3. Laid(e, n) /\ Laying(e)' = n
      BY <1>1, <2>1, <2>2 DEF Written, Laying, Active
    <2>4. Laid(e, n)'
      BY <2>1, <2>3, StillLaid
    <2>. QED
      BY <2>3, <2>4 DEF Laid
  <1>6. ASSUME NEW d \in Deliveries, Keyed(d) PROVE Laid(e, Laying(e))'
    <2>1. PICK x \in Key : keys' = Append(keys, x) /\ x.by = d /\ x.pane = at[d]
                           /\ x.what = NextKey(d)
      BY <1>6, KeyedKey
    <2>2. pc[d] = "typing" /\ UNCHANGED at
      BY <1>6, KeyedKey DEF Keyed, TypePart, PressEnter, PressEscape
    <2>3. PICK n \in Nat : n = Laying(e)
      BY <1>2
    <2>4. Laid(e, n)
      <3>1. Active(e) \/ pc[e] = "sent"
        BY <1>1, <1>6 DEF Keyed, TypePart, PressEnter, PressEscape, Go, Active
      <3>. QED
        BY <1>1, <2>3, <3>1 DEF Written
    <2>5. CASE e # d
      <3>1. Laid(e, n)'
        BY <2>1, <2>2, <2>4, <2>5, OthersKey
      <3>2. Laying(e)' = n
        BY <1>6, <2>3, <2>5 DEF Keyed, TypePart, PressEnter, PressEscape, Go, Laying
      <3>. QED
        BY <3>1, <3>2 DEF Laid
    <2>6. CASE e = d
      <3>1. n = typed[d] /\ (TypePart(d) \/ PressEnter(d))
        BY <1>1, <1>6, <2>2, <2>3, <2>6 DEF Laying, Keyed, PressEscape
      <3>2. Laying(d)' = n + 1
        BY <2>2, <3>1 DEF TypePart, PressEnter, AllTyped, Go, Laying
      <3>3. (IF x.what = Enter THEN Parts[d] + 1 ELSE x.what) = n + 1
        BY <1>2, <2>1, <2>6, <3>1 DEF TypePart, PressEnter, AllTyped, NextKey, Enter
      <3>4. Laid(d, n + 1)'
        BY <2>1, <2>2, <2>4, <2>6, <3>3, OwnKey
      <3>. QED
        BY <2>6, <3>2, <3>4 DEF Laid
    <2>. QED
      BY <2>5, <2>6
  <1>7. CASE UserTypes
    <2>1. PICK x \in Key : keys' = Append(keys, x) /\ x.by = User
      BY <1>7, UserKey
    <2>2. PICK n \in Nat : n = Laying(e)
      BY <1>2
    <2>3. UNCHANGED <<pc, at, typed>> /\ Laid(e, n) /\ Laying(e)' = n
      BY <1>1, <1>7, <2>2 DEF UserTypes, Written, Laying, Active
    <2>4. Laid(e, n)'
      BY <2>1, <2>3, OthersKey
    <2>. QED
      BY <2>3, <2>4 DEF Laid
  <1>8. CASE SessionEnds \/ RecordEnds \/ Respawn \/ UNCHANGED vars
    <2>1. UNCHANGED <<keys, pc, at, typed>>
      BY <1>8 DEF SessionEnds, RecordEnds, Respawn, vars
    <2>2. PICK n \in Nat : n = Laying(e)
      BY <1>2
    <2>3. Laid(e, n) /\ Laying(e)' = n
      BY <1>1, <2>1, <2>2 DEF Written, Laying, Active
    <2>4. Laid(e, n)'
      BY <2>1, <2>3, StillLaid
    <2>. QED
      BY <2>3, <2>4 DEF Laid
  <1>. QED
    BY <1>3, <1>4, <1>5, <1>6, <1>7, <1>8 DEF Next, Step, Keyed

LEMMA EscapeStep ==
  ASSUME TypeOK, Numbered, OnlyEscape, QuietNext \/ UserTypes \/ \E d \in Deliveries : Keyed(d),
         Locked
  PROVE  OnlyEscape'
  <1>1. CASE QuietNext
    BY <1>1, QuietSteps DEF Quiet, OnlyEscape, Indices
  <1>2. ASSUME NEW x \in Key, keys' = Append(keys, x),
               x.by \in Deliveries /\ Kind[x.by] = "interrupt" => x.what = Escape
        PROVE  OnlyEscape'
    BY <1>2, Appended DEF OnlyEscape
  <1>3. CASE UserTypes
    BY <1>2, <1>3, UserKey, DeliveryAssumption
  <1>4. ASSUME NEW d \in Deliveries, Keyed(d) PROVE OnlyEscape'
    <2>1. PICK x \in Key : keys' = Append(keys, x) /\ x.by = d /\ x.what = NextKey(d)
      BY <1>4, KeyedKey
    <2>. QED
      BY <1>2, <2>1 DEF NextKey
  <1>. QED
    BY <1>1, <1>3, <1>4

LEMMA WithinStep ==
  ASSUME TypeOK, Within, [Next]_vars
  PROVE  Within' /\ \A k \in BudgetKeys : Unspent(k)' => Unspent(k)
  <1>. USE DeliveryAssumption DEF TypeOK, Within, Unspent, BudgetKeys
  <1>1. ASSUME NEW d \in Deliveries, Breaks(d)
        PROVE  Within' /\ \A k \in BudgetKeys : Unspent(k)' => Unspent(k)
    BY <1>1 DEF Breaks, Spend
  <1>2. CASE UserTypes
    BY <1>2 DEF UserTypes, Spend
  <1>3. ASSUME NEW d \in Deliveries, Step(d) PROVE UNCHANGED budget
    BY <1>3 DEF Step, Begin, NotRunning, TypePart, PressEnter, PressEscape, Finish, PaneGone
  <1>4. CASE SessionEnds \/ RecordEnds \/ Respawn \/ UNCHANGED vars
    BY <1>4 DEF SessionEnds, RecordEnds, Respawn, vars
  <1>. QED
    BY <1>1, <1>2, <1>3, <1>4 DEF Next

(* A fault or a key of the operator shows in what is left of the budget.   *)
LEMMA SpendShows ==
  ASSUME TypeOK, Within, NEW k \in BudgetKeys, Spend(k)
  PROVE  ~Unspent(k)'
  BY DeliveryAssumption DEF TypeOK, Within, Spend, Unspent

Calm == Unspent("faults") /\ Unspent("typing")

LEMMA OpenStep ==
  ASSUME TypeOK, Locked, Numbered, Within, Written, OnlyEscape, OpenIsTyped, [Next]_vars
  PROVE  OpenIsTyped'
  <1>. USE DeliveryAssumption DEF TypeOK
  <1>0. SUFFICES ASSUME Calm', NEW i \in Indices', Open(i)'
                 PROVE  \/ pane' # keys'[i].pane
                        \/ keys'[i].by \in Deliveries /\ pc'[keys'[i].by] = "typing"
    BY DEF OpenIsTyped, Calm
  <1>. DEFINE Goal == \/ pane' # keys'[i].pane
                      \/ keys'[i].by \in Deliveries /\ pc'[keys'[i].by] = "typing"
  <1>1. Calm
    BY <1>0, WithinStep DEF Calm, BudgetKeys
  <1>2. ASSUME UNCHANGED keys
        PROVE  /\ i \in Indices /\ keys'[i] = keys[i] /\ keys[i].pane \in Panes
               /\ \/ pane # keys[i].pane
                  \/ keys[i].by \in Deliveries /\ pc[keys[i].by] = "typing"
    <2>1. i \in Indices /\ Open(i)
      BY <1>0, <1>2 DEF Indices, Open
    <2>2. keys[i] \in Key
      BY <2>1 DEF Indices
    <2>. QED
      BY <1>1, <1>2, <2>1, <2>2 DEF OpenIsTyped, Calm, Key
  <1>3. ASSUME NEW d \in Deliveries, Begin(d) \/ NotRunning(d) PROVE Goal
    <2>1. UNCHANGED <<keys, pane>> /\ pc[d] = "new"
          /\ \E to \in PCs : pc' = [pc EXCEPT ![d] = to]
      BY <1>3 DEF Begin, NotRunning, LockFree, Go, PCs, agentVars
    <2>. QED
      BY <1>2, <2>1
  <1>4. ASSUME NEW d \in Deliveries, Finish(d) PROVE Goal
    <2>1. UNCHANGED <<keys, pane>> /\ pc[d] = "submitted"
          /\ \E to \in PCs : pc' = [pc EXCEPT ![d] = to]
      BY <1>4 DEF Finish, Return, Go, PCs
    <2>. QED
      BY <1>2, <2>1
  <1>5. ASSUME NEW d \in Deliveries, PaneGone(d) PROVE Goal
    <2>1. UNCHANGED <<keys, pane>> /\ pc[d] = "typing" /\ pane # at[d]
          /\ pc' = [pc EXCEPT ![d] = "failed"]
      BY <1>5 DEF PaneGone, Return, Go, agentVars
    <2>2. SUFFICES ASSUME keys[i].by = d PROVE pane # keys[i].pane
      BY <1>2, <2>1
    <2>3. Kind[d] # "interrupt"
      BY <1>0, <1>2, <2>1, <2>2 DEF OnlyEscape, Open
    <2>4. Laid(d, Laying(d))
      BY <2>1, <2>3 DEF Written, Active
    <2>5. i \in KeysOf(d)
      BY <1>2, <2>1, <2>2 DEF KeysOf, Indices
    <2>. QED
      BY <2>1, <2>4, <2>5 DEF Laid
  <1>6. ASSUME NEW d \in Deliveries, Breaks(d) PROVE Goal
    BY <1>0, <1>6, SpendShows DEF Breaks, BudgetKeys, Calm
  <1>7. CASE UserTypes
    BY <1>0, <1>7, SpendShows DEF UserTypes, BudgetKeys, Calm
  <1>8. ASSUME NEW d \in Deliveries, Keyed(d) PROVE Goal
    <2>1. PICK x \in Key : keys' = Append(keys, x) /\ x.by = d /\ x.pane = at[d]
                           /\ x.what = NextKey(d)
      BY <1>8, KeyedKey
    <2>2. pc[d] = "typing" /\ pane = at[d] /\ UNCHANGED pane
      BY <1>8, KeyedKey DEF Keyed, TypePart, PressEnter, PressEscape, agentVars
    <2>3. keys'[i].what # Enter /\ keys'[i].what # Escape
      BY <1>0 DEF Open
    <2>4. CASE i = Len(keys) + 1
      <3>1. x.what # Enter /\ x.what # Escape
        BY <2>1, <2>3, <2>4, Appended
      <3>2. TypePart(d)
        BY <1>8, <2>1, <3>1 DEF Keyed, PressEnter, PressEscape, AllTyped, NextKey
      <3>. QED
        BY <2>1, <2>2, <2>4, <3>2, Appended DEF TypePart
    <2>5. CASE i \in Indices
      <3>1. keys'[i] = keys[i] /\ Indices \subseteq Indices'
            /\ Len(keys) + 1 \in Indices' /\ i < Len(keys) + 1
        BY <2>1, <2>5, Appended DEF Indices
      <3>2. \A j \in Indices : keys'[j] = keys[j]
        BY <2>1, Appended
      <3>3. Open(i)
        BY <1>0, <2>3, <3>1, <3>2 DEF Open
      <3>4. CASE pane = keys[i].pane
        <4>1. keys[i].by \in Deliveries /\ pc[keys[i].by] = "typing"
          BY <1>1, <2>5, <3>3, <3>4 DEF OpenIsTyped, Calm
        <4>2. keys[i].by = d
          BY <2>2, <4>1 DEF Locked, Active
        <4>3. x.what # Enter
          <5>1. keys'[Len(keys) + 1] = x
            BY <2>1, Appended
          <5>. QED
            BY <1>0, <2>1, <2>2, <3>1, <3>4, <5>1 DEF Open
        <4>4. pc'[d] = "typing"
          <5>1. Kind[d] # "interrupt"
            BY <2>3, <2>5, <3>1, <4>2 DEF OnlyEscape
          <5>. QED
            BY <1>8, <2>1, <2>2, <4>3, <5>1 DEF Keyed, TypePart, PressEnter, PressEscape,
                                              AllTyped, NextKey
        <4>. QED
          BY <3>1, <4>2, <4>4
      <3>. QED
        BY <2>2, <3>1, <3>4
    <2>6. Indices' = Indices \cup {Len(keys) + 1}
      BY <2>1, Appended
    <2>. QED
      BY <2>4, <2>5, <2>6
  <1>9. CASE Respawn
    <2>1. UNCHANGED <<keys, pc>> /\ pane' = panes + 1
      BY <1>9 DEF Respawn
    <2>2. keys[i].pane <= panes /\ keys[i].pane \in Nat /\ panes \in Nat
      BY <1>2, <2>1 DEF Numbered, Panes
    <2>. QED
      BY <1>2, <2>1, <2>2
  <1>10. CASE SessionEnds
    <2>1. UNCHANGED keys /\ pane' = None
      BY <1>10 DEF SessionEnds
    <2>. QED
      BY <1>2, <2>1
  <1>11. CASE RecordEnds \/ UNCHANGED vars
    <2>1. UNCHANGED <<keys, pc, pane>>
      BY <1>11 DEF RecordEnds, vars
    <2>. QED
      BY <1>2, <2>1
  <1>. QED
    BY <1>3, <1>4, <1>5, <1>6, <1>7, <1>8, <1>9, <1>10, <1>11 DEF Next, Step, Keyed

LEMMA LineStep ==
  ASSUME TypeOK, Locked, Numbered, Within, OpenIsTyped, OneMessagePerLine, [Next]_vars
  PROVE  OneMessagePerLine'
  <1>. USE DeliveryAssumption DEF TypeOK
  <1>1. CASE QuietNext
    <2>1. UNCHANGED keys
      BY <1>1, QuietSteps DEF Quiet
    <2>2. Calm' => Calm
      BY WithinStep DEF Calm, BudgetKeys
    <2>. QED
      BY <2>1, <2>2 DEF OneMessagePerLine, SameLine, Calm
  <1>2. CASE UserTypes
    BY <1>2, SpendShows DEF UserTypes, BudgetKeys, OneMessagePerLine
  <1>3. ASSUME NEW d \in Deliveries, Keyed(d) PROVE OneMessagePerLine'
    <2>1. PICK x \in Key : keys' = Append(keys, x) /\ x.by = d /\ x.pane = at[d]
      BY <1>3, KeyedKey
    <2>2. pc[d] = "typing" /\ pane = at[d]
      BY <1>3, KeyedKey
    <2>3. /\ Len(keys) \in Nat /\ keys'[Len(keys) + 1] = x
          /\ \A j \in Indices : keys'[j] = keys[j]
          /\ Indices' = Indices \cup {Len(keys) + 1}
      BY <2>1, Appended
    <2>4. SUFFICES ASSUME Calm', NEW i \in Indices', NEW k \in Indices',
                          SameLine(i, k)', keys'[i].what # Escape
                   PROVE  keys'[i].by = keys'[k].by
      BY DEF OneMessagePerLine, Calm, Indices
    <2>5. Calm
      BY <2>4, WithinStep DEF Calm, BudgetKeys
    <2>6. /\ i < k /\ keys'[i].pane = keys'[k].pane /\ keys'[k].what = Enter
          /\ \A j \in i .. k - 1 : keys'[j].pane = keys'[k].pane => keys'[j].what # Enter
      BY <2>4 DEF SameLine
    <2>7. i \in Indices /\ keys'[i] = keys[i]
      <3>1. i \in 1 .. Len(keys) \/ i = Len(keys) + 1
        BY <2>3 DEF Indices
      <3>2. k \in 1 .. Len(keys) \/ k = Len(keys) + 1
        BY <2>3 DEF Indices
      <3>3. i < k
        BY <2>6
      <3>4. i # Len(keys) + 1
        BY <2>3, <3>2, <3>3
      <3>. QED
        BY <2>3, <3>1, <3>4 DEF Indices
    <2>8. CASE k \in Indices
      <3>1. keys'[k] = keys[k] /\ \A j \in i .. k - 1 : keys'[j] = keys[j]
        BY SMTT(60), <2>3, <2>7, <2>8 DEF Indices
      <3>2. SameLine(i, k)
        BY <2>6, <2>7, <3>1 DEF SameLine
      <3>. QED
        BY <2>4, <2>5, <2>7, <2>8, <3>1, <3>2 DEF OneMessagePerLine, Calm, Indices
    <2>9. CASE k = Len(keys) + 1
      <3>1. Open(i)
        <4>1. keys[i].what # Enter
          BY <2>6, <2>7 DEF Indices
        <4>2. ASSUME NEW j \in Indices, i < j, keys[j].pane = keys[i].pane
              PROVE  keys[j].what # Enter
          <5>1. j \in i .. k - 1 /\ keys'[j] = keys[j]
            BY <2>3, <2>7, <2>9, <4>2 DEF Indices
          <5>. QED
            BY <2>6, <2>7, <4>2, <5>1
        <4>. QED
          BY <2>4, <2>7, <4>1, <4>2 DEF Open
      <3>2. pane = keys[i].pane
        BY <2>1, <2>2, <2>3, <2>6, <2>7, <2>9
      <3>3. keys[i].by \in Deliveries /\ pc[keys[i].by] = "typing"
        BY <2>5, <2>7, <3>1, <3>2 DEF OpenIsTyped, Calm
      <3>4. keys[i].by = d
        BY <2>2, <3>3 DEF Locked, Active
      <3>. QED
        BY <2>1, <2>3, <2>7, <2>9, <3>4
    <2>. QED
      BY <2>3, <2>8, <2>9
  <1>. QED
    BY <1>1, <1>2, <1>3, NextSplit

----------------------------------------------------------------------------
LEMMA StepIInv == IInv /\ [Next]_vars => IInv'
  <1>. SUFFICES ASSUME IInv, [Next]_vars PROVE IInv'
    OBVIOUS
  <1>1. /\ TypeOK /\ Locked /\ Fresh /\ LastWord /\ Numbered /\ Closed
        /\ Begun /\ Written /\ OnlyEscape /\ Within /\ OpenIsTyped
        /\ NeverInterleave /\ NothingAfterStop /\ OneMessagePerLine
    BY DEF IInv
  <1>2. (QuietNext \/ Loud) /\ (Quiet \/ Loud)
    BY <1>1, NextSplit, QuietSteps, LoudSteps
  <1>3. TypeOK'
    BY <1>1, TypeStep
  <1>4. Locked' /\ Fresh' /\ LastWord'
    BY <1>1, <1>2, LockedStep, FreshStep, TailStep
  <1>5. Numbered' /\ Closed'
    BY <1>1, <1>2, NumberedStep, ClosedStep
  <1>6. Begun' /\ Written' /\ OnlyEscape' /\ Within'
    BY <1>1, BegunStep, WrittenStep, EscapeStep, WithinStep, NextSplit
  <1>7. OpenIsTyped' /\ OneMessagePerLine'
    BY <1>1, OpenStep, LineStep
  <1>8. NeverInterleave' /\ NothingAfterStop'
    BY <1>1, <1>2, NeverStep, AfterStopStep
  <1>. QED
    BY <1>3, <1>4, <1>5, <1>6, <1>7, <1>8 DEF IInv

(* The invariant behind the theorems holds.                                *)
THEOREM DeliveryInvariance == Spec => []IInv
  BY InitIInv, StepIInv, PTL DEF Spec

(* Every variable keeps its type (MessageDelivery!TypeOK).                 *)
THEOREM DeliveryTypeCorrect == Spec => []TypeOK
  BY DeliveryInvariance, PTL DEF IInv

(* Concurrent senders never interleave: however many processes type into   *)
(* one agent, and wherever they die (send_message under <id>.lock).        *)
THEOREM SendersNeverInterleave == Spec => []NeverInterleave
  BY DeliveryInvariance, PTL DEF IInv

(* What tx says it sent was submitted whole, in order and to the pane the  *)
(* delivery began with, and every submitted line is one message (deliver,  *)
(* send_message, MessageDelivery!MessagesArriveWhole).                     *)
THEOREM ReceiptsHold == Spec => []MessagesArriveWhole
  <1>1. IInv => MessagesArriveWhole
    BY DEF IInv, MessagesArriveWhole, ReceiptMeansSubmitted, Written, Laying
  <1>. QED
    BY <1>1, DeliveryInvariance, PTL

(* Nothing is typed into a pane after the stop line of a stop that saved   *)
(* its record (stop_locked saves under <id>.lock, send_message asks there).*)
THEOREM StopTypesLast == Spec => []NothingAfterStop
  BY DeliveryInvariance, PTL DEF IInv
=============================================================================
