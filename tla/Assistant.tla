------------------------------ MODULE Assistant ------------------------------
(***************************************************************************)
(* The assistant (plugins/assistant): `tx assistant warm` makes one agent  *)
(* run, `ask` hands it a line, the home's header reads what they leave.    *)
(* Records change in one step each: what a refresh, a create or a respawn  *)
(* does in between is AgentLifecycle's.                                    *)
(***************************************************************************)
EXTENDS Naturals, Sequences, FiniteSets, SequencesExt

CONSTANTS
  Warmers,        \* processes of `tx assistant` and of the home
  AssistantIds,   \* agents with the TX-ASSISTANT role
  Lines,          \* lines the operator types at prefix+/
  NoOne, Blank,
  MaxWarms, MaxUpsets    \* bounds: calls; programs that end, steps of git that fail

ASSUME AssistantAssumption == NoOne \notin Warmers /\ Blank \notin Lines

VARIABLES
  repo,      \* the assistant's home: absent, directory, initialised, committed
  helper,    \* helper[a]: state, last change, whether its program lives, and whether it has
             \* the name tx-assistant
  warmLock,  \* who holds warm.lock
  failure,   \* warm.failed is there
  parked,    \* the paste buffer tx-assistant-input
  call,      \* call[p]: the call process p runs
  lastWarm,  \* how the last warm to leave the lock came out (history)
  unrecorded, \* warms whose outcome is not in the file yet (history)
  crossed,   \* the last warm left while another was of those (history)
  delivered,     \* lines the assistants got (history)
  hurried,   \* a line was parked while one was there or being taken (history)
  faulty,    \* a step of git failed or a call was killed (history)
  byHand,    \* the operator started an assistant (history)
  warms, upsets, ages

helperVars == <<repo, helper, warmLock, failure, parked, call, lastWarm, unrecorded, crossed,
                delivered, hurried, faulty, byHand, warms, upsets, ages>>
theRecords == <<helper, ages>>

NoRecord == [state |-> "none", age |-> 0, lives |-> FALSE, named |-> TRUE]
NoCall == [at |-> "idle", asks |-> FALSE, line |-> Blank, id |-> NoOne, left |-> {}, worked |-> FALSE]
CallAt(p, place) == call[p].at = place
CallTo(p, place) == call' = [call EXCEPT ![p].at = place]

Upset == upsets < MaxUpsets /\ upsets' = upsets + 1
Running(a) == helper[a].state \in {"starting", "working"}
NameFree(a) == helper[a].named => \A b \in AssistantIds \ {a} : ~(Running(b) /\ helper[b].named)
Ended == {a \in AssistantIds : helper[a].state = "ended"}

Changes(a, state, lives) ==
  /\ helper' = [helper EXCEPT ![a] = [@ EXCEPT !.state = state, !.age = ages + 1, !.lives = lives]]
  /\ ages' = ages + 1

-----------------------------------------------------------------------------
(* The calls *)

Begins(p, c) ==
  /\ CallAt(p, "idle") /\ warms < MaxWarms /\ warms' = warms + 1
  /\ call' = [call EXCEPT ![p] = c]

(* warm: of the operator, of attach and of the home that finds none running *)
BeginWarm(p) ==
  /\ Begins(p, [NoCall EXCEPT !.at = "lock"])
  /\ UNCHANGED <<repo, theRecords, warmLock, failure, parked, lastWarm, unrecorded, crossed, delivered,
                 hurried, faulty, byHand, upsets>>

(* prefix+/: the line is parked and a process begun to fetch it            *)
Type(line) ==
  /\ \A other \in Range(delivered) : other # line
  /\ parked # line /\ \A p \in Warmers : call[p].line # line
  /\ hurried' = (hurried \/ parked # Blank \/ \E p \in Warmers : CallAt(p, "take") \/ CallAt(p, "delete"))
  /\ parked' = line
  /\ \E p \in Warmers : Begins(p, [NoCall EXCEPT !.at = "take", !.asks = TRUE])
  /\ UNCHANGED <<repo, theRecords, warmLock, failure, lastWarm, unrecorded, crossed, delivered, faulty, byHand, upsets>>

(* take_input_buffer: shown, then deleted; a blank line is none. The focus *)
(* is read before the warm.                                                *)
ShowBuffer(p) ==
  /\ CallAt(p, "take")
  /\ call' = [call EXCEPT ![p] = IF parked = Blank THEN NoCall
                                 ELSE [@ EXCEPT !.at = "delete", !.line = parked]]
  /\ UNCHANGED <<repo, theRecords, warmLock, failure, parked, lastWarm, unrecorded, crossed, delivered,
                 hurried, faulty, byHand, warms, upsets>>
DeleteBuffer(p) ==
  /\ CallAt(p, "delete") /\ parked' = Blank /\ CallTo(p, "lock")
  /\ UNCHANGED <<repo, theRecords, warmLock, failure, lastWarm, unrecorded, crossed, delivered,
                 hurried, faulty, byHand, warms, upsets>>

(* assistant_state: what the home's header says                            *)
HeaderSays ==
  IF \E a \in AssistantIds : Running(a) /\ helper[a].lives THEN "runs"
  ELSE IF failure THEN "failed" ELSE IF Ended = {} THEN "absent" ELSE "stopped"

-----------------------------------------------------------------------------
(* start, under warm.lock *)

WarmStays == UNCHANGED <<failure, parked, delivered, hurried, byHand, warms>>

(* Mutant: nobody waits for it. *)
TakeNoWarmLock(p) ==
  /\ CallAt(p, "lock") /\ warmLock' = warmLock /\ CallTo(p, "home")
  /\ WarmStays /\ UNCHANGED <<repo, theRecords, lastWarm, unrecorded, crossed, faulty, upsets>>
TakeWarmLock(p) ==
  /\ CallAt(p, "lock") /\ warmLock = NoOne /\ warmLock' = p /\ CallTo(p, "home")
  /\ WarmStays /\ UNCHANGED <<repo, theRecords, lastWarm, unrecorded, crossed, faulty, upsets>>

(* The lock is dropped before the outcome is recorded.                     *)
Leaves(p, worked, id) ==
  /\ warmLock' = IF warmLock = p THEN NoOne ELSE warmLock
  /\ call' = [call EXCEPT ![p] = [@ EXCEPT !.at = "record", !.worked = worked, !.id = id]]
  /\ lastWarm' = worked /\ unrecorded' = unrecorded \cup {p}
  /\ crossed' = (unrecorded # {})

(* ensure_home: made once, in steps of which one can fail; .git is what is *)
(* looked for. Trust comes with every call.                                *)
Further(state) == CASE state = "absent" -> "directory" [] state = "directory" -> "initialised"
                    [] OTHER -> "committed"
MakeHome(p) ==
  /\ CallAt(p, "home") /\ repo \in {"absent", "directory"}
  /\ repo' = Further(repo)
  /\ call' = [call EXCEPT ![p].at = IF repo' = "initialised" THEN "commit" ELSE "home"]
  /\ WarmStays /\ UNCHANGED <<theRecords, warmLock, lastWarm, unrecorded, crossed, faulty, upsets>>
CommitHome(p) ==
  /\ CallAt(p, "commit") /\ repo' = "committed" /\ CallTo(p, "home")
  /\ WarmStays /\ UNCHANGED <<theRecords, warmLock, lastWarm, unrecorded, crossed, faulty, upsets>>
HomeFails(p) ==
  /\ (CallAt(p, "home") /\ repo \in {"absent", "directory"}) \/ CallAt(p, "commit")
  /\ Upset /\ Leaves(p, FALSE, NoOne) /\ faulty' = TRUE
  /\ WarmStays /\ UNCHANGED <<repo, theRecords>>

(* running: every agent listed as running, refreshed one after the other   *)
ListRunning(p) ==
  /\ CallAt(p, "home") /\ repo \in {"initialised", "committed"}
  /\ call' = [call EXCEPT ![p] = [@ EXCEPT !.at = "running", !.left = {a \in AssistantIds : Running(a)}]]
  /\ WarmStays /\ UNCHANGED <<repo, theRecords, warmLock, lastWarm, unrecorded, crossed, faulty, upsets>>
RefreshNext(p) ==
  /\ CallAt(p, "running") /\ WarmStays /\ UNCHANGED <<repo, faulty, upsets>>
  /\ \E a \in call[p].left :
       IF Running(a) /\ helper[a].lives
         THEN Leaves(p, TRUE, a) /\ UNCHANGED theRecords
         ELSE /\ (IF Running(a) THEN Changes(a, "ended", FALSE) ELSE UNCHANGED theRecords)
              /\ call' = [call EXCEPT ![p].left = @ \ {a}]
              /\ UNCHANGED <<warmLock, lastWarm, unrecorded, crossed>>

(* latest_ended: the newest by its last change; respawned in place, which  *)
(* fails for one that runs again                                           *)
LatestEnded(p) ==
  /\ CallAt(p, "running") /\ call[p].left = {}
  /\ \/ Ended = {} /\ CallTo(p, "create")
     \/ \E a \in Ended :
          /\ \A b \in Ended : helper[b].age <= helper[a].age
          /\ call' = [call EXCEPT ![p] = [@ EXCEPT !.at = "respawn", !.id = a]]
  /\ WarmStays /\ UNCHANGED <<repo, theRecords, warmLock, lastWarm, unrecorded, crossed, faulty, upsets>>
Respawn(p) ==
  /\ CallAt(p, "respawn") /\ WarmStays /\ UNCHANGED <<repo, faulty, upsets>>
  /\ LET a == call[p].id IN
     IF helper[a].state = "ended" /\ NameFree(a) THEN Changes(a, "starting", TRUE) /\ Leaves(p, TRUE, a)
     ELSE UNCHANGED theRecords /\ Leaves(p, FALSE, NoOne)
(* An agent needs a commit for its worktree; a name taken gets a number.   *)
Create(p) ==
  /\ CallAt(p, "create") /\ WarmStays /\ UNCHANGED <<repo, faulty, upsets>>
  /\ \E a \in AssistantIds :
       /\ helper[a] = NoRecord
       /\ IF repo = "committed" THEN Changes(a, "starting", TRUE) /\ Leaves(p, TRUE, a)
          ELSE UNCHANGED theRecords /\ Leaves(p, FALSE, NoOne)

(* record_outcome; the verb ends, or ask goes on                           *)
RecordOutcome(p) ==
  /\ CallAt(p, "record") /\ failure' = ~call[p].worked
  /\ call' = [call EXCEPT ![p] = IF @.worked /\ @.asks THEN [@ EXCEPT !.at = "wait"] ELSE NoCall]
  /\ unrecorded' = unrecorded \ {p}
  /\ UNCHANGED <<repo, theRecords, warmLock, parked, lastWarm, crossed, delivered, hurried, faulty, byHand, warms, upsets>>

(* ask: until it has started, or long enough                               *)
Waited(p) ==
  /\ CallAt(p, "wait") /\ CallTo(p, "send")
  /\ UNCHANGED <<repo, theRecords, warmLock, failure, parked, lastWarm, unrecorded, crossed, delivered,
                 hurried, faulty, byHand, warms, upsets>>
Send(p) ==
  /\ CallAt(p, "send") /\ call' = [call EXCEPT ![p] = NoCall]
  /\ delivered' = IF Running(call[p].id) /\ helper[call[p].id].lives
                THEN Append(delivered, call[p].line) ELSE delivered
  /\ UNCHANGED <<repo, theRecords, warmLock, failure, parked, lastWarm, unrecorded, crossed, hurried,
                 faulty, byHand, warms, upsets>>

-----------------------------------------------------------------------------
(* Around them *)

WorldStays == UNCHANGED <<repo, warmLock, failure, parked, call, lastWarm, unrecorded, crossed,
                          delivered, hurried, faulty, warms>>
Started(a) ==
  /\ helper[a].state = "starting" /\ helper[a].lives
  /\ helper' = [helper EXCEPT ![a].state = "working"]
  /\ WorldStays /\ UNCHANGED <<byHand, ages, upsets>>
(* a program that ends unnoticed, or a stop                                *)
ProgramEnds(a) ==
  /\ helper[a].lives /\ helper' = [helper EXCEPT ![a].lives = FALSE]
  /\ Upset /\ WorldStays /\ UNCHANGED <<byHand, ages>>
Stopped(a) ==
  /\ Running(a) /\ Changes(a, "ended", FALSE) /\ Upset /\ WorldStays /\ UNCHANGED byHand
RespawnedByHand(a) ==
  /\ helper[a].state = "ended" /\ NameFree(a) /\ Changes(a, "starting", TRUE) /\ byHand' = TRUE
  /\ Upset /\ WorldStays
Renamed(a) ==
  /\ Running(a) /\ helper[a].named /\ helper' = [helper EXCEPT ![a].named = FALSE]
  /\ Upset /\ WorldStays /\ UNCHANGED <<byHand, ages>>
(* a call that is killed; the lock goes with it                            *)
Killed(p) ==
  /\ ~CallAt(p, "idle") /\ Upset
  /\ call' = [call EXCEPT ![p] = NoCall] /\ warmLock' = IF warmLock = p THEN NoOne ELSE warmLock
  /\ unrecorded' = unrecorded \ {p} /\ crossed' = (crossed \/ p \in unrecorded)
  /\ faulty' = TRUE
  /\ UNCHANGED <<repo, theRecords, failure, parked, lastWarm, delivered, hurried, byHand, warms>>

AssistantInit ==
  /\ repo = "absent" /\ helper = [a \in AssistantIds |-> NoRecord] /\ warmLock = NoOne
  /\ failure = FALSE /\ parked = Blank /\ call = [p \in Warmers |-> NoCall]
  /\ lastWarm = TRUE /\ unrecorded = {} /\ crossed = FALSE
  /\ delivered = <<>> /\ hurried = FALSE /\ faulty = FALSE /\ byHand = FALSE /\ warms = 0 /\ upsets = 0 /\ ages = 0

AssistantNext ==
  \/ \E line \in Lines : Type(line)
  \/ \E p \in Warmers :
       \/ BeginWarm(p)
       \/ ShowBuffer(p)
       \/ DeleteBuffer(p)
       \/ TakeWarmLock(p)
       \/ MakeHome(p)
       \/ CommitHome(p)
       \/ HomeFails(p)
       \/ ListRunning(p)
       \/ RefreshNext(p)
       \/ LatestEnded(p)
       \/ Respawn(p)
       \/ Create(p)
       \/ RecordOutcome(p)
       \/ Waited(p)
       \/ Send(p)
       \/ Killed(p)
  \/ \E a \in AssistantIds :
       Started(a) \/ ProgramEnds(a) \/ Stopped(a) \/ RespawnedByHand(a) \/ Renamed(a)

AssistantSpec == AssistantInit /\ [][AssistantNext]_helperVars

-----------------------------------------------------------------------------
(* Warms take turns: they start no second assistant, and none fails for    *)
(* another one's sake, unless the operator starts assistants or something  *)
(* broke. A line that was not typed over another is delivered once. The home's *)
(* header says "failed" only of a last warm that failed, if no two warms   *)
(* ended at a time (warm, ask, record_outcome).                            *)
AssistantHolds ==
  /\ ~byHand => Cardinality({a \in AssistantIds : helper[a].lives}) <= 1
  /\ ~lastWarm => faulty \/ byHand
  /\ ~hurried => \A i, j \in DOMAIN delivered : delivered[i] = delivered[j] => i = j
  /\ (unrecorded = {} /\ ~crossed /\ HeaderSays = "failed") => ~lastWarm
  /\ repo = "initialised" => faulty \/ \E p \in Warmers : CallAt(p, "commit")
=============================================================================
