---------------------------- MODULE EngineHooks ----------------------------
(***************************************************************************)
(* What an agent's record says of its CLI: the CLI (Claude or Codex) fires *)
(* hooks, each a `txi hook` process that waits for <id>.lock, asks the     *)
(* adapter and saves; tx interrupts a turn by typing Escape and saving the *)
(* state the adapter names (plugins/engine-*/src/lib.rs on_hook,           *)
(* tx-core/src/core.rs hook, interrupt_agent).                             *)
(***************************************************************************)
EXTENDS Naturals, SequencesExt

CONSTANTS
  MaxClears,   \* bound: conversations of one process, one per /clear or /new
  MaxTurns,   \* bound: turns interrupted
  MaxHooks    \* bound: hook processes at the same time

ASSUME HooksAssumption == {MaxClears, MaxTurns, MaxHooks} \subseteq Nat

VARIABLES
  engine,    \* the adapter of the record
  cli,       \* the CLI: its mode, conversation, whether it named it, turn
  escape,    \* an Escape is typed and not read yet
  hooks,     \* the hook processes, in the order the CLI started them
  record,    \* state and conversation_id; state "none" before create's save
  locked,    \* an interrupt holds <id>.lock
  excused    \* history: why state or conversation may be out of date

hookVars == <<engine, cli, escape, hooks, record, locked, excused>>

Modes == {"booting", "prompt", "submitting", "turn", "answered", "question", "off"}

HooksInit ==
  /\ engine \in {"claude", "codex"}
  /\ cli = [mode |-> "booting", conv |-> 1, named |-> FALSE, turn |-> 0, waits |-> FALSE]
  /\ escape = FALSE /\ hooks = <<>>
  /\ record = [state |-> "none", conv |-> 0]
  /\ locked = FALSE
  /\ excused = {}

----------------------------------------------------------------------------
(* The adapters *)

ClaudeState(name) ==
  CASE name \in {"SessionStart", "Stop", "Notification"} -> "idle"
    [] name \in {"UserPromptSubmit", "PreToolUse", "PostToolUse"} -> "working"
    [] name = "SessionEnd" -> "ended"
    [] OTHER -> "same"      \* idle_prompt; SessionEnd of a /clear

(* Mutant: takes the SessionEnd of an idle process for its end. *)
CodexStateEnds(name) ==
  CASE name \in {"SessionStart", "Stop", "Interrupt", "PermissionRequest"} -> "idle"
    [] name \in {"UserPromptSubmit", "PostToolUse"} -> "working"
    [] name = "SessionEnd" -> "ended"
    [] OTHER -> "same"

CodexState(name) ==
  CASE name \in {"SessionStart", "Stop", "Interrupt", "PermissionRequest"} -> "idle"
    [] name \in {"UserPromptSubmit", "PostToolUse"} -> "working"
    [] OTHER -> "same"

StateOf(name) == IF engine = "claude" THEN ClaudeState(name) ELSE CodexState(name)

(* conversation_started: id and path of a SessionStart, when they differ.  *)
StartedConversation(h) == IF h.name = "SessionStart" THEN h.conv ELSE record.conv

(* Claude's conversation is named after the agent before the launch.       *)
LaunchData == IF engine = "claude" THEN 1 ELSE 0

----------------------------------------------------------------------------
(* The CLI: in every step it fires at most one hook and waits for it, for  *)
(* HOOK_TIMEOUT_SECONDS at most.                                           *)

(* Without the hook i; those before it come late now.                      *)
Overtaken(i) ==
  [j \in 1 .. Len(hooks) - 1 |->
     IF j < i THEN [hooks[j] EXCEPT !.late = TRUE] ELSE hooks[j + 1]]

Moves(mode, name) ==
  /\ ~cli.waits /\ Len(hooks) < MaxHooks
  /\ cli' = [cli EXCEPT !.mode = mode, !.waits = TRUE,
                        !.named = cli.named \/ name = "SessionStart"]
  /\ hooks' = Append(hooks, [name |-> name, conv |-> cli.conv, turn |-> cli.turn,
                           late |-> FALSE])
  /\ UNCHANGED <<engine, escape, record, locked, excused>>

MovesQuietly(new) ==
  /\ ~cli.waits
  /\ cli' = new
  /\ UNCHANGED <<engine, escape, hooks, record, locked, excused>>

Boot ==
  /\ cli.mode = "booting"
  /\ IF engine = "claude" THEN Moves("prompt", "SessionStart")
                          ELSE MovesQuietly([cli EXCEPT !.mode = "prompt"])

(* Codex names a conversation with its first prompt.                       *)
Submit ==
  /\ cli.mode \in {"prompt", "submitting"} /\ ~escape
  /\ IF cli.named THEN Moves("turn", "UserPromptSubmit")
                  ELSE Moves("submitting", "SessionStart")

Tool ==
  /\ cli.mode \in {"turn", "answered"}
  /\ \E name \in {"PreToolUse", "PostToolUse"} :
       /\ name = "PreToolUse" => engine = "claude"
       /\ Moves("turn", name)

Ask ==
  /\ cli.mode = "turn"
  /\ Moves("question", IF engine = "claude" THEN "Notification" ELSE "PermissionRequest")

Answer == cli.mode = "question" /\ MovesQuietly([cli EXCEPT !.mode = "answered"])

Finish == cli.mode \in {"turn", "answered"} /\ Moves("prompt", "Stop")

(* Claude a minute after every turn, Codex after half an hour.             *)
StaysIdle ==
  /\ cli.mode = "prompt"
  /\ Moves("prompt", IF engine = "claude" THEN "idle_prompt" ELSE "SessionEnd")

(* /clear and /new: another conversation in the same process.              *)
Clear ==
  /\ cli.mode = "prompt" /\ ~escape /\ cli.conv < MaxClears /\ ~cli.waits
  /\ Len(hooks) < MaxHooks
  /\ cli' = [cli EXCEPT !.conv = @ + 1, !.named = engine = "claude",
                        !.waits = engine = "claude"]
  /\ hooks' = IF engine = "codex" THEN hooks
              ELSE Append(hooks, [name |-> "SessionStart", conv |-> cli.conv + 1,
                                  turn |-> cli.turn, late |-> FALSE])
  /\ UNCHANGED <<engine, escape, record, locked, excused>>

(* Only Codex tells of an interrupted turn.  Nobody waits for its hooks.   *)
ReadEscape ==
  /\ escape /\ escape' = FALSE
  /\ LET aborts == cli.mode \in {"turn", "answered", "question"} IN
     /\ (aborts /\ engine = "codex") => Len(hooks) < MaxHooks
     /\ cli' = IF aborts THEN [cli EXCEPT !.mode = "prompt", !.waits = FALSE, !.turn = @ + 1]
               ELSE cli
     /\ hooks' = IF aborts /\ engine = "codex"
                 THEN Append(hooks, [name |-> "Interrupt", conv |-> cli.conv,
                                     turn |-> cli.turn + 1, late |-> FALSE])
                 ELSE hooks
  /\ UNCHANGED <<engine, record, locked, excused>>

(* The operator presses it.                                                *)
EscapeByHand ==
  /\ ~escape /\ cli.mode \in {"turn", "question"} /\ cli.turn < MaxTurns
  /\ escape' = TRUE
  /\ excused' = excused \cup {"state"}
  /\ UNCHANGED <<engine, cli, hooks, record, locked>>

(* The hook takes too long: the CLI goes on, and may kill it.              *)
Slow ==
  /\ cli.waits /\ cli' = [cli EXCEPT !.waits = FALSE]
  /\ \E killed \in BOOLEAN :
       /\ hooks' = IF killed THEN Overtaken(Len(hooks)) ELSE hooks
       /\ excused' = IF killed THEN {"state", "conv"} ELSE excused
  /\ UNCHANGED <<engine, escape, record, locked>>

Exit ==
  /\ cli.mode \in {"prompt", "turn"}
  /\ Moves("off", "SessionEnd")

----------------------------------------------------------------------------
(* tx *)

(* create, once tmux has the session.                                      *)
SaveNew ==
  /\ record.state = "none"
  /\ record' = [state |-> "starting", conv |-> LaunchData]
  /\ UNCHANGED <<engine, cli, escape, hooks, locked, excused>>

(* What a hook leaves open: it came too early, or another overtook it, or  *)
(* it is of a turn that was aborted meanwhile.                             *)
Excuses(i) ==
  LET h == hooks[i]
      early == record.state = "none"
      late == i > 1 \/ h.late
      tells == (IF StateOf(h.name) # "same" THEN {"state"} ELSE {})
               \cup (IF h.name = "SessionStart" THEN {"conv"} ELSE {})
      loses == IF early \/ late THEN tells
               ELSE IF h.turn # cli.turn \/ escape THEN {"state"} ELSE {}
  IN  excused' = (excused \ tells) \cup loses

(* TxCore::hook: no record yet, or one that has ended, changes nothing.    *)
HookRuns(i) ==
  LET h == hooks[i] IN
  /\ ~locked
  /\ record' =
       IF record.state \in {"none", "ended"} THEN record
       ELSE [state |-> IF StateOf(h.name) = "same" THEN record.state ELSE StateOf(h.name),
             conv |-> StartedConversation(h)]
  /\ Excuses(i)
  /\ hooks' = Overtaken(i)
  /\ cli' = [cli EXCEPT !.waits = cli.waits /\ i # Len(hooks)]
  /\ UNCHANGED <<engine, escape, locked>>

Interrupt ==
  /\ ~locked /\ ~escape /\ cli.mode # "off" /\ cli.turn < MaxTurns
  /\ record.state \notin {"none", "ended"}
  /\ locked' = TRUE /\ escape' = TRUE
  /\ UNCHANGED <<engine, cli, hooks, record, excused>>

InterruptSaves ==
  /\ locked /\ locked' = FALSE
  /\ record' = [record EXCEPT !.state = "idle"]
  /\ UNCHANGED <<engine, cli, escape, hooks, excused>>

HooksNext ==
  \/ Boot \/ Submit \/ Tool \/ Ask \/ Answer \/ Finish \/ StaysIdle \/ Clear
  \/ ReadEscape \/ EscapeByHand \/ Slow \/ Exit
  \/ SaveNew \/ Interrupt \/ InterruptSaves
  \/ \E i \in DOMAIN hooks : HookRuns(i)

HooksSpec == HooksInit /\ [][HooksNext]_hookVars

----------------------------------------------------------------------------
(* Properties *)

(* What a record may say of a CLI in this mode.                            *)
Truthful ==
  [m \in Modes |->
     CASE m = "booting" -> {"starting", "idle"}
       [] m = "prompt" -> IF engine = "codex" THEN {"starting", "idle"} ELSE {"idle"}
       [] m = "turn" -> {"working"}
       [] m = "answered" -> {"idle", "working"}
       [] m \in {"submitting", "question"} -> {"idle"}
       [] m = "off" -> IF engine = "claude" THEN {"ended"} ELSE {"starting", "idle", "working"}]

(* Once the hooks are through and no Escape is on its way, the record says *)
(* what the CLI is doing and names its conversation, through questions,    *)
(* /clear, idle hooks and interrupts, unless a hook came before the record,*)
(* was overtaken or killed, or told of an aborted turn, or the operator    *)
(* pressed Escape; the next hook that tells heals it (core.rs hook,        *)
(* interrupt_agent; both on_hook).                                         *)
RecordFollows ==
  (record.state # "none" /\ hooks = <<>> /\ ~escape /\ ~locked) =>
    /\ "state" \in excused \/ record.state \in Truthful[cli.mode]
    /\ ("conv" \in excused \/ ~cli.named) \/ record.conv = cli.conv
=============================================================================
