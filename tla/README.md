# tx-ide, specified

TLA+ specifications of [tx-ide](../src/README.md), a core for a swarm of interactive coding agents in
tmux: what its processes promise each other over one state directory and one tmux server, and what its
verbs, popups and screens make of that. TLC checks the specifications on small instances; TLAPS proves
the main safety properties for every number of processes, agents, names, files and failures.

Contents: [the system](#the-system), [the modules](#the-modules), [what is checked](#what-is-checked),
[what is proved](#what-is-proved), [what is left out](#what-is-left-out), [the plan](#the-plan).

## The system

Every `tx` and `txi` invocation is a process of its own, opens the same `TxCore`, does one thing and
ends; a few (the home, the timeline, a mockup viewer) stay. There is no daemon. What orders them is
lock files, the atomic replacement of record files, and tmux.

| component | state | operations | hard because |
|---|---|---|---|
| lifecycle: `TxCore` (`tx-core/src/core.rs`) | none of its own: records, locks, tmux, worktrees, profiles | create, fork, respawn, rename, stop, refresh, refresh_all, hook, interrupt, update_ext, set_agent_tags, send_message | any two processes interleave; git, tmux and the engine are called in the middle; a launch is undone half-way; stop waits for a process while holding a lock |
| record store (`store.rs`, `agent.rs`) | `agents/<id>/agent.json` | load, save, all, skipped | a save replaces the record whole: a stale copy overwrites another's write; it can fail after the rename |
| lock files (`locks.rs`) | `locks/create.lock`, `locks/<id>.lock` | acquire, drop | order between the two kinds; a lock file replaced between open and lock |
| tmux (`tmux.rs`) | sessions, their names, `@tx-id`, panes and processes | new-session, set-option, list-sessions, rename, kill, send-keys | sessions end by themselves; kill and link go by name; the process outlives its session |
| worktrees (`worktree.rs`) | git worktrees under `<data>/worktrees` | create_unique, remove | three name spaces (records, disk, git's list), 99 candidates, paths spelled in several ways |
| messaging (`messaging.rs`) | what is typed in a pane | deliver | text and Enter are two calls; a sender can die between them |
| archive (`mirror.rs`, `core.rs`) | `agents/<id>/archive` | archive, restore | a lock taken without waiting: who holds it may have read too early |
| events (`events.rs`) | `log.jsonl`, sinks | emit | sinks may use the core, so they must run outside the locks |
| engines (`plugins/engine-*`) | engine data in the record | start, resume, fork, on_hook, interrupt, stop | hooks arrive late, twice or out of order |
| profiles and definitions | role, skill and definition directories | resolve, apply, check | search paths and overrides; the check is other code than the launch |
| command line, configuration (`tx-core-cli`, `config.rs`, `plugins.rs`) | environment, `config.yaml`, manifests | open a core, plug, unplug, spawn | flags, a session's environment, XDG and a file read more than once |
| views (`tx-client/src/views.rs`) | tmux session options | open, ls, close | the check and the act are two tmux calls; a name may belong to an agent |
| install and attach (`tx-client/src/install.rs`) | fragments, a record of what was bound | install, attach | a server keeps what an older install bound |
| artifacts (`plugins/artifacts`) | records, revisions, worktrees of diffs | create, modify, diff, open, archive, close, doctor, prefix+a | revisions against concurrent writers, clean-up steps kept for later, a list whose answer comes late |
| assistant (`plugins/assistant`) | a lock, `warm.failed` | warm, ask | two warms at once, an assistant that is still starting |
| home, mockup, tutor, timeline, picker, editor, chat | a screen's state, a file each | keys, refreshes, verbs | the data behind the screen moves while the user types |

Calls go down (plugin -> `TxCore` -> store, locks, tmux); hooks come back up as `txi hook` processes
that the engine starts inside a session; events go to the log and to in-process sinks.

What makes each component correct:

- lifecycle: names are unique among running agents; a write is never lost; one program per agent;
  an agent recorded as ended has no session, a running one has (or had) one; a failed launch
  leaves nothing; every operation returns; a late hook does not touch a later run;
- store: a reader sees the old or the new record, never a torn one, and what was reported survives a
  power loss; locks: at most one holder;
- messaging: a submitted line is one message; archive: after the end of a run the archive is the
  whole transcript; events: outside the locks;
- engines: the record says what the CLI does and which conversation it is in; definitions: what the
  check passes is what the launch grants;
- views: closing a view never closes an agent; artifacts: revisions are consecutive and immutable;
  assistant: never two of them; install: a server holds what the last install recorded;
- screens: the cursor, the selection and the form keep to the session they were put on while the data
  moves; verbs by name: a name means the agent that had it when the user saw it.

`PROJECT.json` lists every component with its files, and the hazards, each at its line.

## The modules

The core, one module per mechanism:

| module | models |
|---|---|
| `AgentRegistry` | the abstract specification: a function from ids to records, and what an operation may make of one |
| `AgentLifecycle` | `TxCore`'s operations by several processes: lock files, records, tmux sessions, programs, worktrees, profiles; implements `AgentRegistry` |
| `MessageDelivery` | what messages, stops and interrupts type into the panes of one agent, key by key |
| `ConversationArchive` | one agent's transcripts and their archive: hooks, stops, exits and respawns |
| `StateFiles` | lock files, record files and what the sinks hear, step by step, with power losses |
| `EngineHooks` | what a record says of its CLI: the turns of Claude and Codex, their hooks, interrupts |
| `EngineLaunch` | definition files in layered roots and `tx check`; an agent's engine data from create to fork and resume; the plan of the CLI's arguments, and of what its worktree is given |
| `Quoting` | the command lines tx builds, beside the shells, tmux, nvim and Lua that read them; a line of the log |

Clients and plugins:

| module | models |
|---|---|
| `CommandLine` | which core an invocation opens, create's flags, plugins and their verbs, the form of a new agent; and what a name becomes: session, label, branch, one spelling of a path |
| `Names` | the verbs that are given a name, or read one off a pane, while sessions change theirs |
| `ClientViews` | the view verbs, their guards, nested clients and the walk out of them |
| `Install` | `tx ui install`: the fragments, the record of what was bound, the running server |
| `HomeFloor`, `HomeScreen` | the home's pane, what was chosen in it and how it comes back; its rows, cursor, keys and prompts against the worker's answers |
| `HomeChoices` | what a choice does to its pane or client; the loop around the screen; the projects git names |
| `SessionEditor` | the form that edits a session, its commit, the decoder of its keys |
| `RevisionLog` | abstract: a log of revisions that grows at its end, and a label |
| `ArtifactRevisions` | one artifact's record, working copy, revision files and lock under several writers; implements `RevisionLog` |
| `ArtifactStore` | the records of several artifacts, the verbs that name them, groups, the doctor; `tx tour`, which makes artifacts of stops and opens them |
| `ArtifactDiffs` | the hunks between two revisions, and the diff kind over git |
| `ArtifactViews` | the views of one artifact, their temporary worktrees and close steps |
| `Panes` | one tmux server of panes and nested clients; prefix+a's list and `tx pick` in it |
| `Mockup` | screens written, polled, chosen from; `start`, `show`, `wait`, `stop` |
| `Assistant` | `warm` under its lock, `ask` |
| `Tutor` | the tutorial's verbs over a progress file; the packs, words, checks and the server a check starts |
| `Timeline`, `TimelineScreen` | transcripts read as they grow, their turns, lanes and edges; the screen over them |
| `Chat` | the times and rows of transcripts, the removal of retired hooks |

Instances and theorems:

| module | is |
|---|---|
| `MCAgentLifecycle`, `MCConversationArchive` | the values TLC gives a core module's constants; those of the others are in their `.cfg` |
| `MCServices`, `MCScreens`, `MCTools` | components around the agents' operations, programs that draw, and verbs a user types, one component to a behaviour |
| `AgentLifecycleProofs`, `MessageDeliveryProofs`, `ConversationArchiveProofs`, `StateFilesProofs`, `ArtifactRevisionsProofs` | the theorems, each about the module of its name |
| `ClientProofs` | the theorems about `Install`, `ClientViews` and `ArtifactViews` |
| `ServicesProofs` | the theorems about `EngineLaunch`, `EngineHooks` and `Assistant` |
| `ScreensProofs` | the theorems about `HomeFloor`, `HomeScreen`, `SessionEditor`, `TimelineScreen` and `Mockup` |

`AgentLifecycle` is the frame: which operation may run when, and what it does to records, sessions and
programs. `MessageDelivery` and `ConversationArchive` take one agent of it and open up what is a single
step or no step there: the keys of a delivery, and the files of an archive. Where they need an operation
of the frame they keep its guards and its effect (`Respawn`, `Stop`, `RecordEnds`) and leave its waiting
out. `StateFiles` opens up its locks and saves. The artifact modules are the artifacts plugin's, which
has a store and locks of its own; of the core it uses only tmux.


### AgentLifecycle

A process that runs an operation walks through `pc`:

    idle -> queue -> want -> launch -> link -> save -> idle
             |        |                  |
       create.lock  <id>.lock         (undo)

`queue` waits for `create.lock`, `want` for `<id>.lock`. `job[p]` is what the process remembers: the
record it loaded (`old`), the one it will save (`new`), the program it acts on. Each action is the code
between two points at which another process can change something the operation depends on:
`Respawn` is `respawn_locked` up to the launch, `Launch` is `start_locked` up to `new-session`, `Link`
is `set_tx_id`, `Save` every `TxCore::save`. What a caller refuses (`NotRunning`, `StillRunning`,
`NameTaken`, ...) is an action `...Refused` that returns.

| variable | the code's |
|---|---|
| `record[i]` | `agents/<i>/agent.json`; `data` stands for tags, engine and plugin data |
| `createLock`, `agentLock[i]` | who holds `create.lock`, `<i>.lock` |
| `minted`, `worktrees`, `profiles` | ids given out, worktrees and profile files on disk |
| `runs[r]` | the r-th program tx started in tmux: its agent, its session's name, whether the session is open and carries `@tx-id` (`linked`), whether the process is alive |

Modelling decisions a reader should know:

- A program may exit whenever it likes, then its session goes. A session may be closed while the
  program wraps up, which is when its hooks (`SessionEnd`) come late; when the program dies the hook
  commands it started die with it.
- A hook may report any state the adapters know, at any time, with any engine data.
- The record scan of `store.all()` is one step; the order in which `refresh_all` takes the agents is
  any order. Reading a record and deciding on it under its lock is one step.
- `kill-session`, `set-option` and `new-session` go by name as in the code: `Link` and `Undo` act on
  whatever session has the name.
- The `kill-session` of a stop may fail: the stop then returns an error, with the record saved as ended and
  the program alive (`LeaveFails`). Nothing else ends that program; `StopEndsTheProgram` excuses it.
- Names are a base and a number. The 99 candidates are `1 .. MaxSuffix`.
- Fork takes its snapshot and becomes a create. Its engine data is the engine's choice.

`Budget` bounds a behaviour: operations begun, failing calls (`faults`), processes killed (`crashes`),
sessions closed by hand (`closes`). `MaxRuns` bounds the programs started: at the bound a launch
fails as if tmux had refused it. Deadlock is not checked: when the budget is spent the system is
allowed to stop.

### MessageDelivery

A delivery is one call of `send_message`, `stop_agent` or `interrupt_agent`. Under `<id>.lock` it asks
the record and tmux (`Begin`, or `NotRunning`), types its text in one or more `send-keys` calls
(`TypePart`; a text that ends in semicolons takes one more call for each), waits, presses Enter
(`PressEnter`) or just Escape (`PressEscape`), and gives its receipt (`Finish`); a stop saves the record
as ended with it. It fails when its pane goes away (`PaneGone`) or dies at any point (`Breaks`), and
what it has typed stays in the agent's input line.

`keys` is everything the panes were sent, in order, each key with its pane and its sender. It is a
history: the properties are about it. Around the deliveries sessions end, a refresh or hook ends the
record, a respawn opens the next pane, and the operator, who is attached, types. tmux serves whoever
calls: nothing but `<id>.lock` keeps two deliveries apart.

### ConversationArchive

| variable | the code's |
|---|---|
| `file.live[c]`, `file.copy[c]` | conversation c's transcript where the CLI writes it and its archived copy, as sequences of lines, `None` when not on disk |
| `sidecar` | the same for the sidecar files: `"none"`, `"part"` of them, `"whole"` |
| `recorded`, `ended` | the record: the conversation its engine data names, and its state |
| `session`, `alive`, `current` | the tmux session, the program in it, the conversation it is in |
| `archiveLock` | the agent's `.archive.lock` |

An archive takes `.archive.lock` or leaves (`ArchiveLocked`, `ArchiveSkipped`), compares (`Compare`:
all of it when the record has ended, sizes and the trailing window otherwise) and then keeps the copy,
appends the tail line by line (`AppendLine`) or replaces it whole (`ReadWhole`, `Persist`); then the
sidecars. A hook archives after its record is saved, outside `<id>.lock`; `mark_exited` with it; a stop
after the process is gone, under `create.lock`. A respawn restores a transcript that is gone and
launches. The CLI goes on all the while: it appends, rewrites earlier lines, writes sidecars, opens
another conversation, dies, cleans up.

A hook of Claude's `SessionEnd` (other than at a `/clear` or a resume) ends the record and archives as if the
program were gone, while that still runs (`EndHook`); or it finds `.archive.lock` held and leaves. From then
on hooks, refresh and stop find the record ended and archive nothing, until a respawn. `endHook` remembers
it: `none`, `last` while nothing its archive would miss has happened, `early` once the CLI wrote, the hook
was skipped, or died before it was done.

- A file is read and written by its name in every step, so what another process did in between shows.
- When the program dies its hook commands die with it, wherever they are, unless the disturbance
  `"orphan"` happens. A process that dies leaves its locks.
- The CLI does not clean a transcript up while somebody reads it: it deletes after weeks.
- A CLI that is to resume a conversation it does not find leaves at once; the record stays ended.
- Waiting for `create.lock` and `<id>.lock` is the frame's: an operation takes what it needs at once.
- Claude's adapter is modelled. Codex has no sidecars and refuses to restore a rollout whose path it
  never recorded; neither adds a step.

### ArtifactRevisions

| variable | the code's |
|---|---|
| `kind`, `record` | `<id>.json`: the kind; how many revisions the history lists and the label (group and archived together) |
| `rev` | `<id>/revs/`: a function whose domain are the slots taken |
| `current`, `worktree` | `current<ext>`; the patch a diff's worktree gives, `None` when it is gone |
| `logged` | the revisions with a mutation line in `.log.jsonl` |
| `lock` | who holds `.locks/<id>.lock` |

An operation waits at `lock`, loads the record (`Take`), reads its source if it has one, and then writes
in the code's order: `Claim` (a hard link onto `revs/<next>`, which fails if the slot is taken:
`Conflict`), `WriteCurrent`, `Save`, `Log`. Labels skip to `Save`, a repair is `Repair`.

- Create takes no lock: its id is new, and nobody can name the artifact before its record is saved.
- `Breaks` stands for every failing call and for the death of the process, before or after any write:
  the lock goes, the files stay. A write that took effect and then fails (a directory sync) is a write
  followed by `Breaks`.
- The editor of a view may save the working copy at any time; the worktree of a diff may change or go.
- A repair removes what it found in one step: the lock keeps writers out, and there is at most one file
  to remove (`OrphansAreNext`).
- The label is what the record says beside its history. A document given for a diff is refused; kinds
  owned by other plugins behave as documents.
- The doctor's report changes nothing. `UnbrokenIsClean` says what it would find.

### ArtifactViews

| variable | the code's |
|---|---|
| `session[n]` | the tmux session of that name: the temporary worktree it shows and whether it is bound to the artifact |
| `cleanup[n]` | `<id>/.cleanup.json` |
| `trees`, `made` | temporary worktrees on disk, each with a name of its own |
| `lock` | `.locks/<id>.lock` |

`artifact open` looks for a live view (`Open`), runs the close steps of views that have ended (`Judge`,
then `RemoveTree` and `Forget` for each), decides where the view runs (`OpenPlain` or `AddTree`, `Apply`),
chooses a name, starts the session, sets its options and only then records its close step. `artifact
close` and `doctor --repair` are the same loop over all steps and over the stale ones. A close step
takes the lock for itself, the decision which steps are stale does not.

- Names are the title's and the one with the artifact's id. Any of them may belong to an agent.
- Whether a worktree is needed and can be made is a free choice at each open.
- The questions `has-session` of one round of `Judge` are one step; what happens after them is not.
- Options are set by name, to whoever has the name by then; they are one step, of which only the
  binding shows.
- What an open does to the revisions is `ArtifactRevisions`' `Open`.

### StateFiles

| variable | the code's |
|---|---|
| `lockFile[i]`, `flocks[n]` | the inode at `locks/<i>.lock`; who has `flock`ed inode n |
| `disk[i]` | `agent.json` as it reads now and as a power loss would leave it |
| `proc[p]`, `scan` | where an operation or a pass of `RecordStore::all` stands |
| `heard` | what the sinks were called with, and whether under a lock |

`Locks::acquire` opens, locks and asks whether the path still leads to what it locked, for `Attempts` tries.
A save writes a temporary file, renames it and syncs the directory; a rename that is not synced is undone by
a power loss or not. Something outside tx may remove a lock file (`MaxRemovals`); a process may die
anywhere. What a line of the log says is `Quoting`'s; left out is `AgentStore::delete`, which only tests call.

### EngineHooks

The CLI is a small machine (`cli.mode`: booting, prompt, submitting, turn, answered, question, off) that
starts a hook process at the events the adapters subscribe to. Hook processes end in any order (`hooks` is a
sequence of those at large) and save what `ClaudeState` or `CodexState` makes of the event, and the
conversation it names. An interrupt types Escape, and saves the adapter's state. What may make the record
out of date for a while is a history, `excused`: a hook before the create's save, one overtaken by another,
one killed with its CLI, a turn aborted without a hook. `RecordFollows` says that nothing else does.

### EngineLaunch

Three parts. The first is the resolution of an agent definition through two roots, where the later one wins
by name and role files add up, next to `tx check`, which is other code. The second translates both adapters'
`plan`s: which tools, cuts, servers, skills and settings the CLI is started with, and the engine data that
names its conversation, from create to fork and resume. `LaunchesAsChecked` puts one behind the other. The
third is `apply_workspace` over a small tree of directories, files and links: the skills a plan links into
the worktree, behind entries a user left in the way (`InTheWay`), other plans, and paths that leave it.

- Command lines are records: their order and quoting are left out.
- A role that grants a reference skill links that skill's (empty) directory; Codex does not refuse it as it
  does for an agent's own reference skills. The engines are compared for agents' skills.
- `tx check` does not look into the skills a role's file names; the comparison leaves them out.
- A server of the operator's own Codex configuration with `enabled = false` stays off, and a declared server
  named like tx's own worktree server gets that one's URL; both lie outside the comparison.
- A link is replaced, wherever it leads; a directory or file in its place stops the launch, with what was
  done before it left as it is. A respawn after an edited definition leaves the links of skills that were
  dropped. Links lead to directories, one hop.

### CommandLine

`invocation` is one call of `tx` or `txi`: the five directories and the socket it takes from its flags, from
the session it runs in, or from XDG, each in the code's order of precedence; the configuration file, which
it reads two or three times while somebody edits it (`config.rs` says "once per invocation"); what it
creates and when. Beside it stand create's flags over the file's agent block (`typed`), plug and unplug
(`manifest`, `entries`), and `_spawn`, the form of a new agent (`form`, `answers`).

- Directories are of five kinds, paths sequences of parts. Profile and skill directories, the output of `tx
  check` and the tools are left out; `--cwd` and `--prompt` are taken as given.
- What a session hands to the `tx` inside it carries neither `--config`, `--profile-dir`, `--skill-dir` nor
  `--env`; create's `--env` is not kept for a respawn. A user's `--env TX_DATA_DIR=...` overrides what the
  core exports, and a view carries nothing of the core that made it: `VerbsHold` speaks of agents whose
  environment the user did not set so.
- A plug that fails may leave part of its registration. The reserved verbs lack `interrupt`, `check` and
  `definitions`. A form killed with answers unread leaves a directory that a process of the same number
  takes up (`kept`).

### CommandLine: names and worktrees

What a name becomes: the title of a session, the label of its tree, its branch; three name spaces that are
asked in turn (records, disk, `git worktree list`), and `canonical`, the one spelling of a path that makes
them comparable, over symbolic links. One create at a time, as `create.lock` has it.

- A label is a digest and a slug; digests that collide are left out. The hops a link chain may take are 4.
- A tree that something deleted and `git worktree prune` forgot may be given to a new agent while an ended
  one's record still names it (`forgotten`). One deleted during its own launch stays in git's list. A chain
  of links without end stays as it was written.

### Names

Verbs that are given a name or read one off a pane (`prefix+X`, `tx kill`, `prefix+f`, `_relabel`,
`_pane-label`, `whoami`, and what takes a name on the command line) look for the record later. `errand` is
the one at work; beside it agents are created, renamed, end and come back, and views open under names agents
had.

- Between tmux's rename and the save a name leads to nobody, or to an ended namesake.
- `tx kill <view>` is refused for a view that has an ended agent's name, and `_pane-label` shows that
  agent's name and tags. After an older namesake is killed, `respawn NAME` takes the newest created.
- Two carve-outs: a session that outlived its record while another running record without a session took its
  name (`owned`), and a name that passed on between a guard and the command after it (`stirred`).

### Quoting

A text of up to three of ten characters (quotes, `;`, `\`, `#`, `:`, blanks and a line's end among them) is
put through every builder of a command line, and the result through a model of who reads it: a shell, tmux's
parser and formats, `:set`, Lua. What arrives must be the text (`TextsHold`). The log's line is read as JSON.

- The readers are external: written from their documented rules, not from code here.
- A directory that ends in `;` ends tmux's command in `views::open`, `split` and the core's `new-session -c`,
  which also leaves `#` as it is. `TextsHold` says of the core's which are read as they are; that not all are
  is the finding `LaunchDirectory`.

### ClientViews

`tmux[n]` is the session of a name, `verb[p]` what a verb has seen of it. A guard and the `kill-session` or
`rename-session` after it are two commands, by name; so are a listing and the kills that follow, an open's
`new-session` and its `set-option`s, and the core's `new-session` (`ParentStarts`) and its `@tx-id`
(`ParentLinks`). Each session remembers whom it was made for (`owner`), whether it was marked a view and by
whose `set-option` (`strange`: by one meant for another session). `hits` records each kill and rename with the
session the verb judged. `OnlyViewsClose` in `ViewsHold` says that this was marked a view, and was made for an
agent only if the launch had not set its `@tx-id` yet and an open whose own session was gone had marked it; it
leaves out a name that changed hands since, which is the finding `ViewsKill`. Nested clients show a session inside a pane of another;
`OuterClient` walks outwards and gives up after `Hops`:
`WalkEndsOutside` in `ViewsHold` says that it finds a terminal that is attached whenever the sessions can be
ranked by their depth, no deeper than `Hops`, and every session with a nested client in it is shown.

### Install

A build ships fragments of words (keys, options, hooks). `BeginInstall` reads the record of the last
install; then come the files, the record, and on a running server the words to undo and the configuration to
source. `dirty` and `tainted` remember an install that failed on the way: the next one writes all of it
again, but a key that only the failed one had bound is in no record, and stays. The order of the files does
not show.

### HomeFloor

`floor` is the pane and its options, `actor[p]` an attach or a `_home-perform`, `choice[k]` the file through
which the TUI in pane k says what to run next. A `respawn-pane` kills the process that called it from within
the pane, so a performer may die between any two of its commands; the pane may vanish under an actor and
another take its place (`PaneLost`). An attach with the floor turned off unhooks and unmarks a marked one,
and gives a dead pane its shell back (`Unhook`, `UnkeepPane`, `StartShell`).

- A choice may be lost, or run twice, when an attach takes the pane from a performer at work (`overlapped`).
  `FloorServes` says that it runs at most once otherwise, and that a dead floor has a hook or an actor that
  will serve it, unless a command failed (`floorExcused`).
- A program that dies between `remain-on-exit` and the hook leaves a dead floor until the next attach.

### HomeScreen

`home` is what the TUI holds, `requests` and `replies` the channels to its worker, `world` the sessions
there are. One action is one key or one answer; `Reshape` is what keeps the cursor with its session when an
answer reorders, adds or removes rows. `anchor` looks for the first row of the session's name, so the cursor
stays on its agent unless a namesake is listed too, an ended one beside a running one: then it may be on
either. `CursorStaysOnItsSession` says so; that it always stays is the finding `Namesakes`.

- An agent whose end is found by the refresh of a poll is listed twice by that poll, as in `data.rs`.
- The grace period of a new TUI, notices, themes and drawing are left out. A worker that fails ends the TUI.

### SessionEditor

`form` holds three texts with positions and scroll offsets, the mode and the error; `columns` is what the
last paint had. A commit compares with the record as it was shown and writes the fields that changed, one
operation of the core each (`writes`). The decoder takes bytes in any cut, and its delay may run out.

- Letters are alike; a wide one takes two columns.
- In Normal mode, Up, Down and Tab keep the position, so the cursor can stand behind the last character.

### HomeChoices

Three parts. What `_home-perform` and the popup of `prefix+m` do once a choice is read: the next program of
the pane, or a switch of the client that may be gone, and the home's own words, whatever a session is called
(`ChoicesHold`). The loop of `run.rs`: the backdrop's clock over focus reports, ticks and spinners, and the
frames it asks for (`LoopHolds`). The projects: worktrees resolved by git in the background, retried ever
more seldom, while `HEAD` is written (`ProjectsHold`).

- `project.rs:3-6` says a failed lookup is retried; one whose worktree is gone is not asked about again until
  the row comes back.

### ArtifactStore

`tx artifact` over several records: ids resolved by their beginnings, documents and diffs and another
plugin's kinds, groups by parent, `ls`'s scopes, archive, the doctor and its repair, under what may happen
to the files (`harms`). One command at a time; two are `ArtifactRevisions`'.

- An unreadable record drops out of the check for ambiguous ids. A diff's record without a base reads as
  another plugin's kind, and its files with it. Fields a kind does not know go at its next save.
- `modify` reads what it reports as `before` outside the lock; a doctor that only reports takes no locks.

### ArtifactStore: tours

Stops that nvim accepts become an artifact; its view is an nvim in the tour's worktree, bound to the
artifact. No lock is taken: `guides` are two processes at the verbs, beside a user's editor, sessions that
end and directories that go. `ToursHold` speaks of the view's stops, its worktree, its parent and its tags;
`TourWordsHold` of the verb's command line, word by word.

- A session that ends while its options are set (`slipped`) may hand them to another; two opens at once make
  two views.

### ArtifactDiffs

The hunks between two revisions as Python's `difflib` finds them (the autojunk threshold of 200, the
percentage and the three lines of context are shrunk to 4, 4 and 1; a text has at most five lines of two
values, and may lack its last newline), judged against what a patch must be; and the diff kind over git: a
base, a branch, the patch, its temporary worktree. `git diff` runs without `--binary`, so a patch with
binary data does not apply and leaves its worktree behind: the finding `BinaryPatches`, and the exception
`VerbsHold` states. With `--cwd` in a subdirectory only that one's untracked files are seen.

### Panes

Three parts over one tmux server as a verb sees it: sessions, panes that run a nested client and what that
shows, terminals, popups. The second is `prefix+a`: the list in a popup, and the background process that
shows what was picked by the names noted when the key was pressed. The third is `tx pick`: fzf (external)
reloads its rows each second, and its binds share two files, the arm of the two-press kill and popup mode's
mark.

- Which of several clients is the most active is left open. Two opens of one artifact, and namesakes of
  ended agents between two commands by name, are left out.
- The TAB panel or a click on the header takes the kill's question away and leaves the arm; `alt-p` in a
  popup keeps the mark. The file of hidden roles is read, changed and written without a lock. A `tx` that
  dies under its popup leaves the session's status line dressed.

### Mockup

`content` are the files an agent wrote, `events` the log of choices, `viewer` and `shown` the process in the
view's pane and what it holds; `wait` is a draft that makes the viewer wait for a file; `show` moves a
client to the view in two commands, and a choice moves it back to where `@tx-mockup-return` says.

- While a waiting screen or an unreadable one is the newest file, keys act on the last good screen's options
  (`viewer.rs:38`). File names are never used again. Drawing and markup are left out.

### Assistant

`call[p]` is a `warm` or `ask`, `warmLock` the lock, `failure` the file the home's header reads. A `warm`
refreshes the agents listed as running until one lives, else respawns the one that ended last or creates
one, and records its outcome after the lock is dropped, so two outcomes can be written in the wrong order
(`crossed`). `ensure_home` looks for `.git`
alone: a failure between `git init` and `git commit` leaves a repository without a commit, for good.
`prefix+/` goes through one paste buffer: a second line typed before the first was taken replaces it
(`hurried`).

### Tutor

Each verb reads `progress` once and saves it later without a lock (`split`), builds the project in a staging
directory, opens the lesson's view, and removes what it made when it fails. Beside the verbs is what they
read: the words after `tx tutor`, packs and the lesson a word names, header globs, an HTTP answer, the
server a check starts, and the records a `tx` check asks for.

- A hard reset that fails after the removal leaves progress without a project. An empty directory is removed
  before the rename that may fail; the staging directory then stays.
- Words are at most 4 of 8, packs at most 3 lessons, patterns and values at most 4 characters, delays 10, 1
  and 4 ticks. Answers are tokens; an interim answer (100) is taken for the answer; chunked bodies are left
  out.
- A port is found free and given to the server, so a stranger may answer. A server that goes to the
  background and leaves is refused; what leaves the process group survives. A filter with `chat_origin`
  matches nothing, so its absence always holds.

### Timeline and TimelineScreen

`entry` is what the cache keeps of a transcript: a refresh reads what was appended since, while the CLI
writes on, rewrites or removes it; a replaced file no shorter than what was read passes for an append
(`misled`). Over it stand the turns of a transcript, and the payload: one lane for a chain of records,
groups, edges for messages, spawns and resumes. A session's group is the first there is of the saved
one, one further up its chain of parents, its first tag and its name (`SessionGroup`). `TimelineHolds` and `PayloadsAreRight`
speak of each lane's records, the order of the groups and lanes, which messages have an edge and between
which lanes, by id and by name, and of spawns and resumes. `TimelineScreen` is the TUI: zoom, window, lanes, cursor and
selection under keys, the mouse, resizes and the payloads of its tick.

- A refresh keeps the selected message by its time only while the window's first day stays. With one row of
  lanes `k` can put the cursor out of sight; a window zoomed by hand and widened may pass now until the next
  tick.
- Drawing, health, JSON, bursts, milestones and the popup's resident are left out.

### Chat

Three parts. The time of an ISO text as the chat's and the timeline's readers compute it, over six windows
of 75 days (the first and the last there are among them), against a calendar turned day by day. The text of
a line, taken apart as the two readers do, tag by tag: rows, links between agents, and headers must tell one
story where both are meant to. The removal of the hooks that older versions wrote, by their sidecar files.

- Only the timeline takes a leap second or 24:00 of the last day, and counts day 31 of a short month into
  the next one.
- A quoted `<command-name>` makes a row a command; white space before Claude's tag keeps the tag; links miss
  pasted and empty messages. The machine's offset is fixed: no summer time.
- Where both old versions wrote, the content comes back, the bytes may not; an edit between the read and the
  write of a file is lost.

### MCServices, MCScreens, MCTools

Each extends several modules, and a variable `part` says of which one a behaviour is: a run for each would
ask nothing more. The parts share no state in the code either, other than through the modules that compose
them.
Those of `MCTools` are conjunctions of the components': `PanesHold` of `Panes`, `Names` and `HomeChoices`,
`VerbsHold` of the parts of `Tutor`, `Chat`, `CommandLine`, `Quoting`, `ArtifactStore` and `ArtifactDiffs`. So
is `TimelineKeeps` of `MCScreens`, whose parts are named with their modules. Their parts
have mutants of their own, for nearly each of them one.

## What is checked

| run | instance | properties |
|---|---|---|
| `Lifecycle` | six operations of any kind, nothing fails | `SessionsAsRecorded` (a running record's last program was linked, under its name); `EndedMeansGone`; `OneProgramPerAgent`; `HookReachesItsOwnRun`; `RegistrySpec` (refinement of `AgentRegistry`) |
| `LifecycleFaults` | three operations, one fault, one crash, one closed session; weak fairness | `UniqueRunningNames`; `NoLostUpdate`; `FailedCreateLeavesNothing`; `OperationsFinish`; `StopEndsTheProgram` |
| `Archive` | two scopes: one conversation of two lines with four operations, two conversations; one disturbance; weak fairness | `ArchiveHolds` (a prefix always, the whole when a run is over, but for one that a hook ended early); `TranscriptsOnlyGrow`; `OperationsReturn` |
| `Delivery` | two messages, a stop, an interrupt; one fault, one key of the operator; weak fairness | `NeverInterleave`; `MessagesArriveWhole`; `NothingAfterStop`; `DeliveriesEnd` |
| `Revisions` | a create and three operations, one break; weak fairness | `HistoryHolds` (revisions on disk, one orphan at most, clean when unbroken); `ConflictsComeFromBreaks`; `OperationsReturn`; `RevisionsSpec` (refinement of `RevisionLog`) |
| `Services` | `MCServices` | `LaunchesAsChecked` (what `tx check` passes resolves, alike on both engines); `WorkspaceHolds`; `DataStaysItsOwn`; `RecordFollows`; `FilesHold`; `FloorServes`; `KeysAreTheRecorded`; `ViewsHold` (`OnlyViewsClose`, `WalkEndsOutside`); `TreesStay` (`NoTreeIsLost`, `FirstWorktreeStays`); `MockupHolds`; `AssistantHolds` |
| `Screens` | `MCScreens` | `CursorInField` (a painted cursor is on its text, inside its box); `CutsDoNotMatter` (keys do not depend on how reads cut the bytes); `CursorStaysOnItsSession` (on its agent, but for namesakes); `OthersWritesSurvive`; `ScreenKeeps` (`ScreenHolds`, `TicksKeepPlace`: what the timeline selects is shown, and a new payload leaves it there); `TimelineKeeps` (`TimelineHolds`, `PayloadsAreRight`: its cache, turns and payloads are those of the transcripts and records) |
| `Tools` | `MCTools` | `PanesHold`; `VerbsHold` |
| `RefreshAllRace` | four operations, with respawn | `RefreshAllEndsOnlyGone` is violated: see below |
| `ArchiveSidecars` | nothing fails | `SidecarsWholeWhenOver` is violated: see below |
| `LiveWorktree` | nothing fails | `LiveWorktreeStays` is violated: see below |
| `SinksUnderLock` | an archive that fails under `<id>.lock` | `SinksRunUnlocked` is violated: see below |

Types are proved for the core's modules and no run checks them again.

Bounds of `AgentLifecycle`: two processes, two agents, one base name with two candidates, three programs.
Two agents are the fewest that can want one name, and three programs let one agent be respawned while the
other lives. Six operations are two creates and four that meet. Processes and agents are symmetric in
`Lifecycle`; in `LifecycleFaults`, where fairness rules that out, the ids are taken in one order (`InOrder`),
which loses nothing, as they are alike.

Bounds of `MessageDelivery`: two panes are what it takes for a delivery to outlive the run it was meant for;
with two messages (one in two parts), a stop and an interrupt every pair of senders meets, and a third
stands between.

Bounds of `ConversationArchive`: two processes, so that one archive meets another (which then leaves); two
lines with a window of one, so that a rewritten line can lie before the window. A disturbance (a fault, a
session closed by hand, a hook that outlives its program, a rewritten line, a clean-up) happens once.
`MCConversationArchive` runs one conversation with four operations, where a tail is cut off and read again,
or two conversations with fewer.

Bounds of `ArtifactRevisions`: two processes and two contents are what a dispute takes; three operations
after the create let one break leave an orphan, a second one meet it and a third one repair it. Two labels
show a lost one.

Bounds of `ArtifactViews`: two processes, the two names a view can get, two worktrees and three operations:
a repair that judged, an open, and a second open under the name that became free.

Bounds of `Services`: one agent definition over a skill, a server and a role in two roots, up to four files;
two agents' engine data with two conversations opened by the CLI; two hook processes at large, two
conversations, one interrupt; two writers of two records with two tries and two updates, and a scan, a lost
lock file or a power loss one at a time; three actors on the floor, two choices, two attaches, two deaths,
one failure; three builds installed three times by two installers, two of which may overlap; two verbs on
two names, or three beside nested clients; two views of an artifact with two trees; five turns of a mockup;
two calls and two assistants; plans of two skills from two roots, also of one name, with one entry in the
way. Each is what it takes for one actor to meet another between two of its steps,
and once more after that.

Bounds of `Screens`: four agents (two share a name, one is the assistant) and two views, two keys on every
state the world can begin in, one change of the world between them; a name, two tags and a group, with three
keys on three widths of the form and one write by another process; every sequence of four bytes; four lanes
on a canvas of four by three, or of one row.

Bounds of `Tools`: four keys and three turns of the world among the panes, four turns in each of names and
trees, three verbs on two papers and two harms; two builds' packs and three verbs of the tutor; six windows
of the calendar; texts of five lines; one call of `tx` in four environments with two sessions, an edit of
the configuration and a stopped server; two guides of a tour and four turns of the others; two commands of a
choice that fail, three ticks of the clock, eight of the waits between lookups; texts of three characters.
Where a part has a cap of its own (the sibling worktree has two git turns, a view of an ended parent has
none but the hub above it), the MC module names it.

Fairness: `WF_vars(Step(p))`, once per process, in every module with liveness properties (`Step(d)`, once
per delivery). A process in an operation is a running process whose calls return and whose waits have a
timeout (`STOP_WAIT`, `KILL_WAIT`); a lock it waits for in `flock` is given to it when it stays free.
Nothing is assumed of the programs, the hooks or the user: `StopEndsTheProgram` and `OperationsReturn` hold
for a program that never leaves. A stop that waits gives its program up only when it is killed itself, or
when tmux fails the `kill-session` it still had to make; what failed earlier is no excuse.

`OneProgramPerAgent`, `HookReachesItsOwnRun`, `SessionsAsRecorded` and `FailedCreateLeavesNothing` name the
disturbances they exclude in their antecedent. The first two fail, for instance, when someone closes a
session in tmux and the program takes its time: `respawn` only asks tmux, not the process.

### Findings

`refresh_all` relies on "a record exists only after its tmux session does, so a record missing from a later
listing has truly gone" (`core.rs`, its comment). With respawn that is not so: the record is older than the
new session. `RefreshAllRace` finds: refresh_all scans a running record, the program exits, another process
refreshes the agent and respawns it, refresh_all lists tmux before the new session is linked, the respawn
saves, refresh_all reloads the record under the lock, sees it running and saves it as ended. The agent runs
on, its record says ended: hooks are ignored, `stop` answers `NotRunning`, `respawn` `StillRunning`.

`mirror_tree` copies a sidecar in place and skips what exists, where `copy_whole` beside it goes through a
temporary file. `ArchiveSidecars` finds: a hook is in the middle of a sidecar when its program dies and
takes it along; the exact archive after the exit finds the destination and leaves half a file in it, for
good. A restore would put the half back.

The close step of a temporary worktree is run "by `artifact close <id>`, by `doctor --repair`, or by the
next `open` once the view has ended" (`README.md`), and a test has it that "the live view's worktree stays"
(`service.rs`). `LiveWorktree` finds: two processes judge that a view has ended, before either has the lock;
the first, an open, runs the step, starts a new view under the name that is free again and records its
worktree; the second then runs the step of that name and removes the worktree of the live view.
`FirstWorktreeStays` is what does hold: it takes a name that served twice.

`emit` "runs only once the operation has released its locks, so a sink may use another core on the same
state dir" (`core.rs`, its comment). `SinksUnderLock` finds: `mark_exited` archives while its caller holds
`<id>.lock`, the archive fails and `ArchiveFailed` is emitted there. A sink that used the core on that agent
would wait for its own process.

Five more disagreements are what exceptions in the properties above stand for. Each has a configuration that
TLC refutes, and a property that says what the code's comment does without the exception.

| configuration | module | property | instance |
|---|---|---|---|
| `ArchiveEndHook` | `MCConversationArchive` | `ArchivedWhenOver` | one conversation, nothing fails |
| `ViewsKill` | `ClientViews` | `AgentsAreNoViews` | one verb, one agent, two names |
| `Namesakes` | `MCScreens` | `CursorStaysOnItsAgent` | the home of `Screens` |
| `LaunchDirectory` | `Quoting` | `LaunchIsOneCommand` | directories of two characters |
| `BinaryPatches` | `ArtifactDiffs` | `PatchesRecreate` | one diff, two turns of git |

`archive_conversation` is "called after every hook, and after a stop or an exit, once the process is gone and
the transcript final" (`core.rs`). `ArchiveEndHook` finds: Claude's `SessionEnd` hook ends the record and
archives while the CLI lives; another hook's archive holds `.archive.lock`, so this one is skipped, or the CLI
writes a line after the copy; the program leaves, and nobody archives again, since the record has ended.

`views.rs` says of sessions with `@tx-id` that "nothing here kills or renames one of those". `ViewsKill` finds:
a close asks tmux about a view, the view ends, an agent is launched under its name, and the close's
`kill-session`, by name, ends the agent's session.

After a poll "the cursor stays on its session, else the nearest row" (`model.rs`). `Namesakes` finds: an ended
agent and a running one have one name and are listed both; `anchor` takes the first row of the name, and
Enter, `r` or `x` are then about the other agent.

`new_session_args` says that "every user-controlled argument is escaped accordingly" (`tmux.rs`). The directory
after `-c` is not: `LaunchDirectory` finds one that ends in `;`, which ends the command there. `VerbsHold` has the
exact limit: a launch's directory is read as it is if and only if it does not end in `;`, and is then expanded
as a format, so that of one with a `#` nothing is promised.

A diff's patch is made "so `git apply` recreates the whole tree" (`kinds.rs`). `BinaryPatches` finds a changed
binary file: the patch only names it, and `git apply` refuses all of it. `VerbsHold` has the exact limit here
too: a patch applies if and only if no binary file is in it.

A limit that is no finding: `archive_conversation` is called once "the transcript" is "final" (`core.rs`).
For an exit that is recorded because the pane was closed, the CLI "may still be wrapping up" (`core.rs`, at
`wait_or_kill`): a line it writes then is missing from the archive until the next run's hooks.
`ArchiveHolds` says what does hold: the copy is exact when session, hooks and program end together, and no
`SessionEnd` hook ended the record before the CLI's last line.

## What is proved

Each theorem holds for every value of the constants that satisfies the module's assumption, with the faults,
crashes and interference the module has; the runs check the same on a small instance.

| module | theorems | assumption |
|---|---|---|
| `AgentLifecycleProofs` | `TypeCorrect`, `NamesUnique`, `NothingLost`, `Implements`, `Invariance` | `ConstantsAssumption`: `None` is none of the values, the bounds are numbers, hooks report known states |
| | `SessionsFollowRecords`, `ExitsAreReal`, `OneProgram`, `HooksAreCurrent`, `FailuresLeaveNothing`, `RunsInvariance` | the same |
| `MessageDeliveryProofs` | `DeliveryTypeCorrect`, `SendersNeverInterleave`, `StopTypesLast`, `ReceiptsHold`, `DeliveryInvariance` | `DeliveryAssumption`: deliveries have a kind and parts, panes are counted |
| `ConversationArchiveProofs` | `ArchiveTypeCorrect`, `ArchiveExact`, `RestoresOnlyAdd`, `ArchiveInvariance` | `ArchiveAssumption`: `None` is none of the values, bounds are numbers |
| `StateFilesProofs` | `FilesAreHeld`, `FilesInvariance` | `FilesAssumption`: there is a record id; the marks of a missing, foreign or torn file are not versions |
| `ArtifactRevisionsProofs` | `RevisionsTypeCorrect`, `HistoryOnDisk`, `OneOrphanAtMost`, `UnbrokenStoreIsClean`, `HistoryHeld`, `ConflictsOnlyFromBreaks`, `RevisionsImplement` | `RevisionsAssumption`: `None` is none of the values, the bounds are numbers |
| `ScreensProofs` | `FloorIsServed`, `FloorInvariance` | `FloorAssumption`: attaches are counted |
| | `CursorsArePainted`, `FormInvariance`, `OthersSurvive`, `EditInvariance` | `EditorAssumption`: a record is a name, tags and a group, each a text once shown; widths are numbers |
| | `CutsNeverMatter`, `DecoderInvariance` | none |
| | `CursorAlwaysStays`, `HomeInvariance` | `HomeAssumption`: the agents are finitely many; the home starts in a world of them |
| | `ScreenServes`, of payloads that are as `PayloadTyped` says | `ScreenAssumption`: times are numbers, zoom levels positive ones, a canvas has a column at least and no more of them than the window has minutes |
| | `MockupServes`, `MockInvariance` | `MockAssumption`: `Nowhere` is no file, the view's session no other place, a draft waits or does not |
| `ClientProofs` | `KeysAreRecorded`, `InstallInvariance` | `ShipsAssumption`: what a fragment ships is a set of words, neither missing nor a link |
| | `ViewsServe`, `ViewsInvariance` | `ClientsAssumption`: `Nobody` is no client, `Hops` is a number |
| | `TreesAreKept` (`TreesAreAwaited`, `FirstWorktreeIsKept`), `ArtifactViewsInvariance` | `ViewsAssumption`: the two names are names, `None` is none of the values |
| `ServicesProofs` | `ChecksAreKept`, `DefinitionsTyped` | `DefinitionsAssumption`: definition files are of the types they are read with; `Absent`, `Broken` and `Failed` are no files |
| | `DataIsItsOwn`, `LaunchInvariance` | `LaunchAssumption`: options are strings or lists of them; `NoData` is no value |
| | `RecordsFollow`, `HooksInvariance` | `HooksAssumption`: the bounds are numbers |
| | `AssistantIsOne`, `AssistantInvariance` | `AssistantAssumption`: no process is `NoOne`, no line is blank |

None of the properties is inductive: each depends on what a process found out some steps before. Every proof
therefore has an invariant that says what a process knows meanwhile, a lemma for each family of steps, and
one for what a step of one process leaves of another's knowledge.

### AgentLifecycle: records

That a save keeps the names unique depends on a check made many steps before. `IInv` says, for each process
(`Relies`):

- `Walk`: which operation can be where; `Target`: the agent it works on exists;
- `Locked`: between load and save it holds `<id>.lock` (not create, whose id nobody knows yet), from the
  queue on it holds `create.lock` if it is a naming operation;
- `Faithful`: the record on disk is still the one it loaded, and what it will save differs from it only as
  its kind of operation may (`Change`);
- `Chosen`: the name a create, respawn or rename is about to save is still free.

The steps fall into families with a lemma each: those that end an operation (`LeaveStep`), those that move a
process (`BeginStep`, `PassStep`, `AmendStep`), those that load a record (`LoadStep`) and those that save
one (`SaveSteps`). What a step leaves alone is one lemma (`FrameKeeps`): a process that keeps its place and
its locks keeps what it relies on as long as no record changes. Only a save changes a record, and
`OneWriter` says that no other process is between load and save of the same agent; `OtherChange` that a save
without `create.lock` neither moves a name nor revives an agent, so it cannot take the name another process
has chosen.

### AgentLifecycle: programs

`RunInv`, beside `IInv`, relates records to tmux. `create.lock` makes the program an operation started the
last one, alone under its name, until the operation returns (`OwnRun`, `FreshRun`, `RenamedRun`); an agent
found gone stays gone while its lock is held (`GoneRun`), what a listing showed was so when it was made
(`ListedRun`); a hook is of a program that was alive when it began (`HookRun`); a stop holds both locks
while it waits (`StopRun`); an agent has one session at most (`OneSession`), under its record's name when
nobody renames (`NamedSession`). A killed process or a session closed by hand ends some of these, and only
those conjuncts are conditional. `EndedMeansGone` had been stated by fields a failing call leaves unset; the
attempt to prove it showed which, and it now says what was saved (`ExitedMeansGone`).

### MessageDelivery

`IInv` adds to the properties: who types holds `<id>.lock` (`Locked`), who has not begun has typed nothing
(`Fresh`), from the first key of who types on nobody else has typed (`LastWord`), panes are numbered as they
come (`Numbered`), and the pane of a stop that returned belongs to no running record and is in nobody's hand
(`Closed`). The proof divides the steps into those that add a key (`Loud`) and the rest (`Quiet`): a key
comes from the holder of the lock or the operator, so it extends the tail. For receipts it knows further
what each sender has typed of its message (`Begun`, `Written`), that an interrupt types Escape alone
(`OnlyEscape`), and which keys an open line holds (`Within`, `OpenIsTyped`).

### ConversationArchive

That the copy is the beginning of the transcript has to survive two copies at once, a transcript put back,
and a conversation left for another. `IInv` knows for each process at an archive or a restore which
conversation it is for (`Directed`), that it holds the lock (`Held`) and that what it read is the beginning of
what is there (`ReadAhead`, `ReadBack`, `FirstCopy`, `Together`, `Sources`, `Sidecars`).

An exact copy is made by whoever ends the run: a stop or an exit, of a program that is gone and whom nobody
follows (`OfOver`, `OneFinal`), or a hook, of one that lives (`EndedBy`, `Stopping`). For the second the copy
is exact as long as `endHook` is `last`: what it reads is then all there is (`LastArchive`), and when it is done
the archive is complete and no earlier hook is about to write it (`EndArchived`). A line the CLI writes makes
it `early`, and the theorem no longer speaks of that run: that is the finding `ArchiveEndHook`.

### StateFiles

`FilesInv`: who is past its lock holds the inode the path names, unless the file was removed under it
(`LocksHeld`); a record about to be written reads as it was read, and has one writer (`WritesKnown`,
`OneWriter`); what is durable is the version read or an older one, and never older than an emitted one
(`Durable`); a scan has found what it saw (`ScanKnown`); a record lies in a directory that exists
(`DirsKnown`). `OthersKeepLocks`, `OthersKeepWrites` and `DurableKept` say what a step of one process leaves
of the others'.

### ArtifactRevisions

`IInv` adds, for each process, where its operation can be (`OnRoute`), that it holds the lock unless it
creates (`Locked`), that the record on disk is the one it loaded (`Loaded`) and that the slot it claimed
holds its content, which differs from the revision before (`Claimed`); and of the files, that one beside the
history is claimed by somebody or left by a break (`Explained`) and that a listed revision without a log
line is about to get it (`LoggedInv`). `Alone` says that two processes that may write are one; with it the
steps divide into those that leave record and revisions alone (`Still`) and `Claim`, `Save` and `Repair`,
each with its effect as a lemma.

### HomeFloor and Install

`FloorInv`: a dead floor with its hook has an actor that will serve it (`DeadFloorIsServed`), at most one of
them performs a choice (`OnePerformer`), and a choice still to be performed is in the file of its pane or in
one hand (`ChoicesPending`). The first attempt failed for a reason: with unnumbered panes a choice could be
run twice after an attach, beyond the run's bounds. The model now numbers panes, as tmux and the file names
do.

`InstallInv`: what an installer that is alone has written, dropped and sourced (`AloneKnown`), what the
fragments hold (`FilesKnown`), and what the server holds beside the record at every step (`KeysKnown`).

### SessionEditor

`EditInv`: every part a save has still to write is one in which what the operator typed differs from what
the form showed (`Differs`). A part left as it was shown does not, so whoever wrote to it meanwhile is not
overwritten, whichever part fails. This presupposes a record that reads back as it is shown (`ReadsBack`):
a tag with a comma in it, which the command line accepts, comes back as two, and the form then writes the
tags though nobody touched them. The first statement of the property left that out, and was false.

`FormInv`: every cursor is on its text (`FormTyped`) and, whenever there is room to paint, less than the
field's width after the first character shown (`Painted`). Between a key and the next painting only the
active field's cursor may be off its text or out of its box (`FormBut`), and `ClampToText` and `Render` put
it back. The offset `Render` takes is the least that fits; that there is one, for texts of any length and
characters two columns wide, is `ScrolledFits`: the cursor's own position fits, since nothing is narrower
than any field (`NothingIsNarrow`), and a set of numbers that is not empty has a least one (`LeastIsThere`).

`DecInv` is `CutsDoNotMatter` for every continuation: whatever bytes may still follow, the keys of all that
was sent are those decoded and those of the rest. It needs that a key once found in bytes is the key found in
them with more behind (`KeysAreWhole`: the decoder never takes a prefix for a key that more bytes would make
another of; the mutant `CsiEager` does); an escape delay that ran out within a sequence ends it (`gaveUp`).
`KeysOf` is a recursive function over lists, and the library's induction theorems cannot be used; the proof
takes instead the least length at which something fails (`WFMin`), both to show that the function is there
(`ReadersAgree`, `ReadersAre`, `KeysAreRead`) and for what it computes (`KeysOfAreKeys`).

### HomeScreen

`HomeInv`: whatever the worker gathered, and every reply on its way, is a context with a list of agents, and the
cursor is on a row that can be selected while there is one (`OnRow`). That an answer leaves the cursor on
its agent, if no namesake is listed, is then what `anchor` does with the new rows (`AnchorsOnRow`); what a key does is one of four things
(`KeyShowsThis`), of which only a prompt and a step keep the rows (`RowsFollow`). The rows have to be a list for
any agents, names, finds and views: lists of lists joined, of agents ordered by their rank (`ProjectRowsAreList`,
`FlattenIsList`), so that a set of their places has a least and a greatest one. `RowData` says what rows are made
of, which is not the cursor. The session the operator returned from is there or not (`returned # NoAgent`), as the
code's `Option` has it: the proof found that the model had taken no session for one.

### TimelineScreen

`ScreenInv`: cursor, target of a jump and message are of the payload, the message is one of the window's,
the view begins in it (`Inside`); a cursor is on a lane that is shown, unless idle lanes are hidden (`Seen`:
the mouse moves the view under them); a view that follows ends now unless a resize is to be handled
(`AtNow`). Every operation is one of two kinds, with a lemma each: it moves the view (`MovesGo`) or touches
what is selected (`ChoiceGoes`). `Pan`, `JumpToNow` and the zooms do the first because what a canvas spans is
never more than the window (`SpanFits`), which takes `ScreenAssumption`: a
column of the model is whole minutes, and a window of a day or more has more of them than a terminal columns. `RefreshKeeps` is the refresh, whose old cursor and message are positions in a payload
that is gone: `PlacesFound` and `MessageFound` say which positions of the new one they become, and
`CursorRowShows` that the row is on the screen.

The theorem takes of each payload that it is lists of numbers in which a session has one lane
(`PayloadTyped`). That `Build` makes them so is checked (`TimelineKeeps`), not proved.

### Mockup

`MockInv` says of the files that no two have one name and that one is the newest (`FilesOK`); of the viewer
that its source is a file as it is now or as it began (`CurrentOK`), that what it shows of a file that is as
it was read is what that file says (`ShowsCurrent`), and that what its run has logged is of the current
source (`LogOK`); of the answer under way that it is the log's last line (`AnswerOK`); of the clients that
the one `show` fetched stands in the view only with the place it came from recorded (`ClientsOK`). A file
that is completed within a tick of the clock keeps its time and gets longer, which is why a source compares
name, time and length: the mutant that compares times alone shows a half of a file for good.

### Assistant

`AssistantInv`: a `warm` past `warm.lock` holds it (`HoldsWarmLock`), so that while it looks, whoever runs is
one it still has to refresh, and from then on nobody runs and the agent it chose stays ended
(`KnowsRunning`): its respawn finds the name free, and its create finds no other. A repository without a
commit is one whose commit is under way, or left by a failure (`HomeMade`); that is why a create fails only
after one. The outcomes still to be written are those of the calls at their record, one of them unless
`crossed`, and it says what the last `warm` did (`Outcomes`). A line is in the buffer, in one call's hand or
delivered, and only a call that shows the buffer shares it with the buffer (`OneHand`).

### Views

`ViewsInv`: the session a verb has judged to be a view is still marked as one, under whatever name a user, an
agent or another verb gave it meanwhile, and was judged before a launch linked it if it is an agent's
(`JudgedIsView`); a session that has its `@tx-id` and no stranger's mark is no view (`LaunchedIsNoView`); an
open that has not set its options works on an unmarked session of its own, or its session is gone (`Opened`);
no two names have one session (`OneName`). So what a kill by name hits is that view, or a name that has
changed hands.

`OuterClient` is a recursive function, whose value the provers take from the least walk that would not be
there (`WalkIsThere`). Of several clients that show a session one is the most active, as none was active
after the last turn (`ClientsTypeOK`). So each step outwards is to a client that is attached, and at a
session of a higher rank: a walk as long as the ranks left does not stop short (`ReachesOne`), and where one
ends a terminal is attached (`EndsAtTerminal`).

`ArtifactViewsInv`: a temporary worktree has one view, and the session in it, the process that opens it and
the step that removes it go by one name (`TreesApart`); a name's uses are counted (`UsesCounted`); a step
found stale is of a view that is over, or its name serves again (`StaleIsOver`); a step is forgotten once its
worktree is gone (`ForgetsGone`). With no trouble, and no name used twice, every worktree is in the hand of
the process that made it or in a recorded step (`TreesAwaited`): that is `NoTreeIsLost`. `FirstWorktreeStays`
follows for each step from `TreesApart` and `StaleIsOver`.

### Engines: definitions, data, hooks

`ChecksAreKept` needs no more of a state than that files have their types: whatever two roots hold, an agent
that `tx check` passes resolves with every skill, server, role and tool that is asked of it, and Claude's
and Codex's plans refuse only what that CLI cannot have and otherwise serve the same servers and the tools
the profile offers. Its lemmas are about the readers: what the last root that has a file says (`LastRoot`),
what role files add up to (`RolesRead`), what a check has looked at (`ServersChecked`, `SkillsGranted`), and
each plan's answer (`ClaudeAgrees`, `CodexAgrees`).

`LaunchInv`: the conversation in an agent's data is its own or one its CLI opened, and its path is that
conversation's (`OwnData`); two agents name different ones (`Apart`); every option of the caller's is kept
(`Remembers`). That a fork does not carry its source's conversation along is a lemma on each adapter's plan.

`HooksInv`: the last pending hook that says a state tells what is true of the CLI, unless it is late or of a
turn that is over, and the same for the conversation (`LastTells`); with no such hook pending, the record is
true or excused (`StateTold`, `ConvTold`); a record ends with its CLI (`EndedIsOver`). A step of the CLI
appends to the hooks, and one that ends takes its place out of the middle: `PendingThrough` says what the
others still tell.

### Only model-checked

- Liveness (`OperationsFinish`, `StopEndsTheProgram`, `OperationsReturn`, `DeliveriesEnd`): fairness and
  ENABLED are out of the prover's reach.
- What is computed over sequences by recursion (the turns of a transcript, the hunks, the calendar, paths
  spelled): the provers have no induction over data. For the keys of a list of bytes and the walk out of nested
  clients it was done by hand, from the least counterexample, which takes many steps for one function.
- `WorkspaceHolds` (folds over paths), and the modules with RECURSIVE operators or nothing but computation:
  those of `MCTools`, with `PanesHold` and `VerbsHold`, and `Timeline`. So `TimelineKeeps`: a payload is folded over transcripts and sorted.
  `PayloadTyped`, what `ScreenServes` takes of a payload, is part of it.
- What the code violates (`RefreshAllEndsOnlyGone` and the other findings' properties).

## What is left out

Text and layout: tmux's listings, JSON but for the log's lines, the drawing of the screens, themes. The Claude
trust probe, the widgets that screens share, the operator's nvim and tmux configuration, the
documentation site and the installer script are `not_modelled` in `PROJECT.json`, each with its reason. What
a module leaves out of its own part is listed under [the modules](#the-modules).

## The plan

Done: the core and its proofs (1 to 5 below), the engines, names and profiles (6, 7), the plugins (8).

1. `AgentLifecycle`, `AgentRegistry`, with `AgentLifecycleProofs`.
2. `MessageDelivery` and its proofs.
3. `ConversationArchive` and its proofs; a respawn that dies between transcript and sidecars is left.
4. `StateFiles` and its proofs: locks, saves, sinks. That it implements what `AgentLifecycle` takes for
   granted (a mutex, an atomic register) is argued by its invariant, not by a refinement.
5. `ArtifactRevisions`, `RevisionLog` and the proofs.
6. `EngineHooks`, `EngineLaunch`.
7. `Names`, `CommandLine`.
8. The clients and plugins; `HomeFloor`, `SessionEditor`, `Mockup`, `Install`, `ClientViews`, `ArtifactViews` and
   `Assistant` with proofs, and those of 6.

To come: the file of trusted directories Claude reads. `map` in `PROJECT.json` names the definitions that carry the model, not
every helper.
