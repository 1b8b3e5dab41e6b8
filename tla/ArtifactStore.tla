--------------------------- MODULE ArtifactStore ---------------------------
(***************************************************************************)
(* The store of artifacts as `tx artifact` reads it: records decoded at a  *)
(* strict boundary, ids resolved from their beginnings, a doctor, and the  *)
(* verbs with their refusals and notices (plugins/artifacts/src/verbs.rs,  *)
(* service.rs, artifact.rs, store.rs).                                     *)
(*                                                                         *)
(* One command at a time: how two meet in one artifact is                  *)
(* ArtifactRevisions'.                                                     *)
(*                                                                         *)
(* And tours (plugins/tour/src/lib.rs): stops that nvim accepts become an  *)
(* artifact, and its view is an nvim in the tour's worktree, bound to it.  *)
(* No lock is taken: other openers, the user's editor and tmux act between *)
(* any two steps.                                                          *)
(***************************************************************************)
EXTENDS Integers, Sequences, SequencesExt, FiniteSets

CONSTANTS
  PaperIds, Beginnings,  \* ids, and for each the words that begin it
  PaperTexts, Binary,         \* contents; Binary is no utf-8
  PaperGroups, NotThere,   \* groups; what is not there
  MaxPaperVerbs, MaxHarms \* bounds: commands, and what else happens to the store

VARIABLES
  onDisk,    \* <id>.json
  revFile,   \* revs/<n> of each
  workCopy,  \* current<ext> of each
  tree,      \* the patch of the diffs' worktree, NotThere without it
  logLines,  \* the mutations .log.jsonl tells
  told,      \* what the last command did
  asked,     \* history: what the commands made of each, its contents too
  named,     \* history: what each word came to name
  harms,     \* history: what happened beside the commands
  paperVerbs

storeVars == <<onDisk, revFile, workCopy, tree, logLines, told, asked, named, harms, paperVerbs>>

Words == UNION {Beginnings[id] : id \in PaperIds} \union {"", "zz"}

(* A record as it is written: entry n of the history is rev n - 1; facts are  *)
(* the fields of its kind that tx does not know.                            *)
Encoded(p) ==
  [version |-> 2, extra |-> FALSE, revs |-> [n \in 1 .. p.revs |-> n - 1], kind |-> p.kind,
   archived |-> IF p.archived THEN "yes" ELSE "no", group |-> p.group, facts |-> p.facts]

(* The strict boundary: version, keys, history, types.                       *)
Unreadable(r) ==
  \/ r.version # 2 \/ r.extra
  \/ r.revs = <<>> \/ \E n \in DOMAIN r.revs : r.revs[n] # n - 1
  \/ r.archived = "bad"

(* What is not written is an unarchived document.  A diff without its base is *)
(* a kind of another plugin, which keeps its facts as written.              *)
Decoded(r) ==
  [kind |-> IF r.kind = NotThere THEN "document" ELSE r.kind,
   archived |-> r.archived = "yes", group |-> r.group, revs |-> Len(r.revs),
   facts |-> IF r.kind \in {"tour", "half a diff"} THEN r.facts ELSE NotThere]

Written(id) == onDisk[id] # NotThere
Readable == {id \in PaperIds : Written(id) /\ ~Unreadable(onDisk[id])}
Paper(id) == Decoded(onDisk[id])
IsDiff(id) == Paper(id).kind = "diff"
LatestRev(id) == Paper(id).revs - 1
RevOf(id, n) == IF n \in DOMAIN revFile[id] THEN revFile[id][n] ELSE NotThere

(* A full id, else the one readable artifact the word begins.                *)
Matches(word) == {id \in Readable : word \in Beginnings[id]}
Resolved(word) ==
  IF word = "" THEN {} ELSE IF word \in PaperIds /\ Written(word) THEN {word} \cap Readable
  ELSE IF Cardinality(Matches(word)) = 1 THEN Matches(word) ELSE {}

LastSnapshot(id) == RevOf(id, LatestRev(id))
IsDirty(id) == workCopy[id] # LastSnapshot(id)

(* doctor: what is wrong with an artifact, and directories nobody records.   *)
OrphanRevs(id) == {n \in DOMAIN revFile[id] : n > LatestRev(id)}
MissingRevs(id) == {n \in 0 .. LatestRev(id) : RevOf(id, n) = NotThere}
CurrentHealth(id) ==
  IF LatestRev(id) \in MissingRevs(id) THEN {}
  ELSE IF workCopy[id] = NotThere THEN {"no working copy"} ELSE IF IsDirty(id) THEN {"dirty"} ELSE {}
ProblemsOf(id) ==
  CurrentHealth(id)
  \union (IF OrphanRevs(id) # {} THEN {"orphan"} ELSE {})
  \union (IF MissingRevs(id) # {} THEN {"missing"} ELSE {})
  \union (IF \E n \in 0 .. LatestRev(id) : <<id, n>> \notin logLines THEN {"unlogged"} ELSE {})
HasDirectory(id) == workCopy[id] # NotThere \/ DOMAIN revFile[id] # {}
Problems ==
  UNION {{<<id, what>> : what \in ProblemsOf(id)} : id \in Readable}
  \union {<<id, "no record">> : id \in {i \in PaperIds \ Readable : HasDirectory(i)}}

-----------------------------------------------------------------------------
NothingSaid == [verb |-> "none", paper |-> NotThere, what |-> "nothing", ids |-> {}]

StoreInit ==
  /\ onDisk = [id \in PaperIds |-> NotThere]
  /\ revFile = [id \in PaperIds |-> [n \in {} |-> NotThere]]
  /\ workCopy = [id \in PaperIds |-> NotThere]
  /\ tree = CHOOSE c \in PaperTexts : TRUE
  /\ logLines = {} /\ told = NothingSaid
  /\ asked = [id \in PaperIds |-> NotThere]
  /\ named = [word \in Words |-> NotThere]
  /\ harms = {} /\ paperVerbs = 0

Says(verb, id, what) ==
  /\ paperVerbs < MaxPaperVerbs /\ paperVerbs' = paperVerbs + 1
  /\ told' = [verb |-> verb, paper |-> id, what |-> what, ids |-> {}]

Saved(id, p, what) ==
  /\ onDisk' = [onDisk EXCEPT ![id] = Encoded(p)]
  /\ asked' = [asked EXCEPT ![id] = what]
NothingSaved == UNCHANGED <<onDisk, revFile, workCopy, logLines, asked>>

(* create: a document from a file, a diff from its worktree, a tour by its   *)
(* own plugin.                                                              *)
CreatePaper(id, kind, c, g) ==
  /\ asked[id] = NotThere /\ DOMAIN revFile[id] = {}
  /\ kind = "diff" => c = tree
  /\ Saved(id, [kind |-> kind, archived |-> FALSE, group |-> g, revs |-> 1,
                facts |-> IF kind = "tour" THEN "stops" ELSE NotThere],
           [kind |-> kind, archived |-> FALSE, group |-> g, contents |-> <<c>>])
  /\ revFile' = [revFile EXCEPT ![id] = [n \in {0} |-> c]]
  /\ workCopy' = [workCopy EXCEPT ![id] = c]
  /\ logLines' = logLines \union {<<id, 0>>}
  /\ Says("create", id, "done")
  /\ UNCHANGED <<tree, named, harms>>

(* A word names an artifact, or the verb is refused.                         *)
Naming(word, id) ==
  /\ id \in Resolved(word)
  /\ named' = [named EXCEPT ![word] = id]
  /\ UNCHANGED <<tree, harms>>
Unnamed(word) ==
  /\ Resolved(word) = {} /\ Says("any", NotThere, "refused")
  /\ NothingSaved /\ UNCHANGED <<tree, named, harms>>

(* modify: from a file, the working copy or the worktree; the slot has to be *)
(* free and the last revision there.                                        *)
SourceOf(id) == IF IsDiff(id) THEN tree ELSE workCopy[id]
Revised(id, c) ==
  /\ revFile' = [revFile EXCEPT ![id] = [n \in DOMAIN @ \union {Paper(id).revs} |-> IF n = Paper(id).revs THEN c ELSE @[n]]]
  /\ workCopy' = [workCopy EXCEPT ![id] = c]
  /\ Saved(id, [Paper(id) EXCEPT !.revs = @ + 1], [asked[id] EXCEPT !.contents = Append(@, c)])
  /\ logLines' = logLines \union {<<id, Paper(id).revs>>}
Notice(id, c) == IF IsDirty(id) THEN "unchanged, dirty" ELSE "unchanged"
Apply(verb, id, c) ==
  IF c = NotThere \/ LastSnapshot(id) = NotThere \/ (c # LastSnapshot(id) /\ Paper(id).revs \in DOMAIN revFile[id])
    THEN Says(verb, id, "refused") /\ NothingSaved
  ELSE IF c = LastSnapshot(id) THEN Says(verb, id, IF verb = "modify" THEN Notice(id, c) ELSE "unchanged") /\ NothingSaved
  ELSE Says(verb, id, "done") /\ Revised(id, c)
ModifyFrom(word, id, c) ==
  /\ Naming(word, id)
  /\ IF IsDiff(id) THEN Says("modify", id, "refused") /\ NothingSaved ELSE Apply("modify", id, c)
ModifyCurrent(word, id) == Naming(word, id) /\ Apply("snapshot", id, SourceOf(id))

(* group, archive and unarchive: the record only.                            *)
PaperGrouped(word, id, g) ==
  /\ Naming(word, id) /\ Says("group", id, "done")
  /\ Saved(id, [Paper(id) EXCEPT !.group = g], [asked[id] EXCEPT !.group = g])
  /\ UNCHANGED <<revFile, workCopy, logLines>>
PaperArchived(word, id, yes) ==
  /\ Naming(word, id) /\ Says("archive", id, "done")
  /\ Saved(id, [Paper(id) EXCEPT !.archived = yes], [asked[id] EXCEPT !.archived = yes])
  /\ UNCHANGED <<revFile, workCopy, logLines>>

(* diff between two revisions, the last two unless told.                     *)
PaperDiffed(word, id, a, b) ==
  /\ Naming(word, id)
  /\ Says("diff", id, IF {RevOf(id, a), RevOf(id, b)} \cap {NotThere, Binary} # {} THEN "refused"
                      ELSE IF RevOf(id, a) = RevOf(id, b) THEN "none" ELSE "differences")
  /\ NothingSaved

(* show needs both the working copy and the last snapshot.                   *)
PaperShown(word, id) ==
  /\ Naming(word, id) /\ NothingSaved
  /\ Says("show", id, IF LastSnapshot(id) = NotThere THEN "refused" ELSE IF IsDirty(id) THEN "dirty" ELSE "clean")
ListPapers(archived) ==
  /\ paperVerbs < MaxPaperVerbs /\ paperVerbs' = paperVerbs + 1
  /\ told' = [verb |-> "ls", paper |-> NotThere, what |-> IF archived THEN "all" ELSE "unarchived",
              ids |-> {id \in Readable : archived \/ ~Paper(id).archived}]
  /\ NothingSaved /\ UNCHANGED <<tree, named, harms>>

(* doctor, with --repair: orphans go first.                                  *)
Doctor(repair) ==
  /\ revFile' = IF repair
       THEN [id \in PaperIds |-> IF id \in Readable THEN [n \in DOMAIN revFile[id] \ OrphanRevs(id) |-> revFile[id][n]]
                                                    ELSE revFile[id]]
       ELSE revFile
  /\ UNCHANGED <<onDisk, workCopy, tree, logLines, asked, named, harms>>
  /\ Says(IF repair THEN "repair" ELSE "doctor", NotThere, IF Problems' = {} THEN "clean" ELSE "problems")

-----------------------------------------------------------------------------
(* Beside the commands: an editor saves; a modify dies after its claim, after *)
(* its save; a file, a record or the log is lost or changed by hand; the      *)
(* worktree changes or goes.                                                *)
Beside(harm) ==
  /\ Cardinality(harms) < MaxHarms /\ harms' = harms \union {harm} /\ harm \notin harms
  /\ told' = NothingSaid /\ UNCHANGED <<named, paperVerbs>>
EditorSaves(id, c) ==
  /\ id \in Readable /\ Beside("edit") /\ workCopy' = [workCopy EXCEPT ![id] = c]
  /\ UNCHANGED <<onDisk, revFile, tree, logLines, asked>>
DiesAfterClaim(id, c) ==
  /\ id \in Readable /\ Paper(id).revs \notin DOMAIN revFile[id] /\ Beside("claimed")
  /\ revFile' = [revFile EXCEPT ![id] = [n \in DOMAIN @ \union {Paper(id).revs} |-> IF n = Paper(id).revs THEN c ELSE @[n]]]
  /\ UNCHANGED <<onDisk, workCopy, tree, logLines, asked>>
DiesAfterSave(id, c) ==
  /\ id \in Readable /\ Paper(id).revs \notin DOMAIN revFile[id] /\ c # LastSnapshot(id) /\ Beside("unlogged")
  /\ revFile' = [revFile EXCEPT ![id] = [n \in DOMAIN @ \union {Paper(id).revs} |-> IF n = Paper(id).revs THEN c ELSE @[n]]]
  /\ workCopy' = [workCopy EXCEPT ![id] = c]
  /\ Saved(id, [Paper(id) EXCEPT !.revs = @ + 1], [asked[id] EXCEPT !.contents = Append(@, c)])
  /\ UNCHANGED <<tree, logLines>>
RevLost(id, n) ==
  /\ n \in DOMAIN revFile[id] /\ Beside("lost")
  /\ revFile' = [revFile EXCEPT ![id] = [m \in DOMAIN @ \ {n} |-> @[m]]]
  /\ UNCHANGED <<onDisk, workCopy, tree, logLines, asked>>
ByHand(id, r) ==
  /\ id \in Readable /\ r # onDisk[id] /\ Beside("by hand")
  /\ onDisk' = [onDisk EXCEPT ![id] = r]
  /\ UNCHANGED <<revFile, workCopy, tree, logLines, asked>>
HandChanges(r) ==
  {[r EXCEPT !.version = 3], [r EXCEPT !.extra = TRUE], [r EXCEPT !.archived = "bad"], [r EXCEPT !.revs = Tail(@)]}
Older(id) ==
  /\ id \in Readable /\ Paper(id).kind = "document" /\ ~Paper(id).archived /\ Beside("older")
  /\ onDisk' = [onDisk EXCEPT ![id].kind = NotThere, ![id].archived = NotThere]
  /\ UNCHANGED <<revFile, workCopy, tree, logLines, asked>>
BaseLost(id) ==
  /\ id \in Readable /\ IsDiff(id) /\ Beside("half")
  /\ onDisk' = [onDisk EXCEPT ![id].kind = "half a diff", ![id].facts = "worktree"]
  /\ asked' = [asked EXCEPT ![id].kind = "half a diff"]
  /\ UNCHANGED <<revFile, workCopy, tree, logLines>>
LogTruncated ==
  /\ logLines # {} /\ Beside("truncated") /\ logLines' = {}
  /\ UNCHANGED <<onDisk, revFile, workCopy, tree, asked>>
TreeMoves(c) ==
  /\ c # tree /\ Beside("tree") /\ tree' = c
  /\ UNCHANGED <<onDisk, revFile, workCopy, logLines, asked>>

StoreNext ==
  \/ \E id \in PaperIds, kind \in {"document", "diff", "tour"}, c \in PaperTexts, g \in PaperGroups \union {NotThere} :
       CreatePaper(id, kind, c, g)
  \/ \E word \in Words : Unnamed(word)
  \/ \E word \in Words, id \in Readable :
       \/ \E c \in PaperTexts : ModifyFrom(word, id, c)
       \/ ModifyCurrent(word, id)
       \/ \E g \in PaperGroups \union {NotThere} : PaperGrouped(word, id, g)
       \/ \E yes \in BOOLEAN : PaperArchived(word, id, yes)
       \/ \E a, b \in -1 .. 1 : PaperDiffed(word, id, a, b)
       \/ PaperShown(word, id)
  \/ \E repair, archived \in BOOLEAN : Doctor(repair) \/ ListPapers(archived)
  \/ \E id \in Readable :
       \/ \E c \in PaperTexts : EditorSaves(id, c) \/ DiesAfterClaim(id, c) \/ DiesAfterSave(id, c)
       \/ \E n \in DOMAIN revFile[id] : RevLost(id, n)
       \/ \E r \in HandChanges(onDisk[id]) : ByHand(id, r)
       \/ Older(id) \/ BaseLost(id)
  \/ LogTruncated
  \/ \E c \in PaperTexts \union {NotThere} : TreeMoves(c)

-----------------------------------------------------------------------------
(* What the commands made of an artifact is what its record says and its     *)
(* files hold, whatever else was read and saved in between.                 *)
KeepsWhatItSaves ==
  \A id \in Readable :
    /\ Paper(id).kind = asked[id].kind /\ Paper(id).archived = asked[id].archived
    /\ Paper(id).group = asked[id].group /\ Paper(id).revs = Len(asked[id].contents)
    /\ \A n \in DOMAIN asked[id].contents : RevOf(id, n - 1) \in {NotThere, asked[id].contents[n]}
    /\ Paper(id).kind = "tour" => Paper(id).facts = "stops"

(* Clean means that nothing is lost, unread or left over; nobody's harm, no   *)
(* problem; and a modify is refused for what the doctor names only, a file    *)
(* for a diff and a worktree gone aside.                                    *)
DoctorSees ==
  /\ Problems = {} => \A id \in PaperIds : asked[id] # NotThere =>
       /\ id \in Readable
       /\ revFile[id] = [n \in 0 .. Len(asked[id].contents) - 1 |-> asked[id].contents[n + 1]]
       /\ workCopy[id] = asked[id].contents[Len(asked[id].contents)]
  /\ harms \subseteq {"tree", "older", "half"} => Problems = {}
  /\ told.what = "refused" /\ told.verb \in {"modify", "snapshot"} =>
       \/ ProblemsOf(told.paper) \cap {"orphan", "missing"} # {}
       \/ IsDiff(told.paper) /\ (told.verb = "modify" \/ tree = NotThere)
  /\ told.verb = "repair" => \A id \in Readable : OrphanRevs(id) = {}

(* A word that named an artifact names no other while that one can be read.   *)
NamesStay == \A word \in Words : named[word] \in Readable => Resolved(word) \subseteq {named[word]}

(* "No change" without its NOTE means that the working copy is the last        *)
(* revision too; what ls leaves out is archived or cannot be read.           *)
SaysTrue ==
  /\ told.verb = "modify" /\ told.what = "unchanged" => ~IsDirty(told.paper)
  /\ told.verb = "ls" /\ told.what = "unarchived" =>
       \A id \in PaperIds \ told.ids : asked[id] # NotThere => asked[id].archived \/ id \notin Readable

(* What is kept of an artifact is what it was asked to be, its doctor misses  *)
(* nothing and makes nothing up, and a word that begins its id keeps meaning  *)
(* it (artifact.rs, service.rs, verbs.rs).                                  *)
StoreHolds == KeepsWhatItSaves /\ DoctorSees /\ NamesStay /\ SaysTrue

-----------------------------------------------------------------------------
(* Groups.                                                                  *)
(* The effort group of a session, a view and an artifact, resolved from    *)
(* the records whenever it is shown, and `tx group`, `tx artifact group`   *)
(* and the session editor, which set what it is resolved from              *)
(* (grouping.rs).                                                          *)
CONSTANTS
  Kin, Hubs,        \* sessions, and those whose name is a hub's
  Gone,             \* a parent or an author whose record is not there any more
  Groups,           \* what may be set
  TagsAtFirst,      \* each session's first tag
  ViewParents,      \* the parents a view of the artifact may have
  NoGroup, Junk,    \* nothing set; an ext entry that is no object
  FirstAuthors,     \* who may have touched the artifact at first, creator first
  LaterAuthors,     \* who may touch it later
  Ungrouped,
  MaxRegroups       \* bound: how often something is set

VARIABLES
  parentOf, tagOf,  \* of each session
  editGroup, ours,     \* ext.edit.group and ext.artifacts.group
  authors,          \* the artifact's history, oldest first
  paperGroup,       \* its record's group
  viewParent,       \* the view of the artifact: its parent
  removed,          \* sessions whose record is gone
  regroups,
  before            \* history: the groups before the last `tx group`, and whose it set

groupVars == <<parentOf, tagOf, editGroup, ours, authors, paperGroup, viewParent, removed, regroups, before>>

OnRecord == Kin \ removed
IsHub(s) == s \in Hubs
Parent(s) == IF s \in OnRecord /\ parentOf[s] \in OnRecord THEN parentOf[s] ELSE Gone

(* A malformed entry reads as absent; what the editor set wins.             *)
ReadOurs(s) == IF ours[s] = Junk THEN NoGroup ELSE ours[s]
OwnGroup(s) == IF editGroup[s] # NoGroup THEN editGroup[s] ELSE ReadOurs(s)

(* Mutant: the parents' overrides are asked past a hub. *)
RECURSIVE AncestorPastHubs(_, _)
AncestorPastHubs(s, visited) ==
  IF s = Gone \/ s \in visited THEN NoGroup
  ELSE IF OwnGroup(s) # NoGroup THEN OwnGroup(s) ELSE AncestorPastHubs(Parent(s), visited \union {s})

(* The first override up the parents: past no hub, and no session twice.    *)
RECURSIVE AncestorOverride(_, _)
AncestorOverride(s, visited) ==
  IF s = Gone \/ s \in visited THEN NoGroup
  ELSE IF OwnGroup(s) # NoGroup \/ IsHub(s) THEN OwnGroup(s)
  ELSE AncestorOverride(Parent(s), visited \union {s})

SessionOverride(s) ==
  IF OwnGroup(s) # NoGroup THEN OwnGroup(s)
  ELSE IF IsHub(s) THEN NoGroup ELSE AncestorOverride(Parent(s), {s})
Floor(s) == IF tagOf[s] # NoGroup THEN tagOf[s] ELSE s
SessionGroup(s) == IF SessionOverride(s) # NoGroup THEN SessionOverride(s) ELSE Floor(s)

(* The creator, then the others from the newest back, as far as they are    *)
(* still on record.                                                         *)
CreatorFirst == <<Head(authors)>> \o Reverse(Tail(authors))
Surviving == SelectSeq(CreatorFirst, LAMBDA who : who \in OnRecord)
PaperOverride ==
  IF paperGroup # NoGroup \/ Surviving = <<>> THEN paperGroup ELSE SessionGroup(Head(Surviving))
PaperGroup == IF PaperOverride = NoGroup THEN Ungrouped ELSE PaperOverride

(* A view has the override of its parents, then its artifact's group, then  *)
(* its own name.                                                            *)
ViewParent == IF viewParent \in OnRecord THEN viewParent ELSE Gone
ViewGroup ==
  IF AncestorOverride(ViewParent, {}) # NoGroup THEN AncestorOverride(ViewParent, {})
  ELSE IF PaperOverride # NoGroup THEN PaperOverride ELSE "view"

(* What each is shown under.                                                *)
Shown == [who \in OnRecord |-> SessionGroup(who)]

-----------------------------------------------------------------------------
Nothing == [of |-> Gone, shown |-> [who \in {} |-> NoGroup], paper |-> NoGroup]

GroupingInit ==
  /\ parentOf \in [Kin -> Kin \union {Gone}]
  /\ tagOf = TagsAtFirst
  /\ editGroup = [s \in Kin |-> NoGroup] /\ ours = [s \in Kin |-> NoGroup]
  /\ authors \in FirstAuthors
  /\ paperGroup = NoGroup /\ viewParent \in ViewParents
  /\ removed = {} /\ regroups = 0 /\ before = Nothing

Begins == regroups < MaxRegroups /\ regroups' = regroups + 1
SetBefore(s) == before' = [of |-> s, shown |-> Shown, paper |-> PaperGroup]

(* set_group: `tx group` sets or clears ours, whatever was in its place.    *)
GroupVerb(s, g) ==
  /\ s \in OnRecord /\ Begins
  /\ ours' = [ours EXCEPT ![s] = g]
  /\ SetBefore(s)
  /\ UNCHANGED <<parentOf, tagOf, editGroup, authors, paperGroup, viewParent, removed>>

(* prefix+e sets its own; a hand leaves ours no object.                     *)
EditorGroups(s, g) ==
  /\ s \in OnRecord /\ Begins /\ editGroup' = [editGroup EXCEPT ![s] = g]
  /\ SetBefore(s)
  /\ UNCHANGED <<parentOf, tagOf, ours, authors, paperGroup, viewParent, removed>>
Spoil(s) ==
  /\ s \in OnRecord /\ Begins /\ ours' = [ours EXCEPT ![s] = Junk] /\ before' = Nothing
  /\ UNCHANGED <<parentOf, tagOf, editGroup, authors, paperGroup, viewParent, removed>>

(* `tx artifact group`; a touch; a record that goes.                        *)
PaperVerb(g) ==
  /\ Begins /\ paperGroup' = g /\ before' = Nothing
  /\ UNCHANGED <<parentOf, tagOf, editGroup, ours, authors, viewParent, removed>>
Touch(who) ==
  /\ Begins /\ authors' = Append(authors, who) /\ before' = Nothing
  /\ UNCHANGED <<parentOf, tagOf, editGroup, ours, paperGroup, viewParent, removed>>
RecordGone(s) ==
  /\ s \in OnRecord /\ Begins /\ removed' = removed \union {s} /\ before' = Nothing
  /\ UNCHANGED <<parentOf, tagOf, editGroup, ours, authors, paperGroup, viewParent>>

GroupingNext ==
  \/ \E s \in Kin :
       \/ \E g \in Groups \union {NoGroup} : GroupVerb(s, g) \/ EditorGroups(s, g)
       \/ Spoil(s) \/ RecordGone(s)
  \/ \E g \in Groups \union {NoGroup} : PaperVerb(g)
  \/ \E who \in LaterAuthors : Touch(who)

-----------------------------------------------------------------------------
(* n steps up from a session.                                               *)
RECURSIVE Up(_, _)
Up(s, n) == IF n = 0 THEN s ELSE Parent(Up(s, n - 1))

(* Who is reached from s: up the parents as far as none before is a hub.     *)
Reached(s) ==
  {t \in OnRecord : \E n \in 0 .. Cardinality(Kin) : Up(s, n) = t /\ \A m \in 0 .. n - 1 : ~IsHub(Up(s, m))}
Nearer(s, t, u) == \E n \in 0 .. Cardinality(Kin) : Up(s, n) = t /\ \A m \in 0 .. n : Up(s, m) # u

(* A session is shown under the group of the nearest it reaches that has     *)
(* one, and under a tag or a name that nobody else has handed it.            *)
NearestOverride ==
  \A s \in OnRecord :
    LET having == {t \in Reached(s) : OwnGroup(t) # NoGroup}
    IN IF having = {} THEN SessionGroup(s) = Floor(s)
       ELSE \E t \in having : SessionGroup(s) = OwnGroup(t) /\ \A u \in having \ {t} : Nearer(s, t, u)

(* Setting or clearing one session's group changes what those show who reach *)
(* it, and the artifact whose author does, and nobody else.                  *)
OnlyThoseBelow ==
  before.of # Gone =>
    /\ \A s \in OnRecord : SessionGroup(s) # before.shown[s] => before.of \in Reached(s)
    /\ PaperGroup # before.paper => paperGroup = NoGroup /\ before.of \in Reached(Head(Surviving))

(* An artifact is under no group only when no author is left.               *)
PaperPlaced ==
  /\ PaperGroup = Ungrouped => paperGroup = NoGroup /\ \A n \in DOMAIN authors : authors[n] \notin OnRecord
  /\ Head(authors) \in OnRecord /\ paperGroup = NoGroup => PaperGroup = SessionGroup(Head(authors))

(* A group reaches down to the next hub or override, through any tangle of   *)
(* parents, and what is set on one session never shows on others (grouping.rs). *)
GroupingHolds ==
  /\ NearestOverride /\ OnlyThoseBelow /\ PaperPlaced
  /\ ViewGroup \notin {NoGroup, Junk}
  /\ ViewParent # Gone /\ AncestorOverride(ViewParent, {}) # NoGroup => ViewGroup = SessionGroup(ViewParent)

-----------------------------------------------------------------------------
(* Tours *)

CONSTANTS
  Guides,        \* processes running the verb
  GuideActor,    \* whom each acts for: an agent or "user"
  RecordTags,    \* the tags of the agents that have a record
  Scripts,       \* what the stops file may hold: every one but "broken" is a list
  Places,        \* directories
  OldPapers,     \* the artifacts at first, by id
  TourIds,       \* the ids of later ones
  TourTitles,
  MaxTourTurns,  \* bound: what the others do
  TourSubs, TourTyped, \* words of a command line, the first and the others
  MaxTourTyped   \* bound: how many

VARIABLES
  script,      \* the stops file
  placesLeft,  \* the directories that exist
  tours,       \* the artifacts
  tourRooms,   \* the sessions, by name
  guides,      \* each process
  tourLog,     \* the opens that were logged
  slipped,     \* history: a session ended while its options were being set
  tourTurns,
  tourTyped    \* a command line

tourProcVars == <<script, placesLeft, tours, tourRooms, guides, tourLog, slipped, tourTurns>>

-----------------------------------------------------------------------------
(* parse_args *)
TourFlags == {"--title", "--cwd", "--tag"}
Refusal == [sub |-> "refused"]
NoSlots == [want |-> "", slots |-> <<>>, positionals |-> <<>>, wrong |-> FALSE]
(* Mutant: a flag is a flag also where a value is awaited. *)
TourWordFlagsFirst(r, word) ==
  CASE word \in TourFlags -> [r EXCEPT !.want = word]
    [] word \notin TourFlags /\ r.want # "" -> [r EXCEPT !.slots = (r.want :> word) @@ r.slots, !.want = ""]
    [] word = "--other" /\ r.want = "" -> [r EXCEPT !.wrong = TRUE]
    [] OTHER -> [r EXCEPT !.positionals = Append(@, word)]

(* A flag takes the next word, whatever it is, and the last such flag counts.*)
TourWord(r, word) ==
  CASE r.want # "" -> [r EXCEPT !.slots = (r.want :> word) @@ r.slots, !.want = ""]
    [] word \in TourFlags -> [r EXCEPT !.want = word]
    [] word = "--other" -> [r EXCEPT !.wrong = TRUE]
    [] OTHER -> [r EXCEPT !.positionals = Append(@, word)]
(* "" is a list of tags with none in it.                                    *)
TagsIn(word) == {word} \ {""}
ParseTour(words) ==
  LET r == FoldLeft(TourWord, NoSlots, Tail(words))
      given == DOMAIN r.slots
      Slot(flag) == IF flag \in given THEN <<r.slots[flag]>> ELSE <<>>
  IN CASE words = <<>> -> Refusal
       [] r.wrong \/ r.want # "" \/ Len(r.positionals) # 1 -> Refusal
       [] Head(words) = "create" /\ "--tag" \notin given /\ Slot("--title") \notin {<<>>, <<"">>} ->
            [sub |-> "create", on |-> r.positionals[1], title |-> r.slots["--title"], cwd |-> Slot("--cwd")]
       [] Head(words) = "open" /\ given \subseteq {"--tag"} /\ Slot("--tag") # <<"">> ->
            [sub |-> "open", on |-> r.positionals[1], tags |-> IF given = {} THEN {} ELSE TagsIn(r.slots["--tag"])]
       [] OTHER -> Refusal

TypeTour ==
  /\ Len(tourTyped) < MaxTourTyped
  /\ tourTyped' \in {Append(tourTyped, w) : w \in IF tourTyped = <<>> THEN TourSubs ELSE TourTyped}

(* Read from the front, each word is the value of the flag before it, a flag  *)
(* or the one thing the verb is about; the verb does what these say or        *)
(* nothing: no flag of the other verb, no empty title, no list without tags. *)
TourWordsHold ==
  tourTyped # <<>> =>
    LET words == tourTyped
        IsFlag[i \in 1 .. Len(words)] == i > 1 /\ words[i] \in TourFlags /\ ~IsFlag[i - 1]
        IsValue(i) == i > 1 /\ IsFlag[i - 1]
        Values(flag) == {i \in DOMAIN words : IsValue(i) /\ words[i - 1] = flag}
        Latest(flag) == {words[i] : i \in {i \in Values(flag) : \A j \in Values(flag) : j <= i}}
        plain == {i \in 2 .. Len(words) : ~IsFlag[i] /\ ~IsValue(i)}
        sound == ~IsFlag[Len(words)] /\ Cardinality(plain) = 1 /\ \A i \in plain : words[i] # "--other"
        command == ParseTour(words)
    IN CASE sound /\ words[1] = "create" /\ Latest("--tag") = {} /\ Latest("--title") \ {""} # {} ->
              /\ command.sub = "create" /\ \A i \in plain : command.on = words[i]
              /\ {command.title} = Latest("--title") /\ ToSet(command.cwd) = Latest("--cwd")
         [] sound /\ words[1] = "open" /\ Latest("--title") \union Latest("--cwd") = {} /\ Latest("--tag") # {""} ->
              command.sub = "open" /\ command.tags = Latest("--tag") /\ \A i \in plain : command.on = words[i]
         [] OTHER -> command = Refusal

-----------------------------------------------------------------------------
(* create and open *)
NoTour == [kind |-> "none"]
Facts == {"worktree", "stops"}
TourKind(place, content, title, edited) ==
  [kind |-> "tour", facts |-> Facts, place |-> place, content |-> content, title |-> title, edited |-> edited]
(* An nvim: where it runs, what it loads and whether its opener had company; *)
(* then what its options say.                                               *)
Nvim(place, loads, beside) ==
  [runs |-> "nvim", place |-> place, loads |-> loads, beside |-> beside, view |-> FALSE, bound |-> "none", tags |-> {}, parent |-> "none"]
OthersOwn == [Nvim("none", "none", FALSE) EXCEPT !.runs = "shell"]

TourProcInit ==
  /\ script \in Scripts /\ placesLeft = Places
  /\ tours = OldPapers @@ [id \in TourIds |-> NoTour]
  /\ tourRooms = <<>>
  /\ guides = [g \in Guides |-> [at |-> "idle"]]
  /\ tourLog = {} /\ tourTurns = 0 /\ slipped = FALSE

GuideAt(g, at) == guides[g].at = at
GuideGoes(g, at, more) == guides' = [guides EXCEPT ![g] = [more @@ @ EXCEPT !.at = at]]
GuideEnds(g, outcome) == guides' = [guides EXCEPT ![g] = [at |-> "over", said |-> outcome, id |-> @.id]]
GuideFree(g) == guides[g].at \in {"idle", "over"} /\ tourTurns < MaxTourTurns /\ tourTurns' = tourTurns + 1
RoomsKept == UNCHANGED <<tourRooms, tourLog, slipped>>
FilesKept == UNCHANGED <<script, placesLeft, tours>>

(* tour_of: the stops are the artifact's own, in its directory.              *)
TourThere(id) == tours[id].kind = "tour" /\ tours[id].facts = Facts /\ tours[id].place \in placesLeft

(* The worktree is resolved, then nvim loads the stops.                      *)
CreateTour(g, title, place) ==
  /\ GuideFree(g)
  /\ guides' = [guides EXCEPT ![g] =
       IF place \in placesLeft THEN [at |-> "validate", title |-> title, place |-> place, edited |-> FALSE, id |-> "none"]
       ELSE [at |-> "over", said |-> "no such directory", id |-> "none"]]
  /\ FilesKept /\ RoomsKept
ListOfStops(content) == content # "broken"
Validate(g) ==
  /\ GuideAt(g, "validate")
  /\ IF ListOfStops(script) THEN GuideGoes(g, "register", <<>>) ELSE GuideEnds(g, "not a tour")
  /\ FilesKept /\ RoomsKept /\ UNCHANGED tourTurns
(* The file is read again. What the store does is ArtifactStore's.           *)
Register(g) ==
  /\ GuideAt(g, "register")
  /\ \E id \in TourIds :
       /\ tours[id] = NoTour
       /\ tours' = [tours EXCEPT ![id] = TourKind(guides[g].place, script, guides[g].title, guides[g].edited)]
       /\ GuideGoes(g, "created", "id" :> id)
  /\ RoomsKept /\ UNCHANGED <<script, placesLeft, tourTurns>>
(* The artifact stays, though its worktree may be gone by now.               *)
CreateOver(g) ==
  /\ GuideAt(g, "created")
  /\ GuideEnds(g, IF TourThere(guides[g].id) THEN "created" ELSE "worktree gone")
  /\ FilesKept /\ RoomsKept /\ UNCHANGED tourTurns

LiveTour(id) == \E n \in DOMAIN tourRooms : tourRooms[n].view /\ tourRooms[n].bound = id
Opening(id) == \E h \in Guides : guides[h].at \in {"tour", "name", "start", "mark", "bind"} /\ guides[h].id = id
OpenTour(g, id, tags) ==
  /\ GuideFree(g)
  /\ guides' = [guides EXCEPT ![g] =
       CASE tours[id] = NoTour -> [at |-> "over", said |-> "not found", id |-> id]
         [] LiveTour(id) -> [at |-> "over", said |-> "already open", id |-> id]
         [] OTHER -> [at |-> "tour", id |-> id, tags |-> tags, beside |-> Opening(id)]]
  /\ FilesKept /\ RoomsKept
ReadTour(g) ==
  /\ GuideAt(g, "tour")
  /\ IF TourThere(guides[g].id) THEN GuideGoes(g, "name", "place" :> tours[guides[g].id].place) ELSE GuideEnds(g, "no tour")
  /\ FilesKept /\ RoomsKept /\ UNCHANGED tourTurns
(* The agent that opens it, if it has a record; the tags asked for, the      *)
(* agent's or "artifact"; the title, with the id if a session has that name. *)
Invoker(g) == IF GuideActor[g] \in DOMAIN RecordTags THEN GuideActor[g] ELSE "none"
TourTags(g) ==
  LET inherited == IF Invoker(g) = "none" THEN {} ELSE RecordTags[GuideActor[g]] IN
  CASE guides[g].tags # {} -> guides[g].tags
    [] guides[g].tags = {} /\ inherited # {} -> inherited
    [] OTHER -> {"artifact"}
TourName(id) == LET title == tours[id].title IN IF <<title>> \in DOMAIN tourRooms THEN <<title, id>> ELSE <<title>>
NameTour(g) ==
  /\ GuideAt(g, "name")
  /\ GuideGoes(g, "start", [tags |-> TourTags(g), parent |-> Invoker(g), name |-> TourName(guides[g].id)])
  /\ FilesKept /\ RoomsKept /\ UNCHANGED tourTurns
StartTour(g) ==
  LET o == guides[g] IN
  /\ GuideAt(g, "start")
  /\ IF o.name \in DOMAIN tourRooms THEN GuideEnds(g, "name taken") /\ UNCHANGED tourRooms
     ELSE tourRooms' = (o.name :> Nvim(o.place, o.id, o.beside)) @@ tourRooms /\ GuideGoes(g, "mark", <<>>)
  /\ FilesKept /\ UNCHANGED <<tourLog, slipped, tourTurns>>
(* The options go to whoever has the name; a session that is over has none.  *)
SetTour(g, options, then) ==
  /\ IF guides[g].name \in DOMAIN tourRooms
       THEN tourRooms' = [tourRooms EXCEPT ![guides[g].name] = options @@ @] /\ GuideGoes(g, then, <<>>)
       ELSE GuideEnds(g, "not marked") /\ UNCHANGED tourRooms
  /\ FilesKept /\ UNCHANGED <<tourLog, slipped, tourTurns>>
MarkTour(g) == GuideAt(g, "mark") /\ SetTour(g, "view" :> TRUE, "bind")
BindTour(g) ==
  /\ GuideAt(g, "bind")
  /\ SetTour(g, [bound |-> guides[g].id, parent |-> guides[g].parent, tags |-> guides[g].tags], "log")
(* The log may not be writable: an error, but the view is there.             *)
LogTour(g) ==
  /\ GuideAt(g, "log")
  /\ \/ GuideEnds(g, "opened") /\ tourLog' = tourLog \union {<<guides[g].id, GuideActor[g]>>}
     \/ GuideEnds(g, "not logged") /\ UNCHANGED tourLog
  /\ FilesKept /\ UNCHANGED <<tourRooms, slipped, tourTurns>>

(* The user and the other programs.                                         *)
EditStops(s) ==
  /\ script' = s /\ UNCHANGED <<placesLeft, tours>> /\ RoomsKept
  /\ guides' = [g \in Guides |-> IF GuideAt(g, "register") THEN [guides[g] EXCEPT !.edited = TRUE] ELSE guides[g]]
PlaceGoes(place) == placesLeft' = placesLeft \ {place} /\ UNCHANGED <<script, tours, guides>> /\ RoomsKept
RoomEnds(name) ==
  /\ tourRooms' = [n \in DOMAIN tourRooms \ {name} |-> tourRooms[n]]
  /\ slipped' = (slipped \/ \E g \in Guides : guides[g].at \in {"mark", "bind"} /\ guides[g].name = name)
  /\ FilesKept /\ UNCHANGED <<guides, tourLog>>
NameGoes(title) ==
  /\ <<title>> \notin DOMAIN tourRooms /\ tourRooms' = (<<title>> :> OthersOwn) @@ tourRooms
  /\ FilesKept /\ UNCHANGED <<guides, tourLog, slipped>>

TourProcNext ==
  \/ \E g \in Guides :
       \/ \E title \in TourTitles, place \in Places : CreateTour(g, title, place)
       \/ Validate(g) \/ Register(g) \/ CreateOver(g)
       \/ \E id \in DOMAIN tours, tags \in {{}, {"t"}} : OpenTour(g, id, tags)
       \/ ReadTour(g) \/ NameTour(g) \/ StartTour(g) \/ MarkTour(g) \/ BindTour(g) \/ LogTour(g)
  \/ /\ tourTurns < MaxTourTurns /\ tourTurns' = tourTurns + 1
     /\ \/ \E s \in Scripts \ {script} : EditStops(s)
        \/ \E place \in placesLeft : PlaceGoes(place)
        \/ \E name \in DOMAIN tourRooms : RoomEnds(name)
        \/ \E title \in TourTitles : NameGoes(title)

(* What is registered loads in nvim, unless the file was written between the  *)
(* check and the reading. While no session ends under its opener's hands,     *)
(* every view shows the stops of the artifact it is bound to, in that tour's  *)
(* worktree, a child of an agent with a record and with tags; two views of    *)
(* one artifact come only of two opens at once; and "opened" is in the log.  *)
ToursHold ==
  /\ \A id \in TourIds : tours[id] # NoTour => ListOfStops(tours[id].content) \/ tours[id].edited
  /\ ~slipped => \A n \in DOMAIN tourRooms :
       LET room == tourRooms[n] IN
       /\ room.view => room.runs = "nvim"
       /\ room.bound # "none" =>
            /\ room.loads = room.bound /\ tours[room.bound].kind = "tour" /\ room.place = tours[room.bound].place
            /\ room.tags # {} /\ room.parent \in {"none"} \union DOMAIN RecordTags
            /\ \A m \in DOMAIN tourRooms \ {n} :
                 tourRooms[m].bound = room.bound => room.beside \/ tourRooms[m].beside
  /\ \A g \in Guides : GuideAt(g, "over") /\ guides[g].said = "opened" => <<guides[g].id, GuideActor[g]>> \in tourLog
=============================================================================
