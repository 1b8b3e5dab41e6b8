---------------------------- MODULE ArtifactDiffs ----------------------------
(***************************************************************************)
(* The diffs of plugins/artifacts.                                         *)
(*                                                                         *)
(* Between two revisions, tx artifact diff: the hunks as CPython's         *)
(* SequenceMatcher finds them (difflib.rs).  A text is the sequence of its *)
(* lines; only the last may be Unended.  Ranges are half-open and count    *)
(* from 0, as in the code.                                                 *)
(*                                                                         *)
(* A diff artifact (kinds.rs): the patch of a checkout against the commit  *)
(* its base is pinned to, and the temporary worktree it is shown in once   *)
(* the checkout is gone.  git itself is external: what its commands answer *)
(* is modelled from how kinds.rs calls them.  A linear main and one branch *)
(* on it.                                                                  *)
(***************************************************************************)
EXTENDS Integers, Sequences, SequencesExt, FiniteSets, FiniteSetsExt

CONSTANTS
  EndedLines, Unended,         \* the lines there are, and one without its newline
  PopularFrom, PopularShare,   \* a text this long has popular lines; above which share of it
  Context,                     \* equal lines around a change
  Breakers,                    \* characters that end a line, CR LF only together
  CR, LF, OtherChar,
  MaxDiffLines, MaxRawChars    \* bounds: lines of a text, characters of a raw one

VARIABLES oldText, newText, rawText
diffVars == <<oldText, newText, rawText>>

(* Where a line's neighbours are compared, a popular one does not count.    *)
Popular(b) ==
  IF Len(b) < PopularFrom THEN {}
  ELSE {b[n] : n \in {m \in DOMAIN b :
          Cardinality({j \in DOMAIN b : b[j] = b[m]}) > Len(b) \div PopularShare + 1}}

Same(a, b, i, j, k) == \A d \in 1 .. k : a[i + d] = b[j + d]

(* The runs of equal lines without a popular one, and the longest, earliest  *)
(* of them.                                                                 *)
Runs(a, b, popular, box) ==
  {r \in (box.alo .. box.ahi - 1) \X (box.blo .. box.bhi - 1) \X (1 .. box.ahi - box.alo) :
     /\ r[1] + r[3] <= box.ahi /\ r[2] + r[3] <= box.bhi
     /\ \A d \in 1 .. r[3] : a[r[1] + d] = b[r[2] + d] /\ a[r[1] + d] \notin popular}
Before(r, q) == q[3] < r[3] \/ (q[3] = r[3] /\ (r[1] < q[1] \/ (r[1] = q[1] /\ r[2] <= q[2])))
Longest(runs, box) ==
  IF runs = {} THEN <<box.alo, box.blo, 0>> ELSE CHOOSE r \in runs : \A q \in runs : Before(r, q)

(* Equal neighbours inside the box join it, popular ones too.               *)
Back(a, b, box, m) ==
  Max({d \in 0 .. m[1] - box.alo : d <= m[2] - box.blo /\ Same(a, b, m[1] - d, m[2] - d, d)})
Widened(m, d) == <<m[1] - d, m[2] - d, m[3] + d>>
Forth(a, b, box, m) ==
  <<m[1], m[2], Max({k \in m[3] .. box.ahi - m[1] : k <= box.bhi - m[2] /\ Same(a, b, m[1], m[2], k)})>>
LongestMatch(a, b, box, m) == Forth(a, b, box, Widened(m, Back(a, b, box, m)))

(* The blocks left and right of the longest match come from the boxes there. *)
RECURSIVE Blocks(_, _, _, _)
Around(a, b, popular, box, m) ==
  IF m[3] = 0 THEN <<>>
  ELSE (IF box.alo < m[1] /\ box.blo < m[2]
          THEN Blocks(a, b, popular, [box EXCEPT !.ahi = m[1], !.bhi = m[2]]) ELSE <<>>)
       \o <<m>>
       \o (IF m[1] + m[3] < box.ahi /\ m[2] + m[3] < box.bhi
             THEN Blocks(a, b, popular, [box EXCEPT !.alo = m[1] + m[3], !.blo = m[2] + m[3]]) ELSE <<>>)
Blocks(a, b, popular, box) ==
  Around(a, b, popular, box, LongestMatch(a, b, box, Longest(Runs(a, b, popular, box), box)))

(* Blocks that touch are one; an empty one stands at the end.               *)
BlocksJoined(blocks, m) ==
  IF blocks # <<>> /\ Last(blocks)[1] + Last(blocks)[3] = m[1] /\ Last(blocks)[2] + Last(blocks)[3] = m[2]
    THEN [blocks EXCEPT ![Len(blocks)][3] = @ + m[3]]
    ELSE Append(blocks, m)
MatchingBlocks(a, b) ==
  Append(FoldLeft(BlocksJoined, <<>>, Blocks(a, b, Popular(b), [alo |-> 0, ahi |-> Len(a), blo |-> 0, bhi |-> Len(b)])),
         <<Len(a), Len(b), 0>>)

(* What lies between two blocks, and the block.                             *)
Code(tag, i1, i2, j1, j2) == [tag |-> tag, i1 |-> i1, i2 |-> i2, j1 |-> j1, j2 |-> j2]
CodesTo(i, j, m) ==
  (CASE i < m[1] /\ j < m[2] -> <<Code("replace", i, m[1], j, m[2])>>
     [] i < m[1] /\ ~(j < m[2]) -> <<Code("delete", i, m[1], j, m[2])>>
     [] ~(i < m[1]) /\ j < m[2] -> <<Code("insert", i, m[1], j, m[2])>>
     [] OTHER -> <<>>)
  \o (IF m[3] > 0 THEN <<Code("equal", m[1], m[1] + m[3], m[2], m[2] + m[3])>> ELSE <<>>)
CodesOf(blocks) ==
  FlattenSeq([n \in DOMAIN blocks |->
    IF n = 1 THEN CodesTo(0, 0, blocks[1])
             ELSE CodesTo(blocks[n - 1][1] + blocks[n - 1][3], blocks[n - 1][2] + blocks[n - 1][3], blocks[n])])
OrNothing(codes) == IF codes = <<>> THEN <<Code("equal", 0, 1, 0, 1)>> ELSE codes

(* Of equal lines at either end, Context are kept; of many between two       *)
(* changes, Context on each side, and the hunk ends there.                  *)
Trailing(c) == [c EXCEPT !.i1 = Max({c.i1, c.i2 - Context}), !.j1 = Max({c.j1, c.j2 - Context})]
Leading(c) == [c EXCEPT !.i2 = Min({c.i2, c.i1 + Context}), !.j2 = Min({c.j2, c.j1 + Context})]
FirstTrimmed(codes) == IF Head(codes).tag = "equal" THEN [codes EXCEPT ![1] = Trailing(@)] ELSE codes
LastTrimmed(codes) == IF Last(codes).tag = "equal" THEN [codes EXCEPT ![Len(codes)] = Leading(@)] ELSE codes

(* Mutant: a hunk ends between changes whose contexts still overlap. *)
PartedEarly(groups, c) ==
  IF c.tag = "equal" /\ c.i2 - c.i1 > Context
    THEN Append([groups EXCEPT ![Len(groups)] = Append(@, Leading(c))], <<Trailing(c)>>)
    ELSE [groups EXCEPT ![Len(groups)] = Append(@, c)]

(* Changes further apart than both their contexts are two hunks. *)
Parted(groups, c) ==
  IF c.tag = "equal" /\ c.i2 - c.i1 > 2 * Context
    THEN Append([groups EXCEPT ![Len(groups)] = Append(@, Leading(c))], <<Trailing(c)>>)
    ELSE [groups EXCEPT ![Len(groups)] = Append(@, c)]
IsHunk(group) == ~(Len(group) = 1 /\ group[1].tag = "equal")
Grouped(codes) == SelectSeq(FoldLeft(Parted, << <<>> >>, LastTrimmed(FirstTrimmed(codes))), IsHunk)

(* A hunk names its ranges as the unified format does, from 1, an empty one  *)
(* by the line before it.                                                   *)
RangeShown(start, stop) == [at |-> IF stop = start THEN start ELSE start + 1, length |-> stop - start]
MarkedLines(mark, text, from, to) == [n \in 1 .. to - from |-> [mark |-> mark, line |-> text[from + n]]]
CodeShown(a, b, c) ==
  IF c.tag = "equal" THEN MarkedLines(" ", a, c.i1, c.i2)
  ELSE (IF c.tag \in {"replace", "delete"} THEN MarkedLines("-", a, c.i1, c.i2) ELSE <<>>)
       \o (IF c.tag \in {"replace", "insert"} THEN MarkedLines("+", b, c.j1, c.j2) ELSE <<>>)
HunkShown(a, b, group) ==
  [old |-> RangeShown(Head(group).i1, Last(group).i2), new |-> RangeShown(Head(group).j1, Last(group).j2),
   body |-> FlattenSeq([n \in DOMAIN group |-> CodeShown(a, b, group[n])])]
HunksShown(a, b, groups) == [n \in DOMAIN groups |-> HunkShown(a, b, groups[n])]
UnifiedDiff(a, b) == HunksShown(a, b, Grouped(OrNothing(CodesOf(MatchingBlocks(a, b)))))

(* A break ends a line, CR LF as one.                                       *)
EndsLine(text, n) == text[n] \in Breakers /\ ~(text[n] = CR /\ n < Len(text) /\ text[n + 1] = LF)
Ends(text) == SetToSortSeq({0} \union {n \in DOMAIN text : EndsLine(text, n) \/ n = Len(text)}, <)
SplitLines(text) == [k \in 1 .. Len(Ends(text)) - 1 |-> SubSeq(text, Ends(text)[k] + 1, Ends(text)[k + 1])]

-----------------------------------------------------------------------------
DiffInit == oldText = <<>> /\ newText = <<>> /\ rawText = <<>>

(* A text has one line more; its last may lack the newline.                  *)
MoreOf(text) ==
  {Append(text, line) : line \in IF Len(text) = MaxDiffLines \/ (text # <<>> /\ Last(text) = Unended)
                                   THEN {} ELSE EndedLines \union {Unended}}
DiffNext ==
  \/ rawText = <<>> /\ oldText' \in MoreOf(oldText) /\ UNCHANGED <<newText, rawText>>
  \/ rawText = <<>> /\ newText' \in MoreOf(newText) /\ UNCHANGED <<oldText, rawText>>
  \/ /\ oldText = <<>> /\ newText = <<>> /\ Len(rawText) < MaxRawChars
     /\ \E c \in Breakers \union {OtherChar} : rawText' = Append(rawText, c)
     /\ UNCHANGED <<oldText, newText>>

-----------------------------------------------------------------------------
(* A reader of the hunks: what is before a hunk stays, its lines marked " "  *)
(* and "-" must be the old text's at its place.                             *)
LinesMarked(body, marks) ==
  LET chosen == SelectSeq(body, LAMBDA shown : shown.mark \in marks)
  IN [n \in DOMAIN chosen |-> chosen[n].line]
StartOf(range) == IF range.length = 0 THEN range.at ELSE range.at - 1
RECURSIVE Patched(_, _, _)
Patched(a, hunks, done) ==
  IF hunks = <<>> THEN SubSeq(a, done + 1, Len(a))
  ELSE SubSeq(a, done + 1, StartOf(Head(hunks).old)) \o LinesMarked(Head(hunks).body, {" ", "+"})
       \o Patched(a, Tail(hunks), StartOf(Head(hunks).old) + Head(hunks).old.length)
HunkFits(a, b, h) ==
  /\ LinesMarked(h.body, {" ", "-"}) = SubSeq(a, StartOf(h.old) + 1, StartOf(h.old) + h.old.length)
  /\ LinesMarked(h.body, {" ", "+"}) = SubSeq(b, StartOf(h.new) + 1, StartOf(h.new) + h.new.length)
Apart(g, h) == StartOf(g.old) + g.old.length < StartOf(h.old) /\ StartOf(g.new) + g.new.length < StartOf(h.new)

(* Every hunk changes something, has no more than Context lines around its    *)
(* changes, and its neighbours are lines away; a line without its newline     *)
(* has another printed behind it only where the old text ends so.            *)
HunkTight(h) ==
  /\ \E n \in DOMAIN h.body : h.body[n].mark # " "
  /\ \E n \in 1 .. Min({Len(h.body), Context + 1}) : h.body[n].mark # " "
  /\ \E n \in Max({1, Len(h.body) - Context}) .. Len(h.body) : h.body[n].mark # " "
Glued(h) == \E n \in 1 .. Len(h.body) - 1 : h.body[n].line = Unended

DiffTold(a, b, hunks) ==
  /\ (hunks = <<>>) = (a = b)
  /\ Patched(a, hunks, 0) = b
  /\ \A n \in DOMAIN hunks :
       /\ HunkFits(a, b, hunks[n]) /\ HunkTight(hunks[n])
       /\ n > 1 => Apart(hunks[n - 1], hunks[n])
       /\ Glued(hunks[n]) => n = Len(hunks) /\ Last(a) = Unended

LinesTold(text, lines) ==
  /\ FlattenSeq(lines) = text
  /\ \A k \in DOMAIN lines :
       /\ lines[k] # <<>>
       /\ k < Len(lines) => EndsLine(text, Len(FlattenSeq(SubSeq(lines, 1, k))))
       /\ \A n \in 1 .. Len(lines[k]) - 1 : lines[k][n] \in Breakers => lines[k][n] = CR /\ lines[k][n + 1] = LF

(* What tx artifact diff prints, read as a patch, makes the new revision of   *)
(* the old one, whatever lines repeat in both; and no character of a text is *)
(* in two lines or in none.                                                 *)
DiffHolds == DiffTold(oldText, newText, UnifiedDiff(oldText, newText)) /\ LinesTold(rawText, SplitLines(rawText))

-----------------------------------------------------------------------------
(* A diff artifact *)

CONSTANTS
  FileNames, Ignored,    \* files, and those .gitignore names
  Versions, BinaryData,  \* their contents; BinaryData is no text
  NoFile, NoRef,         \* no such file; no such ref or commit
  MaxGitTurns            \* bound: what git and the editors do

VARIABLES
  commits,     \* commits[n]: its tree and its parent
  refs,        \* HEAD, main, master, origin/HEAD: a commit or NoRef
  tracked,     \* the checkout's index: the names in it
  files,       \* the checkout's files
  checkout,    \* whether its directory is there
  repository,  \* whether the main repository is
  sibling,     \* whether another checkout stands beside it
  diffPaper,   \* the artifact: base, patch, whether its repository is recorded
  temporary,   \* the temporary worktree's files
  gitTurns

diffKindVars == <<commits, refs, tracked, files, checkout, repository, sibling, diffPaper, temporary, gitTurns>>

Candidates == <<"origin/HEAD", "main", "master">>
TreeOf(c) == commits[c].tree
RECURSIVE Ancestry(_)
Ancestry(c) == IF c = NoRef THEN {} ELSE {c} \union Ancestry(commits[c].parent)
MergeBase(a, b) == Max(Ancestry(a) \intersect Ancestry(b))

(* What is given, else where the branch left the first default branch there is. *)
DefaultBranch == SelectSeq(Candidates, LAMBDA name : refs[name] # NoRef)
(* Mutant: against the default branch as it is now.                          *)
BaseAtTip(given) ==
  IF given # "" THEN refs[given] ELSE IF DefaultBranch = <<>> THEN NoRef ELSE refs[Head(DefaultBranch)]
ResolvedBase(given) ==
  IF given # "" THEN refs[given]
  ELSE IF DefaultBranch = <<>> THEN NoRef ELSE MergeBase(refs[Head(DefaultBranch)], refs["HEAD"])

(* git diff: what the base or the index knows, as it is on disk; a file the    *)
(* index does not know is gone for it.                                      *)
OnDisk(f) == IF f \in tracked THEN files[f] ELSE NoFile
Hunk(f, from, to) == [file |-> f, from |-> from, to |-> to]
Tracked(base) ==
  {Hunk(f, TreeOf(base)[f], OnDisk(f)) : f \in {g \in FileNames : TreeOf(base)[g] # OnDisk(g)}}
(* ls-files --others --exclude-standard, each against /dev/null.             *)
Others == {f \in FileNames \ (tracked \union Ignored) : files[f] # NoFile}
Untracked == {Hunk(f, NoFile, files[f]) : f \in Others}
PatchOf(base) == <<Tracked(base), Untracked>>

(* git apply: every hunk finds what it was made from; the data of a binary    *)
(* file is not in a patch made without --binary.                            *)
Binaries(hunks) == {h \in hunks : BinaryData \in {h.from, h.to}}
Fits(tree, hunks) == Binaries(hunks) = {} /\ \A h \in hunks : tree[h.file] = h.from
With(tree, hunks) ==
  [f \in FileNames |-> IF \E h \in hunks : h.file = f THEN (CHOOSE h \in hunks : h.file = f).to ELSE tree[f]]
Applies(tree, patch) == Fits(tree, patch[1]) /\ Fits(With(tree, patch[1]), patch[2])
Applied(tree, patch) == With(With(tree, patch[1]), patch[2])

(* A checkout to make the worktree from: the repository that was recorded, or  *)
(* one beside the gone checkout.                                            *)
CanShow == (diffPaper.repository /\ repository) \/ sibling

-----------------------------------------------------------------------------
NoPatch == <<{}, {}>>
NoDiff == [base |-> NoRef, patch |-> NoPatch, repository |-> FALSE, tree |-> [f \in FileNames |-> NoFile]]
FirstTree == [f \in FileNames |-> IF f \in Ignored THEN NoFile ELSE CHOOSE v \in Versions \ {BinaryData} : TRUE]

DiffKindInit ==
  /\ commits = <<[tree |-> FirstTree, parent |-> NoRef]>>
  /\ refs \in {r \in [{"HEAD", "main", "master", "origin/HEAD"} -> {1, NoRef}] :
                 r["HEAD"] = 1 /\ (r["origin/HEAD"] = 1 => r["main"] = 1) /\ (r["main"] = 1 => r["master"] = NoRef)}
  /\ tracked = {f \in FileNames : FirstTree[f] # NoFile} /\ files = FirstTree
  /\ checkout = TRUE /\ repository = TRUE /\ sibling \in BOOLEAN
  /\ diffPaper = NoDiff /\ temporary = <<>> /\ gitTurns = 0

GitTurn == gitTurns < MaxGitTurns /\ gitTurns' = gitTurns + 1

Writes(f, v) ==
  /\ GitTurn /\ checkout /\ files[f] # v /\ files' = [files EXCEPT ![f] = v]
  /\ UNCHANGED <<commits, refs, tracked, checkout, repository, sibling, diffPaper, temporary>>
Adds(f) ==
  /\ GitTurn /\ checkout /\ files[f] # NoFile /\ f \notin tracked /\ tracked' = tracked \union {f}
  /\ UNCHANGED <<commits, refs, files, checkout, repository, sibling, diffPaper, temporary>>
Untracks(f) ==
  /\ GitTurn /\ checkout /\ f \in tracked /\ tracked' = tracked \ {f}
  /\ UNCHANGED <<commits, refs, files, checkout, repository, sibling, diffPaper, temporary>>
CommitsOnBranch ==
  /\ GitTurn /\ checkout
  /\ commits' = Append(commits, [tree |-> [f \in FileNames |-> OnDisk(f)], parent |-> refs["HEAD"]])
  /\ refs' = [refs EXCEPT !["HEAD"] = Len(commits) + 1]
  /\ UNCHANGED <<tracked, files, checkout, repository, sibling, diffPaper, temporary>>
(* Others commit on the default branch.                                     *)
MainMoves(f, v) ==
  /\ GitTurn /\ DefaultBranch # <<>> /\ f \notin Ignored
  /\ LET main == Head(DefaultBranch) IN
     /\ TreeOf(refs[main])[f] # v
     /\ commits' = Append(commits, [tree |-> [TreeOf(refs[main]) EXCEPT ![f] = v], parent |-> refs[main]])
     /\ refs' = [refs EXCEPT ![main] = Len(commits) + 1]
  /\ UNCHANGED <<tracked, files, checkout, repository, sibling, diffPaper, temporary>>

(* create: the base is pinned to the commit it names now.                   *)
CreateDiff(given) ==
  /\ checkout /\ diffPaper = NoDiff /\ ResolvedBase(given) # NoRef
  /\ \E recorded \in BOOLEAN :
       diffPaper' = [base |-> ResolvedBase(given), patch |-> PatchOf(ResolvedBase(given)), repository |-> recorded, tree |-> files]
  /\ UNCHANGED <<commits, refs, tracked, files, checkout, repository, sibling, temporary, gitTurns>>
(* modify, or an open while the checkout is there.                          *)
RefreshDiff(d) ==
  /\ checkout /\ d.base # NoRef /\ PatchOf(d.base) # d.patch
  /\ diffPaper' = [d EXCEPT !.patch = PatchOf(d.base), !.tree = files]
  /\ UNCHANGED <<commits, refs, tracked, files, checkout, repository, sibling, temporary, gitTurns>>

CheckoutGoes ==
  /\ checkout /\ diffPaper # NoDiff /\ checkout' = FALSE
  /\ repository' \in BOOLEAN
  /\ UNCHANGED <<commits, refs, tracked, files, sibling, diffPaper, temporary, gitTurns>>
(* open: worktree add at the base, then apply; a patch of white space only   *)
(* is not applied.                                                          *)
OpenTemporary ==
  /\ ~checkout /\ temporary = <<>> /\ CanShow
  /\ temporary' = IF diffPaper.patch = NoPatch THEN <<"shown", TreeOf(diffPaper.base)>>
                  ELSE IF Applies(TreeOf(diffPaper.base), diffPaper.patch)
                    THEN <<"shown", Applied(TreeOf(diffPaper.base), diffPaper.patch)>>
                    ELSE <<"failed", TreeOf(diffPaper.base)>>
  /\ UNCHANGED <<commits, refs, tracked, files, checkout, repository, sibling, diffPaper, gitTurns>>

DiffKindNext ==
  \/ \E f \in FileNames :
       \/ \E v \in Versions \union {NoFile} : Writes(f, v)
       \/ \E v \in Versions \ {BinaryData} : MainMoves(f, v)
       \/ Adds(f) \/ Untracks(f)
  \/ CommitsOnBranch
  \/ \E given \in {"", "HEAD"} : CreateDiff(given)
  \/ RefreshDiff(diffPaper) \/ CheckoutGoes \/ OpenTemporary

-----------------------------------------------------------------------------
(* The files as they were when the patch was made, but for those git ignores. *)
Seen(base) ==
  [f \in FileNames |-> IF f \in tracked \union Others THEN files[f] ELSE NoFile]

(* A patch shows what the branch and its checkout changed since they left the  *)
(* default branch, never what others did there meanwhile.                   *)
OnlyTheBranchs ==
  checkout /\ DefaultBranch # <<>> =>
    LET base == ResolvedBase("") IN
    \A f \in FileNames :
      (\A c \in Ancestry(refs["HEAD"]) : TreeOf(c)[f] = FirstTree[f]) /\ OnDisk(f) = FirstTree[f]
        => \A h \in Tracked(base) : h.file # f

(* A patch applies if and only if no binary file is in it, and then makes the  *)
(* whole tree of its base again, but for ignored files; and what is shown once *)
(* the checkout is gone is that tree, or, of one with a binary file, nothing.  *)
DiffKindHolds ==
  /\ OnlyTheBranchs
  /\ checkout /\ diffPaper.base # NoRef =>
       LET patch == PatchOf(diffPaper.base) IN
       /\ Applies(TreeOf(diffPaper.base), patch) <=> Binaries(patch[1] \union patch[2]) = {}
       /\ Applies(TreeOf(diffPaper.base), patch) => Applied(TreeOf(diffPaper.base), patch) = Seen(diffPaper.base)
  /\ temporary # <<>> =>
       IF Binaries(diffPaper.patch[1] \union diffPaper.patch[2]) # {} THEN temporary[1] = "failed"
       ELSE \A f \in FileNames \ Ignored : temporary[2][f] = diffPaper.tree[f]

(* kinds.rs says of any patch that `git apply` recreates the whole tree from it; *)
(* git diff without --binary leaves out what a binary file holds, and such a  *)
(* patch does not apply.                                                    *)
PatchesRecreate == diffPaper # NoDiff => Applies(TreeOf(diffPaper.base), diffPaper.patch)

(* The diff artifact on its own.                                            *)
DiffKindAlone == DiffInit /\ DiffKindInit
DiffKindTurns == DiffKindNext /\ UNCHANGED diffVars
=============================================================================
