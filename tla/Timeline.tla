------------------------------ MODULE Timeline ------------------------------
(***************************************************************************)
(* The timeline's data (plugins/timeline).                                 *)
(*                                                                         *)
(* Transcripts (cache.rs, turns.rs): at every refresh only what was        *)
(* appended since the last one is read, while the CLI writes on, rewrites  *)
(* or removes the file.                                                    *)
(*                                                                         *)
(* The payload (model.rs): one lane per chain of records that share a name *)
(* and a transcript, in groups, and edges for messages, spawns and         *)
(* resumes.  Times are minutes.  A record is [id, name, created, active,   *)
(* ended, parent, group, tags, path]; a transcript a sequence of lines, a  *)
(* message with its sender in from.                                        *)
(***************************************************************************)
EXTENDS Integers, Sequences, SequencesExt, FiniteSets

CONSTANTS
  LineKinds,      \* of Entries, Garbage, or an entry that belongs to no turn
  LineTimes,      \* times of entries
  HoldCap,        \* HOLD_CAP_S
  MaxTokens,      \* bound: lines and newlines in the file
  MaxWrites       \* bound: writes of the CLI

Newline == [kind |-> "newline", at |-> 0]
NoTranscript == [text |-> <<>>, mtime |-> -1]
NoEntry == [size |-> 0, mtime |-> -1, offset |-> 0, rows |-> <<>>, turns |-> <<>>]
NotReading == [size |-> -1, mtime |-> -1]

VARIABLES
  transcript,  \* the file: lines and newlines, when it was written; NoTranscript
  entry,       \* the cache's entry, or NoEntry
  stat,        \* size and mtime of a refresh between metadata() and open()
  replaced,    \* not the file that was read last (history)
  misled,      \* a replaced file was no shorter than what was read (history)
  cliWrites      \* writes of the CLI

cacheVars == <<transcript, entry, stat, replaced, misled, cliWrites>>

-----------------------------------------------------------------------------
(* Turns *)

(* user, assistant and task_started entries hold the turn open; an end of   *)
(* turn, an interruption, an error, task_complete and turn_aborted close it.*)
HoldsOpen == {"user", "assistant", "task_started"}
Closing == {"interrupted", "end_turn", "synthetic", "task_complete", "turn_aborted"}

NoTurns == [spans |-> <<>>, open |-> -1, last |-> 0]
IsOpen(t) == t.open # -1
Greater(a, b) == IF a > b THEN a ELSE b
Smaller(a, b) == IF a < b THEN a ELSE b

(* A sidechain's entry and one without a time are skipped.                  *)
TurnsUpdate(t, line) ==
  IF line.kind \in {"garbage", "sidechain", "untimed"} THEN t
  ELSE LET seen == [t EXCEPT !.last = Greater(@, line.at)] IN
       CASE line.kind \in HoldsOpen /\ ~IsOpen(t) -> [seen EXCEPT !.open = line.at]
         [] line.kind \in Closing /\ IsOpen(t) ->
              [seen EXCEPT !.spans = Append(@, <<t.open, Greater(line.at, t.open)>>), !.open = -1]
         [] OTHER -> seen

TurnsOf(lines) == FoldLeft(TurnsUpdate, NoTurns, lines)

(* work_spans: an open turn runs to the end of the lane or to now, but not *)
(* for long after the last entry; overlapping spans are merged, and what   *)
(* lies before minute 0 is cut.                                            *)
OpenSpan(t, end, clock) ==
  LET close == Smaller(Smaller(end, t.last + HoldCap), clock) IN
  IF IsOpen(t) /\ close > t.open THEN <<<<t.open, close>>>> ELSE <<>>

MergeSpan(merged, span) ==
  IF merged # <<>> /\ span[1] <= Last(merged)[2]
    THEN [merged EXCEPT ![Len(merged)][2] = Greater(@, span[2])]
    ELSE Append(merged, span)

(* A list in the order of its keys; those of one key stay as they were.     *)
SortBy(list, Key(_)) ==
  LET before(i, j) == \/ Key(list[i]) < Key(list[j])
                      \/ Key(list[i]) = Key(list[j]) /\ i < j
      order == SortSeq([i \in DOMAIN list |-> i], before) IN
  [k \in DOMAIN list |-> list[order[k]]]

InOrder(spans) == SortBy(spans, LAMBDA x : x[1])
Spans(all, end, clock) ==
  FlattenSeq([i \in DOMAIN all |-> all[i].spans \o OpenSpan(all[i], end, clock)])
WorkSpans(all, end, clock, epoch) ==
  LET merged == FoldLeft(MergeSpan, <<>>, InOrder(Spans(all, end, clock)))
      kept == SelectSeq(merged, LAMBDA s : s[2] >= epoch)
  IN  [i \in DOMAIN kept |-> <<Greater(kept[i][1] - epoch, 0), kept[i][2] - epoch>>]

-----------------------------------------------------------------------------
(* TranscriptCache::rows *)

LinesOf(text) == SelectSeq(text, LAMBDA x : x # Newline)
(* up to the last newline *)
Complete(text) ==
  LET n == {i \in DOMAIN text : text[i] = Newline} IN
  IF n = {} THEN <<>> ELSE SubSeq(text, 1, CHOOSE i \in n : \A j \in n : j <= i)
RowsOf(lines) == SelectSeq(lines, LAMBDA l : l.kind \notin {"garbage", "untimed"})

CacheInit ==
  /\ transcript = [text |-> <<>>, mtime |-> 0] /\ entry = NoEntry /\ stat = NotReading
  /\ replaced = FALSE /\ misled = FALSE /\ cliWrites = 0

(* metadata(): a file that is gone is forgotten, one as it was is not read. *)
Stat ==
  /\ stat = NotReading
  /\ IF transcript = NoTranscript THEN stat' = stat /\ entry' = NoEntry
     ELSE /\ stat' = IF entry # NoEntry /\ entry.size = Len(transcript.text)
                        /\ entry.mtime = transcript.mtime
                       THEN NotReading
                       ELSE [size |-> Len(transcript.text), mtime |-> transcript.mtime]
          /\ entry' = entry
  /\ UNCHANGED <<transcript, replaced, misled, cliWrites>>

(* Mutant: a file that was cut is read on from where the reading ended. *)
EarlierUncut(e, size) == e
(* the entry to go on from: none when the file is shorter than what was read *)
Earlier(e, size) == IF size >= e.offset THEN e ELSE NoEntry

(* open, seek, read to the end and parse the complete lines *)
Read ==
  /\ stat # NotReading
  /\ LET from == Earlier(entry, stat.size)
         chunk == SubSeq(transcript.text, from.offset + 1, Len(transcript.text))
         lines == LinesOf(Complete(chunk))
     IN entry' = IF transcript = NoTranscript THEN NoEntry
                 ELSE [size |-> stat.size, mtime |-> stat.mtime,
                       offset |-> from.offset + Len(Complete(chunk)),
                       rows |-> from.rows \o RowsOf(lines),
                       turns |-> <<FoldLeft(TurnsUpdate,
                                            IF from.turns = <<>> THEN NoTurns ELSE from.turns[1],
                                            lines)>>]
  /\ stat' = NotReading /\ replaced' = FALSE
  /\ misled' = (entry # NoEntry /\ stat.size >= entry.offset /\ (misled \/ replaced))
  /\ UNCHANGED <<transcript, cliWrites>>

-----------------------------------------------------------------------------
(* The CLI *)

Puts(text) ==
  /\ cliWrites < MaxWrites /\ cliWrites' = cliWrites + 1
  /\ transcript' = [text |-> text, mtime |-> cliWrites + 1]
  /\ Len(text) <= MaxTokens
  /\ UNCHANGED <<entry, stat>>

TheLines == [kind : LineKinds, at : LineTimes]

(* A line is written whole or the newline follows later.                   *)
AppendsLine(l, whole) ==
  /\ transcript # NoTranscript /\ (transcript.text # <<>> => Last(transcript.text) = Newline)
  /\ Puts(transcript.text \o (IF whole THEN <<l, Newline>> ELSE <<l>>))
  /\ UNCHANGED <<replaced, misled>>
AppendsNewline ==
  /\ transcript # NoTranscript /\ transcript.text # <<>> /\ Last(transcript.text) # Newline
  /\ Puts(Append(transcript.text, Newline)) /\ UNCHANGED <<replaced, misled>>

(* When what replaces the file is no shorter by the next refresh than what *)
(* was read, nothing tells it from an append.                              *)
Rewrites(l, n) ==
  /\ Puts(FlattenSeq([i \in 1..n |-> <<l, Newline>>]))
  /\ replaced' = TRUE /\ UNCHANGED misled
Removes ==
  /\ transcript # NoTranscript /\ cliWrites < MaxWrites /\ cliWrites' = cliWrites + 1
  /\ transcript' = NoTranscript /\ replaced' = TRUE /\ UNCHANGED <<entry, stat, misled>>

CliStep ==
  \/ \E l \in TheLines, whole \in BOOLEAN : AppendsLine(l, whole)
  \/ AppendsNewline
  \/ \E l \in TheLines, n \in 0..1 : Rewrites(l, n)
  \/ Removes

CacheNext == Stat \/ Read \/ CliStep

-----------------------------------------------------------------------------
(* Reading only what was appended, with the file written in between, comes *)
(* to what reading all of it does, once the cache holds the file as it is: *)
(* rows and turns are those of its complete lines, each once (rows).       *)
CacheIsTheFile ==
  (/\ ~misled /\ entry # NoEntry /\ transcript # NoTranscript
   /\ entry.size = Len(transcript.text) /\ entry.mtime = transcript.mtime) =>
     LET lines == LinesOf(Complete(transcript.text)) IN
     entry.rows = RowsOf(lines) /\ entry.turns = <<TurnsOf(lines)>>

(* Whatever the order of the entries, the spans of a lane's work follow     *)
(* each other without overlap and cover the minutes its turns do and no     *)
(* more (Turns::update, work_spans).                                        *)
WorkIsTheTurns ==
  \A end \in LineTimes :
    LET clock == CHOOSE t \in LineTimes : \A u \in LineTimes : u <= t
        spans == WorkSpans(entry.turns, end, clock, 0)
        raw == Spans(entry.turns, end, clock)
    IN /\ \A i \in DOMAIN spans : spans[i][1] <= spans[i][2]
       /\ \A i \in DOMAIN spans : i > 1 => spans[i - 1][2] < spans[i][1]
       /\ \A t \in 0..clock + HoldCap :
            (\E i \in DOMAIN spans : spans[i][1] <= t /\ t <= spans[i][2])
              <=> \E i \in DOMAIN raw : raw[i][1] <= t /\ t <= raw[i][2]

-----------------------------------------------------------------------------
(* The payload *)

CONSTANTS
  Assistant,       \* HUB_SESSION_NAMES
  SavedOrder,      \* group-order.json
  DayLength, Days, \* the window ends at a midnight
  SegGap,          \* SEG_GAP_MIN
  NoParent, NoGroup, NoPath

EpochAt(t) == ((t - Days) \div DayLength) * DayLength

PlainName(name) == [base |-> name, on |-> 0]
FirstIn(S) == CHOOSE i \in S : \A j \in S : i <= j
LastIn(S) == CHOOSE i \in S : \A j \in S : j <= i

-----------------------------------------------------------------------------
(* Groups: the agent's own, else that of the nearest ancestor that was     *)
(* given one, up to the assistant, else its first tag, else its name       *)
RecordOf(everyone, id) == everyone[FirstIn({i \in DOMAIN everyone : everyone[i].id = id})]

(* Mutant: the climb goes on above the assistant. *)
GroupAboveHub(everyone, record) ==
  LET above(climb, k) ==
        IF climb.id \notin {r.id : r \in Range(everyone)} \/ climb.group # NoGroup THEN climb
        ELSE [group |-> RecordOf(everyone, climb.id).group, id |-> RecordOf(everyone, climb.id).parent]
  IN FoldLeft(above, [group |-> NoGroup, id |-> record.parent], everyone).group
GroupAbove(everyone, record) ==
  LET ids == {r.id : r \in Range(everyone)}
      above(climb, i) ==
        IF climb.id \notin ids \ climb.visited THEN climb
        ELSE LET r == RecordOf(everyone, climb.id) IN
             [group |-> r.group, visited |-> climb.visited \cup {r.id},
              id |-> IF r.group # NoGroup \/ r.name = Assistant THEN NoParent ELSE r.parent]
  IN FoldLeft(above, [group |-> NoGroup, visited |-> {record.id}, id |-> record.parent],
              everyone).group

(* Mutant: no tag counts. *)
GroupUntagged(everyone, record) ==
  LET above == IF record.name = Assistant THEN NoGroup ELSE GroupAbove(everyone, record) IN
  Head(SelectSeq(<<record.group, above>>, LAMBDA g : g # NoGroup) \o <<record.name>>)
SessionGroup(everyone, record) ==
  LET above == IF record.name = Assistant THEN NoGroup ELSE GroupAbove(everyone, record) IN
  Head(SelectSeq(<<record.group, above>>, LAMBDA g : g # NoGroup) \o record.tags \o <<record.name>>)

-----------------------------------------------------------------------------
(* Lane seeds *)

Tagged(r, tag) == tag \in Range(r.tags)
Recent(everyone, epoch) ==
  SortBy(SelectSeq(everyone, LAMBDA r : /\ ~Tagged(r, "temporary")
                                        /\ r.active >= epoch \/ r.created >= epoch),
         LAMBDA r : r.created)

PathsOf(r) == {r.path} \ {NoPath}
AddRecord(seeds, r) ==
  LET fits == {i \in DOMAIN seeds :
                 /\ seeds[i].name.base = r.name
                 /\ \/ PathsOf(r) \cap seeds[i].paths # {}
                    \/ PathsOf(r) = {} /\ seeds[i].paths = {}}
  IN IF fits = {} THEN Append(seeds, [name |-> PlainName(r.name), records |-> <<r>>, paths |-> PathsOf(r)])
     ELSE [seeds EXCEPT ![FirstIn(fits)] = [@ EXCEPT !.records = Append(@, r), !.paths = @ \cup PathsOf(r)]]

Alive(seed) == \E r \in Range(seed.records) : ~r.ended
LaneSeeds(everyone, epoch) ==
  LET seeds == FoldLeft(AddRecord, <<>>, Recent(everyone, epoch)) IN
  [i \in DOMAIN seeds |->
     IF Alive(seeds[i]) \/ Cardinality({j \in DOMAIN seeds : seeds[j].name = seeds[i].name}) = 1
       THEN seeds[i]
       ELSE [seeds[i] EXCEPT !.name.on = 1 + seeds[i].records[1].created \div DayLength]]

(* the lines of the lane's transcripts, each once, in the order of time    *)
LaneLines(seed, transcripts) ==
  LET paths == SelectSeq([i \in DOMAIN seed.records |-> seed.records[i].path], LAMBDA p : p # NoPath)
      once == FoldLeft(LAMBDA seen, p : IF p \in Range(seen) THEN seen ELSE Append(seen, p), <<>>, paths)
  IN [lines |-> SortBy(FlattenSeq([i \in DOMAIN once |-> RowsOf(transcripts[once[i]])]), LAMBDA l : l.at),
      turns |-> [i \in DOMAIN once |-> TurnsOf(transcripts[once[i]])]]

-----------------------------------------------------------------------------
(* A lane *)

Segments(times, epoch) ==
  LET step(acc, t) ==
        IF t - acc.previous > SegGap
          THEN [done |-> Append(acc.done, <<acc.start, Greater(acc.previous, acc.start + 1)>>),
                start |-> t, previous |-> t]
          ELSE [acc EXCEPT !.previous = t]
      end == FoldLeft(step, [done |-> <<>>, start |-> times[1], previous |-> times[1]], Tail(times))
      all == Append(end.done, <<end.start, Greater(end.previous, end.start + 1)>>)
      kept == SelectSeq(all, LAMBDA s : s[2] >= epoch)
  IN IF kept = <<>> THEN <<<<0, 1>>>>
     ELSE [i \in DOMAIN kept |-> <<Greater(kept[i][1] - epoch, 0), kept[i][2] - epoch>>]

AtMost(r, q) == (~q.ended /\ r.ended) \/ (q.ended = r.ended /\ r.active <= q.active)
Primary(seed) ==
  LET R == seed.records
  IN R[LastIn({i \in DOMAIN R : \A j \in DOMAIN R : AtMost(R[j], R[i])})]

LaneOf(seed, everyone, transcripts, epoch, clock) ==
  LET data == LaneLines(seed, transcripts)
      first == FirstIn({r.created : r \in Range(seed.records)})
      last == LastIn({r.active : r \in Range(seed.records)})
      times == IF data.lines = <<>> THEN <<first, Greater(last, first + 2)>>
               ELSE [i \in DOMAIN data.lines |-> data.lines[i].at]
  IN [sid |-> Primary(seed).id, name |-> seed.name, group |-> SessionGroup(everyone, Primary(seed)),
      sys |-> (\E r \in Range(seed.records) : Tagged(r, "tx-system")), live |-> Alive(seed),
      a |-> Greater(times[1] - epoch, 0), b |-> times[Len(times)] - epoch,
      segs |-> Segments(times, epoch),
      work |-> WorkSpans(data.turns, IF Alive(seed) THEN clock ELSE last, clock, epoch)]

-----------------------------------------------------------------------------
(* Edges: who a token names; first an id, then a lane's name, then a name  *)
(* without its day                                                         *)
(* Mutant: names before ids. *)
ResolveNames(seeds, token) ==
  LET byBase == {i \in DOMAIN seeds : seeds[i].name.base = token} IN
  IF byBase = {} THEN 0 ELSE FirstIn(byBase)
Resolve(seeds, token) ==
  LET byId == {i \in DOMAIN seeds : \E r \in Range(seeds[i].records) : r.id = token}
      byName == {i \in DOMAIN seeds : seeds[i].name = PlainName(token)}
      byBase == {i \in DOMAIN seeds : seeds[i].name.base = token}
  IN IF byId \cup byBase = {} THEN 0
     ELSE FirstIn(Head(SelectSeq(<<byId, byName, byBase>>, LAMBDA found : found # {})))

(* An edge for each message since the window began that reached the lane.   *)
MessageEdges(seeds, i, transcripts, epoch) ==
  LET peers == SelectSeq(LaneLines(seeds[i], transcripts).lines,
                         LAMBDA l : l.kind = "message" /\ l.at >= epoch)
  IN [k \in DOMAIN peers |-> [at |-> peers[k].at - epoch, from |-> Resolve(seeds, peers[k].from),
                              to |-> i, token |-> peers[k].from, kind |-> "message"]]

(* Mutant: a resume is no edge. *)
SpawnEdges(seeds, i, epoch) ==
  LET r == seeds[i].records[1] IN
  IF r.parent = NoParent \/ r.created < epoch THEN <<>>
  ELSE <<[at |-> r.created - epoch, from |-> Resolve(seeds, r.parent), to |-> i,
          token |-> r.parent, kind |-> "spawn"]>>
(* An edge for each launch with a parent; the lane's first one spawned it.  *)
LaunchEdges(seeds, i, epoch) ==
  LET R == seeds[i].records
      kids == SetToSortSeq({k \in DOMAIN R : R[k].parent # NoParent /\ R[k].created >= epoch}, <)
  IN [k \in DOMAIN kids |->
        [at |-> R[kids[k]].created - epoch, from |-> Resolve(seeds, R[kids[k]].parent), to |-> i,
         token |-> R[kids[k]].parent, kind |-> IF kids[k] = 1 THEN "spawn" ELSE "resume"]]

(* the edges of every lane *)
EachOf(n, Op(_)) == FlattenSeq([i \in 1..n |-> Op(i)])

(* Where a lane comes to stand when the lanes are sorted by their start.    *)
Permutation(order) == [old \in DOMAIN order |-> CHOOSE new \in DOMAIN order : order[new] = old]
(* Mutant: the lane an edge starts at is not moved. *)
PermutedEnds(order, edge) ==
  LET moved == Permutation(order) IN [edge EXCEPT !.to = moved[@]]
Permuted(order, edge) ==
  LET moved == Permutation(order) IN
  [edge EXCEPT !.from = IF @ = 0 THEN 0 ELSE moved[@], !.to = moved[@]]

(* First appearances, those of the saved order before the others.          *)
GroupsSeen(lanes) ==
  FoldLeft(LAMBDA seen, l : IF l.group \in Range(seen) THEN seen ELSE Append(seen, l.group), <<>>, lanes)
GroupsOf(lanes) ==
  SortBy(GroupsSeen(lanes),
         LAMBDA g : FirstIn({k \in DOMAIN SavedOrder : SavedOrder[k] = g} \cup {Len(SavedOrder) + 1}))

Build(everyone, transcripts, clock) ==
  LET epoch == EpochAt(clock)
      seeds == LaneSeeds(everyone, epoch)
      n == Len(seeds)
      unsorted == [i \in 1..n |-> LaneOf(seeds[i], everyone, transcripts, epoch, clock)]
      order == SortBy([i \in 1..n |-> i], LAMBDA i : unsorted[i].a)
      edges == EachOf(n, LAMBDA i : MessageEdges(seeds, i, transcripts, epoch))
               \o EachOf(n, LAMBDA i : LaunchEdges(seeds, i, epoch))
      lanes == [i \in 1..n |-> unsorted[order[i]]]
  IN [epoch |-> epoch, lanes |-> lanes, groups |-> GroupsOf(lanes),
      edges |-> SortBy([i \in DOMAIN edges |-> Permuted(order, edges[i])], LAMBDA e : e.at)]
=============================================================================
