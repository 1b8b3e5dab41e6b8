-------------------------------- MODULE Chat --------------------------------
(***************************************************************************)
(* The chat plugin: the times in a transcript and the rows, links and       *)
(* headers made of its lines, and the removal of the hooks older versions   *)
(* left in the CLIs' settings.  Three parts that share no state.            *)
(***************************************************************************)
EXTENDS Integers, Sequences, SequencesExt

-----------------------------------------------------------------------------
(***************************************************************************)
(* The time a transcript's line was written, read from its ISO text: the   *)
(* chat's reader (chat/src/messages.rs) takes every form Python's          *)
(* fromisoformat takes, the timeline's (transcript/clock.rs) the forms the *)
(* CLIs write.  A text is a sequence of characters.  Beside them a calendar *)
(* on the wall is turned leaf by leaf: the readers compute in closed form   *)
(* what it counts.                                                          *)
(***************************************************************************)
CONSTANTS
  WallStarts,   \* [date, day, thursday]: where the calendar is hung up (see below)
  MaxLeaves,    \* bound: leaves torn off
  Clocks,       \* times of day to write down: <<hour, minute, second, microseconds>>
  Zones,        \* offsets to write down, in minutes
  LocalOffset,  \* the machine's own offset, in minutes (mktime; no summer time)
  Unread        \* what a reader makes of a text it refuses

VARIABLES
  wall,     \* the date on the wall: <<year, month, day>>
  day,      \* days since 1970-01-01
  thursday, \* the ISO year and the week of the last Thursday's week: <<year, week>>, <<>> before one
  hungAt    \* the day the calendar was hung up
calendarVars == <<wall, day, thursday, hungAt>>

Figures == <<"1", "2", "3", "4", "5", "6", "7", "8", "9">>
IsFigure(c) == c \in {"0"} \union Range(Figures)
FigureOf(c) == IF c = "0" THEN 0 ELSE CHOOSE i \in DOMAIN Figures : Figures[i] = c
At(s, i) == IF i \in DOMAIN s THEN s[i] ELSE "end"

(* The number written in count figures from place at on.                   *)
Digits(s, at, count) ==
  IF at + count - 1 > Len(s) \/ \E i \in at..(at + count - 1) : ~IsFigure(s[i]) THEN Unread
  ELSE LET n[k \in 0..count] == IF k = 0 THEN 0 ELSE n[k - 1] * 10 + FigureOf(s[at + k - 1]) IN n[count]
(* The place behind the figures that begin at from.                         *)
FiguresEnd(s, from) ==
  CHOOSE e \in from..(Len(s) + 1) :
    (\A i \in from..(e - 1) : IsFigure(s[i])) /\ ~(e <= Len(s) /\ IsFigure(s[e]))

-----------------------------------------------------------------------------
(* Dates and days.                                                          *)
IsLeap(year) == year % 4 = 0 /\ (year % 100 # 0 \/ year % 400 = 0)
DaysInMonth(year, month) ==
  CASE month = 2 -> IF IsLeap(year) THEN 29 ELSE 28
    [] month \in {4, 6, 9, 11} -> 30
    [] OTHER -> 31

(* Days since 1970-01-01, of any day of a month: years begin in March.      *)
DaysSince(year, month, d) ==
  LET y == IF month <= 2 THEN year - 1 ELSE year
      era == y \div 400
      yoe == y - era * 400
      doy == (153 * ((month + 9) % 12) + 2) \div 5 + d - 1
  IN era * 146097 + yoe * 365 + yoe \div 4 - yoe \div 100 + doy - 719468

CivilDays(year, month, d) ==
  IF year \in 1..9999 /\ month \in 1..12 /\ d \in 1..DaysInMonth(year, month)
  THEN DaysSince(year, month, d) ELSE Unread

CivilFromDays(days) ==
  LET z == days + 719468
      era == z \div 146097
      doe == z - era * 146097
      yoe == (doe - doe \div 1460 + doe \div 36524 - doe \div 146096) \div 365
      doy == doe - (365 * yoe + yoe \div 4 - yoe \div 100)
      mp == (5 * doy + 2) \div 153
      month == IF mp < 10 THEN mp + 3 ELSE mp - 9
  IN <<yoe + era * 400 + (IF month <= 2 THEN 1 ELSE 0), month, doy - (153 * mp + 2) \div 5 + 1>>

(* Week 1 is the one with January 4th; the last one has December 28th.      *)
MondayOf(days) == days - ((days + 3) % 7)
DayOfWeek(monday, last, week, weekday) ==
  IF week \in 1..((last - monday) \div 7 + 1) THEN monday + (week - 1) * 7 + weekday - 1 ELSE Unread
IsoWeekDays(year, week, weekday) ==
  IF weekday \notin 1..7 \/ CivilDays(year, 1, 4) = Unread THEN Unread
  ELSE DayOfWeek(MondayOf(CivilDays(year, 1, 4)), CivilDays(year, 12, 28), week, weekday)

-----------------------------------------------------------------------------
(* The chat's reader.  A date is the day and the place behind it.           *)
NoDate == <<Unread, 0>>
WeekDate(year, week, weekday, end) ==
  IF Unread \in {week, weekday} THEN NoDate ELSE <<IsoWeekDays(year, week, weekday), end>>
MonthDate(year, month, d, end) ==
  IF Unread \in {month, d} THEN NoDate ELSE <<CivilDays(year, month, d), end>>
DateAt(s, year, at, dashed) ==
  IF year = Unread THEN NoDate
  ELSE IF At(s, at) = "W"
       THEN IF dashed /\ At(s, at + 3) = "-"
            THEN WeekDate(year, Digits(s, at + 1, 2), Digits(s, at + 4, 1), at + 5)
            ELSE IF Digits(s, at + 3, 1) = Unread
            THEN WeekDate(year, Digits(s, at + 1, 2), 1, at + 3)
            ELSE WeekDate(year, Digits(s, at + 1, 2), Digits(s, at + 3, 1), at + 4)
  ELSE IF ~dashed THEN MonthDate(year, Digits(s, at, 2), Digits(s, at + 2, 2), at + 4)
  ELSE IF At(s, at + 2) = "-" THEN MonthDate(year, Digits(s, at, 2), Digits(s, at + 3, 2), at + 5)
  ELSE NoDate
ParseDate(s) == DateAt(s, Digits(s, 1, 4), IF At(s, 5) = "-" THEN 6 ELSE 5, At(s, 5) = "-")

(* Hours, minutes, seconds, microseconds and the place behind them: all with *)
(* colons or all without, a fraction of any length cut to six figures.      *)
Fraction(b, from, kept) == Digits(b, from, kept) * 10 ^ (6 - kept)
SixAtMost(n) == IF n < 6 THEN n ELSE 6
Seconds(b, h, m, s, at) ==
  IF s = Unread THEN Unread
  ELSE IF At(b, at) \in {".", ","}
       THEN <<h, m, s, Fraction(b, at + 1, SixAtMost(FiguresEnd(b, at + 1) - at - 1)), FiguresEnd(b, at + 1)>>
       ELSE <<h, m, s, 0, at>>
Minutes(b, h, m, at, colons) ==
  IF m = Unread THEN Unread
  ELSE IF At(b, at) = "end" THEN <<h, m, 0, 0, at>>
  ELSE IF (At(b, at) = ":") # colons THEN Unread
  ELSE IF colons THEN Seconds(b, h, m, Digits(b, at + 1, 2), at + 3)
  ELSE IF IsFigure(b[at]) THEN Seconds(b, h, m, Digits(b, at, 2), at + 2)
  ELSE <<h, m, 0, 0, at>>
Hours(b, h) ==
  IF h = Unread THEN Unread
  ELSE IF At(b, 3) = ":" THEN Minutes(b, h, Digits(b, 4, 2), 6, TRUE)
  ELSE IF IsFigure(At(b, 3)) THEN Minutes(b, h, Digits(b, 3, 2), 5, FALSE)
  ELSE <<h, 0, 0, 0, 3>>
ParseClock(b) == Hours(b, Digits(b, 1, 2))
Whole(clock, length) == clock # Unread /\ clock[5] = length + 1 /\ clock[2] <= 59 /\ clock[3] <= 59

(* Seconds, microseconds, whether it is the next day's midnight, and the     *)
(* offset in seconds: <<>> when none is written.                            *)
SecondsOf(clock) == (clock[1] * 60 + clock[2]) * 60 + clock[3]
Offset(sign, clock, length) ==
  IF sign = "Z" THEN (IF length = 0 THEN <<0>> ELSE Unread)
  ELSE IF ~Whole(clock, length) \/ SecondsOf(clock) >= 86400 THEN Unread
  ELSE <<IF sign = "-" THEN -SecondsOf(clock) ELSE SecondsOf(clock)>>
Time(clock, length, offset) ==
  IF ~Whole(clock, length) \/ offset = Unread \/ clock[1] > 24 THEN Unread
  ELSE IF clock[1] < 24
       THEN [seconds |-> SecondsOf(clock), micros |-> clock[4], nextDay |-> FALSE, offset |-> offset]
  ELSE IF <<clock[2], clock[3], clock[4]>> # <<0, 0, 0>> THEN Unread
  ELSE [seconds |-> 0, micros |-> 0, nextDay |-> TRUE, offset |-> offset]
ZoneAt(b) == SelectInSeq(b, LAMBDA c : c \in {"+", "-", "Z"})
ParseTime(b) ==
  IF ZoneAt(b) = 0 THEN Time(ParseClock(b), Len(b), <<>>)
  ELSE Time(ParseClock(SubSeq(b, 1, ZoneAt(b) - 1)), ZoneAt(b) - 1,
            Offset(b[ZoneAt(b)], ParseClock(SubSeq(b, ZoneAt(b) + 1, Len(b))), Len(b) - ZoneAt(b)))

MinDays == -719162
MaxDays == 2932896

(* Day, second of it in UTC and microseconds (the sum does not fit TLC's     *)
(* integers); without an offset it is the machine's own.                    *)
InstantOf(days, seconds, micros) == <<days + (seconds \div 86400), seconds % 86400, micros>>
InZone(seconds, offset) == seconds - (IF offset = <<>> THEN LocalOffset * 60 ELSE offset[1])

Midnight == [seconds |-> 0, micros |-> 0, nextDay |-> FALSE, offset |-> <<>>]
OnDay(day0, time) ==
  IF time = Unread THEN Unread
  ELSE IF day0 + (IF time.nextDay THEN 1 ELSE 0) \notin MinDays..MaxDays THEN Unread
  ELSE InstantOf(day0 + (IF time.nextDay THEN 1 ELSE 0), InZone(time.seconds, time.offset), time.micros)
AfterDate(s, date) ==
  IF date[1] = Unread THEN Unread
  ELSE OnDay(date[1], IF date[2] > Len(s) THEN Midnight ELSE ParseTime(SubSeq(s, date[2] + 1, Len(s))))
FromIsoFormat(s) == AfterDate(s, ParseDate(s))

(* A message's time: Z is written out first.                                *)
Timestamp(s) ==
  FromIsoFormat(FlattenSeq([i \in DOMAIN s |->
    IF s[i] = "Z" THEN <<"+", "0", "0", ":", "0", "0">> ELSE <<s[i]>>]))

(* The timeline's reader: dates with dashes, hours and minutes with a colon. *)
From(s, at) == SubSeq(s, at, Len(s))
IsoZone(zone, away) ==
  IF zone = <<>> THEN <<>>
  ELSE IF zone \in {<<"Z">>, <<"z">>} THEN <<0>>
  ELSE IF zone[1] \notin {"+", "-"} \/ Len(away) # 4 \/ Digits(away, 1, 4) = Unread THEN Unread
  ELSE <<(IF zone[1] = "-" THEN -1 ELSE 1) * (Digits(away, 1, 2) * 3600 + Digits(away, 3, 2) * 60)>>
IsoOn(days, seconds, micros, offset) ==
  IF offset = Unread THEN Unread ELSE InstantOf(days, InZone(seconds, offset), micros)
IsoRest(days, seconds, micros, zone) ==
  IsoOn(days, seconds, micros, IsoZone(zone, SelectSeq(From(zone, 2), LAMBDA c : c # ":")))
IsoSeconds(days, minutes, second, rest) ==
  IF second = Unread THEN Unread
  ELSE IF At(rest, 9) \notin {".", ","} THEN IsoRest(days, minutes * 60 + second, 0, From(rest, 9))
  ELSE IF FiguresEnd(rest, 10) = 10 THEN Unread
  ELSE IsoRest(days, minutes * 60 + second, Fraction(rest, 10, FiguresEnd(rest, 10) - 10), From(rest, FiguresEnd(rest, 10)))
IsoTime(days, hour, minute, rest) ==
  IF Unread \in {hour, minute} \/ At(rest, 3) # ":" THEN Unread
  ELSE IF hour > 24 \/ minute > 59 THEN Unread
  ELSE IF At(rest, 6) = ":" THEN IsoSeconds(days, hour * 60 + minute, Digits(rest, 7, 2), rest)
  ELSE IsoRest(days, (hour * 60 + minute) * 60, 0, From(rest, 6))
IsoDate(s, year, month, d) ==
  IF Unread \in {year, month, d} \/ At(s, 5) # "-" \/ At(s, 8) # "-" THEN Unread
  ELSE IF month \notin 1..12 \/ d \notin 1..31 THEN Unread
  ELSE IF Len(s) = 10 THEN InstantOf(DaysSince(year, month, d), InZone(0, <<>>), 0)
  ELSE IsoTime(DaysSince(year, month, d), Digits(s, 12, 2), Digits(s, 15, 2), From(s, 12))
ParseIso(s) == IsoDate(s, Digits(s, 1, 4), Digits(s, 6, 2), Digits(s, 9, 2))

-----------------------------------------------------------------------------
(* The calendar on the wall: a leaf a day, and a Thursday decides its week. *)
CalendarInit ==
  \E start \in WallStarts :
    /\ wall = start.date /\ day = start.day /\ hungAt = start.day
    /\ thursday = start.thursday

TearOff ==
  /\ day - hungAt < MaxLeaves /\ day < MaxDays
  /\ day' = day + 1 /\ UNCHANGED hungAt
  /\ wall' = LET y == wall[1]  m == wall[2]  d == wall[3] IN
             IF d < DaysInMonth(y, m) THEN <<y, m, d + 1>>
             ELSE IF m < 12 THEN <<y, m + 1, 1>> ELSE <<y + 1, 1, 1>>
  /\ thursday' = IF day' % 7 # 0 THEN thursday
                 ELSE IF thursday # <<>> /\ thursday[1] = wall'[1]
                 THEN <<wall'[1], thursday[2] + 1>>
                 ELSE IF thursday # <<>> \/ (wall'[2] = 1 /\ wall'[3] <= 7) THEN <<wall'[1], 1>>
                 ELSE <<>>

CalendarNext == TearOff

(* How a date and a time are written.                                       *)
Figure(n) == IF n = 0 THEN "0" ELSE Figures[n]
Two(n) == <<Figure(n \div 10), Figure(n % 10)>>
Four(n) == Two(n \div 100) \o Two(n % 100)
Micros(n) == Two(n \div 10000) \o Two((n \div 100) % 100) \o Two(n % 100)
Dashed(date) == Four(date[1]) \o <<"-">> \o Two(date[2]) \o <<"-">> \o Two(date[3])
Compact(date) == Four(date[1]) \o Two(date[2]) \o Two(date[3])
Coloned(c) == Two(c[1]) \o <<":">> \o Two(c[2]) \o <<":">> \o Two(c[3])
Pointed(c) == Coloned(c) \o (IF c[4] = 0 THEN <<>> ELSE <<".">> \o Micros(c[4]))
Away(z) == IF z = 0 THEN <<"Z">>
           ELSE <<IF z < 0 THEN "-" ELSE "+">> \o
                LET a == IF z < 0 THEN -z ELSE z IN Two(a \div 60) \o <<":">> \o Two(a % 60)

-----------------------------------------------------------------------------
Weekly(year, week) == Four(year) \o <<"-", "W">> \o Two(week)

(* Every date is read as the day the calendar on the wall counts, however   *)
(* it is written, by week too, in the years without a leap day and around   *)
(* every new year; a day the month does not have is refused.                *)
(* (messages.rs:426 parse_date, 471 civil_days, 488 iso_week_days, 609.)    *)
DatesCount ==
  /\ CivilFromDays(day) = wall
  /\ \A text \in {Dashed(wall), Compact(wall)} : ParseDate(text) = <<day, Len(text) + 1>>
  /\ (CivilDays(wall[1], wall[2], wall[3] + 1) = Unread) = (wall[3] = DaysInMonth(wall[1], wall[2]))
  /\ day % 7 = 0 /\ thursday # <<>> =>
       /\ ParseDate(Weekly(thursday[1], thursday[2]))[1] = day - 3
       /\ \A k \in 1..7 : ParseDate(Weekly(thursday[1], thursday[2]) \o <<"-", Figure(k)>>)[1] = day - 4 + k
  /\ day % 7 = 0 /\ thursday # <<>> /\ CivilFromDays(day + 7)[1] # wall[1] =>
       ParseDate(Weekly(thursday[1], thursday[2] + 1))[1] = Unread

Reads(text, c, is) ==
  /\ ParseIso(text) = is
  /\ Timestamp(text) = (IF c[3] > 59 \/ (c[1] = 24 /\ day = MaxDays) THEN Unread ELSE is)
(* A time of a day and an offset is one instant, and the chat and the       *)
(* timeline agree on it: whatever both read they read alike, and both read  *)
(* every time there is.  24:00 is the next day's midnight; a leap second    *)
(* only the timeline reads.  (messages.rs:547 parse_time, clock.rs:113.)    *)
InstantsAgree ==
  \A c \in Clocks, z \in Zones :
    Reads(Dashed(wall) \o <<"T">> \o Pointed(c) \o Away(z), c,
          InstantOf(day, (c[1] * 60 + c[2]) * 60 + c[3] - z * 60, c[4]))

CalendarHolds == DatesCount /\ InstantsAgree

-----------------------------------------------------------------------------
(***************************************************************************)
(* What is made of the lines of a transcript: the rows the timeline shows  *)
(* (chat/src/transcript/rows.rs), the messages between agents it draws     *)
(* links for (chat/src/messages.rs for Claude's lines, the rows themselves *)
(* for Codex's) and the model and context of its headers (metadata.rs).    *)
(* Two readers take one text apart, each in its own way.                   *)
(*                                                                         *)
(* A text is a sequence of tokens <<what, name, who>>: a word, white space,*)
(* an opening or a closing tag, or an element of the CLI as a whole.       *)
(***************************************************************************)
CONSTANTS
  Lines,        \* the lines a CLI may write
  RowTextCap,   \* ROW_TEXT_CAP
  MaxLines,     \* bound: lines of the transcript
  Untimed,      \* a timestamp that cannot be read
  Nobody        \* no sender, no message

VARIABLES
  transcriptLines,  \* what the CLI wrote
  rows,             \* Vec<Row>
  peers,            \* Vec<Peer>: the links
  header            \* Metadata: model and context, "none" before they are known
conversationVars == <<transcriptLines, rows, peers, header>>

Space == <<"space", "", "">>
Word(w) == <<"word", w, "">>
Open(tag, who) == <<"open", tag, who>>
Close(tag) == <<"close", tag, "">>
PeerMark(who) == <<"peer mark", "", who>>
AgentTags == {"from-agent", "from-claude"}

LStrip(s) == SubSeq(s, SelectInSeq(s \o <<Word("end")>>, LAMBDA t : t # Space), Len(s))
RStrip(s) == SubSeq(s, 1, SelectLastInSeq(s, LAMBDA t : t # Space))
Strip(s) == LStrip(RStrip(s))
StartsWith(s, tokens) == s # <<>> /\ s[1] \in tokens
Joined(texts) == FlattenSeq([i \in DOMAIN texts |-> IF i = 1 THEN texts[i] ELSE <<Space>> \o texts[i]])

(* cap: the first limit characters and how many were left out.              *)
Capped(text, limit) == IF Len(text) > limit THEN SubSeq(text, 1, limit) \o <<Word("more")>> ELSE text
Cap(text, limit) == Capped(Strip(text), limit)

(* messaging.rs build_envelope (and the chat's own): what a delivery types.  *)
BuildEnvelope(tag, sender, body) == <<Open(tag, sender)>> \o body \o <<Close(tag)>>

-----------------------------------------------------------------------------
(* messages.rs: the sender and the body of a message.                       *)

(* The text of a content that is nothing but text.                          *)
PlainText(content) ==
  IF content = <<>> \/ \E i \in DOMAIN content : content[i].type # "text" THEN Nobody
  ELSE Joined([i \in DOMAIN content |-> content[i].text])

(* A reader that took the first closing tag for the end.                    *)
EnvelopedToFirstClose(t, tags) ==
  IF Len(t) > 1 /\ t[1][1] = "open" /\ t[1][2] \in tags /\ t[1][3] # "" /\ Last(t) \in {Close(tag) : tag \in tags}
  THEN <<t[1][3], SubSeq(t, 2, SelectInSeq(t, LAMBDA x : x \in {Close(tag) : tag \in tags}) - 1)>> ELSE Nobody
(* An opening tag at the start, a closing one of the same kind at the end.   *)
Enveloped(t, tags) ==
  IF Len(t) > 1 /\ t[1][1] = "open" /\ t[1][2] \in tags /\ t[1][3] # "" /\ Last(t) \in {Close(tag) : tag \in tags}
  THEN <<t[1][3], SubSeq(t, 2, Len(t) - 1)>> ELSE Nobody
MatchEnvelope(text, tags) == Enveloped(RStrip(text), tags)

CommandPrompt == <<"prompt", "", "">>  \* <tx-command-prompt .../>
MatchCommandPrompt(text) == IF StartsWith(text, {CommandPrompt}) THEN LStrip(Tail(text)) ELSE Nobody

HarnessTokens ==
  {Open(tag, "") : tag \in {"task-notification", "local-command-caveat", "local-command-stdout"}}
  \union {Word("[Request interrupted")}
IsHarness(text) == text # <<>> /\ (text[1] \in HarnessTokens \/ text[1][1] \in {"command", "arguments"})
IsPriming(text) == Contains(text, Word("as your first actions"))
IsWithin(text, cmd) == \E i \in DOMAIN cmd : i + Len(text) - 1 <= Len(cmd) /\ SubSeq(cmd, i, i + Len(text) - 1) = text

(* classify: how a text came in, from whom, and what it says; cmd is the     *)
(* recipient's own command line, which holds its first prompt.              *)
Message(via, sender, body) == [via |-> via, sender |-> sender, body |-> Strip(body)]
ByUser(body, inner) == Message("send-user-message", "you", IF inner = Nobody THEN body ELSE inner)
Typed(said, cmd) ==
  IF said # <<>> /\ IsWithin(said, cmd) THEN Nobody ELSE Message("typed", "you", said)
Unwrapped(text, cmd) ==
  IF StartsWith(text, {CommandPrompt}) THEN Message("prompt", "you", MatchCommandPrompt(text))
  ELSE IF StartsWith(text, {Word("Act on tx session")}) THEN Message("composer", "you", text)
  ELSE IF IsHarness(text) \/ IsPriming(text) THEN Nobody
  ELSE Typed(Strip(text), cmd)
Classified(text, agent, user, cmd) ==
  IF agent # Nobody THEN Message("send-message", agent[1], agent[2])
  ELSE IF user # Nobody THEN ByUser(user[2], MatchCommandPrompt(user[2]))
  ELSE Unwrapped(text, cmd)
Classify(text, cmd) == Classified(text, MatchEnvelope(text, AgentTags), MatchEnvelope(text, {"from-user"}), cmd)

(* parse_message: a line of the user's, on the main chain and not the CLI's. *)
Dated(message, at) ==
  IF message = Nobody THEN Nobody
  ELSE IF message.body = <<>> THEN Nobody
  ELSE [via |-> message.via, sender |-> message.sender, body |-> message.body,
        at |-> IF at = Untimed THEN 0 ELSE at]
MessageOf(text, line, cmd) == IF text = Nobody THEN Nobody ELSE Dated(Classify(LStrip(text), cmd), line.at)
ParseMessage(line, cmd) ==
  IF line.type # "user" \/ line.meta \/ line.side THEN Nobody ELSE MessageOf(PlainText(line.content), line, cmd)

-----------------------------------------------------------------------------
(* rows.rs: what a text is and how it is shown.                             *)

(* unwrap_pasted: the wrapper and the white space around its ends are cut.   *)
PasteShut(inner, shut) ==
  IF shut = 0 THEN inner ELSE RStrip(SubSeq(inner, 1, shut - 1)) \o SubSeq(inner, shut + 1, Len(inner))
PasteOpened(inner) == PasteShut(inner, SelectInSeq(inner, LAMBDA t : t = Close("pasted_content")))
UnwrapPasted(raw) ==
  IF StartsWith(LStrip(raw), {Open("pasted_content", "")}) THEN PasteOpened(LStrip(Tail(LStrip(raw)))) ELSE raw

SystemTokens ==
  {Open(tag, "") : tag \in {"task-notification", "system-reminder", "local-command-caveat",
                            "local-command-stdout", "environment_context"}}
  \union {Word("[Request interrupted"), <<"caveat", "", "">>}

KindOf(text) ==
  IF text # <<>> /\ text[1][1] = "open" /\ text[1][2] \in AgentTags THEN "peer"
  ELSE IF StartsWith(text, SystemTokens) THEN "system"
  ELSE "user"
UserKind(raw) == KindOf(LStrip(UnwrapPasted(raw)))

(* clean_user: a command wherever it stands, a shell line at the start;      *)
(* else the marks of images, panes and peers in place of their tags.        *)
Imaged(text) == [i \in DOMAIN text |-> IF text[i][1] = "image" THEN Word("[screenshot]") ELSE text[i]]
Uncaved(text) == IF StartsWith(text, {<<"caveat", "", "">>}) THEN Tail(text) ELSE text
Opened(text) ==
  IF StartsWith(text, {CommandPrompt, Open("tx-command-prompt", "")})
  THEN <<Word("[pane]"), Space>> \o Tail(text)
  ELSE IF text # <<>> /\ text[1][1] = "open" /\ text[1][2] \in AgentTags /\ text[1][3] # ""
  THEN <<PeerMark(text[1][3]), Space>> \o Tail(text)
  ELSE text
Closed(text, tags) ==
  IF RStrip(text) # <<>> /\ Last(RStrip(text)) \in {Close(tag) : tag \in tags} THEN Front(RStrip(text)) ELSE text
CommandLine(commands, arguments) ==
  <<Word("[cmd]"), Word(commands[1][2])>> \o (IF arguments = <<>> THEN <<>> ELSE <<Word(arguments[1][2])>>)
Cleaned(text) ==
  IF \E t \in Range(text) : t[1] = "command"
  THEN CommandLine(SelectSeq(text, LAMBDA t : t[1] = "command"), SelectSeq(text, LAMBDA t : t[1] = "arguments"))
  ELSE IF \E t \in Range(SubSeq(LStrip(text), 1, 1)) : t[1] = "shell"
  THEN <<Word("[!]"), Word(Head(LStrip(text))[2])>>
  ELSE Strip(Closed(Closed(Opened(Uncaved(Imaged(text))), {"tx-command-prompt"}), AgentTags))
CleanUser(raw) == Cleaned(UnwrapPasted(raw))

PeerParts(text) == IF text # <<>> /\ text[1][1] = "peer mark" THEN <<text[1][3], LStrip(Tail(text))>> ELSE Nobody

(* Milestones in what a tool is called with: gh pr merge wherever it stands, *)
(* else the first tx artifact create that does not ask for help.            *)
Flat(detail) == SelectSeq(Strip(detail), LAMBDA t : t # Space)
MilestoneAt(flat, merge, create) ==
  IF merge # 0 THEN <<merge, "PR merge/ready">> ELSE IF create # 0 THEN <<create, "artifact">> ELSE Nobody
Milestone(flat) ==
  MilestoneAt(flat, SelectInSeq(flat, LAMBDA t : t = Word("gh pr merge")),
              SelectInSeq([i \in DOMAIN flat |-> SubSeq(flat, i, IF i < Len(flat) THEN i + 1 ELSE i)],
                          LAMBDA two : two[1] = Word("tx artifact create") /\ Last(two) # Word("--help")))
MilestoneLabel(probe) == IF Milestone(probe) = Nobody THEN Nobody ELSE Milestone(probe)[2]
ProbeOf(flat) ==
  IF Contains(flat, Word("send-message")) \/ Milestone(flat) = Nobody THEN Nobody
  ELSE SubSeq(flat, Milestone(flat)[1], Len(flat))
MilestoneProbe(detail) == ProbeOf(Flat(detail))

RowOf(at, kind, text) == [at |-> at, kind |-> kind, text |-> text, probe |-> Nobody]
ToolRow(at, detail) == [at |-> at, kind |-> "tool", text |-> Flat(detail), probe |-> MilestoneProbe(detail)]

(* push_user: lines the user wrote at one time are one row.                  *)
Push(out, at, kind, text) ==
  IF text = <<>> THEN out
  ELSE IF kind = "user" /\ out # <<>> /\ Last(out).kind = "user" /\ Last(out).at = at
  THEN Append(Front(out), [Last(out) EXCEPT !.text = Cap(@ \o <<Space>> \o text, RowTextCap)])
  ELSE Append(out, RowOf(at, kind, Cap(text, RowTextCap)))
PushUser(out, at, raw) == Push(out, at, UserKind(raw), CleanUser(raw))

Texts(content) == SelectSeq(content, LAMBDA b : b.type = "text" /\ b.text # <<>>)
RawText(texts) == Joined([i \in DOMAIN texts |-> texts[i].text])
BlockRows(at, b) ==
  CASE b.type = "text" -> IF Strip(b.text) = <<>> THEN <<>> ELSE <<RowOf(at, "agent", Cap(b.text, RowTextCap))>>
    [] b.type = "tool" -> <<ToolRow(at, b.text)>>
    [] OTHER -> <<>>
RowsFromClaude(line, out) ==
  CASE line.side \/ line.type \notin {"user", "assistant"} \/ line.at = Untimed -> out
    [] ~line.side /\ line.at # Untimed /\ line.type = "assistant" ->
         out \o FlattenSeq([i \in DOMAIN line.content |-> BlockRows(line.at, line.content[i])])
    [] OTHER -> PushUser(out, line.at, RawText(Texts(line.content)))

CodexMessage(line, text, out) ==
  CASE text # <<>> /\ line.type = "user" ->
         IF CleanUser(text) = <<>> THEN out
         ELSE Append(out, RowOf(line.at, UserKind(text), Cap(CleanUser(text), RowTextCap)))
    [] text # <<>> /\ line.type = "assistant" -> Append(out, RowOf(line.at, "agent", Cap(text, RowTextCap)))
    [] OTHER -> out
RowsFromCodex(line, out) ==
  IF line.at = Untimed THEN out
  ELSE IF line.type = "function_call" THEN Append(out, ToolRow(line.at, line.content[1].text))
  ELSE CodexMessage(line, Strip(RawText(Texts(line.content))), out)

ParseEntry(line, out) == IF line.engine = "codex" THEN RowsFromCodex(line, out) ELSE RowsFromClaude(line, out)

(* cache.rs peers_of: Codex's links are its peer rows, Claude's are read     *)
(* from the line anew.                                                      *)
ShownPeer(row, parts) == [at |-> row.at, sender |-> parts[1], body |-> parts[2]]
ReadPeers(message) ==
  IF message = Nobody THEN <<>>
  ELSE IF message.via # "send-message" THEN <<>>
  ELSE <<[at |-> message.at, sender |-> message.sender, body |-> message.body]>>
ShownPeers(shown) == [i \in DOMAIN shown |-> ShownPeer(shown[i], PeerParts(shown[i].text))]
PeersOf(line, fresh) ==
  IF line.engine = "codex"
  THEN ShownPeers(SelectSeq(fresh, LAMBDA r : r.kind = "peer" /\ PeerParts(r.text) # Nobody))
  ELSE ReadPeers(ParseMessage(line, <<>>))

(* Metadata::update: an answer names its model and context, unless the CLI   *)
(* made it up; a compaction leaves what it says, or nothing.                *)
MetadataUpdate(known, line) ==
  CASE line.type = "assistant" /\ line.engine = "claude" /\ line.model # "<synthetic>" ->
         [model |-> line.model, context |-> IF line.context = "none" THEN known.context ELSE line.context]
    [] line.type = "turn_context" -> [known EXCEPT !.model = line.model]
    [] line.type = "token_count" -> [known EXCEPT !.context = line.context]
    [] line.type = "compact_boundary" -> [known EXCEPT !.context = line.context]
    [] OTHER -> known

-----------------------------------------------------------------------------
ConversationInit ==
  /\ transcriptLines = <<>> /\ rows = <<>> /\ peers = <<>>
  /\ header = [model |-> "none", context |-> "none"]

(* One line of the cache's loop; a transcript is one CLI's.                 *)
ReadLine(line) ==
  /\ Len(transcriptLines) < MaxLines
  /\ \A i \in DOMAIN transcriptLines : transcriptLines[i].engine = line.engine
  /\ transcriptLines' = Append(transcriptLines, line)
  /\ rows' = ParseEntry(line, rows)
  /\ peers' = peers \o PeersOf(line, SubSeq(rows', Len(rows) + 1, Len(rows')))
  /\ header' = MetadataUpdate(header, line)

ConversationNext == \E line \in Lines : ReadLine(line)

-----------------------------------------------------------------------------
(* A line knows who said it (by), what (body) and how the harness wrapped it *)
(* (wrap: "plain", "pasted", "padded" with white space before it).          *)
ByAgent(line) == line.by \notin {"operator", "cli", "model"}
Said == SelectSeq(transcriptLines, ByAgent)

(* What a message loses on the way to its row: a command it quotes takes its *)
(* place, an image becomes a mark; white space before Claude's tag keeps it. *)
QuotesCommand(line) == \E t \in Range(line.body) : t[1] = "command"
Marked(body) == [i \in DOMAIN body |-> IF body[i][1] = "image" THEN Word("[screenshot]") ELSE body[i]]
Unparted(line) == QuotesCommand(line) \/ (line.wrap = "padded" /\ line.engine = "claude")

ShownAs(shown, timed) ==
  /\ Len(shown) = Len(timed)
  /\ \A i \in DOMAIN timed :
       PeerParts(shown[i].text) = IF Unparted(timed[i]) THEN Nobody ELSE <<timed[i].by, Marked(Strip(timed[i].body))>>
LinkedAs(linked) ==
  /\ Len(peers) = Len(linked)
  /\ \A i \in DOMAIN linked :
       /\ peers[i].sender = linked[i].by
       /\ peers[i].body = IF linked[i].engine = "claude" THEN Strip(linked[i].body) ELSE Marked(Strip(linked[i].body))
HasLink(l) ==
  IF l.engine = "claude" THEN l.wrap # "pasted" /\ Strip(l.body) # <<>> ELSE l.at # Untimed /\ ~QuotesCommand(l)

(* Whoever speaks is heard once, under its own name, in order, and nobody    *)
(* else is taken for an agent: whatever a message quotes (tags, marks, an    *)
(* envelope), and whatever the operator types that is not an envelope itself.*)
(* Links and rows tell the same, though two readers make them, except that  *)
(* Claude's links miss a pasted message and an empty one and have the one    *)
(* whose time cannot be read.  (rows.rs:183 clean_user, messages.rs:197.)   *)
AgentsHeard ==
  /\ ShownAs(SelectSeq(rows, LAMBDA r : r.kind = "peer"), SelectSeq(Said, LAMBDA l : l.at # Untimed))
  /\ LinkedAs(SelectSeq(Said, HasLink))

GroupedRows(alone) ==
  LET Users(i) == Len(alone[i]) = 1 /\ alone[i][1].kind = "user"
      Folds(i) == \E j \in 1..(i - 1) :
        /\ transcriptLines[i].engine = "claude" /\ Users(i) /\ Users(j)
        /\ \A k \in (j + 1)..(i - 1) : alone[k] = <<>>
        /\ alone[i][1].at = alone[j][1].at
      Group(i) == [j \in DOMAIN alone |->
        IF alone[j] # <<>> /\ (j = i \/ (j > i /\ \A k \in (i + 1)..j : Folds(k) \/ alone[k] = <<>>))
        THEN <<alone[j][1].text>> ELSE <<>>]
  IN FlattenSeq([i \in DOMAIN alone |->
       IF Folds(i) THEN <<>>
       ELSE IF Len(alone[i]) = 1 THEN <<[alone[i][1] EXCEPT !.text = Cap(Joined(FlattenSeq(Group(i))), RowTextCap)]>>
       ELSE alone[i]])
(* Only what the user wrote at one time, with nothing between, is one row    *)
(* (Claude writes a paste and its text as two lines), and nothing of it is   *)
(* lost but what is over the cap; Codex's lines are a row each.             *)
(* (rows.rs:265 push_user.)                                                 *)
RowsAreGroups == rows = GroupedRows([i \in DOMAIN transcriptLines |-> ParseEntry(transcriptLines[i], <<>>)])

(* A milestone keeps its label when the timeline reads it off the probe, and *)
(* what another agent is told to do is none.  A line the CLI made up changes *)
(* nothing of the header (a subagent's does).  (rows.rs:95, metadata.rs:15.) *)
LabelsAndHeader ==
  /\ \A i \in DOMAIN rows : rows[i].probe # Nobody =>
       /\ MilestoneLabel(rows[i].probe) = MilestoneLabel(rows[i].text)
       /\ ~Contains(rows[i].text, Word("send-message"))
  /\ header = FoldLeft(MetadataUpdate, [model |-> "none", context |-> "none"],
                       SelectSeq(transcriptLines, LAMBDA l : l.model # "<synthetic>"))

ConversationHolds == AgentsHeard /\ RowsAreGroups /\ LabelsAndHeader

-----------------------------------------------------------------------------
(***************************************************************************)
(* tx doctor --fix-hooks (chat/src/verbs.rs, hooks_cleanup.rs): the hooks   *)
(* older versions wrote into the CLIs' own settings are taken out by what  *)
(* their sidecar files recorded, beside the hooks the user wrote there.    *)
(* A block is the sequence of its commands; the settings are a function    *)
(* from events to blocks, with no entry for an event without any.          *)
(***************************************************************************)
CONSTANTS
  Retired,      \* RETIRED_SIDECARS in their order
  Targets,      \* the settings files in their order
  HookEvents,
  TxCommand,    \* the command of each sidecar's hooks
  OwnBlocks,    \* blocks a user writes
  MaxEdits,     \* bound: edits of the user
  MaxCleanups   \* bound: runs of the verb

VARIABLES
  settings,   \* [events, form] of each file: form is "as it was" while its bytes are the user's
  sidecars,   \* of each file and name: [added, backup]; absent
  usersOwn,        \* what the file would hold without tx (history)
  versions,   \* the names of the versions that wrote there (history)
  edited,     \* files the user changed since (history)
  cleaning,   \* where the verb is: the next <<name, target>>; 0 when no verb runs
  edits, cleanups
cleanupVars == <<settings, sidecars, usersOwn, versions, edited, cleaning, edits, cleanups>>

Absent == [added |-> <<>>, backup |-> <<>>]
NoEvents == [e \in {} |-> <<>>]
Files == Range(Targets)
Names == Range(Retired)

(* An event without blocks is taken out; hooks itself goes with its last one.*)
WithBlocks(events, event, blocks) ==
  [e \in (DOMAIN events \ {event}) \union (IF blocks = <<>> THEN {} ELSE {event}) |->
     IF e = event THEN blocks ELSE events[e]]
BlocksOf(events, event) == IF event \in DOMAIN events THEN events[event] ELSE <<>>
(* Mutant: an event tx added a hook to goes with all its hooks. *)
WithoutEvents(events, added) ==
  FoldLeft(LAMBDA left, entry : WithBlocks(left, entry[1], <<>>), events, added)

(* The hooks tx added go, the user's stay. *)
Without(events, added) ==
  FoldLeft(LAMBDA left, entry :
             WithBlocks(left, entry[1], SelectSeq(BlocksOf(left, entry[1]), LAMBDA b : b # <<entry[2]>>)),
           events, added)

(* What an older version did: a backup, then its hooks behind the user's.    *)
HooksFrom(name) == LET es == SetToSeq(HookEvents) IN [i \in DOMAIN es |-> <<es[i], TxCommand[name]>>]
Install(was, name) ==
  [events |-> FoldLeft(LAMBDA ev, a : WithBlocks(ev, a[1], Append(BlocksOf(ev, a[1]), <<a[2]>>)), was.events, HooksFrom(name)),
   kept |-> [was.kept EXCEPT ![name] = [added |-> HooksFrom(name), backup |-> <<was.events>>]]]

CleanupInit ==
  /\ \E mine \in [Files -> {NoEvents} \union [HookEvents -> {<<b>> : b \in OwnBlocks}]],
        which \in [Files -> SUBSET Names] :
       LET Done(f) == FoldLeft(Install, [events |-> mine[f], kept |-> [n \in Names |-> Absent]],
                               SelectSeq(Retired, LAMBDA n : n \in which[f])) IN
       /\ usersOwn = mine /\ versions = which
       /\ settings = [f \in Files |-> [events |-> Done(f).events, form |-> IF which[f] = {} THEN "as it was" ELSE "written"]]
       /\ sidecars = [f \in Files |-> Done(f).kept]
  /\ edited = {} /\ cleaning = 0 /\ edits = 0 /\ cleanups = 0

(* The user writes a block of their own, puts their command into a block of  *)
(* tx's (it is theirs now), or removes the backup.                          *)
UserEdits(f) ==
  /\ edits < MaxEdits /\ edits' = edits + 1
  /\ edited' = edited \union {f}
  /\ \/ \E e \in HookEvents, b \in OwnBlocks :
          /\ settings' = [settings EXCEPT ![f].events = WithBlocks(@, e, <<b>> \o BlocksOf(@, e)), ![f].form = "written"]
          /\ usersOwn' = [usersOwn EXCEPT ![f] = WithBlocks(@, e, <<b>> \o BlocksOf(@, e))]
          /\ UNCHANGED sidecars
     \/ \E e \in HookEvents, n \in Names, b \in OwnBlocks :
          LET blocks == BlocksOf(settings[f].events, e)
              joined == <<TxCommand[n]>> \o b
              Join(bs) == [i \in DOMAIN bs |-> IF bs[i] = <<TxCommand[n]>> THEN joined ELSE bs[i]]
          IN /\ <<TxCommand[n]>> \in Range(blocks) /\ \A other \in Range(BlocksOf(usersOwn[f], e)) : Len(other) = 1
             /\ settings' = [settings EXCEPT ![f].events = WithBlocks(@, e, Join(blocks)), ![f].form = "written"]
             /\ usersOwn' = [usersOwn EXCEPT ![f] = WithBlocks(@, e, Append(BlocksOf(@, e), joined))]
             /\ UNCHANGED sidecars
     \/ \E n \in Names :
          /\ sidecars[f][n].backup # <<>>
          /\ sidecars' = [sidecars EXCEPT ![f][n].backup = <<>>]
          /\ UNCHANGED <<settings, usersOwn>>
  /\ UNCHANGED <<versions, cleaning, cleanups>>

Begin ==
  /\ cleaning = 0 /\ cleanups < MaxCleanups
  /\ cleaning' = 1 /\ cleanups' = cleanups + 1
  /\ UNCHANGED <<settings, sidecars, usersOwn, versions, edited, edits>>

(* uninstall, one file of one name.  A failure ends the verb: before the     *)
(* write nothing has changed, after it the sidecar is still there.          *)
SidecarAt == Retired[((cleaning - 1) \div Len(Targets)) + 1]
FileAt == Targets[((cleaning - 1) % Len(Targets)) + 1]
Onward == cleaning' = IF cleaning = Len(Retired) * Len(Targets) THEN 0 ELSE cleaning + 1

Uninstall ==
  /\ cleaning # 0
  /\ UNCHANGED <<usersOwn, versions, edited, edits, cleanups>>
  /\ LET side == sidecars[FileAt][SidecarAt]
         root == Without(settings[FileAt].events, side.added)
         written == [events |-> root,
                     form |-> IF side.backup = <<root>> THEN "as it was" ELSE "written"]
     IN \/ side.added = <<>> /\ Onward /\ UNCHANGED <<settings, sidecars>>
        \/ /\ side.added # <<>> /\ Onward
           /\ settings' = [settings EXCEPT ![FileAt] = written]
           /\ sidecars' = [sidecars EXCEPT ![FileAt][SidecarAt] = Absent]
        \/ /\ side.added # <<>> /\ cleaning' = 0 /\ UNCHANGED sidecars
           /\ settings' \in {settings, [settings EXCEPT ![FileAt] = written]}

CleanupNext == Begin \/ Uninstall \/ \E f \in Files : UserEdits(f)

-----------------------------------------------------------------------------
Recorded(f) == {n \in Names : sidecars[f][n] # Absent}

(* Nothing of the user's ever leaves a file, not a block nor its place among *)
(* theirs, whichever step fails and however often the verb is run; once no   *)
(* sidecar is left a file holds nothing else; and one that only one version  *)
(* wrote and nobody touched has its old bytes again.                        *)
(* (hooks_cleanup.rs:114 uninstall, its test restores_the_backup.)          *)
CleanupHolds ==
  \A f \in Files :
    LET tx == {<<TxCommand[n]>> : n \in Recorded(f)}
        left == [e \in DOMAIN settings[f].events |-> SelectSeq(settings[f].events[e], LAMBDA b : b \notin tx)]
    IN
       /\ \A e \in HookEvents : BlocksOf(left, e) = BlocksOf(usersOwn[f], e)
       /\ Recorded(f) = {} => settings[f].events = usersOwn[f]
       /\ Recorded(f) = {} /\ f \notin edited /\ (\A n, m \in versions[f] : n = m) => settings[f].form = "as it was"
=============================================================================
