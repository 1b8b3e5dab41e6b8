-------------------------- MODULE SessionEditor ---------------------------
(***************************************************************************)
(* prefix+e: the form that edits a session's name, tags and group          *)
(* (tx-client editor.rs), the decoder of the terminal's bytes it reads its *)
(* keys from, and what the edit plugin saves of it while other processes   *)
(* change the same record (plugins/edit). Letters are alike; a wide        *)
(* character takes two columns.                                            *)
(***************************************************************************)
EXTENDS Naturals, Sequences, FiniteSets, SequencesExt

CONSTANTS
  Records,       \* [name, tags, group] the session may have: a text, a sequence of texts, a text
  Available,     \* columns of a field; 0: the screen is too small
  Bytes,         \* classes of bytes the terminal sends
  MaxEditorKeys, \* bound: keys handled
  MaxBytes,      \* bound: bytes sent
  MaxOthers      \* bound: changes by other processes

VARIABLES
  form,    \* Form: values, positions, offsets, active, mode, error
  columns, \* available columns at the last paint
  record,  \* the agent's record
  before,  \* the record as it was when the form opened
  edited,  \* what the form was saved with, or Unsaved
  writes,  \* the parts of the record the edit still has to write
  written, \* fields another process wrote while the form was open (history)
  keyed, others,
  sent,    \* bytes the terminal sent (history)
  unread,  \* of them, those not read yet
  pending, \* Decoder::pending
  decoded, \* the keys decoded
  gaveUp   \* the escape delay ran out within a sequence (history)

formVars == <<form, columns, record, before, edited, writes, written, keyed, others>>
decoderVars == <<sent, unread, pending, decoded, gaveUp>>

Unsaved == [over |-> FALSE]
Fields == 1..3     \* Name, Tags, Group

-----------------------------------------------------------------------------
(* plugins/edit: what is shown of a record, and read back *)

(* tags.join(",") *)
JoinTags(tags) ==
  FoldLeft(LAMBDA text, tag : IF text = <<>> THEN tag ELSE text \o <<",">> \o tag, <<>>, tags)

SplitTags(text) ==
  LET cut(acc, c) == IF c = "," THEN Append(acc, <<>>)
                     ELSE [acc EXCEPT ![Len(acc)] = Append(@, c)] IN
  SelectSeq(FoldLeft(cut, <<<<>>>>, text), LAMBDA tag : tag # <<>>)

Blank(text) == \A i \in DOMAIN text : text[i] = " "
Trim(text) ==
  LET ink == {i \in DOMAIN text : text[i] # " "} IN
  IF ink = {} THEN <<>>
  ELSE SubSeq(text, CHOOSE i \in ink : \A j \in ink : i <= j,
                    CHOOSE i \in ink : \A j \in ink : j <= i)

LastChar(text) == IF text = <<>> THEN 0 ELSE Len(text) - 1
NewForm(r) ==
  LET values == <<r.name, JoinTags(r.tags), r.group>> IN
  [values |-> values, positions |-> [f \in Fields |-> LastChar(values[f])],
   offsets |-> [f \in Fields |-> 0], active |-> 1, mode |-> "normal", error |-> FALSE]

(* Letters are "a", but for the wide one.                                  *)
Characters == {"a", "w", " ", ","}

ASSUME EditorAssumption ==
  /\ Available \subseteq Nat
  /\ \A r \in Records :
       /\ r = [name |-> r.name, tags |-> r.tags, group |-> r.group]
       /\ r.name \in Seq(Characters) /\ JoinTags(r.tags) \in Seq(Characters)
       /\ r.group \in Seq(Characters)

-----------------------------------------------------------------------------
(* Form::render: each field's offset follows its cursor *)

TextWidth(text) == Len(text) + Cardinality({i \in DOMAIN text : text[i] = "w"})
Between(text, from, to) == SubSeq(text, from + 1, to)

(* Mutant: the scrolled part may fill the field, the cursor then after it. *)
ScrolledFull(text, offset, position, available) ==
  LET start == IF offset <= position THEN offset ELSE position
      fits == {o \in start..position : TextWidth(Between(text, o, position)) <= available} IN
  CHOOSE o \in fits : \A other \in fits : o <= other

Scrolled(text, offset, position, available) ==
  LET start == IF offset <= position THEN offset ELSE position
      fits == {o \in start..position : TextWidth(Between(text, o, position)) < available} IN
  CHOOSE o \in fits : \A other \in fits : o <= other

Render(f, available) ==
  IF available = 0 THEN f
  ELSE [f EXCEPT !.offsets = [i \in Fields |->
          Scrolled(f.values[i], f.offsets[i], f.positions[i], available)]]

-----------------------------------------------------------------------------
(* Form::handle *)

Move(f, position) == [f EXCEPT !.positions[f.active] = position]
Less(n) == IF n = 0 THEN 0 ELSE n - 1
ClampToText(f) ==
  LET last == LastChar(f.values[f.active]) IN
  IF f.positions[f.active] > last THEN Move(f, last) ELSE f
Turn(f, by) == [f EXCEPT !.active = ((@ - 1 + by) % 3) + 1]
RemoveAtCursor(f, at) == [f EXCEPT !.values[f.active] = RemoveAt(@, at)]

Letters == {"q", "j", "k", "h", "l", "0", "$", "i", "a", "A", "I", "x"}
Printable == Letters \cup {"w", " ", ","}
Shown(key) == IF key \in Letters THEN "a" ELSE key

NormalKey(f, key) ==
  LET at == f.positions[f.active]
      length == Len(f.values[f.active])
      insert(position) == Move([f EXCEPT !.mode = "insert"], position) IN
  CASE key = "j" -> ClampToText(Turn(f, 1))
    [] key = "k" -> ClampToText(Turn(f, 2))
    [] key \in {"h", "left"} -> ClampToText(Move(f, Less(at)))
    [] key \in {"l", "right"} -> ClampToText(Move(f, at + 1))
    [] key \in {"0", "home"} -> ClampToText(Move(f, 0))
    [] key \in {"$", "end"} -> ClampToText(Move(f, length))
    [] key = "i" -> insert(at)
    [] key = "a" -> insert(IF at < length THEN at + 1 ELSE length)
    [] key = "A" -> insert(length)
    [] key = "I" -> insert(0)
    [] key \in {"x", "delete"} /\ at < length -> ClampToText(RemoveAtCursor(f, at + 1))
    [] OTHER -> ClampToText(f)

InsertKey(f, key) ==
  LET at == f.positions[f.active]
      text == f.values[f.active]
      puts(value, position) == Move([f EXCEPT !.values[f.active] = value], position) IN
  CASE key = "left" -> Move(f, Less(at))
    [] key = "right" -> Move(f, IF at < Len(text) THEN at + 1 ELSE Len(text))
    [] key = "home" -> Move(f, 0)
    [] key = "end" -> Move(f, Len(text))
    [] key = "backspace" /\ at > 0 -> Move(RemoveAtCursor(f, at), at - 1)
    [] key = "delete" /\ at < Len(text) -> RemoveAtCursor(f, at + 1)
    [] key = "cut-left" -> puts(Between(text, at, Len(text)), 0)
    [] key = "cut-right" -> puts(Between(text, 0, at), at)
    [] key \in Printable -> puts(InsertAt(text, at + 1, Shown(key)), at + 1)
    [] OTHER -> f

NamedKeys == {"esc", "enter", "down", "up", "left", "right", "home", "end",
              "backspace", "delete", "cut-left", "cut-right", "resize"}

Cancels(f, key) == key = "ctrl-c" \/ (f.mode = "normal" /\ key = "esc")
LeaveInsert(f) ==
  ClampToText(Move([f EXCEPT !.mode = "normal", !.error = FALSE], Less(f.positions[f.active])))

Handled(f, key) ==
  IF key = "esc" THEN LeaveInsert(f)
  ELSE IF columns = 0 THEN f
  ELSE IF key = "enter" THEN [f EXCEPT !.error = TRUE, !.active = 1]
  ELSE LET g == [f EXCEPT !.error = FALSE] IN
       IF key = "down" THEN Turn(g, 1)
       ELSE IF key = "up" THEN Turn(g, 2)
       ELSE IF g.mode = "normal" THEN NormalKey(g, key) ELSE InsertKey(g, key)

Saves(f, key) == columns # 0 /\ key = "enter" /\ ~Blank(f.values[1])
Open == edited = Unsaved

(* read_key, handle, and the next paint of edit_session's loop *)
FormKey(key) ==
  /\ Open /\ keyed < MaxEditorKeys
  /\ ~Cancels(form, key) /\ ~Saves(form, key)
  /\ key \in {"q"} => form.mode = "insert" \/ columns = 0
  /\ keyed' = keyed + 1
  /\ \E size \in Available :
       /\ columns' = size
       /\ form' = Render(Handled(form, key), size)
  /\ UNCHANGED <<record, before, edited, writes, written, others, decoderVars>>

(* apply_edit: only what differs from the record as it was shown *)
Changed(r, values) ==
  (IF values[1] # r.name THEN <<1>> ELSE <<>>)
  \o (IF SplitTags(values[2]) # r.tags THEN <<2>> ELSE <<>>)
  \o (IF Trim(values[3]) # r.group THEN <<3>> ELSE <<>>)

SaveForm ==
  /\ Open /\ Saves(form, "enter")
  /\ edited' = [over |-> TRUE, values |-> form.values]
  /\ writes' = Changed(before, form.values)
  /\ UNCHANGED <<form, columns, record, before, written, keyed, others, decoderVars>>

WritePart(r, f, values) ==
  CASE f = 1 -> [r EXCEPT !.name = values[1]]
    [] f = 2 -> [r EXCEPT !.tags = SplitTags(values[2])]
    [] f = 3 -> [r EXCEPT !.group = Trim(values[3])]

(* Mutant: the record is written whole, as the form has it.                *)
ApplyWhole ==
  /\ ~Open /\ writes # <<>>
  /\ record' = [name |-> edited.values[1], tags |-> SplitTags(edited.values[2]),
                group |-> Trim(edited.values[3])]
  /\ writes' = <<>>
  /\ UNCHANGED <<form, columns, before, edited, written, keyed, others, decoderVars>>

(* each part by an operation of its own (its lock, its save); the first    *)
(* that fails is reported, and the earlier stay                            *)
ApplyPart ==
  /\ ~Open /\ writes # <<>>
  /\ \/ record' = WritePart(record, Head(writes), edited.values) /\ writes' = Tail(writes)
     \/ writes' = <<>> /\ UNCHANGED record
  /\ UNCHANGED <<form, columns, before, edited, written, keyed, others, decoderVars>>

(* another tx process renames, tags or groups the session *)
OtherWrites(f, r) ==
  /\ others < MaxOthers
  /\ others' = others + 1
  /\ LET values == <<r.name, JoinTags(r.tags), r.group>> IN record' = WritePart(record, f, values)
  /\ written' = written \cup {f}
  /\ UNCHANGED <<form, columns, before, edited, writes, keyed, decoderVars>>

-----------------------------------------------------------------------------
(* Decoder::decode over classes of bytes: esc, "[", "O", "3" a parameter,  *)
(* "A" and "~" finals, "2" the lead of a two-byte character, "c" its tail, *)
(* "^" a control byte. [key, used]; used = 0: incomplete.                  *)

NoKey == [key |-> "none", used |-> 0]
Final == {"A", "O", "~", "["}
Plain == {"[", "O", "3", "A", "~"}

(* Mutant: a sequence without its final byte is taken for an unknown one.  *)
CsiEager(bytes) ==
  LET ends == {i \in 3..Len(bytes) : bytes[i] \in Final} IN
  [key |-> IF ends # {} /\ bytes[3] = "A" THEN "up" ELSE "other",
   used |-> IF ends = {} THEN Len(bytes) ELSE CHOOSE i \in ends : \A j \in ends : i <= j]

Csi(bytes) ==
  LET ends == {i \in 3..Len(bytes) : bytes[i] \in Final} IN
  IF ends = {} THEN NoKey
  ELSE LET end == CHOOSE i \in ends : \A j \in ends : i <= j
           parameters == SubSeq(bytes, 3, end - 1) IN
       [key |-> CASE parameters = <<>> /\ bytes[end] = "A" -> "up"
                  [] parameters = <<"3">> /\ bytes[end] = "~" -> "delete"
                  [] OTHER -> "other",
        used |-> end]

Decode(bytes) ==
  IF bytes = <<>> \/ bytes = <<"esc">> THEN NoKey
  ELSE IF bytes[1] = "esc" THEN
    CASE bytes[2] = "[" -> Csi(bytes)
      [] bytes[2] = "O" /\ Len(bytes) = 2 -> NoKey
      [] bytes[2] = "O" /\ Len(bytes) > 2 ->
           [key |-> IF bytes[3] = "A" THEN "up" ELSE "other", used |-> 3]
      [] bytes[2] \in Plain \ {"[", "O"} -> [key |-> "alt", used |-> 2]
      [] OTHER -> [key |-> "esc", used |-> 1]
  ELSE IF bytes[1] = "2" THEN
    IF Len(bytes) < 2 THEN NoKey
    ELSE IF bytes[2] = "c" THEN [key |-> "char", used |-> 2]
    ELSE [key |-> "other", used |-> 1]
  ELSE [key |-> IF bytes[1] = "c" THEN "other" ELSE "char", used |-> 1]

After(bytes, n) == SubSeq(bytes, n + 1, Len(bytes))

SendByte(b) ==
  /\ Len(sent) < MaxBytes
  /\ sent' = Append(sent, b) /\ unread' = Append(unread, b)
  /\ UNCHANGED <<pending, decoded, gaveUp, formVars>>

(* read_key: a key the buffer holds comes first *)
NextKey ==
  /\ Decode(pending).used > 0
  /\ decoded' = Append(decoded, Decode(pending).key)
  /\ pending' = After(pending, Decode(pending).used)
  /\ UNCHANGED <<sent, unread, gaveUp, formVars>>

ReadBytes ==
  /\ Decode(pending).used = 0 /\ unread # <<>>
  /\ \E n \in 1..Len(unread) :
       pending' = pending \o SubSeq(unread, 1, n) /\ unread' = After(unread, n)
  /\ UNCHANGED <<sent, decoded, gaveUp, formVars>>

(* nothing came within the escape delay: the escape is a key of its own *)
EscapeDelay ==
  /\ Decode(pending).used = 0 /\ unread = <<>>
  /\ pending # <<>> /\ pending[1] = "esc"
  /\ decoded' = Append(decoded, "esc") /\ pending' = Tail(pending)
  /\ gaveUp' = TRUE
  /\ UNCHANGED <<sent, unread, formVars>>

-----------------------------------------------------------------------------

FormInit ==
  \E r \in Records, size \in Available :
    /\ record = r /\ before = r /\ columns = size
    /\ form = Render(NewForm(r), size)
    /\ edited = Unsaved /\ writes = <<>> /\ written = {} /\ keyed = 0 /\ others = 0
DecoderInit ==
  sent = <<>> /\ unread = <<>> /\ pending = <<>> /\ decoded = <<>> /\ gaveUp = FALSE

FormNext ==
  \/ \E key \in NamedKeys \cup Printable : FormKey(key)
  \/ SaveForm \/ ApplyPart
  \/ \E f \in Fields, r \in Records : OtherWrites(f, r)
FormSpec == FormInit /\ [][FormNext]_formVars
DecoderNext == (\E b \in Bytes : SendByte(b)) \/ NextKey \/ ReadBytes \/ EscapeDelay
DecoderSpec == DecoderInit /\ [][DecoderNext]_decoderVars

(* Every painted cursor lies in its field and on its text, however keys,   *)
(* fields and screen sizes followed one another (Form::render, handle).    *)
CursorInField ==
  columns # 0 => \A f \in Fields :
    /\ form.offsets[f] <= form.positions[f] /\ form.positions[f] <= Len(form.values[f])
    /\ TextWidth(Between(form.values[f], form.offsets[f], form.positions[f])) < columns

(* What is shown of it reads back as it was. (A tag with a comma in it, as *)
(* the command line takes one, would not.)                                 *)
ReadsBack(r) == SplitTags(JoinTags(r.tags)) = r.tags /\ Trim(r.group) = r.group

(* A field left as it was shown keeps what another process wrote to it     *)
(* while the form was open (apply_edit).                                   *)
OthersWritesSurvive ==
  [][~Open /\ others' = others /\ ReadsBack(before) =>
       \A f \in Fields :
         edited.values[f] = NewForm(before).values[f] =>
           NewForm(record').values[f] = NewForm(record).values[f]]_formVars

(* the keys of bytes that come in one piece *)
KeysOf[bytes \in Seq(Bytes)] ==
  IF Decode(bytes).used = 0 THEN <<>>
  ELSE <<Decode(bytes).key>> \o KeysOf[After(bytes, Decode(bytes).used)]

(* However the bytes are cut into reads, they decode to the same keys,     *)
(* unless the escape delay ran out (Decoder::decode, read_key).            *)
CutsDoNotMatter == ~gaveUp => decoded \o KeysOf[pending \o unread] = KeysOf[sent]
=============================================================================
