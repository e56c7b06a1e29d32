------------------------------ MODULE Emulator ------------------------------
(***************************************************************************)
(* The terminal emulator that turns the boot output into lines of text     *)
(* (libply-splash-core/ply-terminal-emulator.c, ply-rich-text.c), as       *)
(* functions on its state: Parse(e, text) is one call of                   *)
(* ply_terminal_emulator_parse_lines.                                      *)
(*                                                                         *)
(* A byte is a string: itself when it is printable, else its name.         *)
(* plymouth.debug-escape-sequences is not set, and a parameter fits 32     *)
(* bits.                                                                   *)
(***************************************************************************)
EXTENDS Integers, Sequences, SequencesExt

CONSTANTS
    Rows,     \* number_of_rows: the lines the emulator keeps
    Columns   \* number_of_columns: the mutable span of each line

ASSUME SizeAssumption == Rows \in Nat \ {0} /\ Columns \in Nat \ {0, 1}

Controls == {"NL", "CR", "BS", "TAB", "BEL"}
Digits   == <<"0", "1", "2", "3", "4", "5", "6", "7", "8", "9">>

(* ply_utf8_character_get_byte_type: LEAD starts a character of two bytes.  *)
(* BAD stands for the bytes that cannot occur and for the byte 0, which are *)
(* passed over alike.                                                       *)
ByteType(b) ==
    IF b \in {"LEAD", "CONT", "BAD"} THEN b ELSE "single"

-----------------------------------------------------------------------------
(* ply-rich-text.c: a line is an array of characters in which a place may   *)
(* be empty. A character keeps its bytes and its style.                     *)

NoCell == <<>>
Plain  == [fg |-> 9, bg |-> 9, on |-> {}]
Blank  == << <<" ">>, Plain >>

Length(line) ==
    LET gaps == {i \in DOMAIN line : line[i] = NoCell}
    IN  IF gaps = {} THEN Len(line)
        ELSE (CHOOSE i \in gaps : \A j \in gaps : i <= j) - 1

Padded(line, n) ==
    [i \in 1..(IF n > Len(line) THEN n ELSE Len(line)) |->
        IF i \in DOMAIN line THEN line[i] ELSE NoCell]

SetCharacter(line, i, cell) ==
    IF i < Columns THEN [Padded(line, i + 1) EXCEPT ![i + 1] = cell]
    ELSE Padded(line, i + 1)

SetCharacters(line, first, last, cell) ==
    FoldLeft(LAMBDA l, i : SetCharacter(l, i, cell), line,
             [k \in 1..(last - first + 1) |-> first + k - 1])

RemoveCharacter(line, i) ==
    IF i < Columns /\ i < Len(line) THEN [line EXCEPT ![i + 1] = NoCell]
    ELSE line

(* A character that is moved onto itself is lost.                           *)
MoveCharacter(line, from, to) ==
    IF {from, to} \subseteq 0..(Columns - 1) /\ from < Len(line) /\ to < Len(line)
    THEN [line EXCEPT ![to + 1] = line[from + 1], ![from + 1] = NoCell]
    ELSE line

Visible(line) == SubSeq(line, 1, Length(line))

-----------------------------------------------------------------------------
(* The emulator. cursor_row_offset counts from the last line; broken is the *)
(* local break_string of parse_substring, current the line it works on.     *)

NoCommand == [type |-> "none", code |-> "none", parameters |-> <<>>,
              valid |-> FALSE]

New ==
    [state |-> "unescaped", staged |-> NoCommand, pending |-> <<>>,
     value |-> 0, integer |-> FALSE,
     bytes |-> <<>>, multi |-> FALSE,
     lines |-> [i \in 0..(Rows - 1) |-> <<>>], count |-> 1,
     row |-> 0, column |-> 0, resets |-> FALSE, style |-> Plain,
     current |-> 0, broken |-> FALSE]

Line(e) == e.lines[e.current]
OnLine(e, line) == [e EXCEPT !.lines[e.current] = line]

NthLine(e, n) == e.lines[n % Rows]

(* fill_offsets_with_padding: the place at stop is blanked as well.         *)
Fill(e, start, stop) ==
    IF stop <= start THEN e
    ELSE OnLine(e, SetCharacters(Line(e), start, stop, Blank))

MoveRows(e, n, resets) ==
    [e EXCEPT !.row = @ + n, !.resets = resets, !.broken = TRUE]

-----------------------------------------------------------------------------
(* The handlers of control_code_dispatch_table.                             *)

(* A missing parameter is 0, and 0 acts as 1.                               *)
Amount(c) == IF c.parameters[1] = 0 THEN 1 ELSE c.parameters[1]

CursorUp(e, c)      == MoveRows(e, 0 - Amount(c), FALSE)
CursorDown(e, c)    == MoveRows(e, Amount(c), FALSE)
DownToFirst(e, c)   == MoveRows(e, Amount(c), TRUE)
UpToFirst(e, c)     == MoveRows(e, 0 - Amount(c), TRUE)

(* The shift takes a line one place short of the margin onto itself, and a  *)
(* full one to the left.                                                    *)
InsertBlanks(e, c) ==
    LET len   == Length(Line(e))
        wraps == len + Amount(c) >= Columns
        shift == IF wraps THEN Columns - len - 1 ELSE Amount(c)
        last  == IF len = 0 THEN Columns - 1 ELSE len - 1
        f     == Fill(e, len, IF wraps THEN Columns - 1 ELSE len + Amount(c))
        Shift(l, i) == SetCharacter(MoveCharacter(l, i, i + shift), i, Blank)
    IN  OnLine(f, FoldLeft(Shift, Line(f),
            [k \in 1..(last - e.column + 1) |-> last - k + 1]))

MoveRight(e, c) ==
    LET f == [e EXCEPT !.column = @ + Amount(c)]
    IN  IF f.column >= Columns THEN [f EXCEPT !.broken = TRUE]
        ELSE Fill(f, Length(Line(e)), f.column)

MoveLeft(e, c) ==
    LET f == [e EXCEPT !.column = IF Amount(c) > @ THEN 0 ELSE @ - Amount(c)]
    IN  Fill(f, Length(Line(e)), f.column)

MoveToColumn(e, c) ==
    LET f == [e EXCEPT !.column =
                  IF Amount(c) > Columns THEN 1 ELSE Amount(c) - 1]
    IN  Fill(f, Length(Line(e)), f.column)

EraseLine(e, c) ==
    LET type  == c.parameters[1]
        start == IF e.column >= Columns THEN Columns - 1 ELSE e.column
        len   == Length(Line(e))
        left  == IF type \in {1, 2}
                 THEN SetCharacters(Line(e), 0, start, << <<" ">>, e.style >>)
                 ELSE Line(e)
    IN  OnLine(e, IF type \in {0, 2}
                  THEN FoldLeft(RemoveCharacter, left,
                           [k \in 1..(len - start) |-> start + k - 1])
                  ELSE left)

DeleteCharacters(e, c) ==
    LET len   == Length(Line(e))
        shift == IF e.column + Amount(c) >= len THEN len - 1 ELSE Amount(c)
        Shift(l, i) == MoveCharacter(l, i + shift, i)
    IN  OnLine(e, FoldLeft(Shift, Line(e),
            [k \in 1..(len - e.column) |-> e.column + k - 1]))

EraseCharacters(e, c) ==
    LET len  == Length(Line(e))
        stop == IF e.column + Amount(c) < len THEN e.column + Amount(c) ELSE len
    IN  OnLine(e, SetCharacters(Line(e), e.column, stop - 1,
                                << <<" ">>, e.style >>))

(* 38 and 48 pass over one parameter.                                       *)
Attribute(s, p) ==
    CASE p = 0 -> Plain
      [] p \in {1, 2, 3, 4, 7} -> [s EXCEPT !.on = @ \cup {p}]
      [] p = 22 -> [s EXCEPT !.on = @ \ {1, 2}]
      [] p \in {23, 24, 27} -> [s EXCEPT !.on = @ \ {p - 20}]
      [] p \in (30..37) \cup {39} -> [s EXCEPT !.fg = p - 30]
      [] p \in (40..47) \cup {49} -> [s EXCEPT !.bg = p - 40]
      [] p \in 90..97   -> [s EXCEPT !.fg = p - 90, !.on = @ \ {2}]
      [] p \in 100..107 -> [s EXCEPT !.bg = p - 100]
      [] OTHER -> s

SetAttributes(e, c) ==
    LET Apply(a, p) ==
            IF a.skips THEN [a EXCEPT !.skips = FALSE]
            ELSE [style |-> Attribute(a.style, p), skips |-> p \in {38, 48}]
    IN  [e EXCEPT !.style =
            FoldLeft(Apply, [style |-> @, skips |-> FALSE], c.parameters).style]

(* Off the last line the cursor moves and the line is not padded.           *)
Tab(e) ==
    LET pad   == 8 - (e.column % 8)
        right == Columns - 1
        f     == [e EXCEPT !.column = IF @ + pad >= right THEN right ELSE @ + pad]
        len   == Length(Line(e))
        stop  == IF len + pad >= right THEN right ELSE len + pad
    IN  IF e.row # 0 \/ f.column < len THEN f
        ELSE OnLine(f, SetCharacters(Line(f), len, stop - 1, Blank))

ControlSequence(e, c) ==
    LET f == [e EXCEPT !.resets = FALSE]
    IN  IF ~c.valid THEN e ELSE
        CASE c.code = "@"  -> InsertBlanks(f, c)
          [] c.code = "A"  -> CursorUp(e, c)
          [] c.code = "B"  -> CursorDown(e, c)
          [] c.code = "C"  -> MoveRight(f, c)
          [] c.code = "D"  -> MoveLeft(f, c)
          [] c.code = "E"  -> DownToFirst(e, c)
          [] c.code = "F"  -> UpToFirst(e, c)
          [] c.code = "G"  -> MoveToColumn(f, c)
          [] c.code = "K"  -> EraseLine(f, c)
          [] c.code = "P"  -> DeleteCharacters(f, c)
          [] c.code = "X"  -> EraseCharacters(f, c)
          [] c.code = "m"  -> SetAttributes(f, c)
          [] OTHER         -> e

EscapeSequence(e, c) ==
    CASE c.code = "D" -> MoveRows(e, 1, FALSE)
      [] c.code = "E" -> MoveRows(e, 1, TRUE)
      [] c.code = "M" -> MoveRows(e, -1, FALSE)
      [] OTHER        -> e

ControlCharacter(e, c) ==
    CASE c.code = "BS"  -> [e EXCEPT !.resets = FALSE,
                                     !.column = IF @ = 0 THEN 0 ELSE @ - 1]
      [] c.code = "TAB" -> Tab([e EXCEPT !.resets = FALSE])
      [] c.code = "NL"  -> MoveRows(e, 1, TRUE)
      [] c.code = "CR"  -> [e EXCEPT !.column = 0, !.resets = TRUE]
      [] OTHER          -> e

Dispatch(e, c) ==
    CASE c.type = "sequence" -> ControlSequence(e, c)
      [] c.type = "escape"   -> EscapeSequence(e, c)
      [] c.type = "control"  -> ControlCharacter(e, c)

-----------------------------------------------------------------------------
(* ply_terminal_emulator_parse_substring, one byte at a time.               *)

(* ply_terminal_emulator_flush_pending_character_to_line                    *)
Flush(e, character) ==
    LET f == [OnLine(e, SetCharacter(Line(e), e.column, <<character, e.style>>))
                EXCEPT !.bytes = <<>>, !.column = @ + 1]
    IN  IF f.column >= Columns THEN MoveRows(f, 1, TRUE) ELSE f

Queue(e, type, code) ==
    [e EXCEPT !.pending = Append(@, [NoCommand EXCEPT !.type = type, !.code = code])]

Unescaped(e, b) ==
    CASE b = "ESC"       -> [e EXCEPT !.state = "escaped", !.staged = NoCommand]
      [] b \in Controls  -> Queue(e, "control", b)
      [] OTHER           -> Flush(e, <<b>>)

Escaped(e, b) ==
    IF b = "["
    THEN [e EXCEPT !.state = "parameter", !.value = 0, !.integer = FALSE,
                   !.staged = [NoCommand EXCEPT !.type = "sequence",
                                                !.valid = TRUE]]
    ELSE [Queue(e, "escape", b) EXCEPT !.state = "unescaped",
                                       !.staged = NoCommand]

(* Control characters in a control sequence are queued in front of it; a    *)
(* byte that can neither go on nor end it makes it invalid.                 *)
Parameter(e, b) ==
    CASE b \in Controls -> Queue(e, "control", b)
      [] b \in {"ESC", " "} -> [e EXCEPT !.staged.valid = FALSE]
      [] Contains(Digits, b) ->
            [e EXCEPT !.integer = TRUE,
                !.value = @ * 10 + (CHOOSE d \in 0..9 : Digits[d + 1] = b)]
      [] b = ";" ->
            [e EXCEPT !.value = 0, !.integer = FALSE,
                !.staged.parameters =
                    Append(@, IF e.integer THEN e.value ELSE 0)]
      [] OTHER ->
            [e EXCEPT !.state = "unescaped", !.value = 0, !.staged = NoCommand,
                !.pending = Append(@, [e.staged EXCEPT
                    !.code = b, !.parameters = Append(@, e.value)])]

RunPending(e) ==
    LET after[n \in 0..Len(e.pending)] ==
            IF n = 0 THEN e ELSE Dispatch(after[n - 1], e.pending[n])
    IN  IF e.state = "unescaped"
        THEN [after[Len(e.pending)] EXCEPT !.pending = <<>>]
        ELSE e

Single(e, b) ==
    RunPending(CASE e.state = "unescaped" -> Unescaped(e, b)
                 [] e.state = "escaped"   -> Escaped(e, b)
                 [] e.state = "parameter" -> Parameter(e, b))

(* A continuation byte completes a character, or stands for one.            *)
Continuation(e) ==
    LET bytes == Append(e.bytes, "CONT")
    IN  IF e.multi /\ Len(bytes) < 2 THEN [e EXCEPT !.bytes = bytes]
        ELSE IF e.state # "unescaped" THEN [e EXCEPT !.bytes = <<>>]
        ELSE IF e.multi THEN Flush([e EXCEPT !.multi = FALSE], bytes)
        ELSE Flush(e, <<"?">>)

Step(e, b) ==
    LET type == ByteType(b)
        f    == [e EXCEPT !.resets = FALSE]
        cut  == e.multi /\ e.state = "unescaped"
        g    == IF cut THEN Flush(f, <<"?">>) ELSE [f EXCEPT !.bytes = <<>>]
    IN  CASE type = "CONT"   -> Continuation(f)
          [] type = "LEAD"   -> [g EXCEPT !.multi = TRUE, !.bytes = <<b>>]
          [] type = "BAD"    -> g
          [] type = "single" -> Single([g EXCEPT !.multi = FALSE], b)

(* The head of parse_lines' loop and of parse_substring: the cursor does    *)
(* not go above the first line there was, and the line reaches the cursor.  *)
Start(e) ==
    LET top == 1 - e.count
        row == IF e.row < top THEN top ELSE e.row
        f   == [e EXCEPT !.row = row, !.broken = FALSE,
                         !.current = (e.count - 1 + row) % Rows,
                         !.column = IF @ >= Columns THEN 0 ELSE @]
    IN  Fill(f, Length(Line(f)), f.column)

(* Bug: an unfinished character is dropped at the end of a piece.           *)
EndForgetting(e) ==
    LET new == IF e.row > 0 THEN e.row ELSE 0
    IN  [e EXCEPT !.row = @ - new, !.count = @ + new, !.bytes = <<>>,
                  !.lines = [i \in DOMAIN @ |->
                      IF \E n \in 0..(new - 1) : i = (e.count + n) % Rows
                      THEN <<>> ELSE @[i]],
                  !.column = IF e.resets THEN 0 ELSE @,
                  !.current = 0, !.broken = FALSE]

(* The end of parse_substring: the lines below the last one are new.        *)
End(e) ==
    LET new == IF e.row > 0 THEN e.row ELSE 0
    IN  [e EXCEPT !.row = @ - new, !.count = @ + new,
                  !.lines = [i \in DOMAIN @ |->
                      IF \E n \in 0..(new - 1) : i = (e.count + n) % Rows
                      THEN <<>> ELSE @[i]],
                  !.column = IF e.resets THEN 0 ELSE @,
                  !.current = 0, !.broken = FALSE]

Continue(e, b) ==
    Step(IF e.broken /\ e.state = "unescaped" THEN Start(End(e)) ELSE e, b)

ParseOn(e, text) ==
    LET after[n \in 0..Len(text)] ==
            IF n = 0 THEN e ELSE Continue(after[n - 1], text[n])
    IN  after[Len(text)]

Parse(e, text) == IF text = <<>> THEN e ELSE End(ParseOn(Start(e), text))
=============================================================================
