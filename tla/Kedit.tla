-------------------------------- MODULE Kedit --------------------------------
(***************************************************************************)
(* The text editor of the shell (shell/commands/kedit.c) over the contents *)
(* of one file.  lines holds the lines below line_count; a line is a       *)
(* sequence of printable bytes, NL is the newline.                         *)
(***************************************************************************)
EXTENDS FileOps, SequencesExt

CONSTANTS
  EditKeys,          \* printable bytes that are typed
  Files,         \* contents a file may have before the editor first sees it
  MAX_LINES,
  MAX_LINE_LEN,
  MaxText        \* bound: no typing once the buffer has this many bytes

NL == "\n"
NoFile == <<"no file">>

FileBytes == EditKeys \cup {NL, JUNK} \cup UNION {Range(f) : f \in Files}

ASSUME KeditAssumption ==
  /\ NL \notin EditKeys /\ Files \subseteq Seq(FileBytes)
  /\ MAX_LINES \in Nat /\ MAX_LINES > 1 /\ MAX_LINE_LEN \in Nat /\ MAX_LINE_LEN > 1 /\ MaxText \in Nat

VARIABLES
  file,           \* contents of the file, NoFile before it exists
  lines,          \* lines[0 .. line_count - 1], from 1 here
  edit_cursor_x, edit_cursor_y,   \* from 0 and from 1
  modified, in_kedit,
  report          \* "saved" while "File saved successfully" is the last thing that happened
                  \* ("partly" if a write had failed, which the screen does not tell)

keditVars == <<file, lines, edit_cursor_x, edit_cursor_y, modified, in_kedit, report>>

line_count == Len(lines)
Line == lines[edit_cursor_y]
TextOf(ls) == FlattenSeq([i \in DOMAIN ls |-> IF i < Len(ls) THEN Append(ls[i], NL) ELSE ls[i]])
Text == TextOf(lines)

KeditInit ==
  /\ file \in Files \cup {NoFile}
  /\ lines = <<>> /\ edit_cursor_x = 0 /\ edit_cursor_y = 1
  /\ modified = FALSE /\ in_kedit = FALSE /\ report = "none"

-----------------------------------------------------------------------------
(* Mutant: the byte that ends a line starts the next. *)
LoadByteKeepsNewline(st, c) ==
  IF Len(st.done) >= MAX_LINES THEN st
  ELSE IF c = NL \/ Len(st.done) >= MAX_LINES - 1 THEN [done |-> Append(st.done, st.line), line |-> <<c>>]
  ELSE IF Len(st.line) < MAX_LINE_LEN - 1 THEN [st EXCEPT !.line = Append(@, c)] ELSE st

(* kedit_load: a line ends at a newline, or at any byte once MAX_LINES - 1  *)
(* lines are full; bytes beyond MAX_LINE_LEN - 1 are dropped.               *)
LoadByte(st, c) ==
  IF Len(st.done) >= MAX_LINES THEN st
  ELSE IF c = NL \/ Len(st.done) >= MAX_LINES - 1 THEN [done |-> Append(st.done, st.line), line |-> <<>>]
  ELSE IF Len(st.line) < MAX_LINE_LEN - 1 THEN [st EXCEPT !.line = Append(@, c)] ELSE st

Loading(content) ==
  LET after[n \in 0 .. Len(content)] ==
        IF n = 0 THEN [done |-> <<>>, line |-> <<>>] ELSE LoadByte(after[n - 1], content[n])
  IN  after

Loaded(content) ==
  LET st == Loading(content)[Len(content)]
      all == IF st.line # <<>> /\ Len(st.done) < MAX_LINES THEN Append(st.done, st.line) ELSE st.done
  IN  IF all = <<>> THEN <<<<>>>> ELSE all

(* cmd_kedit: the cursor is reset, then the file is loaded; opening may     *)
(* fail although the file exists (no memory, no descriptor).                *)
cmd_kedit(opens) ==
  /\ ~in_kedit
  /\ lines' = IF opens /\ file # NoFile THEN Loaded(file) ELSE <<<<>>>>
  /\ edit_cursor_x' = 0 /\ edit_cursor_y' = 1 /\ modified' = FALSE /\ in_kedit' = TRUE
  /\ report' = "none"
  /\ UNCHANGED file

(* The writes of kedit_save: each line, and a newline after all but the last. *)
Writes == [i \in 1 .. 2 * line_count - 1 |-> IF i % 2 = 0 THEN <<NL>> ELSE lines[(i + 1) \div 2]]

(* The file after them; `lost' are the writes that failed, which kedit_save *)
(* does not notice.                                                         *)
Written(st, bytes) == [content |-> Overwrite(st.content, st.pos, bytes), pos |-> st.pos + Len(bytes)]
Saving(content, lost) ==
  LET after[n \in 0 .. 2 * line_count - 1] ==
        IF n = 0 THEN [content |-> content, pos |-> 0]
        ELSE IF n \in lost THEN after[n - 1] ELSE Written(after[n - 1], Writes[n])
  IN  after
AfterWrites(content, lost) == Saving(content, lost)[2 * line_count - 1].content

kedit_save(opens, lost) ==
  /\ in_kedit
  /\ IF opens
     THEN /\ file' = AfterWrites(IF file = NoFile THEN <<>> ELSE file, lost)
          /\ modified' = FALSE
          /\ report' = IF lost = {} THEN "saved" ELSE "partly"
     ELSE UNCHANGED <<file, modified>> /\ report' = "none"
  /\ UNCHANGED <<lines, edit_cursor_x, edit_cursor_y, in_kedit>>

-----------------------------------------------------------------------------
Edits(ls, x, y) ==
  /\ lines' = ls /\ edit_cursor_x' = x /\ edit_cursor_y' = y /\ modified' = TRUE
  /\ report' = "none" /\ UNCHANGED <<file, in_kedit>>
Ignored == report' = "none" /\ UNCHANGED <<file, lines, edit_cursor_x, edit_cursor_y, modified, in_kedit>>

kedit_insert_char(c) ==
  /\ in_kedit /\ Len(Text) < MaxText
  /\ IF edit_cursor_x >= MAX_LINE_LEN - 1 \/ Len(Line) >= MAX_LINE_LEN - 1 THEN Ignored
     ELSE Edits([lines EXCEPT ![edit_cursor_y] = InsertAt(Line, edit_cursor_x + 1, c)],
                edit_cursor_x + 1, edit_cursor_y)

(* The cursor is at the start of a line that fits behind the one before. *)
Joins ==
  /\ edit_cursor_x = 0 /\ edit_cursor_y > 1
  /\ Len(lines[edit_cursor_y - 1]) + Len(Line) < MAX_LINE_LEN - 1

kedit_delete_char ==
  /\ in_kedit
  /\ IF edit_cursor_x > 0 /\ Len(Line) > 0
     THEN Edits([lines EXCEPT ![edit_cursor_y] = RemoveAt(Line, edit_cursor_x)],
                edit_cursor_x - 1, edit_cursor_y)
     ELSE IF Joins
     THEN Edits([i \in 1 .. line_count - 1 |->
                   IF i < edit_cursor_y - 1 THEN lines[i]
                   ELSE IF i = edit_cursor_y - 1 THEN lines[i] \o Line ELSE lines[i + 1]],
                Len(lines[edit_cursor_y - 1]), edit_cursor_y - 1)
     ELSE Edits(lines, edit_cursor_x, edit_cursor_y)

(* Mutant: the first of the lines below the cursor is not moved down. *)
SplitLinesOverwrites ==
  [i \in 1 .. line_count + 1 |->
     IF i < edit_cursor_y THEN lines[i]
     ELSE IF i = edit_cursor_y THEN SubSeq(Line, 1, edit_cursor_x)
     ELSE IF i = edit_cursor_y + 1 THEN SubSeq(Line, edit_cursor_x + 1, Len(Line))
     ELSE IF i = edit_cursor_y + 2 THEN <<>> ELSE lines[i - 1]]

(* The lines once the one with the cursor is split there. *)
SplitLines ==
  [i \in 1 .. line_count + 1 |->
     IF i < edit_cursor_y THEN lines[i]
     ELSE IF i = edit_cursor_y THEN SubSeq(Line, 1, edit_cursor_x)
     ELSE IF i = edit_cursor_y + 1 THEN SubSeq(Line, edit_cursor_x + 1, Len(Line))
     ELSE lines[i - 1]]

kedit_new_line ==
  /\ in_kedit /\ Len(Text) < MaxText
  /\ IF line_count >= MAX_LINES \/ edit_cursor_x > Len(Line) THEN Ignored
     ELSE Edits(SplitLines, 0, edit_cursor_y + 1)

(* Mutant: the column is not clamped to the new line. *)
ClampedXLoose(x, y) == LargerOf(0, x)

ClampedX(x, y) == SmallerOf(LargerOf(0, x), Len(lines[y]))

kedit_move_cursor(dx, dy) ==
  LET y == SmallerOf(LargerOf(1, edit_cursor_y + dy), line_count) IN
  /\ in_kedit
  /\ edit_cursor_y' = y /\ edit_cursor_x' = ClampedX(edit_cursor_x + dx, y)
  /\ report' = "none" /\ UNCHANGED <<file, lines, modified, in_kedit>>

Quit ==
  /\ in_kedit /\ in_kedit' = FALSE /\ report' = "none"
  /\ UNCHANGED <<file, lines, edit_cursor_x, edit_cursor_y, modified>>

KeditNext ==
  \/ \E opens \in BOOLEAN : cmd_kedit(opens)
  \/ \E opens \in BOOLEAN, lost \in SUBSET DOMAIN Writes : kedit_save(opens, lost)
  \/ \E c \in EditKeys : kedit_insert_char(c)
  \/ kedit_delete_char \/ kedit_new_line
  \/ \E d \in {<<0, -1>>, <<0, 1>>, <<-1, 0>>, <<1, 0>>} : kedit_move_cursor(d[1], d[2])
  \/ Quit

KeditSpec == KeditInit /\ [][KeditNext]_keditVars

-----------------------------------------------------------------------------
(* The cursor is on a line, not beyond its end, there are never more lines  *)
(* than arrays and no line outgrows its own: the edits index lines[] with   *)
(* the cursor without looking.                                              *)
CursorInside ==
  in_kedit => /\ line_count <= MAX_LINES
              /\ edit_cursor_y \in 1 .. line_count /\ edit_cursor_x \in 0 .. Len(Line)
              /\ \A i \in 1 .. line_count : Len(lines[i]) < MAX_LINE_LEN

(* What every step of the editor preserves. *)
KeditInv ==
  /\ file \in Seq(FileBytes) \cup {NoFile} /\ lines \in Seq(Seq(FileBytes))
  /\ CursorInside

(* The offset of the cursor in the text. *)
Point == Len(FlattenSeq(SubSeq(lines, 1, edit_cursor_y - 1))) + edit_cursor_y - 1 + edit_cursor_x

(* Whatever the line arrays are shifted, split and joined into, an edit is  *)
(* an edit of one text: a byte or newline inserted at the cursor, or the    *)
(* byte before the cursor removed, with the cursor moved by that one byte.  *)
EditStep ==
  in_kedit /\ in_kedit' /\ lines' # lines =>
    \/ Point' = Point + 1 /\ \E c \in EditKeys \cup {NL} : Text' = InsertAt(Text, Point + 1, c)
    \/ Point' = Point - 1 /\ Text' = RemoveAt(Text, Point)
EditsAtPoint == [][EditStep]_keditVars

(* Within the limits: lines of at most MAX_LINE_LEN - 1 bytes, MAX_LINES - 1 *)
(* of them.                                                                 *)
FitsLimits(content) ==
  LET ends == {0} \cup {i \in DOMAIN content : content[i] = NL}
  IN  /\ Len(SelectSeq(content, LAMBDA c : c = NL)) < MAX_LINES - 1
      /\ \A i \in DOMAIN content : \E e \in ends : e <= i /\ i - e < MAX_LINE_LEN

(* A file within the limits of the line arrays is loaded as it is, but for  *)
(* a newline at its end.                                                    *)
LoadStep ==
  ~in_kedit /\ in_kedit' /\ lines' # <<<<>>>> /\ FitsLimits(file) =>
    Text' = file \/ Append(Text', NL) = file

(* A save that loses no write puts the buffer, from its first byte to its   *)
(* last, at the start of the file, over whatever the file held.             *)
SaveStep == report' = "saved" => SubSeq(file', 1, Len(Text')) = Text'

(* Loading and saving carry the bytes over, as LoadStep and SaveStep say,   *)
(* whatever was edited in between and whichever writes are lost             *)
(* (kedit_load, kedit_save).                                                *)
LoadsAndSaves == [][LoadStep /\ SaveStep]_keditVars
=============================================================================
