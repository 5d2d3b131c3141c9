------------------------------ MODULE Terminal ------------------------------
(***************************************************************************)
(* The terminal windows of the GUI (gui/programs/terminal.c): each has an   *)
(* array of rows, the last of which holds the prompt and what is typed      *)
(* behind it.  The line is told from the prompt by the length the prompt    *)
(* has now, and the working directory in it is shared by all windows.       *)
(*                                                                         *)
(* A row is an array of characters that ends at its first NUL; what stands  *)
(* behind the NUL is what was there before.  The commands are known by      *)
(* what they do: change the directory, print some lines, or neither.        *)
(*                                                                         *)
(* Neither the row that is typed into nor the array a prompt is put         *)
(* together in is checked for its end.  What is behind is another row or    *)
(* the stack, so the model stops at the first write past an end.            *)
(***************************************************************************)
EXTENDS Integers, Sequences, SequencesExt

CONSTANTS Terms,                \* the terminal windows
          TermKeys,             \* the characters that are typed
          Printable,            \* those and the ones of prompts and output
          GUI_OUTPUT_LINES, GUI_OUTPUT_COLS,
          PROMPT_SIZE,          \* the size of the array prompt
          Prompts,              \* the prompt in each working directory
          TermCommands,             \* text of a command -> [cd: the directory or 0, prints: texts]
          NotFound,             \* the text that tells of an unknown command
          Widths,               \* window_width_chars
          MaxTermKeys               \* bound: keys pressed

NUL == ""

ASSUME TerminalAssumption ==
    /\ TermKeys \subseteq Printable /\ NUL \notin Printable /\ MaxTermKeys \in Nat
    /\ GUI_OUTPUT_LINES \in Nat \ {0} /\ GUI_OUTPUT_COLS \in Nat /\ Widths \subseteq Nat \ {0}
    /\ Prompts \in Seq(Seq(Printable)) /\ Prompts # <<>> /\ NotFound \in Seq(Printable)
    /\ PROMPT_SIZE \in Nat /\ PROMPT_SIZE <= GUI_OUTPUT_COLS /\ Len(Prompts[1]) < PROMPT_SIZE
    /\ \A text \in DOMAIN TermCommands : /\ TermCommands[text].cd \in {0} \cup DOMAIN Prompts
                                         /\ TermCommands[text].prints \in Seq(Seq(Printable))

VARIABLES dir,                  \* the working directory: an index of Prompts
          output_buffer, output_line_count, term_pos,   \* by terminal; term_pos is input_pos
          window_width_chars,
          termKeys,             \* the keys pressed so far
          typed,                \* auxiliary: by terminal, what was typed since its prompt was printed
          shown,                \* auxiliary: the length of that prompt
          ranover,              \* auxiliary: a write went past the end of a row or of prompt
          mixed,                \* auxiliary: a key came while the prompt had another length
          printed               \* auxiliary: the last lines added, at most GUI_OUTPUT_LINES

termVars == <<dir, output_buffer, output_line_count, term_pos, window_width_chars, termKeys, typed, shown,
              ranover, mixed, printed>>

----------------------------------------------------------------------------
(* Strings in rows                                                          *)

\* The string that starts at position p, counted from 0.
StringAt(row, p) ==
    LET end == CHOOSE e \in p + 1..GUI_OUTPUT_COLS :
                   row[e] = NUL /\ \A i \in p + 1..e - 1 : row[i] # NUL
    IN  SubSeq(row, p + 1, end - 1)

\* A string copied into a row, with its NUL.
Copied(row, s) ==
    [i \in 1..GUI_OUTPUT_COLS |-> IF i <= Len(s) THEN s[i] ELSE IF i = Len(s) + 1 THEN NUL ELSE row[i]]

Cut(s) == SubSeq(s, 1, IF Len(s) >= GUI_OUTPUT_COLS THEN GUI_OUTPUT_COLS - 1 ELSE Len(s))

\* The rows move up by one when there is no room for another.
Shifted(rows) ==
    [i \in DOMAIN rows |-> IF i < GUI_OUTPUT_LINES THEN Copied(rows[i], StringAt(rows[i + 1], 0)) ELSE rows[i]]

gui_terminal_add_line(st, line) ==
    LET full == st.count >= GUI_OUTPUT_LINES
        rows == IF full THEN Shifted(st.rows) ELSE st.rows
        n == IF full THEN GUI_OUTPUT_LINES ELSE st.count + 1
    IN  [rows |-> [rows EXCEPT ![n] = Copied(rows[n], Cut(line))], count |-> n]

\* The rows after each of several lines is added.
Adding(st, lines) ==
    LET after[n \in 0..Len(lines)] == IF n = 0 THEN st ELSE gui_terminal_add_line(after[n - 1], lines[n])
    IN  after

\* A text is broken at the width of the window; the rest of a line makes a line.
gui_terminal_print(text, width) ==
    [k \in 1..(Len(text) + width - 1) \div width |->
        SubSeq(text, (k - 1) * width + 1, IF k * width < Len(text) THEN k * width ELSE Len(text))]

----------------------------------------------------------------------------
prompt_len == Len(Prompts[dir])
LastRow(t) == output_buffer[t][output_line_count[t]]

\* The lines after each of several texts is printed.
Printing(texts, width) ==
    LET after[n \in 0..Len(texts)] == IF n = 0 THEN <<>> ELSE after[n - 1] \o gui_terminal_print(texts[n], width)
    IN  after

\* The lines a command prints, and the directory after it.
gui_execute(text, width) ==
    IF text = <<>> THEN [lines |-> <<>>, dir |-> dir]
    ELSE IF text \in DOMAIN TermCommands
    THEN [lines |-> LET texts == TermCommands[text].prints IN Printing(texts, width)[Len(texts)],
          dir |-> IF TermCommands[text].cd = 0 THEN dir ELSE TermCommands[text].cd]
    ELSE [lines |-> gui_terminal_print(text, width) \o gui_terminal_print(NotFound, width), dir |-> dir]

Recent(lines) == SubSeq(lines, IF Len(lines) > GUI_OUTPUT_LINES THEN Len(lines) - GUI_OUTPUT_LINES + 1 ELSE 1,
                        Len(lines))

Blank == [i \in 1..GUI_OUTPUT_LINES |-> [j \in 1..GUI_OUTPUT_COLS |-> NUL]]

gui_terminal_init == gui_terminal_add_line([rows |-> Blank, count |-> 0], Prompts[1])

TermInit ==
    /\ dir = 1 /\ termKeys = 0 /\ ranover = FALSE
    /\ output_buffer = [t \in Terms |-> gui_terminal_init.rows]
    /\ output_line_count = [t \in Terms |-> gui_terminal_init.count]
    /\ term_pos = [t \in Terms |-> Len(Prompts[1])]
    /\ window_width_chars \in [Terms -> Widths]
    /\ typed = [t \in Terms |-> <<>>] /\ shown = [t \in Terms |-> Len(Prompts[1])]
    /\ mixed = [t \in Terms |-> FALSE] /\ printed = [t \in Terms |-> <<Prompts[1]>>]

----------------------------------------------------------------------------
(* gui_terminal_handle_key                                                  *)

TermKey(t) ==
    /\ ~ranover /\ termKeys < MaxTermKeys /\ termKeys' = termKeys + 1
    /\ UNCHANGED window_width_chars

\* A write past the end of an array.
RunsOver ==
    /\ ranover' = TRUE
    /\ UNCHANGED <<dir, output_buffer, output_line_count, term_pos, typed, shown, mixed, printed>>

Mixing(t) == mixed' = [mixed EXCEPT ![t] = @ \/ prompt_len # shown[t]]

\* The prompt is not erased.
ErasableAny(t) == term_pos[t] > 0
Erasable(t) == term_pos[t] > prompt_len

TermBackspace(t) ==
    /\ TermKey(t) /\ Mixing(t)
    /\ IF Erasable(t)
       THEN /\ term_pos' = [term_pos EXCEPT ![t] = @ - 1]
            /\ output_buffer' = [output_buffer EXCEPT ![t][output_line_count[t]][term_pos[t]] = NUL]
            /\ typed' = [typed EXCEPT ![t] = IF @ = <<>> THEN @ ELSE Front(@)]
       ELSE UNCHANGED <<term_pos, output_buffer, typed>>
    /\ UNCHANGED <<dir, output_line_count, shown, ranover, printed>>

\* The character and the NUL behind it are inside the row.
InRow(t) == term_pos[t] + 2 <= GUI_OUTPUT_COLS

TermType(t, c) ==
    /\ TermKey(t) /\ InRow(t) /\ Mixing(t)
    /\ output_buffer' = [output_buffer EXCEPT
          ![t][output_line_count[t]] = [@ EXCEPT ![term_pos[t] + 1] = c, ![term_pos[t] + 2] = NUL]]
    /\ term_pos' = [term_pos EXCEPT ![t] = @ + 1]
    /\ typed' = [typed EXCEPT ![t] = Append(@, c)]
    /\ UNCHANGED <<dir, output_line_count, shown, ranover, printed>>

TermTypeOver(t) == TermKey(t) /\ ~InRow(t) /\ RunsOver

TermEnter(t) ==
    LET done == gui_execute(StringAt(LastRow(t), prompt_len), window_width_chars[t])
        lines == Append(done.lines, Prompts[done.dir])
        st == Adding([rows |-> output_buffer[t], count |-> output_line_count[t]], lines)[Len(lines)]
    IN
    /\ TermKey(t)
    /\ Len(Prompts[done.dir]) < PROMPT_SIZE /\ UNCHANGED ranover
    /\ dir' = done.dir
    /\ output_buffer' = [output_buffer EXCEPT ![t] = st.rows]
    /\ output_line_count' = [output_line_count EXCEPT ![t] = st.count]
    /\ term_pos' = [term_pos EXCEPT ![t] = Len(Prompts[done.dir])]
    /\ typed' = [typed EXCEPT ![t] = <<>>] /\ shown' = [shown EXCEPT ![t] = Len(Prompts[done.dir])]
    /\ mixed' = [mixed EXCEPT ![t] = FALSE]
    /\ printed' = [printed EXCEPT ![t] = Recent(Front(@) \o <<StringAt(LastRow(t), 0)>> \o lines)]

\* The command has gone to a directory whose prompt is too long for the array.
TermEnterOver(t) ==
    /\ TermKey(t)
    /\ Len(Prompts[gui_execute(StringAt(LastRow(t), prompt_len), window_width_chars[t]).dir]) >= PROMPT_SIZE
    /\ RunsOver

TermNext ==
    \E t \in Terms : \/ TermBackspace(t) \/ TermEnter(t) \/ TermEnterOver(t) \/ TermTypeOver(t)
                     \/ \E c \in TermKeys : TermType(t, c)
TermSpec == TermInit /\ [][TermNext]_termVars

----------------------------------------------------------------------------
(* Properties                                                               *)

\* What a press of Enter would run is what was typed at the window's prompt, whatever rows
\* were used before and whatever the other windows do, unless the length of the prompt was
\* changed from another window meanwhile, and as long as no line was typed past the end of its
\* row (gui_terminal_handle_key).
TypedRuns ==
    \A t \in Terms :
        ~ranover /\ ~mixed[t] /\ prompt_len = shown[t] =>
            /\ StringAt(LastRow(t), prompt_len) = typed[t]
            /\ term_pos[t] = prompt_len + Len(typed[t])

\* The rows above the one being typed are the last lines of the window, in order and each cut
\* at the length of a row, however often the array ran full, as long as no line was typed past
\* the end of its row (gui_terminal_add_line).
RowsRecent ==
    ~ranover => \A t \in Terms :
        /\ output_line_count[t] = Len(printed[t])
        /\ \A i \in 1..output_line_count[t] - 1 : StringAt(output_buffer[t][i], 0) = Cut(printed[t][i])

\* Both together: a terminal loses neither what is typed nor what was printed, however often
\* its rows run full and whatever the other windows do to the working directory.  Nothing is
\* promised to a line that was at its prompt while the length of the prompt changed, nor after
\* a write past the end of a row or of the prompt's array.
TerminalKeeps == TypedRuns /\ RowsRecent
=============================================================================
