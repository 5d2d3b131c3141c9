------------------------------- MODULE Screen -------------------------------
(***************************************************************************)
(* Text on the screen (src/common/outputs/print.c,                          *)
(* src/core/kernel/display/visual.c), the underline of the cursor           *)
(* (src/core/kernel/shell/cursor.c) and the line that console_handle_key    *)
(* redraws.                                                                 *)
(*                                                                         *)
(* The unit is one cell of the font, whose size never changes: the command  *)
(* that would is an error with any argument.  A glyph is drawn over what a   *)
(* cell shows, so that a cell is a set of glyphs.  The boot code prints its  *)
(* log with the keyboard's interrupt on, and a key echoes in the middle of  *)
(* putchar: there putchar takes several steps.  A second page, the paper,   *)
(* gets the same text and has no bottom.  GUI mode is left out, where text   *)
(* goes to a terminal, and double buffering, which only the GUI turns on.   *)
(***************************************************************************)
EXTENDS Integers, Sequences

CONSTANTS Rows, Cols,       \* the framebuffer in cells
          Wrap,             \* the cursor is kept modulo this, for 2^32 pixels
          Glyphs, Outputs,  \* what is typed, and what running a line puts
          Prompt, MAX_INPUT_LEN,
          MaxEarly          \* bound: keys pressed before the boot is over

VARIABLES screen,           \* its rows, cursor_x and cursor_y
          input_len, input_pos, input_start_x,
          cursor_visible, boot_completed,
          log,              \* the character of the boot log being put, and the step
          paper,            \* auxiliary: the last Rows lines of a page without bottom
          early,            \* auxiliary: keys pressed before the boot was over
          cleared, overfull \* auxiliary: one of those ran clear; a key came when the line was full

screenVars == <<screen, input_len, input_pos, input_start_x, cursor_visible, boot_completed, log, paper, early, cleared, overfull>>

NL == "newline"
CR == "return"
TAB4 == "tab"
BS == "backspace"
Putable == Glyphs \cup {NL, CR, TAB4, BS}

\* The framebuffer and a line typed behind its right edge are far from where the cursor wraps.
ASSUME ScreenAssumption ==
    /\ Rows \in Nat \ {0} /\ Cols \in Nat \ {0} /\ MAX_INPUT_LEN \in Nat /\ MaxEarly \in Nat
    /\ Wrap \in Nat /\ Wrap > Rows + 2 /\ Wrap > Cols + MAX_INPUT_LEN + 1
    /\ Glyphs \cap {"_", NL, CR, TAB4, BS} = {} /\ Prompt \in Glyphs /\ Outputs \subseteq Seq(Putable)

Blank == [x \in 0..Cols - 1 |-> {}]
NoLog == [at |-> "none", c |-> NL, n |-> 0, y |-> 0]
\* A page: its rows, the cursor, whether it has no bottom, and, auxiliary, whether a glyph was
\* drawn outside of it.
BarePage(n, endless) == [rows |-> [y \in 0..n - 1 |-> Blank], x |-> 0, y |-> 0, endless |-> endless, astray |-> FALSE]

ScreenInit ==
    /\ screen = BarePage(Rows, FALSE) /\ paper = BarePage(1, TRUE)
    /\ input_len = 0 /\ input_pos = 0 /\ input_start_x = 0
    /\ cursor_visible = TRUE /\ boot_completed = FALSE
    /\ log = NoLog /\ early = 0 /\ cleared = FALSE /\ overfull = FALSE

----------------------------------------------------------------------------
(* putchar, as it runs when nothing comes in between                        *)

Inside(p) == p.x < Cols /\ p.y \in DOMAIN p.rows
\* A rectangle is clipped at the edges of the framebuffer, a glyph is not.
draw_rect(p, cell) == IF Inside(p) THEN [p EXCEPT !.rows[p.y][p.x] = cell] ELSE p
putchar_fast(p, c) == IF Inside(p) THEN [p EXCEPT !.rows[p.y][p.x] = @ \cup {c}] ELSE [p EXCEPT !.astray = TRUE]

\* Rows move up and the last one is blank.
scroll_up_keeps_last(p) == [p EXCEPT !.rows = [y \in DOMAIN @ |-> IF y + 1 \in DOMAIN @ THEN @[y + 1] ELSE @[y]]]
scroll_up(p) == [p EXCEPT !.rows = [y \in DOMAIN @ |-> IF y + 1 \in DOMAIN @ THEN @[y + 1] ELSE Blank]]
RowUp(p) == [p EXCEPT !.y = (@ - 1) % Wrap]
RowDown(p, y) == [p EXCEPT !.x = 0, !.y = (y + 1) % Wrap]
BelowBottom(y) == (y + 1) % Wrap > Rows

\* Paper has no bottom; the last Rows lines of it are kept.
NextLine(p) ==
    LET lines == [y \in 0..p.y + 1 |-> IF y > p.y THEN Blank ELSE p.rows[y]]
        first == IF p.y + 1 < Rows THEN 0 ELSE 1
    IN  [p EXCEPT !.rows = [y \in 0..p.y + 1 - first |-> lines[y + first]], !.x = 0, !.y = @ + 1 - first]
NewLine(p) ==
    IF p.endless THEN NextLine(p)
    ELSE LET q == RowDown(p, p.y) IN IF BelowBottom(q.y) THEN RowUp(scroll_up(q)) ELSE q

Wraps(p, c) == IF c = TAB4 THEN (p.x + 1) % Wrap >= Cols ELSE (p.x + 1) % Wrap > Cols
Right(p) == [p EXCEPT !.x = (@ + 1) % Wrap]
Left(p) == [p EXCEPT !.x = (@ - 1) % Wrap]
Wrapped(p, c) == IF Wraps(p, c) THEN NewLine(p) ELSE p

Tab(p) == Right(Wrapped(p, TAB4))
putchar(p, c) ==
    IF c = NL THEN NewLine(p)
    ELSE IF c = CR THEN [p EXCEPT !.x = 0]
    ELSE IF c = TAB4 THEN Tab(Tab(Tab(Tab(p))))
    ELSE IF c = BS THEN IF p.x >= 1 THEN draw_rect(Left(p), {}) ELSE p
    ELSE Right(putchar_fast(Wrapped(p, c), c))

\* The page after each character of a text.
Putting(p, text) ==
    LET after[n \in 0..Len(text)] == IF n = 0 THEN p ELSE putchar(after[n - 1], text[n])
    IN  after
string(p, text) == Putting(p, text)[Len(text)]
shell_print_prompt(p) == string(p, <<NL, Prompt>>)

\* The rectangle over the whole screen, and the cursor at its start.
console_window_clear(p) == [p EXCEPT !.rows = [y \in (IF p.endless THEN {0} ELSE DOMAIN @) |-> Blank], !.x = 0, !.y = 0]

----------------------------------------------------------------------------
(* The boot log, a character at a time                                      *)

Log(l, p) ==
    /\ log' = l /\ screen' = p
    /\ UNCHANGED <<input_len, input_pos, input_start_x, cursor_visible, boot_completed, early, cleared, overfull>>

\* A glyph or a tab looks whether it must wrap; a newline begins at its line.
LogChar ==
    /\ ~boot_completed /\ log = NoLog
    /\ \E c \in Putable :
          /\ paper' = IF early = 0 THEN putchar(paper, c) ELSE paper
          /\ IF c \in {CR, BS} THEN Log(NoLog, putchar(screen, c))
             ELSE Log([at |-> IF c = NL THEN "line" ELSE "test", c |-> c, n |-> IF c = TAB4 THEN 4 ELSE 1, y |-> screen.y], screen)

LogTest ==
    /\ log.at = "test" /\ UNCHANGED paper
    /\ Log([log EXCEPT !.at = IF Wraps(screen, log.c) THEN "line" ELSE "draw", !.y = screen.y], screen)

\* The row that the compiled code adds to, and the one it compares, may be in a register.
LogLine ==
    /\ log.at = "line" /\ UNCHANGED paper
    /\ \E y \in {screen.y, log.y} : Log([log EXCEPT !.at = "bottom", !.y = (y + 1) % Wrap], RowDown(screen, y))

LogDone == IF log.c = NL THEN NoLog ELSE [log EXCEPT !.at = "draw"]
LogBottom ==
    /\ log.at = "bottom" /\ UNCHANGED paper
    /\ \E y \in {screen.y, log.y} :
          IF BelowBottom(y) THEN Log([log EXCEPT !.at = "scrolled"], scroll_up(screen)) ELSE Log(LogDone, screen)
LogScrolled == log.at = "scrolled" /\ Log(LogDone, RowUp(screen)) /\ UNCHANGED paper

LogDraw ==
    /\ log.at = "draw" /\ UNCHANGED paper
    /\ Log(IF log.n > 1 THEN [log EXCEPT !.at = "test", !.n = @ - 1] ELSE NoLog,
           Right(IF log.c = TAB4 THEN screen ELSE putchar_fast(screen, log.c)))

----------------------------------------------------------------------------
(* The cursor and the line typed                                            *)

AtCursor(p) == IF Inside(p) THEN p.rows[p.y][p.x] ELSE {}
cursor_c(p) == draw_rect(p, AtCursor(p) \ {"_"})
cursor_draw(p) == draw_rect(p, AtCursor(p) \cup (IF cursor_visible THEN {"_"} ELSE {}))

\* From the start of the input to the end of the row the screen is blank before the text is put.
redraw_input_line(p, text, pos) ==
    LET from == [p EXCEPT !.x = input_start_x]
        bare == IF p.y \in DOMAIN p.rows
                THEN [from EXCEPT !.rows[p.y] = [x \in DOMAIN @ |-> IF x >= input_start_x THEN {} ELSE @[x]]] ELSE from
    IN  cursor_draw([string(bare, text) EXCEPT !.x = (input_start_x + pos) % Wrap])

\* Both pages get what Op does to them, until a key is pressed before the boot is over.
OnPages(Op(_)) == screen' = Op(screen) /\ paper' = IF early' = 0 THEN Op(paper) ELSE BarePage(1, TRUE)
Key(Op(_)) ==
    /\ early' = early + (IF boot_completed THEN 0 ELSE 1) /\ early' <= MaxEarly
    /\ OnPages(Op) /\ UNCHANGED log

Texts == UNION {[1..n -> Glyphs] : n \in 0..MAX_INPUT_LEN}

\* A key that changes the line, brings one back from the history or moves to an end of it.
KeyRedraws ==
    /\ \E text \in Texts, pos \in 0..MAX_INPUT_LEN :
          /\ pos <= Len(text) /\ input_len' = Len(text) /\ input_pos' = pos
          /\ Key(LAMBDA p : redraw_input_line(cursor_c(p), text, pos))
    /\ cursor_visible' \in {cursor_visible, TRUE} /\ UNCHANGED <<input_start_x, boot_completed, cleared, overfull>>

\* The line is full: the character is put and not kept.
KeyWhenFull ==
    /\ input_len = MAX_INPUT_LEN /\ cursor_visible' = TRUE /\ overfull' = TRUE
    /\ \E c \in Glyphs : Key(LAMBDA p : putchar(cursor_c(p), c))
    /\ UNCHANGED <<input_len, input_pos, input_start_x, boot_completed, cleared>>

KeyLeft ==
    /\ input_pos > 0 /\ input_pos' = input_pos - 1 /\ Key(LAMBDA p : cursor_draw(Left(cursor_c(p))))
    /\ UNCHANGED <<input_len, input_start_x, cursor_visible, boot_completed, cleared, overfull>>
KeyRight ==
    /\ input_pos < input_len /\ input_pos' = input_pos + 1 /\ Key(LAMBDA p : cursor_draw(Right(cursor_c(p))))
    /\ UNCHANGED <<input_len, input_start_x, cursor_visible, boot_completed, cleared, overfull>>

\* An arrow at the end of the line or of the history, or a key without a meaning.
KeyIdle ==
    /\ Key(cursor_c) \/ Key(LAMBDA p : cursor_draw(cursor_c(p)))
    /\ UNCHANGED <<input_len, input_pos, input_start_x, cursor_visible, boot_completed, cleared, overfull>>

\* What is in front of the cursor is run, and puts a text or clears the screen.
Prompted(p) == IF boot_completed THEN shell_print_prompt(p) ELSE p
KeyEnter ==
    /\ \/ input_pos = 0 /\ Key(LAMBDA p : Prompted(cursor_c(p))) /\ UNCHANGED <<input_len, cleared>>
       \/ /\ input_pos > 0 /\ input_len' = 0
          /\ \/ /\ \E text \in Outputs : Key(LAMBDA p : Prompted(string(cursor_c(p), text)))
                /\ UNCHANGED cleared
             \/ Key(LAMBDA p : Prompted(console_window_clear(p))) /\ cleared' = (cleared \/ ~boot_completed)
    /\ input_pos' = 0 /\ input_start_x' = screen'.x /\ cursor_visible' = TRUE /\ UNCHANGED <<boot_completed, overfull>>

\* Ctrl-C: a new prompt.
KeyCancels ==
    /\ Key(LAMBDA p : shell_print_prompt(cursor_c(p)))
    /\ input_pos' = 0 /\ input_len' = 0 /\ cursor_visible' = TRUE /\ UNCHANGED <<input_start_x, boot_completed, cleared, overfull>>

\* The end of the boot code: console_init, a newline and the first prompt.
BootEnds ==
    /\ ~boot_completed /\ log = NoLog /\ boot_completed' = TRUE /\ cursor_visible' = TRUE /\ UNCHANGED <<log, early, cleared, overfull>>
    /\ OnPages(LAMBDA p : shell_print_prompt(putchar(draw_rect(p, AtCursor(p) \cup {"_"}), NL)))
    /\ input_pos' = 0 /\ input_len' = 0 /\ input_start_x' = screen'.x

\* The timer's callback every CURSOR_BLINK_RATE calls.
cursor_timer_callback ==
    /\ boot_completed /\ cursor_visible' = ~cursor_visible
    /\ Key(LAMBDA p : draw_rect(p, (AtCursor(p) \ {"_"}) \cup (IF cursor_visible' THEN {"_"} ELSE {})))
    /\ UNCHANGED <<input_len, input_pos, input_start_x, boot_completed, cleared, overfull>>

ScreenNext ==
    \/ LogChar \/ LogTest \/ LogLine \/ LogBottom \/ LogScrolled \/ LogDraw \/ BootEnds
    \/ KeyRedraws \/ KeyWhenFull \/ KeyLeft \/ KeyRight \/ KeyIdle \/ KeyEnter
    \/ KeyCancels \/ cursor_timer_callback

ScreenSpec == ScreenInit /\ [][ScreenNext]_screenVars

----------------------------------------------------------------------------
(* Properties                                                               *)

\* When no key was pressed before the boot was over, the screen shows the last lines of the
\* text up to the cursor's row and nothing below, however lines and the input wrap and scroll
\* (putchar, scroll_up, redraw_input_line).  No glyph is drawn outside, as long as the line was
\* not full: a key then moves the cursor without the line, and the arrow may take it below 0.
\* An early key, which may come in the middle of putchar, may cost glyphs and lines, yet the
\* cursor's row is in the window when putchar is done, unless the key made the screen clear.
TextShown ==
    log = NoLog =>
      /\ ~cleared => screen.y < Rows
      /\ early = 0 => /\ (~overfull => ~screen.astray) /\ screen.x = paper.x /\ screen.y = paper.y
                      /\ \A y \in 0..Rows - 1 :
                           screen.rows[y] = IF y \in DOMAIN paper.rows THEN paper.rows[y] ELSE Blank
=============================================================================
