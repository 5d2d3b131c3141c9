-------------------------------- MODULE Gui --------------------------------
(***************************************************************************)
(* The window manager of src/core/gui/gui.c: the array of windows, which    *)
(* is also the stacking order, the pools of program states, the taskbar,    *)
(* the focus, the drag, and the redrawing at the timer's pace.              *)
(*                                                                         *)
(* Where a window lies is left out: a click may meet any window that is     *)
(* shown, at any of its parts.  A pointer to a window is its index, and     *)
(* stays that index when the array is shifted under it, as in the code.     *)
(* A slot of the array beyond window_count keeps what it held, because      *)
(* gui_create_window sets only some of the fields.                          *)
(*                                                                         *)
(* An event of a USB device is handled by the main loop, where frames are   *)
(* drawn and events of PS/2 devices, which are interrupts, are handled in   *)
(* the middle of it.  Such an event between the work on the windows and the *)
(* last assignments is modelled as it is; one in the middle of that work    *)
(* finds it half done, and what becomes of the windows then is not          *)
(* modelled (raced).                                                        *)
(***************************************************************************)
EXTENDS Naturals, Sequences, SequencesExt, FiniteSets

CONSTANTS MAX_WINDOWS, MAX_DIRTY_RECTS,
          Programs,     \* the windows that have a state from a pool
          Dialogs,      \* the other windows the menu opens
          MaxOpened     \* bound: windows opened, in all sessions together

NoTitle == ""    \* of the start menu

ASSUME GuiAssumption == MAX_WINDOWS \in Nat \ {0} /\ MAX_DIRTY_RECTS \in Nat
                        /\ MaxOpened \in Nat /\ "Terminal" \in Programs
                        /\ Dialogs \cap Programs = {} /\ NoTitle \notin Programs

VARIABLES gui,          \* gui_state and the pools' *_used flags
          running,      \* gui_running
          redraw,       \* gui_needs_redraw
          dirty,        \* dirty_rect_count
          button,       \* last_buttons & 1
          handling,     \* the main loop's event: "none", "inside" its handler, or, at its end,
                        \* what becomes of last_buttons: "kept", "down" or "up"
          screen,       \* auxiliary: "shown" as the windows are, "drawn over" since, or "old"
          raced,        \* auxiliary: an interrupt entered a handler while the main loop was inside one
          lost,         \* auxiliary: states in use when the GUI was started anew
          opened        \* auxiliary: number of windows opened so far

guiVars == <<gui, running, redraw, dirty, button, handling, screen, raced, lost, opened>>

Index == 1..MAX_WINDOWS
Empty == [id |-> 0, title |-> "none", focused |-> FALSE, state |-> "normal",
          is |-> {}, slot |-> [p \in Programs |-> 0]]

\* What is drawn, apart from coordinates: a window that is not minimised with its title bar
\* and, by its title, the contents of the program's state; a taskbar button with the title of
\* the window of its own index.
DrawnWindow(w) ==
    IF w.state = "minimized" THEN <<>>
    ELSE IF w.title \in Programs THEN <<w.title, w.state, w.focused, w.slot[w.title]>>
    ELSE <<w.title, w.state, w.focused>>
DrawnTaskbar(g) == [b \in 1..Len(g.bar) |-> g.windows[b].title]
Picture(g) == <<[i \in 1..g.count |-> DrawnWindow(g.windows[i])], DrawnTaskbar(g)>>

----------------------------------------------------------------------------
(* Operations on the state, as functions from it to the next one.           *)

WithFocus(w, f) == [w EXCEPT !.focused = f]

\* A new window takes over what the fields that are not set held in its slot.
NewWindow(w, id, title) ==
    [id |-> id, title |-> title, focused |-> TRUE, state |-> w.state, is |-> w.is \ {"Terminal"}, slot |-> w.slot]

WithWindow(g, title) ==
    [i \in Index |-> IF i <= g.count THEN WithFocus(g.windows[i], FALSE)
                     ELSE IF i = g.count + 1 THEN NewWindow(g.windows[i], g.next_id, title)
                     ELSE g.windows[i]]

Created(g, title) ==
    IF g.count >= MAX_WINDOWS THEN g
    ELSE [g EXCEPT !.count = @ + 1, !.next_id = @ + 1, !.windows = WithWindow(g, title)]

FirstOf(S) == {s \in S : \A t \in S : s <= t}

\* The first button with the id is taken out of the taskbar.
Unbuttoned(bar, id) ==
    {RemoveAt(bar, b) : b \in FirstOf({b \in DOMAIN bar : bar[b] = id})}
    \cup (IF id \in Range(bar) THEN {} ELSE {bar})

ShiftedDown(windows, i, last) ==
    [j \in Index |-> IF j \in i..last - 1 THEN windows[j + 1] ELSE windows[j]]

\* The program states of a window are free again, and the window lets go of them.
Released(g, i) == [p \in Programs |-> g.used[p] \ {g.windows[i].slot[p]}]
Stateless(w) == [w EXCEPT !.slot = [p \in Programs |-> 0]]

DestroyedKeepsButton(g, i) ==
    {[g EXCEPT !.used = Released(g, i),
               !.windows = ShiftedDown([g.windows EXCEPT ![i] = Stateless(@)], i, g.count), !.count = @ - 1]}

Destroyed(g, i) ==
    {[g EXCEPT !.used = Released(g, i),
               !.bar = bar,
               !.windows = ShiftedDown([g.windows EXCEPT ![i] = Stateless(@)], i, g.count),
               !.count = @ - 1] : bar \in Unbuttoned(g.bar, g.windows[i].id)}

\* The window is moved to the end of the array; the flag and the id are then those of
\* whatever window the old index designates.
Focused(g, i) ==
    IF g.focused_id = g.windows[i].id THEN g
    ELSE LET moved == [ShiftedDown(g.windows, i, g.count) EXCEPT ![g.count] = g.windows[i]]
         IN [g EXCEPT !.windows = [j \in Index |->
                            IF j <= g.count THEN WithFocus(moved[j], j = i) ELSE moved[j]],
                      !.focused_id = moved[i].id]

\* Either is undone by the same button.
Toggled(w, state) == [w EXCEPT !.state = IF @ = state THEN "normal" ELSE state]
Minimized(g, i) == [g EXCEPT !.windows = [g.windows EXCEPT ![i] = Toggled(@, "minimized")]]
Maximized(g, i) == [g EXCEPT !.windows = [g.windows EXCEPT ![i] = Toggled(@, "maximized")]]

FreeSlots(g, p) == Index \ g.used[p]

OfProgram(w, p) == [w EXCEPT !.is = @ \cup {p}]
WithState(g, p, i, s) ==
    [g EXCEPT !.windows = [g.windows EXCEPT ![i] = [OfProgram(@, p) EXCEPT !.slot[p] = s]],
              !.used = [g.used EXCEPT ![p] = @ \cup {s}],
              !.bar = IF Len(@) < MAX_WINDOWS THEN Append(@, g.windows[i].id) ELSE @]

\* A window of a program; it is closed again when no state is free.
Launched(g, p) ==
    LET h == Created(g, p)
        i == h.count
    IN IF g.count >= MAX_WINDOWS THEN {g}
       ELSE IF FreeSlots(h, p) = {} THEN Destroyed([h EXCEPT !.windows = [h.windows EXCEPT ![i] = OfProgram(@, p)]], i)
       ELSE {WithState(h, p, i, s) : s \in FirstOf(FreeSlots(h, p))}

\* The start menu, a window without a title, is closed or opened.
StartButton(g) ==
    LET menus == {i \in 1..g.count : g.windows[i].title = NoTitle}
    IN IF menus # {} THEN UNION {Destroyed(g, i) : i \in FirstOf(menus)} ELSE {Created(g, NoTitle)}

\* A point may be on any button of the taskbar, or, for gui_get_window_at_point, on any
\* window that is not minimised.
TaskbarHit(g) == 1..Len(g.bar)
Hit(g) == {i \in 1..g.count : g.windows[i].state # "minimized"}

Dragged(g, mode, i) == [g EXCEPT !.drag = [mode |-> mode, at |-> i]]
Undragged(g) == Dragged(g, "none", 0)

\* The outcomes of a click on the window with index i, by the part that is met.
ClickOn(g, i) ==
    LET h == Focused(g, i) IN
    IF h.windows[i].title = NoTitle
    THEN {h} \cup {Created(h, d) : d \in Dialogs} \cup (UNION {Launched(h, p) : p \in Programs})
    ELSE Destroyed(h, i) \cup
         {h, Minimized(h, i), Maximized(h, i),
          Dragged(IF h.windows[i].state = "maximized" THEN Maximized(h, i) ELSE h, "drag", i),
          Dragged(h, "resize", i)}

ClickKeepsDrag(g) ==
    {Minimized(g, b) : b \in TaskbarHit(g)}
    \cup (UNION {ClickOn(g, i) : i \in Hit(g)})
    \cup StartButton(g) \cup {g}

gui_handle_mouse_click(g0) ==
    LET g == Undragged(g0) IN
    {Minimized(g, b) : b \in TaskbarHit(g)}
    \cup (UNION {ClickOn(g, i) : i \in Hit(g)})
    \cup StartButton(g) \cup {g}

gui_handle_mouse_release(g) == IF g.drag.mode = "drag" THEN Undragged(g) ELSE g

\* Where a key goes: to the program of the first window that has the focus, or to the
\* terminal found by its title, which is focused first and then looked up by index again.
FocusedWindows(g) == {i \in 1..g.count : g.windows[i].focused}
Terminals(g) == {i \in 1..g.count : g.windows[i].title = "Terminal"}
Takes(w, p) == p \in w.is /\ w.slot[p] # 0

KeyTo(g) ==
    LET focused == FirstOf(FocusedWindows(g))
        terminal == \E f \in focused : Takes(g.windows[f], "Terminal")
        editor == \E f \in focused : "Text Editor" \in Programs /\ Takes(g.windows[f], "Text Editor")
    IN IF terminal \/ editor \/ Terminals(g) = {} THEN {[next |-> g, terminal |-> terminal]}
       ELSE {[next |-> Focused(g, t), terminal |-> Focused(g, t).windows[t].slot["Terminal"] # 0] :
               t \in FirstOf(Terminals(g))}

----------------------------------------------------------------------------
(* What an event does to the windows                                        *)

\* The handler leaves g behind; content tells whether it changes what is inside a window.
Event(g, content) ==
    /\ gui' = g
    /\ lost' = [p \in Programs |-> lost[p] \cap g.used[p]]
    /\ opened' = opened + g.next_id - gui.next_id
    /\ redraw' = TRUE
    /\ screen' = IF content \/ Picture(g) # Picture(gui) THEN "old" ELSE screen

\* A rectangle joins one it touches or is added; with no room left everything is drawn anew.
gui_mark_dirty(n) == IF n < MAX_DIRTY_RECTS THEN {n, n + 1} \ {0} ELSE {n}

\* gui_move_window and gui_resize_window only note the area they changed, a short move in up
\* to two rectangles.
MoveOrResize(g) ==
    IF g.drag.mode = "none" THEN UNCHANGED dirty
    ELSE dirty' \in gui_mark_dirty(dirty) \cup (IF g.drag.mode # "drag" THEN {}
                                                ELSE {dirty} \cup UNION {gui_mark_dirty(n) : n \in gui_mark_dirty(dirty)})

\* gui_mouse_event_handler with the button going down, going up, or as it was; a
\* move with the button down moves or resizes the window the drag points to.
Press ==
    /\ \E g \in gui_handle_mouse_click(gui) :
          /\ opened + g.next_id - gui.next_id <= MaxOpened
          /\ Event(g, g.drag.mode = "resize")
          /\ MoveOrResize(g)
    /\ UNCHANGED running

Release ==
    /\ Event(gui_handle_mouse_release(gui), FALSE)
    /\ UNCHANGED <<running, dirty>>

Move(down) ==
    /\ Event(gui, down /\ gui.drag.mode # "none")
    /\ IF down THEN MoveOrResize(gui) ELSE UNCHANGED dirty
    /\ UNCHANGED running

\* A key; the command exit may be entered in a terminal.
gui_handle_key ==
    /\ \E key \in KeyTo(gui) :
          /\ Event(key.next, TRUE)
          /\ running' \in {TRUE} \cup (IF key.terminal THEN {FALSE} ELSE {})
    /\ UNCHANGED dirty

Events == {"press", "release", "move down", "move up", "key"}

\* Which events a report is depends on the button when the handler starts.
Starts(e) == CASE e \in {"press", "move up"} -> ~button
               [] e \in {"release", "move down"} -> button
               [] OTHER -> TRUE

Handle(e) ==
    \/ e = "press" /\ Press
    \/ e = "release" /\ Release
    \/ e \in {"move down", "move up"} /\ Move(e = "move down")
    \/ e = "key" /\ gui_handle_key

\* What the handler of a mouse writes into last_buttons at its end.
Buttons(e) == IF e = "key" THEN "kept" ELSE IF e \in {"press", "move down"} THEN "down" ELSE "up"
ButtonAfter(b) == IF b = "kept" THEN button ELSE b = "down"

----------------------------------------------------------------------------
(* Actions                                                                  *)

GuiInit ==
    /\ gui = [windows |-> [i \in Index |-> Empty], count |-> 0, bar |-> <<>>, focused_id |-> 0,
              next_id |-> 0, used |-> [p \in Programs |-> {}], drag |-> [mode |-> "none", at |-> 0]]
    /\ running = FALSE /\ redraw = TRUE /\ dirty = 0 /\ button = FALSE
    /\ handling = "none" /\ screen = "old" /\ raced = FALSE
    /\ lost = [p \in Programs |-> {}] /\ opened = 0

\* The command gui: counts, focus, ids and the drag are reset, but neither the flags of
\* the pools, nor the array, nor a resize.
gui_init ==
    /\ ~running /\ handling = "none"
    /\ gui' = [gui EXCEPT !.count = 0, !.bar = <<>>, !.focused_id = 0, !.next_id = 1,
                          !.drag.mode = IF @ = "drag" THEN "none" ELSE @]
    /\ running' = TRUE /\ redraw' = TRUE /\ screen' = "old"
    /\ lost' = gui.used
    /\ UNCHANGED <<dirty, button, handling, raced, opened>>

\* A PS/2 device's interrupt runs its handler to the end, also while the main loop is at the
\* end of the handling of a USB device's event.
Interrupt ==
    /\ running /\ handling # "inside"
    /\ \E e \in Events : Starts(e) /\ Handle(e) /\ button' = ButtonAfter(Buttons(e))
    /\ UNCHANGED <<handling, raced>>

\* An interrupt in the middle of that handling changes windows that the main loop is changing.
InterruptInside ==
    /\ running /\ handling = "inside"
    /\ raced' = TRUE
    /\ UNCHANGED <<gui, running, redraw, dirty, button, handling, screen, lost, opened>>

\* The main loop has a report of a USB device, works on the windows, and comes to the last
\* assignments.
EventBegins ==
    /\ running /\ handling = "none"
    /\ handling' = "inside"
    /\ UNCHANGED <<gui, running, redraw, dirty, button, screen, raced, lost, opened>>

EventWorks ==
    /\ handling = "inside" /\ ~raced
    /\ \E e \in Events : Starts(e) /\ Handle(e) /\ handling' = Buttons(e)
    /\ UNCHANGED <<button, raced>>

EventReturnsUnmarked ==
    /\ handling \in {"kept", "down", "up"}
    /\ handling' = "none" /\ button' = ButtonAfter(handling) /\ screen' = "old"
    /\ UNCHANGED <<gui, running, redraw, dirty, raced, lost, opened>>

EventReturns ==
    /\ handling \in {"kept", "down", "up"}
    /\ handling' = "none" /\ button' = ButtonAfter(handling) /\ screen' = "old"
    /\ redraw' = TRUE
    /\ UNCHANGED <<gui, running, dirty, raced, lost, opened>>

\* The rectangles are filled with the colour of the desktop and every window that meets one
\* is drawn whole, over a wallpaper and over windows in front of it that meet none.
gui_redraw_region ==
    /\ dirty' = 0
    /\ screen' \in {screen} \cup (IF screen = "shown" THEN {"drawn over"} ELSE {})

\* A frame, when enough ticks have passed since the one before.
gui_run ==
    /\ running
    /\ redraw \/ dirty > 0
    /\ redraw' = FALSE
    /\ IF redraw THEN screen' = "shown" /\ UNCHANGED dirty
                 ELSE gui_redraw_region
    /\ UNCHANGED <<gui, running, button, handling, raced, lost, opened>>

MainLoop == EventWorks \/ EventReturns
Unknown == raced /\ UNCHANGED guiVars
GuiNext == gui_init \/ Interrupt \/ InterruptInside \/ EventBegins \/ MainLoop \/ gui_run \/ Unknown

\* The main loop goes on with the event it handles, and the timer keeps ticking.
GuiSpec == GuiInit /\ [][GuiNext]_guiVars /\ WF_guiVars(MainLoop) /\ WF_guiVars(gui_run)

----------------------------------------------------------------------------
(* Properties                                                               *)

IdsDistinct(g) == \A i, j \in 1..g.count : g.windows[i].id = g.windows[j].id => i = j
OneFocus(g) == \A i, j \in FocusedWindows(g) : i = j
ProgramWindows(g) == {i \in 1..g.count : g.windows[i].title \in Programs}
ButtonsFor(g, listed) == IsInjective(g.bar) /\ Range(g.bar) = {g.windows[i].id : i \in listed}

\* However windows are launched, closed, focused by click or key, and shifted in
\* their array, ids stay distinct, at most one window has the focus, and the taskbar has one
\* button for each program window and none for another (gui_create_window,
\* gui_destroy_window, gui_focus_window, launch_*_new).
WindowsConsistent == IdsDistinct(gui) /\ OneFocus(gui) /\ ButtonsFor(gui, ProgramWindows(gui))

\* A state taken from a pool in this session is referred to by an open window, so closing
\* the windows gives every state back (launch_*_new, gui_destroy_window).
HeldBut(g, old) ==
    \A p \in Programs : \A s \in g.used[p] \ old[p] : \E i \in 1..g.count : g.windows[i].slot[p] = s
StatesHeld == HeldBut(gui, lost)

\* The array of windows, the taskbar and the pools of states agree, as WindowsConsistent and
\* StatesHeld say, through any order of launches, closes, clicks and keys, until an interrupt
\* enters a handler while the main loop is inside one (gui.c has no lock).
WindowsAgree == ~raced => WindowsConsistent /\ StatesHeld

\* While the GUI runs, the window pointer kept in drag_state goes on designating an open
\* window, whatever clicks and keys do to the array: a release ends a drag but not a resize,
\* and gui_handle_mouse_move writes through the pointer at the next move.  Events
\* handled inside each other are excepted as in WindowsAgree.
DragPoints(g) == g.drag.mode # "none" => g.drag.at \in 1..g.count
DragInside == [][~raced /\ running /\ DragPoints(gui) => DragPoints(gui')]_guiVars

\* What an event changes is drawn by a later frame, even if frames are drawn and other events
\* handled in the middle of its handling, unless the GUI is left (gui_mouse_event_handler,
\* gui_handle_key, gui_run).  It need not stay on the screen: the frame after it may draw the
\* rectangles of a move over it (gui_redraw_region), and nothing asks for another frame then.
ChangesDrawn == []<>(screen # "old" \/ ~running \/ raced)

----------------------------------------------------------------------------
(* What the steps preserve                                                  *)

Window == [id : Nat, title : Programs \cup Dialogs \cup {NoTitle, "none"}, focused : BOOLEAN,
           state : {"normal", "minimized", "maximized"}, is : SUBSET Programs,
           slot : [Programs -> 0..MAX_WINDOWS]]
GuiStates == [windows : [Index -> Window], count : 0..MAX_WINDOWS, bar : Seq(Nat),
              focused_id : Nat, next_id : Nat, used : [Programs -> SUBSET Index],
              drag : [mode : {"none", "drag", "resize"}, at : 0..MAX_WINDOWS]]

\* An id given out is below the next one, so a new window's is a new one; listed are the
\* windows that have a button: in the middle of a launch, all program windows but the last.
Agrees(g, listed) ==
    /\ g \in GuiStates /\ IdsDistinct(g) /\ OneFocus(g) /\ ButtonsFor(g, listed)
    /\ \A i \in 1..g.count : g.windows[i].id < g.next_id

GuiInv == Agrees(gui, ProgramWindows(gui)) /\ HeldBut(gui, lost)
=============================================================================
