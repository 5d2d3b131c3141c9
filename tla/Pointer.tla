------------------------------- MODULE Pointer -------------------------------
(***************************************************************************)
(* The position of the pointer: two mouse drivers (drivers/ps2/mouse,       *)
(* drivers/usb/usb_mouse.c) with a position each, kept in pixels and, for   *)
(* the fractions, in hundredths of them, which tell each other where they   *)
(* are through their callbacks; and the drawing of the arrow, which saves   *)
(* what it covers.                                                          *)
(*                                                                         *)
(* The PS/2 handler, the timer that draws and the command line run with     *)
(* interrupts off, one action each.  A report of the USB mouse is handled   *)
(* in the main loop with interrupts on: one action per assignment that the  *)
(* other driver may fall in between.  Both axes are handled alike, but that *)
(* the PS/2 mouse counts y upwards.                                         *)
(***************************************************************************)
EXTENDS Integers

CONSTANTS Axes,             \* {"x", "y"}
          Size,             \* of the screen, by axis
          CURSOR,           \* the width and height of the arrow: 16
          Rels,             \* movements that packets tell of
          Deltas, WideDeltas,   \* and reports, of four bytes and of five or more, which xHCI may pass on
          Places,           \* coordinates given to the mousemove command
          Sensitivities     \* given to the sensitivity command: 1 .. 4

ASSUME PointerAssumption ==
    /\ CURSOR \in Nat \ {0} /\ Size \in [Axes -> Nat] /\ \A a \in Axes : Size[a] >= 2 * (CURSOR + 1)
    /\ Rels \subseteq -128..127 /\ Deltas \subseteq -128..127
    /\ Places \subseteq Nat /\ Sensitivities \subseteq Nat
ASSUME WideAssumption == WideDeltas \subseteq -32768..32767

VARIABLES mouse_at, mouse_accum, prev_mouse,     \* mouse_x, mouse_y and so on, by axis
          mouse_sensitivity_factor,
          usb_mouse_at, usb_mouse_accum,
          listener,                 \* who has the callbacks: the boot code, the GUI, nobody
          usb_step, next_at,        \* where usb_mouse_interrupt_handler is; next_x, next_y
          cursor_bg_valid, cursor_bg,   \* cursor_bg: where the saved pixels were taken
          placed,                   \* auxiliary: mousemove was given a place off the screen
          torn,                     \* auxiliary: drivers whose last move was interrupted by the other's
          moves                     \* auxiliary: moves since the arrow was drawn, 2 for more

ps2Ptr == <<mouse_at, mouse_accum, prev_mouse>>
usbPtr == <<usb_mouse_at, usb_mouse_accum>>
pointerVars == <<ps2Ptr, mouse_sensitivity_factor, usbPtr, listener, usb_step, next_at, cursor_bg_valid, cursor_bg,
                 placed, torn, moves>>

At == [Axes -> Int]
\* Division truncates towards zero.
Trunc(n, d) == IF n >= 0 THEN n \div d ELSE -((-n) \div d)
Pixels(accum) == [a \in Axes |-> Trunc(accum[a], 100)]
Hundredths(at) == [a \in Axes |-> at[a] * 100]

Edge(a) == Size[a] - CURSOR
Clamped(at) == [a \in Axes |-> IF at[a] < 0 THEN 0 ELSE IF at[a] >= Edge(a) THEN Edge(a) - 1 ELSE at[a]]

\* The hundredths follow where the position was held back.
ClampedAccumKept(at, accum) == accum
ClampedAccum(at, accum) == [a \in Axes |-> IF Clamped(at)[a] = at[a] THEN accum[a] ELSE Clamped(at)[a] * 100]

Moved == moves' = IF moves < 2 THEN moves + 1 ELSE 2

PointerInit ==
    /\ mouse_at = [a \in Axes |-> Size[a] \div 2] /\ mouse_accum = Hundredths(mouse_at) /\ prev_mouse = mouse_at
    /\ usb_mouse_at = mouse_at /\ usb_mouse_accum = mouse_accum
    /\ mouse_sensitivity_factor = 120 /\ listener = "boot"
    /\ usb_step = "idle" /\ next_at = mouse_at
    /\ cursor_bg_valid = FALSE /\ cursor_bg = mouse_at
    /\ placed = FALSE /\ torn = {} /\ moves = 0

----------------------------------------------------------------------------
(* The PS/2 mouse                                                           *)

\* A packet's movement in hundredths: faster if it is a large one.
Scaled(rel) ==
    LET fast == \E a \in Axes : rel[a] > 5 \/ rel[a] < -5
    IN  [a \in Axes |-> IF fast THEN Trunc(rel[a] * mouse_sensitivity_factor * 14, 10)
                        ELSE rel[a] * mouse_sensitivity_factor]

Torn == IF usb_step = "boot accum" THEN torn \cup {"ps2"} ELSE torn \ {"ps2"}

mouse_interrupt_handler_packet(rel) ==
    LET accum == [a \in Axes |-> IF a = "y" THEN mouse_accum[a] - Scaled(rel)[a] ELSE mouse_accum[a] + Scaled(rel)[a]]
        to == Clamped(Pixels(accum))
    IN
    /\ mouse_at' = to
    /\ mouse_accum' = ClampedAccum(Pixels(accum), accum)
    /\ prev_mouse' = mouse_at
    /\ IF listener = "gui"          \* gui_mouse_event_handler
       THEN usb_mouse_at' = to /\ usb_mouse_accum' = Hundredths(to)
       ELSE UNCHANGED usbPtr
    /\ placed' = FALSE /\ Moved /\ torn' = Torn \cup (IF usb_step # "idle" THEN {"usb"} ELSE {})
    /\ UNCHANGED <<mouse_sensitivity_factor, listener, usb_step, next_at, cursor_bg_valid, cursor_bg>>

cmd_mousemove(at) ==
    /\ mouse_at' = at /\ mouse_accum' = Hundredths(at)
    /\ placed' = (Clamped(at) # at) /\ torn' = Torn /\ Moved
    /\ UNCHANGED <<prev_mouse, mouse_sensitivity_factor, usbPtr, listener, usb_step, next_at, cursor_bg_valid, cursor_bg>>

mouse_set_sensitivity(factor) ==
    /\ mouse_sensitivity_factor' = IF factor < 10 THEN 10 ELSE IF factor > 500 THEN 500 ELSE factor
    /\ UNCHANGED <<ps2Ptr, usbPtr, listener, usb_step, next_at, cursor_bg_valid, cursor_bg, placed, torn, moves>>

----------------------------------------------------------------------------
(* The USB mouse                                                            *)

\* A large movement counts twice, in 16 bits.
Int16(n) == ((n + 32768) % 65536) - 32768
Doubled(d) == IF d > 10 \/ d < -10 THEN Int16(2 * d) ELSE d

\* A report of fewer than four bytes changes nothing.
usb_mouse_interrupt_handler(delta) ==
    /\ usb_step = "idle"
    /\ usb_mouse_accum' = [a \in Axes |-> usb_mouse_accum[a] + Doubled(delta[a]) * 100]
    /\ next_at' = Pixels(usb_mouse_accum') /\ usb_step' = "clamp" /\ torn' = torn \ {"usb"}
    /\ UNCHANGED <<ps2Ptr, mouse_sensitivity_factor, usb_mouse_at, listener, cursor_bg_valid, cursor_bg, placed, moves>>

UsbClamp ==
    /\ usb_step = "clamp" /\ usb_step' = "store"
    /\ next_at' = Clamped(next_at) /\ usb_mouse_accum' = ClampedAccum(next_at, usb_mouse_accum)
    /\ UNCHANGED <<ps2Ptr, mouse_sensitivity_factor, usb_mouse_at, listener, cursor_bg_valid, cursor_bg, placed, torn, moves>>

UsbStore ==
    /\ usb_step = "store" /\ usb_step' = IF listener = "none" THEN "idle" ELSE listener
    /\ usb_mouse_at' = next_at
    /\ UNCHANGED <<ps2Ptr, mouse_sensitivity_factor, usb_mouse_accum, listener, next_at, cursor_bg_valid, cursor_bg,
                   placed, torn, moves>>

\* The boot code's mouse_callback moves the PS/2 pointer along, first its position.
mouse_callback ==
    \/ /\ usb_step = "boot" /\ usb_step' = "boot accum"
       /\ mouse_at' = next_at /\ placed' = FALSE /\ torn' = torn \ {"ps2"} /\ Moved
       /\ UNCHANGED <<mouse_accum, prev_mouse, mouse_sensitivity_factor, usbPtr, listener, next_at, cursor_bg_valid,
                      cursor_bg>>
    \/ /\ usb_step = "boot accum" /\ usb_step' = "idle"
       /\ mouse_accum' = Hundredths(next_at)
       /\ UNCHANGED <<mouse_at, prev_mouse, mouse_sensitivity_factor, usbPtr, listener, next_at, cursor_bg_valid,
                      cursor_bg, placed, torn, moves>>

\* The GUI tells the USB mouse where it is, and leaves the PS/2 pointer, whose arrow is drawn.
gui_mouse_event_handler ==
    /\ \/ usb_step = "gui" /\ usb_step' = "gui accum" /\ usb_mouse_at' = next_at /\ UNCHANGED usb_mouse_accum
       \/ /\ usb_step = "gui accum" /\ usb_step' = "idle"
          /\ usb_mouse_accum' = Hundredths(next_at) /\ UNCHANGED usb_mouse_at
    /\ UNCHANGED <<ps2Ptr, mouse_sensitivity_factor, listener, next_at, cursor_bg_valid, cursor_bg, placed, torn, moves>>

----------------------------------------------------------------------------
\* gui_init and the exit command of the GUI's terminal.
SetCallbacks(to) ==
    /\ to # listener /\ listener' = to
    /\ UNCHANGED <<ps2Ptr, mouse_sensitivity_factor, usbPtr, usb_step, next_at, cursor_bg_valid, cursor_bg, placed, torn, moves>>

\* What the arrow covered is put back at prev_mouse if the pointer is elsewhere now.
DrawKeepsPrev ==
    /\ cursor_bg_valid' = TRUE /\ cursor_bg' = mouse_at /\ moves' = 0
    /\ UNCHANGED <<ps2Ptr, mouse_sensitivity_factor, usbPtr, listener, usb_step, next_at, placed, torn>>
mouse_draw_cursor ==
    /\ cursor_bg_valid' = TRUE /\ cursor_bg' = mouse_at /\ prev_mouse' = mouse_at /\ moves' = 0
    /\ UNCHANGED <<mouse_at, mouse_accum, mouse_sensitivity_factor, usbPtr, listener, usb_step, next_at, placed, torn>>

PointerNext ==
    \/ \E rel \in [Axes -> Rels] : mouse_interrupt_handler_packet(rel)
    \/ \E delta \in [Axes -> Deltas] \cup [Axes -> WideDeltas] : usb_mouse_interrupt_handler(delta)
    \/ UsbClamp \/ UsbStore \/ mouse_callback \/ gui_mouse_event_handler
    \/ \E at \in [Axes -> Places] : cmd_mousemove(at)
    \/ \E s \in Sensitivities : mouse_set_sensitivity(s)
    \/ \E to \in {"gui", "none"} : SetCallbacks(to)
    \/ mouse_draw_cursor

PointerSpec == PointerInit /\ [][PointerNext]_pointerVars

----------------------------------------------------------------------------
(* Properties                                                               *)

Drivers == {"ps2", "usb"}
UsbSteps == {"idle", "clamp", "store", "boot", "boot accum", "gui", "gui accum"}
PointerTypeOK ==
    /\ mouse_at \in At /\ mouse_accum \in At /\ prev_mouse \in At /\ mouse_sensitivity_factor \in Int
    /\ usb_mouse_at \in At /\ usb_mouse_accum \in At /\ next_at \in At /\ cursor_bg \in At
    /\ listener \in {"boot", "gui", "none"} /\ usb_step \in UsbSteps
    /\ cursor_bg_valid \in BOOLEAN /\ placed \in BOOLEAN /\ torn \in SUBSET Drivers /\ moves \in 0..2

\* Both pointers stay where the whole arrow is on the screen, whichever driver moves them and
\* wherever a packet falls into the handling of a report, until a command puts them elsewhere.
PointersInside ==
    \A a \in Axes : (placed \/ mouse_at[a] \in 0..Size[a] - CURSOR) /\ usb_mouse_at[a] \in 0..Size[a] - CURSOR

\* The hundredths stand for the position, unless the driver's last move was interrupted by
\* one of the other's: a pointer held back at the edge starts back at once, and no move adds
\* to one that was forgotten.  What an interruption tears apart, the next move mends.
PointersSteady ==
    /\ usb_step # "boot accum" /\ "ps2" \notin torn => mouse_at = Pixels(mouse_accum)
    /\ usb_step = "idle" /\ "usb" \notin torn => usb_mouse_at = Pixels(usb_mouse_accum)

\* Both together: the pointers are where their moves add up to, on the screen.
PointersRight == PointersInside /\ PointersSteady

\* What makes it inductive: next_at is on the screen once it is clamped; and unless a packet
\* fell in, the position that is already stored and the hundredths that are not yet, or the
\* other way round, belong to next_at.
ReportInProgress ==
    /\ usb_step \notin {"idle", "clamp"} => \A a \in Axes : next_at[a] \in 0..Size[a] - CURSOR
    /\ usb_step = "boot accum" /\ "ps2" \notin torn => mouse_at = next_at
    /\ "usb" \notin torn =>
          /\ usb_step \in {"clamp", "store", "boot", "boot accum", "gui"} => next_at = Pixels(usb_mouse_accum)
          /\ usb_step \in {"boot", "boot accum", "gui", "gui accum"} => usb_mouse_at = next_at
PointerInv == PointersRight /\ ReportInProgress

\* The saved background is put back where it was taken, if the pointer moved at most once
\* since; after more moves prev_mouse is a place where no arrow was drawn.
BackgroundRestored == cursor_bg_valid /\ moves < 2 => prev_mouse = cursor_bg

\* With it, inductive: until the pointer moves it is where the arrow was drawn.
ArrowInv == BackgroundRestored /\ (cursor_bg_valid /\ moves = 0 => mouse_at = cursor_bg)
=============================================================================
