---------------------------- MODULE HandlerProofs ----------------------------
(***************************************************************************)
(* Proofs about the state that interrupt handlers keep: the pointer's two  *)
(* positions (Pointer), for every screen, movement and sensitivity, the    *)
(* timer's subscribers (Timer), for every number of slots, callbacks and   *)
(* intervals, the keys of both keyboards (Keyboard), for every number of   *)
(* keys held down and of slots in a report, and the text screen that keys  *)
(* write to between the steps of the boot log (Screen), for every window,  *)
(* line and output.                                                        *)
(***************************************************************************)
EXTENDS Keyboard, Pointer, Timer, Screen, Loops, SequenceTheorems, TLAPS

-----------------------------------------------------------------------------
(* Pixels and hundredths *)

LEMMA TruncInt == \A n \in Int, d \in Nat \ {0} : Trunc(n, d) \in Int
BY DEF Trunc

LEMMA TruncExact == \A n \in Int : Trunc(n * 100, 100) = n
BY DEF Trunc

LEMMA PixelsType == \A accum \in At : Pixels(accum) \in At /\ Hundredths(accum) \in At
BY TruncInt DEF At, Pixels, Hundredths

LEMMA PixelsOfHundredths == \A at \in At : Pixels(Hundredths(at)) = at
<1> SUFFICES ASSUME NEW at \in At PROVE Pixels(Hundredths(at)) = at
  OBVIOUS
<1>1. \A a \in Axes : Hundredths(at)[a] = at[a] * 100 /\ at[a] \in Int
  BY DEF At, Hundredths
<1>2. \A a \in Axes : Trunc(Hundredths(at)[a], 100) = at[a]
  BY <1>1, TruncExact
<1> QED BY <1>2 DEF Pixels, At

LEMMA Numbers == Rels \subseteq Int /\ Deltas \subseteq Int /\ WideDeltas \subseteq Int /\ Places \subseteq Int /\ Sensitivities \subseteq Int
BY PointerAssumption, WideAssumption

LEMMA EdgeFacts ==
  ASSUME NEW a \in Axes
  PROVE  Size[a] \in Nat /\ CURSOR \in Nat /\ Edge(a) \in Nat /\ Edge(a) >= 1 /\ Edge(a) = Size[a] - CURSOR
BY PointerAssumption DEF Edge

LEMMA ClampedInside ==
  \A at \in At : Clamped(at) \in At /\ \A a \in Axes : Clamped(at)[a] \in 0..Size[a] - CURSOR
<1> SUFFICES ASSUME NEW at \in At
             PROVE  Clamped(at) \in At /\ \A a \in Axes : Clamped(at)[a] \in 0..Size[a] - CURSOR
  OBVIOUS
<1>1. ASSUME NEW a \in Axes
      PROVE  Clamped(at)[a] \in Int /\ Clamped(at)[a] \in 0..Size[a] - CURSOR
  <2>1. Clamped(at)[a] = IF at[a] < 0 THEN 0 ELSE IF at[a] >= Edge(a) THEN Edge(a) - 1 ELSE at[a]
    BY DEF Clamped
  <2>2. at[a] \in Int
    BY DEF At
  <2> QED BY <2>1, <2>2, EdgeFacts
<1> QED BY <1>1 DEF Clamped, At

(* Where a position is held back, its hundredths are: they stand for the    *)
(* clamped position.                                                        *)
LEMMA ClampedSteady ==
  \A accum \in At : /\ ClampedAccum(Pixels(accum), accum) \in At
                    /\ Pixels(ClampedAccum(Pixels(accum), accum)) = Clamped(Pixels(accum))
<1> SUFFICES ASSUME NEW accum \in At
             PROVE  /\ ClampedAccum(Pixels(accum), accum) \in At
                    /\ Pixels(ClampedAccum(Pixels(accum), accum)) = Clamped(Pixels(accum))
  OBVIOUS
<1> DEFINE at == Pixels(accum)
           adjusted == ClampedAccum(at, accum)
<1>1. at \in At /\ Clamped(at) \in At
  BY PixelsType, ClampedInside
<1>2. \A a \in Axes : /\ accum[a] \in Int /\ at[a] = Trunc(accum[a], 100) /\ Clamped(at)[a] \in Int
                      /\ adjusted[a] = IF Clamped(at)[a] = at[a] THEN accum[a] ELSE Clamped(at)[a] * 100
  BY <1>1 DEF At, Pixels, ClampedAccum
<1>3. adjusted \in At
  BY <1>2 DEF At, ClampedAccum
<1>4. \A a \in Axes : Trunc(adjusted[a], 100) = Clamped(at)[a]
  BY <1>2, TruncExact
<1>5. Pixels(adjusted) = [a \in Axes |-> Trunc(adjusted[a], 100)]
  BY DEF Pixels
<1>6. Clamped(at) = [a \in Axes |-> Clamped(at)[a]]
  BY <1>1 DEF At
<1> QED BY <1>3, <1>4, <1>5, <1>6

(* A packet's movement adds up to hundredths. *)
LEMMA ScaledType ==
  ASSUME PointerTypeOK, NEW rel \in [Axes -> Rels], NEW a \in Axes
  PROVE  Scaled(rel)[a] \in Int
<1>1. rel[a] \in Int /\ mouse_sensitivity_factor \in Int
  BY Numbers DEF PointerTypeOK
<1>2. rel[a] * mouse_sensitivity_factor \in Int /\ rel[a] * mouse_sensitivity_factor * 14 \in Int
  BY <1>1
<1>3. Trunc(rel[a] * mouse_sensitivity_factor * 14, 10) \in Int
  BY <1>2, TruncInt
<1> QED BY <1>2, <1>3 DEF Scaled

LEMMA TornType == torn \in SUBSET Drivers => Torn \in SUBSET Drivers
BY DEF Torn, Drivers

-----------------------------------------------------------------------------
(* The types *)

LEMMA PointerTypeInit == PointerInit => PointerTypeOK
<1> SUFFICES ASSUME PointerInit PROVE PointerTypeOK
  OBVIOUS
<1>1. mouse_at \in At
  <2>1. ASSUME NEW a \in Axes PROVE Size[a] \div 2 \in Int
    BY EdgeFacts
  <2> QED BY <2>1 DEF PointerInit, At
<1>2. mouse_accum \in At
  BY <1>1, PixelsType DEF PointerInit
<1>3. prev_mouse = mouse_at /\ usb_mouse_at = mouse_at /\ usb_mouse_accum = mouse_accum /\ next_at = mouse_at
      /\ cursor_bg = mouse_at /\ mouse_sensitivity_factor \in Int /\ moves = 0
  BY DEF PointerInit
<1>4. cursor_bg_valid \in BOOLEAN /\ placed \in BOOLEAN /\ torn = {} /\ listener = "boot" /\ usb_step = "idle"
  BY DEF PointerInit
<1> QED BY <1>1, <1>2, <1>3, <1>4 DEF PointerTypeOK, UsbSteps

-----------------------------------------------------------------------------
(* The inductive invariant, action by action. *)

AllPointerInv == PointerTypeOK /\ PointerInv /\ ArrowInv

LEMMA PointerInvInit == PointerInit => AllPointerInv
<1> SUFFICES ASSUME PointerInit PROVE AllPointerInv
  OBVIOUS
<1>1. PointerTypeOK
  BY PointerTypeInit
<1>2. mouse_at = Pixels(mouse_accum)
  BY <1>1, PixelsOfHundredths DEF PointerInit, PointerTypeOK
<1>3. usb_mouse_at = mouse_at /\ usb_mouse_accum = mouse_accum /\ usb_step = "idle" /\ ~cursor_bg_valid
  BY DEF PointerInit
<1>4. ASSUME NEW a \in Axes PROVE mouse_at[a] \in 0..Size[a] - CURSOR
  <2>1. Size[a] \in Nat /\ CURSOR \in Nat /\ Size[a] >= 2 * (CURSOR + 1) /\ mouse_at[a] = Size[a] \div 2
    BY PointerAssumption DEF PointerInit
  <2> QED BY <2>1
<1>5. PointerInv
  BY <1>2, <1>3, <1>4 DEF PointerInv, PointersRight, PointersInside, PointersSteady, ReportInProgress
<1>6. ArrowInv
  BY <1>3 DEF ArrowInv, BackgroundRestored
<1> QED BY <1>1, <1>5, <1>6 DEF AllPointerInv

(* A packet of the PS/2 mouse, which may fall into a report. *)
LEMMA PacketStep ==
  ASSUME AllPointerInv, NEW rel \in [Axes -> Rels], mouse_interrupt_handler_packet(rel)
  PROVE  AllPointerInv'
<1> USE DEF AllPointerInv
<1> DEFINE accum == [a \in Axes |-> IF a = "y" THEN mouse_accum[a] - Scaled(rel)[a] ELSE mouse_accum[a] + Scaled(rel)[a]]
           to == Clamped(Pixels(accum))
<1>1. accum \in At
  <2>1. ASSUME NEW a \in Axes PROVE mouse_accum[a] \in Int /\ Scaled(rel)[a] \in Int
    BY ScaledType DEF PointerTypeOK, At
  <2> QED BY <2>1 DEF At
<1>2. /\ mouse_at' = to /\ mouse_accum' = ClampedAccum(Pixels(accum), accum) /\ prev_mouse' = mouse_at
      /\ \/ usb_mouse_at' = to /\ usb_mouse_accum' = Hundredths(to)
         \/ UNCHANGED usbPtr
      /\ moves' = (IF moves < 2 THEN moves + 1 ELSE 2)
      /\ torn' = Torn \cup (IF usb_step # "idle" THEN {"usb"} ELSE {})
      /\ UNCHANGED <<mouse_sensitivity_factor, listener, usb_step, next_at, cursor_bg_valid, cursor_bg>>
  BY DEF mouse_interrupt_handler_packet, Moved
<1>3. placed' = FALSE
  BY DEF mouse_interrupt_handler_packet
<1> HIDE DEF accum
<1>4. to \in At /\ \A a \in Axes : to[a] \in 0..Size[a] - CURSOR
  BY <1>1, PixelsType, ClampedInside
<1>5. mouse_accum' \in At /\ Pixels(mouse_accum') = to
  BY <1>1, <1>2, ClampedSteady
<1>6. Hundredths(to) \in At /\ Pixels(Hundredths(to)) = to
  BY <1>4, PixelsType, PixelsOfHundredths
<1> HIDE DEF to
<1>7. torn' \in SUBSET Drivers /\ moves' \in 0..2
  <2>1. torn' \in SUBSET Drivers
    BY <1>2, TornType DEF PointerTypeOK, Drivers
  <2>2. moves' \in 0..2
    BY <1>2 DEF PointerTypeOK
  <2> QED BY <2>1, <2>2
<1>8. PointerTypeOK'
  BY <1>2, <1>3, <1>4, <1>5, <1>6, <1>7 DEF PointerTypeOK, usbPtr
<1>9. PointersInside'
  BY <1>2, <1>4 DEF PointerInv, PointersRight, PointersInside, usbPtr
<1>10. PointersSteady'
  BY <1>2, <1>5, <1>6 DEF PointerInv, PointersRight, PointersSteady, usbPtr, Torn
<1>11. ReportInProgress'
  BY <1>2 DEF PointerInv, ReportInProgress, Torn
<1>12. ArrowInv'
  BY <1>2 DEF ArrowInv, BackgroundRestored, PointerTypeOK
<1> QED BY <1>8, <1>9, <1>10, <1>11, <1>12 DEF PointerInv, PointersRight

(* The commands mousemove and sensitivity. *)
LEMMA CommandStep ==
  ASSUME AllPointerInv,
         \/ \E at \in [Axes -> Places] : cmd_mousemove(at)
         \/ \E s \in Sensitivities : mouse_set_sensitivity(s)
  PROVE  AllPointerInv'
<1> USE DEF AllPointerInv
<1>1. ASSUME NEW at \in [Axes -> Places], cmd_mousemove(at) PROVE AllPointerInv'
  <2>1. at \in At
    BY Numbers DEF At
  <2>2. Hundredths(at) \in At /\ Pixels(Hundredths(at)) = at
    BY <2>1, PixelsType, PixelsOfHundredths
  <2>3. placed' \in BOOLEAN /\ (~placed' => Clamped(at) = at)
    BY <1>1 DEF cmd_mousemove
  <2>4. \A a \in Axes : Clamped(at)[a] \in 0..Size[a] - CURSOR
    BY <2>1, ClampedInside
  <2>5. /\ mouse_at' = at /\ mouse_accum' = Hundredths(at) /\ torn' = Torn
        /\ moves' = (IF moves < 2 THEN moves + 1 ELSE 2)
        /\ UNCHANGED <<prev_mouse, mouse_sensitivity_factor, usbPtr, listener, usb_step, next_at,
                       cursor_bg_valid, cursor_bg>>
    BY <1>1 DEF cmd_mousemove, Moved
  <2>6. PointerTypeOK'
    <3>1. torn' \in SUBSET Drivers
      BY <2>5, TornType DEF PointerTypeOK
    <3>2. moves' \in 0..2
      BY <2>5 DEF PointerTypeOK
    <3> QED BY <2>1, <2>2, <2>3, <2>5, <3>1, <3>2 DEF PointerTypeOK, usbPtr
  <2>7. PointersInside'
    BY <2>3, <2>4, <2>5 DEF PointerInv, PointersRight, PointersInside, usbPtr
  <2>8. PointersSteady'
    BY <2>2, <2>5 DEF PointerInv, PointersRight, PointersSteady, usbPtr, Torn
  <2>9. ReportInProgress'
    BY <2>5 DEF PointerInv, ReportInProgress, Torn, usbPtr
  <2>10. ArrowInv'
    BY <2>5 DEF ArrowInv, BackgroundRestored, PointerTypeOK
  <2> QED BY <2>6, <2>7, <2>8, <2>9, <2>10 DEF PointerInv, PointersRight
<1>2. ASSUME NEW s \in Sensitivities, mouse_set_sensitivity(s) PROVE AllPointerInv'
  <2>1. mouse_sensitivity_factor' \in Int
    BY <1>2, Numbers DEF mouse_set_sensitivity
  <2>2. UNCHANGED <<mouse_at, mouse_accum, prev_mouse, usb_mouse_at, usb_mouse_accum, listener, usb_step, next_at,
                    cursor_bg_valid, cursor_bg, placed, torn, moves>>
    BY <1>2 DEF mouse_set_sensitivity, ps2Ptr, usbPtr
  <2>3. PointerTypeOK'
    BY <2>1, <2>2 DEF PointerTypeOK
  <2>4. PointerInv' /\ ArrowInv'
    BY <2>2 DEF PointerInv, PointersRight, PointersInside, PointersSteady, ReportInProgress, ArrowInv,
                BackgroundRestored
  <2> QED BY <2>3, <2>4
<1> QED BY <1>1, <1>2

(* The assignments of a report of the USB mouse, up to the callback. *)
LEMMA ReportStep ==
  ASSUME AllPointerInv, \/ \E delta \in [Axes -> Deltas] \cup [Axes -> WideDeltas] : usb_mouse_interrupt_handler(delta)
                        \/ UsbClamp \/ UsbStore
  PROVE  AllPointerInv'
<1> USE DEF AllPointerInv
<1>1. ASSUME NEW delta \in [Axes -> Deltas] \cup [Axes -> WideDeltas], usb_mouse_interrupt_handler(delta) PROVE AllPointerInv'
  <2>1. usb_mouse_accum' \in At
    <3>1. ASSUME NEW a \in Axes PROVE usb_mouse_accum[a] + Doubled(delta[a]) * 100 \in Int
      <4>1. delta[a] \in Int /\ usb_mouse_accum[a] \in Int
        BY Numbers DEF PointerTypeOK, At
      <4>2. Int16(2 * delta[a]) \in Int
        BY <4>1 DEF Int16
      <4>3. Doubled(delta[a]) \in Int
        BY <4>1, <4>2 DEF Doubled
      <4> QED BY <4>1, <4>3
    <3> QED BY <1>1, <3>1 DEF usb_mouse_interrupt_handler, At
  <2>2. next_at' = Pixels(usb_mouse_accum') /\ next_at' \in At
    BY <1>1, <2>1, PixelsType DEF usb_mouse_interrupt_handler
  <2>3. /\ usb_step = "idle" /\ usb_step' = "clamp" /\ torn' = torn \ {"usb"}
        /\ UNCHANGED <<ps2Ptr, mouse_sensitivity_factor, usb_mouse_at, listener, cursor_bg_valid, cursor_bg, placed, moves>>
    BY <1>1 DEF usb_mouse_interrupt_handler
  <2>4. PointerTypeOK'
    BY <2>1, <2>2, <2>3 DEF PointerTypeOK, ps2Ptr, UsbSteps, Drivers
  <2> QED BY <2>2, <2>3, <2>4 DEF PointerInv, PointersRight, PointersInside,
             PointersSteady, ReportInProgress, ArrowInv, BackgroundRestored, ps2Ptr
<1>2. CASE UsbClamp
  <2>1. next_at' = Clamped(next_at) /\ usb_mouse_accum' = ClampedAccum(next_at, usb_mouse_accum)
        /\ usb_step = "clamp" /\ usb_step' = "store"
        /\ UNCHANGED <<ps2Ptr, mouse_sensitivity_factor, usb_mouse_at, listener, cursor_bg_valid, cursor_bg, placed,
                       torn, moves>>
    BY <1>2 DEF UsbClamp
  <2>2. next_at' \in At /\ \A a \in Axes : next_at'[a] \in 0..Size[a] - CURSOR
    BY <2>1, ClampedInside DEF PointerTypeOK
  <2>3. usb_mouse_accum' \in At
    <3>1. ASSUME NEW a \in Axes
          PROVE  (IF Clamped(next_at)[a] = next_at[a] THEN usb_mouse_accum[a] ELSE Clamped(next_at)[a] * 100) \in Int
      BY ClampedInside DEF PointerTypeOK, At
    <3> QED BY <2>1, <3>1 DEF ClampedAccum, At
  <2>4. "usb" \notin torn => next_at' = Pixels(usb_mouse_accum')
    BY <2>1, ClampedSteady DEF PointerInv, ReportInProgress, PointerTypeOK
  <2>5. PointerTypeOK'
    BY <2>1, <2>2, <2>3 DEF PointerTypeOK, ps2Ptr, UsbSteps
  <2> QED BY <2>1, <2>2, <2>4, <2>5 DEF PointerInv, PointersRight, PointersInside,
             PointersSteady, ReportInProgress, ArrowInv, BackgroundRestored, ps2Ptr
<1>3. CASE UsbStore
  BY <1>3 DEF UsbStore, PointerTypeOK, UsbSteps, PointerInv, PointersRight, PointersInside,
             PointersSteady, ReportInProgress, ArrowInv, BackgroundRestored, ps2Ptr
<1> QED BY <1>1, <1>2, <1>3

(* The callbacks that the report ends with. *)
LEMMA CallbackStep ==
  ASSUME AllPointerInv, mouse_callback \/ gui_mouse_event_handler
  PROVE  AllPointerInv'
<1> USE DEF AllPointerInv
<1>1. Hundredths(next_at) \in At /\ Pixels(Hundredths(next_at)) = next_at
  BY PixelsType, PixelsOfHundredths DEF PointerTypeOK
<1>2. CASE mouse_callback
  <2>1. CASE usb_step = "boot"
    <3>1. /\ usb_step' = "boot accum" /\ mouse_at' = next_at /\ torn' = torn \ {"ps2"}
          /\ moves' = (IF moves < 2 THEN moves + 1 ELSE 2)
          /\ UNCHANGED <<mouse_accum, prev_mouse, mouse_sensitivity_factor, usb_mouse_at, usb_mouse_accum, listener,
                         next_at, cursor_bg_valid, cursor_bg>>
      BY <1>2, <2>1 DEF mouse_callback, Moved, usbPtr
    <3>2. placed' = FALSE
      BY <1>2, <2>1 DEF mouse_callback
    <3>3. torn \in SUBSET Drivers /\ moves \in 0..2 /\ moves' = (IF moves < 2 THEN moves + 1 ELSE 2)
      BY <3>1 DEF PointerTypeOK
    <3>4. moves' \in 0..2 /\ moves' # 0 /\ (moves' < 2 => moves < 2)
      BY <3>3
    <3>5. torn' \in SUBSET Drivers
      BY <3>1, <3>3
    <3>6. PointerTypeOK'
      BY <3>1, <3>2, <3>4, <3>5 DEF PointerTypeOK, UsbSteps
    <3>7. PointerInv'
      BY <2>1, <3>1 DEF PointerInv, PointersRight, PointersInside, PointersSteady, ReportInProgress
    <3>8. ArrowInv'
      BY <3>1, <3>4 DEF ArrowInv, BackgroundRestored
    <3> QED BY <3>6, <3>7, <3>8
  <2>2. CASE usb_step = "boot accum"
    <3>1. /\ usb_step' = "idle" /\ mouse_accum' = Hundredths(next_at)
          /\ UNCHANGED <<mouse_at, prev_mouse, mouse_sensitivity_factor, usb_mouse_at, usb_mouse_accum, listener,
                         next_at, cursor_bg_valid, cursor_bg, placed, torn, moves>>
      BY <1>2, <2>2 DEF mouse_callback, usbPtr
    <3>2. PointerTypeOK'
      BY <1>1, <3>1 DEF PointerTypeOK, UsbSteps
    <3>3. PointerInv' /\ ArrowInv'
      BY <1>1, <2>2, <3>1 DEF PointerInv, PointersRight, PointersInside, PointersSteady, ReportInProgress, ArrowInv,
                              BackgroundRestored
    <3> QED BY <3>2, <3>3
  <2> QED BY <1>2, <2>1, <2>2 DEF mouse_callback
<1>3. CASE gui_mouse_event_handler
  <2>1. PointerTypeOK'
    BY <1>1, <1>3 DEF gui_mouse_event_handler, PointerTypeOK, UsbSteps, ps2Ptr
  <2>2. PointersInside'
    BY <1>3 DEF gui_mouse_event_handler, PointerInv, PointersRight, PointersInside, ReportInProgress, ps2Ptr
  <2>3. PointersSteady'
    BY <1>1, <1>3 DEF gui_mouse_event_handler, PointerInv, PointersRight, PointersSteady, ReportInProgress, ps2Ptr
  <2>4. ReportInProgress'
    BY <1>3 DEF gui_mouse_event_handler, PointerInv, ReportInProgress, ps2Ptr
  <2>5. ArrowInv'
    BY <1>3 DEF gui_mouse_event_handler, ArrowInv, BackgroundRestored, ps2Ptr
  <2> QED BY <2>1, <2>2, <2>3, <2>4, <2>5 DEF PointerInv, PointersRight
<1> QED BY <1>2, <1>3

LEMMA PointerInvNext == AllPointerInv /\ [PointerNext]_pointerVars => AllPointerInv'
<1> SUFFICES ASSUME AllPointerInv, [PointerNext]_pointerVars PROVE AllPointerInv'
  OBVIOUS
<1>1. ASSUME NEW to \in {"gui", "none"}, SetCallbacks(to) PROVE AllPointerInv'
  BY <1>1, ZenonT(60) DEF SetCallbacks, AllPointerInv, PointerTypeOK, PointerInv, PointersRight, PointersInside,
              PointersSteady, ReportInProgress, ArrowInv, BackgroundRestored, ps2Ptr, usbPtr
<1>2. CASE mouse_draw_cursor
  <2>1. /\ cursor_bg' = mouse_at /\ prev_mouse' = mouse_at /\ moves' = 0
        /\ UNCHANGED <<mouse_at, mouse_accum, mouse_sensitivity_factor, usb_mouse_at, usb_mouse_accum, listener,
                       usb_step, next_at, placed, torn>>
    BY <1>2 DEF mouse_draw_cursor, usbPtr
  <2>2. cursor_bg_valid' \in BOOLEAN
    BY <1>2 DEF mouse_draw_cursor
  <2>3. PointerTypeOK'
    BY <2>1, <2>2 DEF AllPointerInv, PointerTypeOK
  <2>4. PointerInv' /\ ArrowInv'
    BY <2>1 DEF AllPointerInv, PointerInv, PointersRight, PointersInside, PointersSteady, ReportInProgress, ArrowInv,
                BackgroundRestored
  <2> QED BY <2>3, <2>4 DEF AllPointerInv
<1>3. CASE UNCHANGED pointerVars
  BY <1>3, ZenonT(60) DEF pointerVars, AllPointerInv, PointerTypeOK, PointerInv, PointersRight, PointersInside,
              PointersSteady, ReportInProgress, ArrowInv, BackgroundRestored, ps2Ptr, usbPtr
<1> QED BY <1>1, <1>2, <1>3, PacketStep, CommandStep, ReportStep, CallbackStep DEF PointerNext

(* The pointers of the two mouse drivers stay on the screen and agree with  *)
(* their hundredths, wherever a packet of the one falls into a report of    *)
(* the other (mouse_interrupt_handler, usb_mouse_interrupt_handler and      *)
(* their callbacks).                                                        *)
THEOREM PointerCorrect == PointerSpec => []PointersRight
<1>1. AllPointerInv => PointersRight
  BY DEF AllPointerInv, PointerInv
<1> QED BY <1>1, PointerInvInit, PointerInvNext, PTL DEF PointerSpec

(* mouse_draw_cursor puts the saved background back where it was taken,     *)
(* if at most one move happened since.                                      *)
THEOREM BackgroundCorrect == PointerSpec => []BackgroundRestored
<1>1. AllPointerInv => BackgroundRestored
  BY DEF AllPointerInv, ArrowInv
<1> QED BY <1>1, PointerInvInit, PointerInvNext, PTL DEF PointerSpec

-----------------------------------------------------------------------------
(* The timer *)

USE DEF Events, Calls

LEMMA IntervalTicksNat == ASSUME NEW ms \in Nat PROVE IntervalTicks(ms) \in Nat
BY DEF IntervalTicks, RATE

LEMMA TimerInitInv == TimerInit => TimerInv
<1> SUFFICES ASSUME TimerInit PROVE TimerInv
  OBVIOUS
<1> USE TimerAssumption DEF TimerInit, idle, Zero, Slots
<1>1. TimerTypeOK
  <2>1. slots \in [Slots -> Events]
    OBVIOUS
  <2>2. sub \in Calls
    <3>1. 0 \in Slots /\ "idle" \in Steps
      BY DEF Steps
    <3> QED BY <3>1
  <2>3. total_ticks \in Nat /\ boot_time_ticks \in Nat /\ subscriber_count \in 0 .. MAX_EVENT_SUBSCRIBERS /\ i \in Nat \cup {-1}
    OBVIOUS
  <2>4. subscribed \subseteq Callbacks /\ kept \subseteq subscribed /\ stale \in BOOLEAN
    OBVIOUS
  <2> QED BY <2>1, <2>2, <2>3, <2>4 DEF TimerTypeOK
<1>2. CallInProgress /\ ServedSoFar /\ KeptThere /\ KeptOnce
  BY DEF CallInProgress, ServedSoFar, KeptThere, KeptOnce, Active, Unnamed
<1>3. \A s \in Slots : slots[s].handler \in subscribed \cup {NONE}
  OBVIOUS
<1> QED BY <1>1, <1>2, <1>3 DEF TimerInv

(* What is left of the array when entry k is taken out of it: every entry   *)
(* before k where it was, every active one behind it one place further up.  *)
LEMMA WithoutType ==
  ASSUME TimerTypeOK, NEW k \in Active
  PROVE  /\ Without(k) \in [Slots -> Events]
         /\ \A s \in Slots : Without(k)[s] = IF s >= k /\ s < subscriber_count - 1 THEN slots[s + 1] ELSE slots[s]
         /\ \A s \in Slots : s >= k /\ s < subscriber_count - 1 => s + 1 \in Slots
         /\ subscriber_count \in Nat /\ subscriber_count > 0 /\ subscriber_count - 1 \in 0 .. MAX_EVENT_SUBSCRIBERS
<1>1. \A s \in Slots : s >= k /\ s < subscriber_count - 1 => s + 1 \in Slots
  BY TimerAssumption DEF TimerTypeOK, Slots, Active
<1>2. subscriber_count \in Nat /\ subscriber_count > 0 /\ subscriber_count - 1 \in 0 .. MAX_EVENT_SUBSCRIBERS
  BY TimerAssumption DEF TimerTypeOK, Active
<1>3. DOMAIN slots = Slots
  BY DEF TimerTypeOK
<1>4. \A s \in Slots : Without(k)[s] = IF s >= k /\ s < subscriber_count - 1 THEN slots[s + 1] ELSE slots[s]
  BY <1>3 DEF Without
<1>5. Without(k) \in [Slots -> Events]
  BY <1>1, <1>3 DEF Without, TimerTypeOK
<1> QED BY <1>1, <1>2, <1>4, <1>5

LEMMA TickInv == TimerInv /\ Tick => TimerInv'
<1> SUFFICES ASSUME TimerInv, Tick PROVE TimerInv'
  OBVIOUS
<1> USE DEF TimerInv
<1>1. TimerTypeOK'
  <2>1. total_ticks' \in Nat /\ i' \in Nat \cup {-1}
    BY DEF TimerTypeOK, Tick
  <2>2. stale' \in BOOLEAN /\ sub' \in Calls
    BY DEF TimerTypeOK, Tick
  <2> QED BY <2>1, <2>2 DEF TimerTypeOK, Tick
<1>2. sub'.step = sub.step /\ sub'.slot = sub.slot /\ sub'.cb = sub.cb /\ (sub.step # "idle" => sub'.ticked)
  BY DEF TimerTypeOK, Tick
<1>3. CallInProgress'
  BY <1>2 DEF CallInProgress, Tick, Unnamed
<1>4. ServedSoFar'
  BY DEF ServedSoFar, Tick, Active, TimerTypeOK
<1>5. KeptThere'
  BY <1>2 DEF KeptThere, Tick, Active
<1>6. KeptOnce'
  BY <1>2 DEF KeptOnce, Tick, Active, Unnamed
<1>7. (\A s \in Slots : slots[s].handler \in subscribed \cup {NONE})'
  BY DEF Tick
<1> QED BY <1>1, <1>3, <1>4, <1>5, <1>6, <1>7

LEMMA NotDueInv == TimerInv /\ NotDue => TimerInv'
<1> SUFFICES ASSUME TimerInv, NotDue PROVE TimerInv'
  OBVIOUS
<1> USE DEF TimerInv, NotDue
<1>1. i \in Nat /\ i' = i + 1 /\ i \in Active /\ i \in Slots /\ slots[i].next > total_ticks
  BY TimerAssumption, SMTT(40) DEF Looping, Due, TimerTypeOK, Active, Slots
<1>2. TimerTypeOK'
  BY <1>1 DEF TimerTypeOK
<1>3. CallInProgress'
  BY <1>1 DEF CallInProgress, Unnamed
<1>4. ServedSoFar'
  BY <1>1 DEF ServedSoFar, Active
<1>5. KeptThere'
  BY DEF KeptThere, Active
<1>6. KeptOnce'
  BY <1>1 DEF KeptOnce, Active, Unnamed
<1> QED BY <1>2, <1>3, <1>4, <1>5, <1>6

LEMMA RearmInv == TimerInv /\ Rearm => TimerInv'
<1> SUFFICES ASSUME TimerInv, Rearm PROVE TimerInv'
  OBVIOUS
<1> USE DEF TimerInv, Rearm
<1>1. i \in Nat /\ i' = i + 1 /\ i \in Active /\ i \in Slots
  BY TimerAssumption, SMTT(40) DEF Looping, TimerTypeOK, Active, Slots
<1>2. /\ \A s \in Slots : s # i => slots'[s] = slots[s]
      /\ slots'[i].handler = slots[i].handler /\ slots'[i].recurring = slots[i].recurring
      /\ slots'[i].interval = slots[i].interval /\ slots[i].interval \in Nat /\ total_ticks \in Nat
      /\ slots'[i].next = total_ticks + slots[i].interval
      /\ slots' \in [Slots -> Events]
  <2>1. /\ slots[i] \in Events
        /\ total_ticks \in Nat
    BY <1>1 DEF TimerTypeOK
  <2>2. total_ticks + slots[i].interval \in Nat
    BY <2>1
  <2> DEFINE due == total_ticks + slots[i].interval
             event == [slots[i] EXCEPT !.next = due]
  <2>3. slots' = [slots EXCEPT ![i] = event]
    OBVIOUS
  <2>4. due \in Nat
    BY <2>2
  <2> HIDE DEF due
  <2>5. /\ event \in Events
        /\ event.handler = slots[i].handler /\ event.recurring = slots[i].recurring
        /\ event.interval = slots[i].interval /\ event.next = due
    BY <2>1, <2>4
  <2> HIDE DEF event
  <2>6. slots'[i] = event /\ \A s \in Slots : s # i => slots'[s] = slots[s]
    BY <1>1, <2>3 DEF TimerTypeOK
  <2>7. slots' \in [Slots -> Events]
    BY <2>3, <2>5 DEF TimerTypeOK
  <2>8. slots'[i].next = total_ticks + slots[i].interval
    BY <2>5, <2>6 DEF due
  <2> QED BY <2>1, <2>5, <2>6, <2>7, <2>8
<1>3. \A s \in Slots : slots'[s].handler = slots[s].handler /\ slots'[s].recurring = slots[s].recurring
  BY <1>2
<1>4. Active \subseteq Slots
  BY TimerAssumption DEF Active, Slots, TimerTypeOK
<1>5. TimerTypeOK'
  BY <1>1, <1>2 DEF TimerTypeOK
<1>6. CallInProgress'
  <2>1. sub.slot \in Slots
    BY DEF TimerTypeOK
  <2> QED BY <1>1, <1>3, <2>1 DEF CallInProgress, Unnamed
<1>7. ServedSoFar'
  <2> SUFFICES ASSUME NEW s \in Active, s < i + 1
               PROVE  \/ slots'[s].next > total_ticks
                      \/ slots'[s].interval = 0 /\ slots'[s].next = total_ticks
                      \/ sub.step \in {"id", "handler", "interval", "next"} /\ s = sub.slot
    BY <1>1 DEF ServedSoFar, Active
  <2>1. CASE s = i
    BY <2>1, <1>2
  <2>2. CASE s # i
    <3>1. s < i /\ s \in Slots
      BY <2>2, <1>1, <1>4 DEF Active
    <3> QED BY <3>1, <2>2, <1>2 DEF ServedSoFar
  <2> QED BY <2>1, <2>2
<1>8. KeptThere'
  BY <1>3, <1>4 DEF KeptThere, Active
<1>9. KeptOnce'
  BY <1>1, <1>3, <1>4 DEF KeptOnce, Active, Unnamed
<1>10. (\A s \in Slots : slots[s].handler \in subscribed \cup {NONE})'
  BY <1>3
<1> QED BY <1>5, <1>6, <1>7, <1>8, <1>9, <1>10

LEMMA RemoveEntryInv == TimerInv /\ RemoveEntry => TimerInv'
<1> SUFFICES ASSUME TimerInv, RemoveEntry PROVE TimerInv'
  OBVIOUS
<1> USE DEF TimerInv, RemoveEntry
<1>1. i \in Nat /\ i' = i /\ i \in Active /\ i \in Slots /\ ~slots[i].recurring
  BY TimerAssumption DEF Looping, TimerTypeOK, Active, Slots
<1>2. /\ slots' \in [Slots -> Events]
      /\ \A s \in Slots : slots'[s] = IF s >= i /\ s < subscriber_count - 1 THEN slots[s + 1] ELSE slots[s]
      /\ \A s \in Slots : s >= i /\ s < subscriber_count - 1 => s + 1 \in Slots
      /\ subscriber_count \in Nat /\ subscriber_count > 0 /\ subscriber_count - 1 \in 0 .. MAX_EVENT_SUBSCRIBERS
      /\ subscriber_count' = subscriber_count - 1
  BY <1>1, WithoutType
<1>3. Active \subseteq Slots /\ Active' \subseteq Active
  BY TimerAssumption, <1>2, SMTT(40) DEF Active, Slots, TimerTypeOK
<1>4. TimerTypeOK'
  BY <1>1, <1>2 DEF TimerTypeOK
<1>5. sub.step # "idle" => sub.ticked
  BY <1>1 DEF CallInProgress, TimerTypeOK
<1>6. \A s \in Slots : \E t \in Slots : slots'[s].handler = slots[t].handler
  BY <1>2
<1>7. CallInProgress'
  <2>1. sub.step # "idle" => sub.slot >= subscriber_count' - 1 /\ sub.cb \in subscribed \ kept
    BY <1>2 DEF CallInProgress, TimerTypeOK, Slots
  <2>2. Unnamed => \A s \in Slots : slots'[s].handler # sub.cb
    BY <1>6 DEF CallInProgress, Unnamed
  <2> QED BY <1>5, <2>1, <2>2 DEF CallInProgress, Unnamed
<1>8. ServedSoFar'
  <2> SUFFICES ASSUME NEW s \in Active', s < i
               PROVE  \/ slots'[s].next > total_ticks
                      \/ slots'[s].interval = 0 /\ slots'[s].next = total_ticks
                      \/ sub.step \in {"id", "handler", "interval", "next"} /\ s = sub.slot
    BY <1>1 DEF ServedSoFar
  <2>1. s \in Active /\ s \in Slots /\ s \in Nat
    BY <1>3 DEF Active
  <2>2. slots'[s] = slots[s]
    BY <2>1, <1>1, <1>2
  <2> QED BY <2>1, <2>2 DEF ServedSoFar
<1>9. KeptThere'
  <2> SUFFICES ASSUME NEW cb \in kept
               PROVE  \E s \in Active' : /\ slots'[s].handler = cb /\ slots'[s].recurring
                                         /\ sub.step # "idle" => s # sub.slot
    BY DEF KeptThere
  <2>1. PICK s \in Active : /\ slots[s].handler = cb /\ slots[s].recurring
                            /\ sub.step # "idle" => s # sub.slot
    BY DEF KeptThere
  <2>2. s \in Slots /\ s \in Nat /\ s < subscriber_count /\ s # i /\ sub.slot \in Nat
    BY <2>1, <1>1, <1>3 DEF Active, TimerTypeOK, Slots
  <2>3. CASE s < i
    <3>1. s \in Active' /\ slots'[s] = slots[s]
      BY <2>2, <2>3, <1>1, <1>2 DEF Active
    <3> QED BY <3>1, <2>1
  <2>4. CASE s > i
    <3>1. s - 1 \in Active' /\ s - 1 \in Slots /\ s - 1 >= i /\ s - 1 < subscriber_count - 1 /\ (s - 1) + 1 = s
      <4>1. s - 1 \in Nat /\ s - 1 >= i /\ s - 1 < subscriber_count - 1 /\ (s - 1) + 1 = s
        BY <2>2, <2>4, <1>1, <1>2
      <4>2. s - 1 \in Slots
        BY <4>1, <2>2, TimerAssumption DEF Slots
      <4> QED BY <4>1, <4>2, <1>2 DEF Active
    <3>2. slots'[s - 1] = slots[s]
      BY <3>1, <1>2
    <3>3. sub.step # "idle" => s - 1 # sub.slot
      BY <2>2, <1>2 DEF CallInProgress
    <3> QED BY <3>1, <3>2, <3>3, <2>1
  <2> QED BY <2>2, <2>3, <2>4, <1>1
<1>10. KeptOnce'
  <2> SUFFICES ASSUME ~stale
               PROVE  /\ ~Unnamed
                      /\ \A s, t \in Active' : slots'[s].handler \in kept /\ slots'[s].handler = slots'[t].handler => s = t
    BY DEF KeptOnce, Unnamed
  <2>1. ~Unnamed
    BY <1>1 DEF KeptOnce
  <2>2. ASSUME NEW s \in Active', NEW t \in Active', slots'[s].handler \in kept, slots'[s].handler = slots'[t].handler
        PROVE  s = t
    <3> DEFINE from(x) == IF x >= i THEN x + 1 ELSE x
    <3>1. \A x \in Active' : from(x) \in Active /\ slots'[x] = slots[from(x)] /\ x \in Nat
      <4> SUFFICES ASSUME NEW x \in Active' PROVE from(x) \in Active /\ slots'[x] = slots[from(x)] /\ x \in Nat
        OBVIOUS
      <4>1. x \in Nat /\ x < subscriber_count - 1 /\ x \in Slots
        BY <1>2, <1>3 DEF Active
      <4> QED BY <4>1, <1>1, <1>2 DEF Active
    <3>2. from(s) = from(t)
      BY <3>1, <2>1, <2>2 DEF KeptOnce
    <3> QED BY <3>1, <3>2, <1>1
  <2> QED BY <2>1, <2>2
<1>11. (\A s \in Slots : slots[s].handler \in subscribed \cup {NONE})'
  BY <1>6
<1> QED BY <1>4, <1>7, <1>8, <1>9, <1>10, <1>11

LEMMA TickReturnsInv == TimerInv /\ TickReturns => TimerInv'
<1> SUFFICES ASSUME TimerInv, TickReturns PROVE TimerInv'
  OBVIOUS
<1> USE DEF TimerInv, TickReturns
<1>1. i \in Nat /\ i' = -1 /\ i >= subscriber_count /\ subscriber_count \in Nat
  BY DEF TimerTypeOK
<1>2. TimerTypeOK'
  BY DEF TimerTypeOK
<1>3. CallInProgress'
  BY <1>1 DEF CallInProgress, Unnamed
<1>4. ServedSoFar'
  BY <1>1 DEF ServedSoFar, Active
<1>5. KeptThere'
  BY DEF KeptThere, Active
<1>6. KeptOnce'
  BY <1>1 DEF KeptOnce, Active, Unnamed
<1> QED BY <1>2, <1>3, <1>4, <1>5, <1>6

LEMMA SubscribeInv ==
  ASSUME TimerInv, NEW cb \in Callbacks, NEW ms \in Intervals, NEW repeat \in Repeats, timer_subscribe_event(cb, ms, repeat)
  PROVE  TimerInv'
<1> USE DEF TimerInv, timer_subscribe_event
<1>1. CASE ~HasRoom
  <2>1. /\ subscribed' = subscribed \cup {cb}
        /\ UNCHANGED <<total_ticks, boot_time_ticks, slots, i, kept, stale, subscriber_count, sub>>
    BY <1>1
  <2>2. TimerTypeOK'
    BY <2>1 DEF TimerTypeOK
  <2>3. CallInProgress' /\ ServedSoFar' /\ KeptThere' /\ KeptOnce'
    BY <2>1 DEF CallInProgress, ServedSoFar, KeptThere, KeptOnce, Active, Unnamed
  <2> QED BY <2>1, <2>2, <2>3
<1>2. CASE HasRoom
  <2>1. /\ subscribed' = subscribed \cup {cb}
        /\ sub'.step = "id" /\ sub'.slot = subscriber_count /\ sub'.cb = cb /\ ~sub'.ticked
        /\ subscriber_count' = subscriber_count + 1
        /\ UNCHANGED <<total_ticks, boot_time_ticks, slots, i, kept, stale>>
        /\ sub.step = "idle" /\ i = -1 /\ cb \notin subscribed
    BY <1>2
  <2>2. subscriber_count \in Nat /\ subscriber_count \in Slots /\ subscriber_count' \in 0 .. MAX_EVENT_SUBSCRIBERS /\ cb # NONE
    BY <1>2, <2>1, TimerAssumption DEF HasRoom, TimerTypeOK, Slots
  <2>3. TimerTypeOK'
    <3>1. sub' \in Calls
      <4>1. "id" \in Steps /\ ms \in Nat /\ repeat \in BOOLEAN
        BY TimerAssumption DEF Steps
      <4>2. sub' = [step |-> "id", slot |-> subscriber_count, cb |-> cb, ms |-> ms, repeat |-> repeat, ticked |-> FALSE]
        BY <1>2
      <4> QED BY <2>2, <4>1, <4>2 DEF Calls
    <3> QED BY <2>1, <2>2, <3>1 DEF TimerTypeOK
  <2>4. CallInProgress'
    <3>1. Unnamed' /\ \A s \in Slots : slots'[s].handler # cb
      BY <2>1, <2>2 DEF Unnamed
    <3>2. cb \in subscribed' \ kept'
      BY <2>1 DEF TimerTypeOK
    <3> QED BY <2>1, <2>2, <3>1, <3>2 DEF CallInProgress
  <2>5. ServedSoFar'
    <3> SUFFICES ASSUME NEW s \in Active', s # subscriber_count
                 PROVE  slots[s].next > total_ticks \/ (slots[s].interval = 0 /\ slots[s].next = total_ticks)
      BY <2>1 DEF ServedSoFar
    <3>1. s \in Active
      BY <2>1, <2>2 DEF Active
    <3> QED BY <2>1, <3>1 DEF ServedSoFar
  <2>6. KeptThere'
    <3>1. \A s \in Active : s \in Active' /\ s # sub'.slot
      BY <2>1, <2>2 DEF Active
    <3> QED BY <2>1, <3>1 DEF KeptThere
  <2>7. KeptOnce'
    <3>1. \A s \in Active' : s = sub'.slot \/ s \in Active
      BY <2>1, <2>2 DEF Active
    <3>2. Unnamed' /\ ~Unnamed
      BY <2>1 DEF Unnamed
    <3> QED BY <2>1, <3>1, <3>2 DEF KeptOnce
  <2> QED BY <2>1, <2>3, <2>4, <2>5, <2>6, <2>7
<1> QED BY <1>1, <1>2

LEMMA AssignFacts ==
  ASSUME TimerInv, NEW step \in Steps \ {"idle"}, NEW after \in Steps \ {"idle"}, NEW event \in Events, Assign(step, after, event)
  PROVE  /\ TimerTypeOK'
         /\ i = -1 /\ i' = -1 /\ sub.step = step /\ sub'.step = after
         /\ sub.slot \in Slots /\ slots'[sub.slot] = event /\ \A s \in Slots : s # sub.slot => slots'[s] = slots[s]
         /\ sub'.slot = sub.slot /\ sub'.cb = sub.cb /\ sub'.ticked = sub.ticked /\ sub'.repeat = sub.repeat
         /\ Active' = Active /\ Active \subseteq Slots
         /\ UNCHANGED <<total_ticks, boot_time_ticks, subscriber_count, subscribed, kept, stale>>
<1> USE DEF TimerInv, Assign
<1>1. sub \in Calls /\ slots \in [Slots -> Events]
  BY DEF TimerTypeOK
<1>2. sub' \in Calls /\ slots' \in [Slots -> Events]
  BY <1>1
<1>3. TimerTypeOK'
  BY <1>2 DEF TimerTypeOK
<1>4. sub.slot \in Slots /\ slots'[sub.slot] = event /\ \A s \in Slots : s # sub.slot => slots'[s] = slots[s]
  BY <1>1
<1>5. sub'.step = after /\ sub'.slot = sub.slot /\ sub'.cb = sub.cb /\ sub'.ticked = sub.ticked /\ sub'.repeat = sub.repeat
  BY <1>1
<1>6. Active' = Active /\ Active \subseteq Slots
  BY TimerAssumption, SMTT(40) DEF Active, Slots, TimerTypeOK
<1> QED BY <1>3, <1>4, <1>5, <1>6

(* An assignment to the claimed slot disturbs no kept subscription; the     *)
(* handler that it leaves in the slot is what the invariant turns on.       *)
LEMMA AssignKeeps ==
  ASSUME TimerInv, NEW step \in Steps \ {"idle"}, NEW after \in Steps \ {"idle"}, NEW event \in Events, Assign(step, after, event),
         \/ event.handler = Slot.handler /\ (Unnamed <=> after \in {"id", "handler"})
         \/ event.handler = sub.cb /\ after \notin {"id", "handler"}
  PROVE  /\ KeptThere' /\ KeptOnce'
         /\ \A s \in Slots : slots'[s].handler \in subscribed' \cup {NONE}
         /\ \A s \in Slots : Unnamed' => slots'[s].handler # sub.cb
<1> USE DEF TimerInv
<1>1. sub.step # "idle" /\ sub.cb \in subscribed /\ sub.cb \notin kept
  BY AssignFacts DEF CallInProgress
<1>2. Unnamed' <=> after \in {"id", "handler"}
  BY AssignFacts DEF Unnamed
<1>3. \A s \in Slots : slots'[s].handler = slots[s].handler \/ (s = sub.slot /\ slots'[s].handler = sub.cb /\ ~Unnamed')
  BY <1>2, AssignFacts DEF Slot
<1>4. KeptThere'
  <2> SUFFICES ASSUME NEW cb \in kept
               PROVE  \E s \in Active : slots'[s].handler = cb /\ slots'[s].recurring /\ s # sub.slot
    BY AssignFacts DEF KeptThere
  <2>1. PICK s \in Active : slots[s].handler = cb /\ slots[s].recurring /\ s # sub.slot
    BY <1>1 DEF KeptThere
  <2>2. slots'[s] = slots[s]
    BY <2>1, AssignFacts
  <2> QED BY <2>1, <2>2
<1>5. KeptOnce'
  <2> SUFFICES ASSUME ~stale, NEW s \in Active, NEW t \in Active,
                      slots'[s].handler \in kept, slots'[s].handler = slots'[t].handler,
                      Unnamed' => sub.slot \notin {s, t}
               PROVE  s = t
    BY AssignFacts DEF KeptOnce
  <2>1. s \in Slots /\ t \in Slots
    BY AssignFacts
  <2>2. slots[s].handler = slots'[s].handler /\ slots[t].handler = slots'[t].handler
    BY <1>1, <1>3, <2>1
  <2>3. Unnamed => sub.slot \notin {s, t}
    <3>1. CASE Unnamed'
      BY <3>1
    <3>2. CASE ~Unnamed' /\ Unnamed
      <4>1. slots'[sub.slot].handler = sub.cb
        BY <3>2, <1>2, AssignFacts
      <4> QED BY <4>1, <1>1
    <3> QED BY <3>1, <3>2
  <2> QED BY <2>2, <2>3 DEF KeptOnce
<1>6. \A s \in Slots : slots'[s].handler \in subscribed' \cup {NONE}
  BY <1>1, <1>3, AssignFacts
<1>7. \A s \in Slots : Unnamed' => slots'[s].handler # sub.cb
  <2> SUFFICES ASSUME Unnamed' PROVE \A s \in Slots : slots'[s].handler # sub.cb
    OBVIOUS
  <2>1. Unnamed
    BY <1>2
  <2>2. \A s \in Slots : slots[s].handler # sub.cb
    BY <1>1, <2>1 DEF CallInProgress
  <2> QED BY <1>3, <2>2
<1> QED BY <1>4, <1>5, <1>6, <1>7

(* The due times behind the loop are not disturbed either, when the slot    *)
(* has no due time yet or has one ahead.                                    *)
LEMMA AssignServes ==
  ASSUME TimerInv, NEW step \in Steps \ {"idle"}, NEW after \in Steps \ {"idle"}, NEW event \in Events, Assign(step, after, event),
         step \notin {"repeat", "return"},
         \/ after \in {"id", "handler", "interval", "next"}
         \/ event.next > total_ticks
         \/ event.interval = 0 /\ event.next = total_ticks
  PROVE  ServedSoFar'
<1> USE DEF TimerInv
<1> SUFFICES ASSUME NEW s \in Active
             PROVE  \/ slots'[s].next > total_ticks
                    \/ slots'[s].interval = 0 /\ slots'[s].next = total_ticks
                    \/ after \in {"id", "handler", "interval", "next"} /\ s = sub.slot
  BY AssignFacts DEF ServedSoFar
<1>1. CASE s = sub.slot
  BY <1>1, AssignFacts
<1>2. CASE s # sub.slot
  <2>1. slots'[s] = slots[s] /\ i = -1
    BY <1>2, AssignFacts
  <2> QED BY <1>2, <2>1 DEF ServedSoFar
<1> QED BY <1>1, <1>2

LEMMA FillInv == TimerInv /\ Fill => TimerInv'
<1> SUFFICES ASSUME TimerInv, Fill PROVE TimerInv'
  OBVIOUS
<1> USE DEF TimerInv
<1>0. Slot \in Events /\ sub \in Calls /\ subscriber_count \in Nat /\ total_ticks \in Nat /\ IntervalTicks(sub.ms) \in Nat
  BY IntervalTicksNat DEF TimerTypeOK, Slot
<1>00. /\ "id" \in Steps \ {"idle"} /\ "handler" \in Steps \ {"idle"} /\ "interval" \in Steps \ {"idle"}
       /\ "next" \in Steps \ {"idle"} /\ "repeat" \in Steps \ {"idle"} /\ "return" \in Steps \ {"idle"}
  BY DEF Steps
<1>1. CASE Assign("id", "handler", [Slot EXCEPT !.id = subscriber_count])
  <2> DEFINE event == [Slot EXCEPT !.id = subscriber_count]
  <2>1. event \in Events /\ event.handler = Slot.handler
    BY <1>0
  <2> HIDE DEF event
  <2>2. Assign("id", "handler", event)
    BY <1>1 DEF event
  <2>3. sub.step = "id" /\ sub'.step = "handler" /\ Unnamed /\ TimerTypeOK' /\ Unnamed'
    BY <1>00, <2>1, <2>2, AssignFacts DEF Unnamed
  <2>4. /\ KeptThere' /\ KeptOnce'
        /\ \A s \in Slots : slots'[s].handler \in subscribed' \cup {NONE}
        /\ \A s \in Slots : Unnamed' => slots'[s].handler # sub.cb
    BY <1>00, <2>1, <2>2, <2>3, AssignKeeps
  <2>5. ServedSoFar'
    BY <1>00, <2>1, <2>2, AssignServes
  <2>6. CallInProgress'
    BY <1>00, <2>1, <2>2, <2>3, <2>4, AssignFacts DEF CallInProgress
  <2> QED BY <2>3, <2>4, <2>5, <2>6
<1>2. CASE Assign("handler", "interval", [Slot EXCEPT !.handler = sub.cb])
  <2> DEFINE event == [Slot EXCEPT !.handler = sub.cb]
  <2>1. event \in Events /\ event.handler = sub.cb
    BY <1>0
  <2> HIDE DEF event
  <2>2. Assign("handler", "interval", event)
    BY <1>2 DEF event
  <2>3. sub.step = "handler" /\ sub'.step = "interval" /\ Unnamed /\ TimerTypeOK' /\ ~Unnamed'
    BY <1>00, <2>1, <2>2, AssignFacts DEF Unnamed
  <2>4. /\ KeptThere' /\ KeptOnce'
        /\ \A s \in Slots : slots'[s].handler \in subscribed' \cup {NONE}
    BY <1>00, <2>1, <2>2, <2>3, AssignKeeps
  <2>5. ServedSoFar'
    BY <1>00, <2>1, <2>2, AssignServes
  <2>6. CallInProgress'
    <3>1. \A s \in Slots : slots'[s].handler = sub.cb <=> s = sub.slot
      BY <1>00, <2>1, <2>2, <2>3, AssignFacts DEF CallInProgress
    <3> QED BY <1>00, <2>1, <2>2, <2>3, <3>1, AssignFacts DEF CallInProgress
  <2> QED BY <2>3, <2>4, <2>5, <2>6
<1>3. CASE Assign("interval", "next", [Slot EXCEPT !.interval = IntervalTicks(sub.ms)])
  <2> DEFINE event == [Slot EXCEPT !.interval = IntervalTicks(sub.ms)]
  <2>1. event \in Events /\ event.handler = Slot.handler
    BY <1>0
  <2> HIDE DEF event
  <2>2. Assign("interval", "next", event)
    BY <1>3 DEF event
  <2>3. sub.step = "interval" /\ sub'.step = "next" /\ ~Unnamed /\ TimerTypeOK' /\ ~Unnamed'
    BY <1>00, <2>1, <2>2, AssignFacts DEF Unnamed
  <2>4. /\ KeptThere' /\ KeptOnce'
        /\ \A s \in Slots : slots'[s].handler \in subscribed' \cup {NONE}
    BY <1>00, <2>1, <2>2, <2>3, AssignKeeps
  <2>5. ServedSoFar'
    BY <1>00, <2>1, <2>2, AssignServes
  <2>6. CallInProgress'
    <3>1. \A s \in Slots : slots'[s].handler = slots[s].handler
      BY <1>00, <2>1, <2>2, AssignFacts DEF Slot
    <3> QED BY <1>00, <2>1, <2>2, <2>3, <3>1, AssignFacts DEF CallInProgress
  <2> QED BY <2>3, <2>4, <2>5, <2>6
<1>4. CASE Assign("next", "repeat", [Slot EXCEPT !.next = total_ticks + Slot.interval])
  <2> DEFINE due == total_ticks + Slot.interval
             event == [Slot EXCEPT !.next = due]
  <2>0. due \in Nat /\ (due > total_ticks \/ (Slot.interval = 0 /\ due = total_ticks))
    BY <1>0
  <2>2. Assign("next", "repeat", event)
    BY <1>4
  <2> HIDE DEF due
  <2>1. event \in Events /\ event.handler = Slot.handler /\ event.interval = Slot.interval /\ event.next = due
    BY <1>0, <2>0
  <2> HIDE DEF event
  <2>3. sub.step = "next" /\ sub'.step = "repeat" /\ ~Unnamed /\ TimerTypeOK' /\ ~Unnamed'
    BY <1>00, <2>1, <2>2, AssignFacts DEF Unnamed
  <2>4. /\ KeptThere' /\ KeptOnce'
        /\ \A s \in Slots : slots'[s].handler \in subscribed' \cup {NONE}
    BY <1>00, <2>1, <2>2, <2>3, AssignKeeps
  <2>5. ServedSoFar'
    BY <1>00, <2>0, <2>1, <2>2, AssignServes
  <2>6. CallInProgress'
    <3>1. \A s \in Slots : slots'[s].handler = slots[s].handler
      BY <1>00, <2>1, <2>2, AssignFacts DEF Slot
    <3> QED BY <1>00, <2>1, <2>2, <2>3, <3>1, AssignFacts DEF CallInProgress
  <2> QED BY <2>3, <2>4, <2>5, <2>6
<1>5. CASE Assign("repeat", "return", [Slot EXCEPT !.recurring = sub.repeat])
  <2> DEFINE event == [Slot EXCEPT !.recurring = sub.repeat]
  <2>1. event \in Events /\ event.handler = Slot.handler /\ event.interval = Slot.interval /\ event.next = Slot.next
    BY <1>0
  <2>0. event.recurring = sub.repeat
    BY <1>0
  <2> HIDE DEF event
  <2>2. Assign("repeat", "return", event)
    BY <1>5 DEF event
  <2>3. sub.step = "repeat" /\ sub'.step = "return" /\ ~Unnamed /\ TimerTypeOK' /\ ~Unnamed'
    BY <1>00, <2>1, <2>2, AssignFacts DEF Unnamed
  <2>4. /\ KeptThere' /\ KeptOnce'
        /\ \A s \in Slots : slots'[s].handler \in subscribed' \cup {NONE}
    BY <1>00, <2>1, <2>2, <2>3, AssignKeeps
  <2>5. ServedSoFar'
    <3>1. \A s \in Slots : slots'[s].next = slots[s].next /\ slots'[s].interval = slots[s].interval
      BY <1>00, <2>1, <2>2, AssignFacts DEF Slot
    <3> QED BY <1>00, <2>1, <2>2, <2>3, <3>1, AssignFacts DEF ServedSoFar
  <2>6. CallInProgress'
    <3>1. \A s \in Slots : slots'[s].handler = slots[s].handler
      BY <1>00, <2>1, <2>2, AssignFacts DEF Slot
    <3>2. slots'[sub.slot].recurring = sub.repeat
      BY <1>00, <2>0, <2>1, <2>2, AssignFacts
    <3> QED BY <1>00, <2>1, <2>2, <2>3, <3>1, <3>2, AssignFacts DEF CallInProgress
  <2> QED BY <2>3, <2>4, <2>5, <2>6
<1> QED BY <1>1, <1>2, <1>3, <1>4, <1>5 DEF Fill

LEMMA SubscribeReturnsInv == TimerInv /\ SubscribeReturns => TimerInv'
<1> SUFFICES ASSUME TimerInv, SubscribeReturns PROVE TimerInv'
  OBVIOUS
<1> USE DEF TimerInv
<1>1. /\ sub.step = "return" /\ sub'.step = "idle" /\ i = -1
      /\ kept' = IF sub.repeat /\ ~sub.ticked THEN kept \cup {sub.cb} ELSE kept
      /\ UNCHANGED <<total_ticks, boot_time_ticks, slots, subscriber_count, i, subscribed, stale>>
      /\ Active' = Active
  BY DEF SubscribeReturns, idle, Active
<1>2. sub.slot \in Slots /\ sub.cb \in subscribed /\ ~Unnamed /\ ~Unnamed'
  BY <1>1 DEF CallInProgress, TimerTypeOK, Unnamed
<1>3. TimerTypeOK'
  <2>1. sub' \in Calls
    <3>1. 0 \in Slots /\ "idle" \in Steps
      BY TimerAssumption DEF Slots, Steps
    <3> QED BY <3>1 DEF SubscribeReturns, idle
  <2>2. kept' \subseteq subscribed
    BY <1>1, <1>2 DEF TimerTypeOK
  <2> QED BY <1>1, <2>1, <2>2 DEF TimerTypeOK
<1>4. CallInProgress' /\ ServedSoFar'
  BY <1>1 DEF CallInProgress, ServedSoFar
<1>5. CASE ~(sub.repeat /\ ~sub.ticked)
  <2>1. kept' = kept
    BY <1>1, <1>5
  <2>2. KeptThere' /\ KeptOnce'
    BY <1>1, <1>2, <2>1 DEF KeptThere, KeptOnce
  <2> QED BY <1>1, <1>3, <1>4, <2>2
<1>6. CASE sub.repeat /\ ~sub.ticked
  <2>1. kept' = kept \cup {sub.cb}
    BY <1>1, <1>6
  <2>2. /\ subscriber_count = sub.slot + 1 /\ slots[sub.slot].recurring = sub.repeat
        /\ \A s \in Slots : slots[s].handler = sub.cb <=> s = sub.slot
    BY <1>1, <1>2, <1>6 DEF CallInProgress
  <2>3. sub.slot \in Active /\ Active \subseteq Slots
    BY <1>2, <2>2, TimerAssumption, SMTT(40) DEF Active, Slots, TimerTypeOK
  <2>4. KeptThere'
    <3> SUFFICES ASSUME NEW cb \in kept'
                 PROVE  \E s \in Active : slots[s].handler = cb /\ slots[s].recurring
      BY <1>1 DEF KeptThere
    <3>1. CASE cb \in kept
      BY <3>1 DEF KeptThere
    <3>2. CASE cb = sub.cb
      <4>1. slots[sub.slot].handler = cb /\ slots[sub.slot].recurring
        BY <3>2, <2>2, <1>2, <1>6
      <4> QED BY <4>1, <2>3
    <3> QED BY <3>1, <3>2, <2>1
  <2>5. KeptOnce'
    <3> SUFFICES ASSUME ~stale, NEW s \in Active, NEW t \in Active,
                        slots[s].handler \in kept', slots[s].handler = slots[t].handler
                 PROVE  s = t
      BY <1>1, <1>2 DEF KeptOnce
    <3>1. CASE slots[s].handler \in kept
      BY <3>1, <1>2 DEF KeptOnce
    <3>2. CASE slots[s].handler = sub.cb
      BY <3>2, <2>2, <2>3
    <3> QED BY <3>1, <3>2, <2>1
  <2> QED BY <1>1, <1>3, <1>4, <2>4, <2>5
<1> QED BY <1>5, <1>6

LEMMA UnsubscribeInv ==
  ASSUME TimerInv, NEW id \in 1 .. MAX_EVENT_SUBSCRIBERS, timer_unsubscribe_event(id)
  PROVE  TimerInv'
<1> USE DEF TimerInv
<1>1. PICK k \in Active : slots' = Without(k) /\ kept' = kept \ {slots[k].handler}
  BY DEF timer_unsubscribe_event, Active
<1>2. /\ i = -1 /\ i' = -1 /\ sub.step = "idle" /\ sub' = sub
      /\ UNCHANGED <<total_ticks, boot_time_ticks, subscribed, stale>>
  BY DEF timer_unsubscribe_event
<1>3. /\ slots' \in [Slots -> Events]
      /\ \A s \in Slots : slots'[s] = IF s >= k /\ s < subscriber_count - 1 THEN slots[s + 1] ELSE slots[s]
      /\ \A s \in Slots : s >= k /\ s < subscriber_count - 1 => s + 1 \in Slots
      /\ subscriber_count \in Nat /\ subscriber_count > 0 /\ subscriber_count - 1 \in 0 .. MAX_EVENT_SUBSCRIBERS
      /\ subscriber_count' = subscriber_count - 1
  BY <1>1, WithoutType DEF timer_unsubscribe_event
<1>4. Active \subseteq Slots /\ Active' \subseteq Active /\ k \in Nat
  BY TimerAssumption, <1>3, SMTT(40) DEF Active, Slots, TimerTypeOK
<1> DEFINE from(x) == IF x >= k THEN x + 1 ELSE x
<1>5. \A x \in Active' : from(x) \in Active /\ slots'[x] = slots[from(x)] /\ x \in Nat
  <2> SUFFICES ASSUME NEW x \in Active' PROVE from(x) \in Active /\ slots'[x] = slots[from(x)] /\ x \in Nat
    OBVIOUS
  <2>1. x \in Nat /\ x < subscriber_count - 1 /\ x \in Slots
    BY <1>3, <1>4 DEF Active
  <2> QED BY <2>1, <1>3, <1>4 DEF Active
<1>6. TimerTypeOK'
  BY <1>1, <1>2, <1>3 DEF TimerTypeOK
<1>7. CallInProgress'
  BY <1>2 DEF CallInProgress
<1>8. ServedSoFar'
  <2> SUFFICES ASSUME NEW s \in Active'
               PROVE  \/ slots'[s].next > total_ticks
                      \/ slots'[s].interval = 0 /\ slots'[s].next = total_ticks
    BY <1>2 DEF ServedSoFar
  <2> HIDE DEF from
  <2> QED BY <1>2, <1>5 DEF ServedSoFar
<1>9. KeptThere'
  <2> SUFFICES ASSUME NEW cb \in kept, cb # slots[k].handler
               PROVE  \E s \in Active' : slots'[s].handler = cb /\ slots'[s].recurring
    BY <1>1, <1>2 DEF KeptThere
  <2>1. PICK s \in Active : slots[s].handler = cb /\ slots[s].recurring
    BY DEF KeptThere
  <2>2. s \in Slots /\ s \in Nat /\ s < subscriber_count /\ s # k
    <3>1. s \in Slots /\ s \in Nat /\ s < subscriber_count
      BY <1>3, <1>4 DEF Active
    <3>2. s # k
      BY <2>1
    <3> QED BY <3>1, <3>2
  <2>3. CASE s < k
    <3>1. s \in Active' /\ slots'[s] = slots[s]
      BY <2>2, <2>3, <1>3, <1>4 DEF Active
    <3> QED BY <3>1, <2>1
  <2>4. CASE s > k
    <3>1. s - 1 \in Nat /\ s - 1 >= k /\ s - 1 < subscriber_count - 1 /\ (s - 1) + 1 = s
      BY <2>2, <2>4, <1>3, <1>4
    <3>2. s - 1 \in Slots /\ s - 1 \in Active'
      <4>1. s - 1 \in Slots
        BY <3>1, <2>2, TimerAssumption DEF Slots
      <4>2. s - 1 \in Active'
        BY <3>1, <1>3 DEF Active
      <4> QED BY <4>1, <4>2
    <3>3. slots'[s - 1] = slots[s]
      BY <3>1, <3>2, <1>3
    <3> QED BY <3>2, <3>3, <2>1
  <2>5. s < k \/ s > k
    BY <2>2, <1>4
  <2> QED BY <2>3, <2>4, <2>5
<1>10. KeptOnce'
  <2> SUFFICES ASSUME ~stale, NEW s \in Active', NEW t \in Active', slots'[s].handler \in kept', slots'[s].handler = slots'[t].handler
               PROVE  s = t
    BY <1>2 DEF KeptOnce, Unnamed
  <2>1. ~Unnamed /\ slots'[s].handler \in kept
    BY <1>1, <1>2 DEF Unnamed
  <2>2. from(s) = from(t)
    <3> HIDE DEF from
    <3> QED BY <1>5, <2>1 DEF KeptOnce
  <2> QED BY <1>4, <1>5, <2>2
<1>11. (\A s \in Slots : slots[s].handler \in subscribed \cup {NONE})'
  BY <1>2, <1>3
<1> QED BY <1>6, <1>7, <1>8, <1>9, <1>10, <1>11

LEMMA TimerStutter == TimerInv /\ (UNCHANGED timerVars \/ timer_record_boot_timestamp) => TimerInv'
<1> SUFFICES ASSUME TimerInv, UNCHANGED timerVars \/ timer_record_boot_timestamp PROVE TimerInv'
  OBVIOUS
<1>1. UNCHANGED <<total_ticks, slots, subscriber_count, i, sub, subscribed, kept, stale>> /\ boot_time_ticks' \in Nat
  BY DEF timerVars, timer_record_boot_timestamp, TimerInv, TimerTypeOK
<1>2. Active' = Active /\ Unnamed' = Unnamed
  BY <1>1 DEF Active, Unnamed
<1> QED BY <1>1, <1>2 DEF TimerInv, TimerTypeOK, CallInProgress, ServedSoFar, KeptThere, KeptOnce

(* timer_handle_interrupt and timer_subscribe_event: for any number of      *)
(* slots, callbacks and intervals and ticks at any point, no subscriber is  *)
(* overdue once the handler has returned, and a recurring subscription      *)
(* whose call met no tick stays, once unless a tick found a slot unnamed.   *)
THEOREM SubscribersCorrect == TimerSpec => []SubscribersServed
<1>1. TimerInv /\ [TimerNext]_timerVars => TimerInv'
  BY TickInv, NotDueInv, RearmInv, RemoveEntryInv, TickReturnsInv, SubscribeInv, FillInv, SubscribeReturnsInv,
     UnsubscribeInv, TimerStutter DEF TimerNext
<1>2. TimerInv => SubscribersServed
  <2> SUFFICES ASSUME TimerInv PROVE SubscribersServed
    OBVIOUS
  <2>1. NoneOverdue
    BY DEF TimerInv, ServedSoFar, NoneOverdue
  <2>2. ASSUME i = -1, sub.step = "idle", NEW cb \in kept
        PROVE  \E s \in Active : /\ slots[s].handler = cb /\ slots[s].recurring
                                 /\ stale \/ \A t \in Active : slots[t].handler = cb => t = s
    <3>1. PICK s \in Active : slots[s].handler = cb /\ slots[s].recurring
      BY DEF TimerInv, KeptThere
    <3>2. ~stale => \A t \in Active : slots[t].handler = cb => t = s
      BY <2>2, <3>1 DEF TimerInv, KeptOnce, Unnamed
    <3> QED BY <3>1, <3>2
  <2> QED BY <2>1, <2>2 DEF SubscribersServed
<1> QED BY <1>1, <1>2, TimerInitInv, PTL DEF TimerSpec

-----------------------------------------------------------------------------
(* Keys *)

LEMMA KbdInitInv == KbdInit => KbdInv
<1> SUFFICES ASSUME KbdInit PROVE KbdInv
  OBVIOUS
<1>1. SLOTS \in Nat /\ \A s \in 1 .. SLOTS : s < SLOTS + 1
  BY KeyboardAssumption
<1>2. NoKeys \in Reports /\ \A s \in 1 .. SLOTS : NoKeys[s] = 0
  BY DEF NoKeys, Reports
<1>3. report = [keys |-> NoKeys, shift |-> FALSE] /\ prev_keys = NoKeys /\ slot = SLOTS + 1 /\ before = NoKeys
  BY DEF KbdInit
<1>4. report.keys = NoKeys
  BY <1>3
<1>5. FALSE \in BOOLEAN
  OBVIOUS
<1>6. report \in [keys : Reports, shift : BOOLEAN]
  BY <1>2, <1>3, <1>5
<1>7. passed = <<>> /\ passed \in Seq(UsbKeys) /\ IsInjective(passed) /\ ToSet(passed) = {}
  BY DEF KbdInit, IsInjective, ToSet
<1>8. ChangedBefore(slot) = {}
  BY <1>2, <1>4 DEF ChangedBefore
<1>9. shift_pressed \in BOOLEAN /\ ctrl_pressed \in BOOLEAN /\ ~shift_pressed /\ ~ctrl_pressed
  BY DEF KbdInit
<1>10. EachOnce(report.keys)
  BY <1>2, <1>4 DEF EachOnce
<1>11. slot \in 1 .. SLOTS + 1 /\ \A s \in 1 .. SLOTS : prev_keys[s] = IF s < slot THEN report.keys[s] ELSE before[s]
  BY <1>1, <1>3, <1>4
<1> QED BY <1>2, <1>3, <1>6, <1>7, <1>8, <1>9, <1>10, <1>11 DEF KbdInv

(* An action of the PS/2 keyboard leaves the report and its loop alone. *)
LEMMA UsbKept ==
  ASSUME KbdInv, UNCHANGED usb, shift_pressed' \in BOOLEAN, ctrl_pressed' \in BOOLEAN,
         shift_pressed' => held' \cap Shifts # {}, ctrl_pressed' => held' \cap Ctrls # {}
  PROVE  KbdInv'
<1>1. /\ report' = report /\ prev_keys' = prev_keys /\ slot' = slot /\ before' = before /\ passed' = passed
  BY DEF usb
<1>2. ChangedBefore(slot)' = ChangedBefore(slot)
  BY <1>1 DEF ChangedBefore
<1> QED BY <1>1, <1>2 DEF KbdInv

LEMMA MakeInv ==
  ASSUME KbdInv, NEW key, Make(key)
  PROVE  KbdInv'
<1>1. held' = held \cup {key} /\ UNCHANGED usb
  BY DEF Make
<1>2. CASE key \in Shifts \cup Ctrls \cup {CAPS}
  <2>1. /\ shift_pressed' = (shift_pressed \/ key \in Shifts) /\ ctrl_pressed' = (ctrl_pressed \/ key \in Ctrls)
    BY <1>2 DEF Make, ModifierMade
  <2>2. shift_pressed' => held' \cap Shifts # {}
    BY <1>1, <2>1, Zenon DEF KbdInv
  <2>3. ctrl_pressed' => held' \cap Ctrls # {}
    BY <1>1, <2>1, Zenon DEF KbdInv
  <2>4. shift_pressed' \in BOOLEAN /\ ctrl_pressed' \in BOOLEAN
    BY <2>1, Zenon
  <2> QED BY <1>1, <2>2, <2>3, <2>4, UsbKept
<1>3. CASE key \notin Shifts \cup Ctrls \cup {CAPS}
  <2>1. shift_pressed' = shift_pressed /\ ctrl_pressed' = ctrl_pressed
    BY <1>3 DEF Make, modifiers
  <2>2. /\ shift_pressed' \in BOOLEAN /\ ctrl_pressed' \in BOOLEAN
        /\ shift_pressed' => held' \cap Shifts # {}
        /\ ctrl_pressed' => held' \cap Ctrls # {}
    BY <1>1, <2>1, Zenon DEF KbdInv
  <2> QED BY <1>1, <2>2, UsbKept
<1> QED BY <1>2, <1>3

LEMMA BreakInv ==
  ASSUME KbdInv, NEW key, Break(key)
  PROVE  KbdInv'
<1>1. /\ held' = held \ {key} /\ UNCHANGED usb
      /\ shift_pressed' = (shift_pressed /\ key \notin Shifts) /\ ctrl_pressed' = (ctrl_pressed /\ key \notin Ctrls)
  BY DEF Break
<1>2. shift_pressed' => held' \cap Shifts # {}
  BY <1>1, Zenon DEF KbdInv
<1>3. ctrl_pressed' => held' \cap Ctrls # {}
  BY <1>1, Zenon DEF KbdInv
<1>4. shift_pressed' \in BOOLEAN /\ ctrl_pressed' \in BOOLEAN
  BY <1>1, Zenon
<1> QED BY <1>1, <1>2, <1>3, <1>4, UsbKept

(* The steps of the USB driver leave the modifiers alone. *)
LEMMA ModifiersKept ==
  ASSUME KbdInv, UNCHANGED ps2
  PROVE  /\ shift_pressed' \in BOOLEAN /\ ctrl_pressed' \in BOOLEAN
         /\ shift_pressed' => held' \cap Shifts # {}
         /\ ctrl_pressed' => held' \cap Ctrls # {}
<1>1. held' = held /\ shift_pressed' = shift_pressed /\ ctrl_pressed' = ctrl_pressed
  BY DEF ps2
<1> QED BY <1>1 DEF KbdInv

(* A new report starts the loop with prev_keys being the report before. *)
LEMMA ReportInv ==
  ASSUME KbdInv, NEW keys \in Reports, NEW shift \in BOOLEAN, EachOnce(keys), Report(keys, shift)
  PROVE  KbdInv'
<1>1. /\ slot = SLOTS + 1 /\ slot' = 1 /\ report' = [keys |-> keys, shift |-> shift]
      /\ before' = report.keys /\ passed' = <<>> /\ prev_keys' = prev_keys /\ UNCHANGED ps2
  BY DEF Report
<1>2. SLOTS \in Nat \ {0}
  BY KeyboardAssumption
<1>3. report.keys \in Reports /\ prev_keys \in Reports /\ \A s \in 1 .. SLOTS : prev_keys[s] = report.keys[s]
  <2>1. \A s \in 1 .. SLOTS : s < slot
    BY <1>1, <1>2
  <2> QED BY <2>1 DEF KbdInv
<1>4. report'.keys = keys /\ report' \in [keys : Reports, shift : BOOLEAN] /\ slot' \in 1 .. SLOTS + 1
  BY <1>1, <1>2
<1>5. \A s \in 1 .. SLOTS : prev_keys'[s] = IF s < slot' THEN report'.keys[s] ELSE before'[s]
  BY <1>1, <1>2, <1>3
<1>6. passed' \in Seq(UsbKeys) /\ IsInjective(passed') /\ ToSet(passed') = {}
  BY <1>1 DEF IsInjective, ToSet
<1>7. ChangedBefore(slot)' = {}
  <2>1. \A s \in 1 .. SLOTS : ~(s < slot')
    BY <1>1, <1>2
  <2> QED BY <2>1 DEF ChangedBefore
<1>8. EachOnce(report.keys)'
  BY <1>4 DEF EachOnce
<1> QED BY <1>1, <1>3, <1>4, <1>5, <1>6, <1>7, <1>8, ModifiersKept DEF KbdInv

(* One more slot is looked at: its key, if it changed and has a code, is    *)
(* passed on, which it was not before since no other slot has it.           *)
LEMMA HandleReportInv ==
  ASSUME KbdInv, usb_keyboard_handle_report
  PROVE  KbdInv'
<1> DEFINE key == report.keys[slot]
<1> DEFINE now == [prev_keys EXCEPT ![slot] = key]
<1>1. SLOTS \in Nat \ {0} /\ slot \in 1 .. SLOTS /\ slot' = slot + 1 /\ slot' \in 1 .. SLOTS + 1
  BY KeyboardAssumption DEF KbdInv, usb_keyboard_handle_report
<1>2. report' = report /\ before' = before /\ UNCHANGED ps2
  BY DEF usb_keyboard_handle_report
<1>3. /\ report \in [keys : Reports, shift : BOOLEAN] /\ EachOnce(report.keys) /\ before \in Reports /\ prev_keys \in Reports
      /\ \A s \in 1 .. SLOTS : prev_keys[s] = IF s < slot THEN report.keys[s] ELSE before[s]
  BY DEF KbdInv
<1>4. key \in UsbKeys \cup {0} /\ report.keys \in Reports
  BY <1>1, <1>3 DEF Reports
<1>5. prev_keys[slot] = before[slot]
  BY <1>1, <1>3
<1>6. now \in Reports /\ \A s \in 1 .. SLOTS : now[s] = IF s < slot + 1 THEN report.keys[s] ELSE before[s]
  <2>1. now \in Reports /\ \A s \in 1 .. SLOTS : now[s] = IF s = slot THEN key ELSE prev_keys[s]
    BY <1>1, <1>3, <1>4 DEF Reports
  <2>2. ASSUME NEW s \in 1 .. SLOTS PROVE now[s] = IF s < slot + 1 THEN report.keys[s] ELSE before[s]
    <3> HIDE DEF now
    <3>1. CASE s = slot
      BY <2>1, <3>1, <1>1
    <3>2. CASE s # slot
      BY <2>1, <3>2, <1>1, <1>3
    <3> QED BY <3>1, <3>2
  <2> QED BY <2>1, <2>2
<1>7. prev_keys' = now
  <2>1. CASE slot < SLOTS
    BY <2>1 DEF usb_keyboard_handle_report
  <2>2. CASE slot = SLOTS
    <3>1. prev_keys' = [s \in 1 .. SLOTS |-> IF now[s] \in DownKeys(report.keys) THEN now[s] ELSE 0]
      BY <2>2, <1>1 DEF usb_keyboard_handle_report
    <3> HIDE DEF now
    <3>2. \A s \in 1 .. SLOTS : now[s] = report.keys[s]
      BY <1>1, <1>6, <2>2
    <3>3. \A s \in 1 .. SLOTS : now[s] = IF now[s] \in DownKeys(report.keys) THEN now[s] ELSE 0
      BY <3>2 DEF DownKeys
    <3> QED BY <3>1, <3>3, <1>6 DEF Reports
  <2> QED BY <2>1, <2>2, <1>1
<1> DEFINE pass == key # 0 /\ before[slot] # key /\ UsbCode(key, report.shift) # 0
<1>8. passed' = IF pass THEN Append(passed, key) ELSE passed
  BY <1>5 DEF usb_keyboard_handle_report, IsNew
<1>9. passed \in Seq(UsbKeys) /\ IsInjective(passed) /\ ToSet(passed) = ChangedBefore(slot)
  BY DEF KbdInv
<1>10. ChangedBefore(slot)' = ChangedBefore(slot) \cup (IF pass THEN {key} ELSE {})
  <2>1. \A s \in 1 .. SLOTS : s < slot + 1 <=> s < slot \/ s = slot
    BY <1>1
  <2>2. ASSUME NEW k \in UsbKeys, k # 0, UsbCode(k, report.shift) # 0
        PROVE  (\E s \in 1 .. SLOTS : s < slot + 1 /\ report.keys[s] = k /\ before[s] # k)
               <=> (\E s \in 1 .. SLOTS : s < slot /\ report.keys[s] = k /\ before[s] # k) \/ (k = key /\ pass)
    <3>1. k = key /\ pass <=> report.keys[slot] = k /\ before[slot] # k
      BY <2>2
    <3> HIDE DEF key, pass
    <3> QED BY <2>1, <3>1, <1>1
  <2>3. pass => key \in UsbKeys /\ key # 0 /\ UsbCode(key, report.shift) # 0
    BY <1>4
  <2> HIDE DEF key, pass
  <2> QED BY <2>2, <2>3, <1>1, <1>2 DEF ChangedBefore
<1>11. pass => key \in UsbKeys /\ key \notin ChangedBefore(slot)
  <2> SUFFICES ASSUME pass, key \in ChangedBefore(slot) PROVE FALSE
    BY <1>4
  <2>1. PICK s \in 1 .. SLOTS : s < slot /\ report.keys[s] = key
    BY DEF ChangedBefore
  <2>2. s = slot
    BY <2>1, <1>1, <1>3 DEF EachOnce
  <2> QED BY <2>1, <2>2, <1>1
<1>12. passed' \in Seq(UsbKeys) /\ IsInjective(passed') /\ ToSet(passed') = ChangedBefore(slot)'
  <2> HIDE DEF key, pass
  <2>1. CASE ~pass
    BY <2>1, <1>8, <1>9, <1>10
  <2>2. CASE pass
    <3>1. passed' = Append(passed, key) /\ key \in UsbKeys
      BY <2>2, <1>8, <1>11
    <3>2. /\ passed' \in Seq(UsbKeys) /\ Len(passed') = Len(passed) + 1 /\ Len(passed) \in Nat
          /\ DOMAIN passed' = 1 .. Len(passed) + 1 /\ DOMAIN passed = 1 .. Len(passed)
          /\ passed'[Len(passed) + 1] = key /\ \A n \in 1 .. Len(passed) : passed'[n] = passed[n]
      BY <3>1, <1>9
    <3>3. ToSet(passed') = ToSet(passed) \cup {key}
      BY <3>2 DEF ToSet
    <3>4. \A n \in 1 .. Len(passed) : passed[n] # key
      BY <2>2, <3>2, <1>9, <1>11 DEF ToSet
    <3>5. IsInjective(passed')
      BY <3>2, <3>4, <1>9 DEF IsInjective
    <3> QED BY <2>2, <3>2, <3>3, <3>5, <1>9, <1>10
  <2> QED BY <2>1, <2>2
<1> HIDE DEF now
<1>13. \A s \in 1 .. SLOTS : prev_keys'[s] = IF s < slot' THEN report'.keys[s] ELSE before'[s]
  BY <1>1, <1>2, <1>6, <1>7
<1>14. prev_keys' \in Reports /\ EachOnce(report.keys)'
  BY <1>2, <1>3, <1>6, <1>7 DEF EachOnce
<1> QED BY <1>1, <1>2, <1>3, <1>12, <1>13, <1>14, ModifiersKept DEF KbdInv

(* keyboard_interrupt_handler and usb_keyboard_handle_report: a modifier's  *)
(* flag never sticks, and of every USB report the new keys, and of the old  *)
(* ones only those that changed their slot, are passed on once; for any     *)
(* number of slots and keys, with scan codes between any two slots.         *)
THEOREM KeysCorrect == KbdSpec => []KeysRight
<1>1. KbdInv /\ [KbdNext]_kbdVars => KbdInv'
  <2> SUFFICES ASSUME KbdInv, [KbdNext]_kbdVars PROVE KbdInv'
    OBVIOUS
  <2>1. CASE UNCHANGED kbdVars
    <3>1. UNCHANGED usb /\ UNCHANGED ps2
      BY <2>1 DEF kbdVars
    <3> QED BY <3>1, UsbKept, ModifiersKept
  <2>2. CASE \E key \in Ps2Keys : Make(key) \/ Break(key)
    BY <2>2, MakeInv, BreakInv
  <2>3. CASE \E keys \in [1 .. SLOTS -> UsbKeys \cup {0}], shift \in BOOLEAN : EachOnce(keys) /\ Report(keys, shift)
    BY <2>3, ReportInv DEF Reports
  <2>4. CASE usb_keyboard_handle_report
    BY <2>4, HandleReportInv
  <2> QED BY <2>1, <2>2, <2>3, <2>4 DEF KbdNext
<1>2. KbdInv => KeysRight
  <2> SUFFICES ASSUME KbdInv PROVE KeysRight
    OBVIOUS
  <2> DEFINE keys == {key \in DownKeys(report.keys) : UsbCode(key, report.shift) # 0}
  <2> DEFINE moved == {key \in keys : \E s \in 1 .. SLOTS : report.keys[s] = key /\ before[s] # key}
  <2>1. ASSUME slot = SLOTS + 1
        PROVE  IsInjective(passed) /\ keys \ DownKeys(before) \subseteq ToSet(passed) /\ ToSet(passed) \subseteq moved
    <3>1. \A s \in 1 .. SLOTS : s < slot
      BY <2>1, KeyboardAssumption
    <3>2. IsInjective(passed) /\ ToSet(passed) = ChangedBefore(slot) /\ report.keys \in [1 .. SLOTS -> UsbKeys \cup {0}]
      BY DEF KbdInv, Reports
    <3>3. keys \ DownKeys(before) \subseteq ChangedBefore(slot)
      <4> SUFFICES ASSUME NEW key \in keys, key \notin DownKeys(before) PROVE key \in ChangedBefore(slot)
        OBVIOUS
      <4>1. PICK s \in 1 .. SLOTS : report.keys[s] = key /\ key # 0
        BY DEF DownKeys
      <4>2. before[s] # key /\ key \in UsbKeys /\ s < slot /\ UsbCode(key, report.shift) # 0
        BY <4>1, <3>1, <3>2 DEF DownKeys
      <4> QED BY <4>1, <4>2 DEF ChangedBefore
    <3>4. ChangedBefore(slot) \subseteq moved
      BY <3>1, <3>2 DEF ChangedBefore, DownKeys
    <3> QED BY <3>2, <3>3, <3>4
  <2>2. (shift_pressed => held \cap Shifts # {}) /\ (ctrl_pressed => held \cap Ctrls # {})
    BY DEF KbdInv
  <2> QED BY <2>1, <2>2, Zenon DEF KeysRight
<1> QED BY <1>1, <1>2, KbdInitInv, PTL DEF KbdSpec
-----------------------------------------------------------------------------
(* The text screen *)

ScreenRow == [0..Cols - 1 -> SUBSET (Glyphs \cup {"_"})]
ScreenPages == [rows : [0..Rows - 1 -> ScreenRow], x : 0..Wrap - 1, y : 0..Wrap - 1, endless : {FALSE}, astray : BOOLEAN]
PaperPages ==
  {p \in [rows : UNION {[0..n -> ScreenRow] : n \in 0..Rows - 1}, x : 0..Wrap - 1, y : 0..Rows - 1, endless : {TRUE}, astray : BOOLEAN] :
     DOMAIN p.rows = 0..p.y}

(* The screen p shows the text of the paper q. *)
Like(p, q) ==
  /\ p \in ScreenPages /\ q \in PaperPages /\ p.x = q.x /\ p.y = q.y
  /\ \A y \in 0..Rows - 1 : p.rows[y] = IF y <= q.y THEN q.rows[y] ELSE Blank

(* The right edge of a line that is full. *)
Far == Cols + MAX_INPUT_LEN

(* What putting text may do to the cursor: it goes down, and never below    *)
(* the window if it was in it.                                              *)
Goes(p, q) ==
  /\ q \in ScreenPages
  /\ p.y < Rows => p.y <= q.y /\ q.y < Rows
  /\ p.y = Rows => q.y = Rows

(* No glyph is drawn outside if it began in the window and not too far to   *)
(* the right, and the cursor does not get too far.                          *)
Neat(p, q) == p.y < Rows /\ p.x <= Far => q.x <= Far /\ (q.astray => p.astray)

(* What the screen will be when the character of the log has been put. *)
Tabs(n, p) ==
  IF n = 0 THEN p ELSE IF n = 1 THEN Tab(p) ELSE IF n = 2 THEN Tab(Tab(p))
  ELSE IF n = 3 THEN Tab(Tab(Tab(p))) ELSE Tab(Tab(Tab(Tab(p))))
FinishDraw(l, p) == IF l.c = TAB4 THEN Tabs(l.n - 1, Right(p)) ELSE Right(putchar_fast(p, l.c))
FinishLine(l, p) == IF l.c = NL THEN p ELSE FinishDraw(l, p)
Finish(l, p) ==
  IF l.at = "none" THEN p
  ELSE IF l.at = "test" THEN IF l.c = TAB4 THEN Tabs(l.n, p) ELSE putchar(p, l.c)
  ELSE IF l.at = "line" THEN FinishLine(l, NewLine(p))
  ELSE IF l.at = "bottom" THEN FinishLine(l, IF BelowBottom(p.y) THEN RowUp(scroll_up(p)) ELSE p)
  ELSE IF l.at = "scrolled" THEN FinishLine(l, RowUp(p))
  ELSE FinishDraw(l, p)

(* The step of the log and the character that takes it. *)
LogStep == [at : {"none", "test", "line", "bottom", "scrolled", "draw"}, c : Putable, n : 0..4, y : 0..Wrap - 1]
LogTypes ==
  /\ log \in LogStep
  /\ log.at = "none" => log = NoLog
  /\ log.at # "none" => ~boot_completed /\ log.n >= 1 /\ log.c \notin {CR, BS}
  /\ log.at \in {"test", "draw"} => log.c # NL
  /\ log.c # TAB4 /\ log.at # "none" => log.n = 1

(* The cursor's row while the log is printed and keys echo. *)
RowInWindow ==
  /\ log.at \in {"none", "test", "draw"} => screen.y < Rows
  /\ log.at = "line" => log.y <= screen.y /\ screen.y < Rows
  /\ log.at = "bottom" => log.y <= screen.y /\ screen.y <= Rows /\ (log.y = Rows <=> screen.y = Rows)
  /\ log.at = "scrolled" => screen.y = Rows

(* Without keys before the end of the boot, the screen will show the text,  *)
(* and as long as the line was not full, the cursor is where the line says. *)
TextKept ==
  /\ Like(Finish(log, screen), paper)
  /\ log.at \in {"line", "bottom"} => log.y = screen.y
  /\ ~boot_completed => input_len = 0
  /\ ~overfull => /\ ~Finish(log, screen).astray /\ Finish(log, screen).x <= Far
                  /\ input_start_x <= Cols
                  /\ input_len > 0 => screen.x = input_start_x + input_pos

ScreenInv ==
  /\ screen \in ScreenPages /\ LogTypes
  /\ input_len \in 0..MAX_INPUT_LEN /\ input_pos \in 0..input_len /\ input_start_x \in 0..Wrap - 1
  /\ cursor_visible \in BOOLEAN /\ boot_completed \in BOOLEAN /\ early \in Nat /\ cleared \in BOOLEAN /\ overfull \in BOOLEAN
  /\ cleared => early > 0
  /\ ~cleared => RowInWindow
  /\ early = 0 => TextKept

(* The cursor wraps far from the framebuffer and from a full line. *)
LEMMA ScreenSizes ==
  /\ Rows \in Nat /\ Rows >= 1 /\ Cols \in Nat /\ Cols >= 1 /\ Wrap \in Nat /\ MAX_INPUT_LEN \in Nat
  /\ Rows + 2 < Wrap /\ Far \in Nat /\ Far + 1 < Wrap /\ Cols <= Far
<1>1. Rows \in Nat \ {0} /\ Cols \in Nat \ {0} /\ MAX_INPUT_LEN \in Nat /\ Wrap \in Nat
  BY ScreenAssumption
<1>2. Wrap > Rows + 2 /\ Wrap > Cols + MAX_INPUT_LEN + 1
  BY ScreenAssumption, Zenon
<1> QED BY <1>1, <1>2 DEF Far

LEMMA WrapSmall == \A n \in 0..Wrap - 1 : n % Wrap = n
BY ScreenSizes

LEMMA WrapRange == \A n \in Int : n % Wrap \in 0..Wrap - 1
BY ScreenSizes

LEMMA BlankIs == Blank \in ScreenRow
BY DEF Blank, ScreenRow

(* The fields of a page. *)
LEMMA ScreenFields ==
  ASSUME NEW p \in ScreenPages
  PROVE  /\ p.rows \in [0..Rows - 1 -> ScreenRow] /\ p.x \in 0..Wrap - 1 /\ p.y \in 0..Wrap - 1
         /\ p.endless = FALSE /\ p.astray \in BOOLEAN
BY DEF ScreenPages

LEMMA PaperFields ==
  ASSUME NEW p \in PaperPages
  PROVE  /\ p.rows \in [0..p.y -> ScreenRow] /\ p.x \in 0..Wrap - 1 /\ p.y \in 0..Rows - 1
         /\ p.endless = TRUE /\ p.astray \in BOOLEAN
<1>1. PICK n \in 0..Rows - 1 : p.rows \in [0..n -> ScreenRow]
  BY DEF PaperPages
<1>2. DOMAIN p.rows = 0..p.y
  BY DEF PaperPages
<1>3. p.rows \in [0..p.y -> ScreenRow]
  BY <1>1, <1>2
<1> QED BY <1>3 DEF PaperPages

(* A page with one field changed. *)
LEMMA ScreenSetX ==
  ASSUME NEW p \in ScreenPages, NEW v \in 0..Wrap - 1
  PROVE  LET q == [p EXCEPT !.x = v] IN
           q \in ScreenPages /\ q.x = v /\ q.y = p.y /\ q.rows = p.rows /\ q.astray = p.astray
BY DEF ScreenPages

LEMMA ScreenSetY ==
  ASSUME NEW p \in ScreenPages, NEW v \in 0..Wrap - 1
  PROVE  LET q == [p EXCEPT !.y = v] IN
           q \in ScreenPages /\ q.x = p.x /\ q.y = v /\ q.rows = p.rows /\ q.astray = p.astray
BY DEF ScreenPages

LEMMA ScreenSetRows ==
  ASSUME NEW p \in ScreenPages, NEW r \in [0..Rows - 1 -> ScreenRow]
  PROVE  LET q == [p EXCEPT !.rows = r] IN
           q \in ScreenPages /\ q.x = p.x /\ q.y = p.y /\ q.rows = r /\ q.astray = p.astray
BY DEF ScreenPages

LEMMA ScreenSetAstray ==
  ASSUME NEW p \in ScreenPages
  PROVE  LET q == [p EXCEPT !.astray = TRUE] IN
           q \in ScreenPages /\ q.x = p.x /\ q.y = p.y /\ q.rows = p.rows
BY DEF ScreenPages

LEMMA PaperSetX ==
  ASSUME NEW p \in PaperPages, NEW v \in 0..Wrap - 1
  PROVE  LET q == [p EXCEPT !.x = v] IN
           q \in PaperPages /\ q.x = v /\ q.y = p.y /\ q.rows = p.rows
BY DEF PaperPages

LEMMA PaperSetRows ==
  ASSUME NEW p \in PaperPages, NEW r \in [0..p.y -> ScreenRow]
  PROVE  LET q == [p EXCEPT !.rows = r] IN
           q \in PaperPages /\ q.x = p.x /\ q.y = p.y /\ q.rows = r
<1>1. p.y \in 0..Rows - 1
  BY PaperFields
<1>2. r \in UNION {[0..n -> ScreenRow] : n \in 0..Rows - 1} /\ DOMAIN r = 0..p.y
  BY <1>1
<1> QED BY <1>1, <1>2 DEF PaperPages

LEMMA PaperSetAstray ==
  ASSUME NEW p \in PaperPages
  PROVE  LET q == [p EXCEPT !.astray = TRUE] IN
           q \in PaperPages /\ q.x = p.x /\ q.y = p.y /\ q.rows = p.rows
BY DEF PaperPages

(* What a page shows depends on its rows, the cursor and no more. *)
LEMMA LikeX ==
  ASSUME NEW p, NEW q, Like(p, q), NEW v \in 0..Wrap - 1
  PROVE  Like([p EXCEPT !.x = v], [q EXCEPT !.x = v])
<1> DEFINE p2 == [p EXCEPT !.x = v]
           q2 == [q EXCEPT !.x = v]
<1>1. p \in ScreenPages /\ q \in PaperPages
  BY DEF Like
<1>2. p2 \in ScreenPages /\ p2.x = v /\ p2.y = p.y /\ p2.rows = p.rows
  BY <1>1, ScreenSetX
<1>3. q2 \in PaperPages /\ q2.x = v /\ q2.y = q.y /\ q2.rows = q.rows
  BY <1>1, PaperSetX
<1> SUFFICES Like(p2, q2)
  OBVIOUS
<1> HIDE DEF p2, q2
<1> QED BY <1>2, <1>3 DEF Like

LEMMA LikeAstray ==
  ASSUME NEW p, NEW q, Like(p, q)
  PROVE  Like([p EXCEPT !.astray = TRUE], [q EXCEPT !.astray = TRUE])
<1> DEFINE p2 == [p EXCEPT !.astray = TRUE]
           q2 == [q EXCEPT !.astray = TRUE]
<1>1. p \in ScreenPages /\ q \in PaperPages
  BY DEF Like
<1>2. p2 \in ScreenPages /\ p2.x = p.x /\ p2.y = p.y /\ p2.rows = p.rows
  BY <1>1, ScreenSetAstray
<1>3. q2 \in PaperPages /\ q2.x = q.x /\ q2.y = q.y /\ q2.rows = q.rows
  BY <1>1, PaperSetAstray
<1> SUFFICES Like(p2, q2)
  OBVIOUS
<1> HIDE DEF p2, q2
<1> QED BY <1>2, <1>3 DEF Like

(* The row of the cursor replaced on both. *)
OfRow(p, row) == [p EXCEPT !.rows = [p.rows EXCEPT ![p.y] = row]]

LEMMA ScreenRowSet ==
  ASSUME NEW p \in ScreenPages, NEW row \in ScreenRow, p.y < Rows
  PROVE  LET q == OfRow(p, row) IN
           /\ q \in ScreenPages /\ q.x = p.x /\ q.y = p.y /\ q.astray = p.astray
           /\ q.rows = [p.rows EXCEPT ![p.y] = row]
<1> DEFINE r == [p.rows EXCEPT ![p.y] = row]
<1>1. r \in [0..Rows - 1 -> ScreenRow]
  BY ScreenFields
<1>2. OfRow(p, row) = [p EXCEPT !.rows = r]
  BY DEF OfRow
<1> HIDE DEF r
<1>3. LET q == [p EXCEPT !.rows = r] IN
        q \in ScreenPages /\ q.x = p.x /\ q.y = p.y /\ q.rows = r /\ q.astray = p.astray
  BY <1>1, ScreenSetRows
<1> QED BY <1>2, <1>3 DEF r

LEMMA PaperRowSet ==
  ASSUME NEW p \in PaperPages, NEW row \in ScreenRow
  PROVE  LET q == OfRow(p, row) IN
           q \in PaperPages /\ q.x = p.x /\ q.y = p.y /\ q.rows = [p.rows EXCEPT ![p.y] = row]
<1> DEFINE r == [p.rows EXCEPT ![p.y] = row]
<1>1. r \in [0..p.y -> ScreenRow]
  BY PaperFields
<1>2. OfRow(p, row) = [p EXCEPT !.rows = r]
  BY DEF OfRow
<1> HIDE DEF r
<1>3. LET q == [p EXCEPT !.rows = r] IN
        q \in PaperPages /\ q.x = p.x /\ q.y = p.y /\ q.rows = r
  BY <1>1, PaperSetRows
<1> QED BY <1>2, <1>3 DEF r

(* Where the pages agree they have the same row at the cursor. *)
LEMMA LikeAtCursor ==
  ASSUME NEW p, NEW q, Like(p, q)
  PROVE  /\ p \in ScreenPages /\ q \in PaperPages /\ p.x = q.x /\ p.y = q.y /\ p.y \in 0..Rows - 1 /\ p.x \in 0..Wrap - 1
         /\ p.rows[p.y] = q.rows[q.y] /\ p.rows[p.y] \in ScreenRow
         /\ p.y \in DOMAIN p.rows /\ q.y \in DOMAIN q.rows
<1>1. p \in ScreenPages /\ q \in PaperPages /\ p.y = q.y /\ p.x = q.x
  BY DEF Like
<1>2. q.y \in 0..Rows - 1 /\ q.rows \in [0..q.y -> ScreenRow]
  BY <1>1, PaperFields
<1>3. p.rows \in [0..Rows - 1 -> ScreenRow] /\ p.x \in 0..Wrap - 1
  BY <1>1, ScreenFields
<1>4. p.rows[p.y] = q.rows[q.y]
  BY <1>1, <1>2 DEF Like
<1>5. p.y \in 0..Rows - 1 /\ q.y \in 0..q.y
  BY <1>1, <1>2
<1>6. p.rows[p.y] \in ScreenRow /\ p.y \in DOMAIN p.rows /\ q.y \in DOMAIN q.rows
  BY <1>2, <1>3, <1>5
<1> QED BY <1>1, <1>3, <1>4, <1>5, <1>6

(* The same new row leaves two pages alike. *)
LEMMA LikeRow ==
  ASSUME NEW p, NEW q, Like(p, q), NEW row \in ScreenRow
  PROVE  Like(OfRow(p, row), OfRow(q, row))
<1> DEFINE p2 == OfRow(p, row)
           q2 == OfRow(q, row)
<1>1. p \in ScreenPages /\ q \in PaperPages /\ p.y = q.y /\ p.x = q.x /\ p.y \in 0..Rows - 1 /\ p.y < Rows
  <2>1. p \in ScreenPages /\ q \in PaperPages /\ p.y = q.y /\ p.x = q.x /\ p.y \in 0..Rows - 1
    BY LikeAtCursor
  <2> QED BY <2>1, ScreenSizes
<1>2. p2 \in ScreenPages /\ p2.x = p.x /\ p2.y = p.y /\ p2.rows = [p.rows EXCEPT ![p.y] = row]
  BY <1>1, ScreenRowSet
<1>3. q2 \in PaperPages /\ q2.x = q.x /\ q2.y = q.y /\ q2.rows = [q.rows EXCEPT ![q.y] = row]
  BY <1>1, PaperRowSet
<1> SUFFICES Like(p2, q2)
  OBVIOUS
<1> HIDE DEF p2, q2
<1>4. p.rows \in [0..Rows - 1 -> ScreenRow] /\ q.rows \in [0..q.y -> ScreenRow]
  BY <1>1, ScreenFields, PaperFields
<1>5. ASSUME NEW y \in 0..Rows - 1
      PROVE  p2.rows[y] = IF y <= q2.y THEN q2.rows[y] ELSE Blank
  <2>1. p.rows[y] = IF y <= q.y THEN q.rows[y] ELSE Blank
    BY DEF Like
  <2>2. CASE y = q.y
    <3>1. p2.rows[y] = row /\ q2.rows[y] = row
      <4>1. y \in 0..q.y /\ y = p.y
        BY <1>1, <2>2
      <4>2. p2.rows[y] = row
        BY <1>2, <1>4, <4>1
      <4>3. q2.rows[y] = row
        BY <1>3, <1>4, <2>2, <4>1
      <4> QED BY <4>2, <4>3
    <3> QED BY <1>1, <1>3, <2>2, <3>1
  <2>3. CASE y # q.y
    <3>1. p2.rows[y] = p.rows[y]
      BY <1>1, <1>2, <1>4, <2>3
    <3>2. y <= q.y => q2.rows[y] = q.rows[y]
      BY <1>1, <1>3, <1>4, <2>3
    <3> QED BY <1>3, <2>1, <3>1, <3>2
  <2> QED BY <2>2, <2>3
<1> QED BY <1>1, <1>2, <1>3, <1>5 DEF Like

ScreenCell == SUBSET (Glyphs \cup {"_"})

(* A cell drawn is a row replaced. *)
LEMMA InsideScreen ==
  ASSUME NEW p \in ScreenPages
  PROVE  Inside(p) <=> p.x < Cols /\ p.y < Rows
<1>1. p.y \in 0..Wrap - 1 /\ DOMAIN p.rows = 0..Rows - 1
  BY ScreenFields
<1> QED BY <1>1, ScreenSizes DEF Inside

LEMMA CellOfRow ==
  ASSUME NEW row \in ScreenRow, NEW x \in 0..Wrap - 1, x < Cols, NEW cell \in ScreenCell
  PROVE  [row EXCEPT ![x] = cell] \in ScreenRow /\ row[x] \in ScreenCell
<1>1. x \in 0..Cols - 1
  BY ScreenSizes
<1> QED BY <1>1 DEF ScreenRow, ScreenCell

LEMMA DrawIsRow ==
  ASSUME NEW p, NEW cell, Inside(p)
  PROVE  draw_rect(p, cell) = OfRow(p, [p.rows[p.y] EXCEPT ![p.x] = cell])
BY DEF draw_rect, OfRow

LEMMA FastIsRow ==
  ASSUME NEW p, NEW c, Inside(p)
  PROVE  putchar_fast(p, c) = OfRow(p, [p.rows[p.y] EXCEPT ![p.x] = p.rows[p.y][p.x] \cup {c}])
BY DEF putchar_fast, OfRow

LEMMA CursorRow ==
  ASSUME NEW p \in ScreenPages, Inside(p)
  PROVE  p.rows[p.y] \in ScreenRow /\ p.y < Rows /\ p.x < Cols /\ p.x \in 0..Wrap - 1 /\ p.rows[p.y][p.x] \in ScreenCell
<1>1. p.y < Rows /\ p.x < Cols
  BY InsideScreen
<1>2. p.rows \in [0..Rows - 1 -> ScreenRow] /\ p.y \in 0..Wrap - 1 /\ p.x \in 0..Wrap - 1
  BY ScreenFields
<1>3. p.y \in 0..Rows - 1 /\ p.x \in 0..Cols - 1
  BY <1>1, <1>2, ScreenSizes
<1>4. p.rows[p.y] \in ScreenRow
  BY <1>2, <1>3
<1> QED BY <1>1, <1>2, <1>3, <1>4 DEF ScreenRow, ScreenCell

(* A rectangle changes no more than a cell. *)
LEMMA DrawIs ==
  ASSUME NEW p \in ScreenPages, NEW cell \in ScreenCell
  PROVE  LET q == draw_rect(p, cell) IN q \in ScreenPages /\ q.x = p.x /\ q.y = p.y /\ q.astray = p.astray
<1>1. CASE Inside(p)
  <2> DEFINE row == [p.rows[p.y] EXCEPT ![p.x] = cell]
  <2>1. row \in ScreenRow /\ p.y < Rows
    BY <1>1, CursorRow, CellOfRow
  <2>2. draw_rect(p, cell) = OfRow(p, row)
    BY <1>1, DrawIsRow
  <2> HIDE DEF row
  <2>3. LET q == OfRow(p, row) IN q \in ScreenPages /\ q.x = p.x /\ q.y = p.y /\ q.astray = p.astray
    BY <2>1, ScreenRowSet, Zenon
  <2> QED BY <2>2, <2>3, Zenon
<1>2. CASE ~Inside(p)
  BY <1>2 DEF draw_rect
<1> QED BY <1>1, <1>2

(* A glyph in the window is not drawn outside. *)
LEMMA FastIs ==
  ASSUME NEW p \in ScreenPages, NEW c \in Glyphs
  PROVE  LET q == putchar_fast(p, c) IN
           q \in ScreenPages /\ q.x = p.x /\ q.y = p.y /\ (p.x < Cols /\ p.y < Rows => q.astray = p.astray)
<1>1. CASE Inside(p)
  <2> DEFINE row == [p.rows[p.y] EXCEPT ![p.x] = p.rows[p.y][p.x] \cup {c}]
  <2>1. p.rows[p.y] \in ScreenRow /\ p.y < Rows /\ p.x < Cols /\ p.x \in 0..Wrap - 1 /\ p.rows[p.y][p.x] \in ScreenCell
    BY <1>1, CursorRow
  <2>2. p.rows[p.y][p.x] \cup {c} \in ScreenCell
    BY <2>1 DEF ScreenCell
  <2>3. row \in ScreenRow
    BY <2>1, <2>2, CellOfRow
  <2>4. putchar_fast(p, c) = OfRow(p, row)
    BY <1>1, FastIsRow
  <2> HIDE DEF row
  <2>5. LET q == OfRow(p, row) IN q \in ScreenPages /\ q.x = p.x /\ q.y = p.y /\ q.astray = p.astray
    BY <2>1, <2>3, ScreenRowSet, Zenon
  <2> QED BY <2>4, <2>5, Zenon
<1>2. CASE ~Inside(p)
  <2>1. putchar_fast(p, c) = [p EXCEPT !.astray = TRUE]
    BY <1>2 DEF putchar_fast
  <2>2. ~(p.x < Cols /\ p.y < Rows)
    BY <1>2, InsideScreen
  <2> QED BY <2>1, <2>2, ScreenSetAstray
<1> QED BY <1>1, <1>2

LEMMA LikeInside ==
  ASSUME NEW p, NEW q, Like(p, q)
  PROVE  Inside(p) <=> Inside(q)
BY LikeAtCursor DEF Inside

(* A rectangle and a glyph over pages that are alike. *)
LEMMA DrawLike ==
  ASSUME NEW p, NEW q, Like(p, q), NEW cell \in ScreenCell
  PROVE  Like(draw_rect(p, cell), draw_rect(q, cell))
<1>1. CASE Inside(p)
  <2> DEFINE row == [p.rows[p.y] EXCEPT ![p.x] = cell]
  <2>1. row \in ScreenRow
    BY <1>1, LikeAtCursor, CursorRow, CellOfRow
  <2>2. [q.rows[q.y] EXCEPT ![q.x] = cell] = row
    BY LikeAtCursor
  <2>3. draw_rect(p, cell) = OfRow(p, row) /\ draw_rect(q, cell) = OfRow(q, row)
    BY <1>1, <2>2, LikeInside, DrawIsRow
  <2> HIDE DEF row
  <2> QED BY <2>1, <2>3, LikeRow
<1>2. CASE ~Inside(p)
  BY <1>2, LikeInside DEF draw_rect
<1> QED BY <1>1, <1>2

LEMMA FastLike ==
  ASSUME NEW p, NEW q, Like(p, q), NEW c \in Glyphs
  PROVE  Like(putchar_fast(p, c), putchar_fast(q, c))
<1>1. CASE Inside(p)
  <2> DEFINE row == [p.rows[p.y] EXCEPT ![p.x] = p.rows[p.y][p.x] \cup {c}]
  <2>1. p \in ScreenPages /\ p.x = q.x /\ p.y = q.y /\ p.rows[p.y] = q.rows[q.y]
    BY LikeAtCursor
  <2>2. p.rows[p.y] \in ScreenRow /\ p.x < Cols /\ p.x \in 0..Wrap - 1 /\ p.rows[p.y][p.x] \in ScreenCell
    BY <1>1, <2>1, CursorRow
  <2>3. p.rows[p.y][p.x] \cup {c} \in ScreenCell
    BY <2>2 DEF ScreenCell
  <2>4. row \in ScreenRow
    BY <2>2, <2>3, CellOfRow
  <2>5. [q.rows[q.y] EXCEPT ![q.x] = q.rows[q.y][q.x] \cup {c}] = row
    BY <2>1
  <2>6. putchar_fast(p, c) = OfRow(p, row) /\ putchar_fast(q, c) = OfRow(q, row)
    BY <1>1, <2>5, LikeInside, FastIsRow
  <2> HIDE DEF row
  <2> QED BY <2>4, <2>6, LikeRow
<1>2. CASE ~Inside(p)
  <2>1. putchar_fast(p, c) = [p EXCEPT !.astray = TRUE] /\ putchar_fast(q, c) = [q EXCEPT !.astray = TRUE]
    BY <1>2, LikeInside DEF putchar_fast
  <2> QED BY <2>1, LikeAstray
<1> QED BY <1>1, <1>2

(* What the cursor stands on. *)
LEMMA AtCursorIs ==
  ASSUME NEW p \in ScreenPages
  PROVE  AtCursor(p) \in ScreenCell
BY CursorRow DEF AtCursor, ScreenCell

LEMMA AtCursorLike ==
  ASSUME NEW p, NEW q, Like(p, q)
  PROVE  AtCursor(p) = AtCursor(q) /\ AtCursor(p) \in ScreenCell
<1>1. p \in ScreenPages /\ p.x = q.x /\ p.y = q.y /\ p.rows[p.y] = q.rows[q.y]
  BY LikeAtCursor
<1>2. AtCursor(p) = AtCursor(q)
  BY <1>1, LikeInside DEF AtCursor
<1> QED BY <1>1, <1>2, AtCursorIs

(* Lines going up and the cursor going down. *)
RowsUp(rows) == [y \in 0..Rows - 1 |-> IF y + 1 < Rows THEN rows[y + 1] ELSE Blank]

(* scroll_up, and the steps of the cursor between rows. *)
LEMMA ScrollIs ==
  ASSUME NEW p \in ScreenPages
  PROVE  LET q == scroll_up(p) IN
           q \in ScreenPages /\ q.x = p.x /\ q.y = p.y /\ q.rows = RowsUp(p.rows) /\ q.astray = p.astray
<1> DEFINE r == RowsUp(p.rows)
<1>1. p.rows \in [0..Rows - 1 -> ScreenRow] /\ DOMAIN p.rows = 0..Rows - 1
  BY ScreenFields
<1>2. \A y \in 0..Rows - 1 : y + 1 < Rows <=> y + 1 \in 0..Rows - 1
  BY ScreenSizes
<1>3. r \in [0..Rows - 1 -> ScreenRow]
  BY <1>1, <1>2, BlankIs DEF RowsUp
<1>4. scroll_up(p) = [p EXCEPT !.rows = [y \in 0..Rows - 1 |-> IF y + 1 \in 0..Rows - 1 THEN p.rows[y + 1] ELSE Blank]]
  BY <1>1 DEF scroll_up
<1>5. r = [y \in 0..Rows - 1 |-> IF y + 1 \in 0..Rows - 1 THEN p.rows[y + 1] ELSE Blank]
  BY <1>2 DEF RowsUp
<1>6. scroll_up(p) = [p EXCEPT !.rows = r]
  BY <1>4, <1>5
<1> HIDE DEF r
<1>7. LET q == [p EXCEPT !.rows = r] IN
        q \in ScreenPages /\ q.x = p.x /\ q.y = p.y /\ q.rows = r /\ q.astray = p.astray
  BY <1>3, ScreenSetRows
<1> QED BY <1>6, <1>7 DEF r

LEMMA RowUpIs ==
  ASSUME NEW p \in ScreenPages
  PROVE  LET q == RowUp(p) IN
           /\ q \in ScreenPages /\ q.x = p.x /\ q.rows = p.rows /\ q.astray = p.astray
           /\ p.y >= 1 => q.y = p.y - 1
<1>1. p.y \in 0..Wrap - 1
  BY ScreenFields
<1> DEFINE v == (p.y - 1) % Wrap
<1>2. v \in 0..Wrap - 1
  BY <1>1, WrapRange
<1>3. p.y >= 1 => v = p.y - 1
  <2>1. p.y >= 1 => p.y - 1 \in 0..Wrap - 1
    BY <1>1, ScreenSizes
  <2> QED BY <2>1, WrapSmall
<1>4. RowUp(p) = [p EXCEPT !.y = v]
  BY DEF RowUp
<1> HIDE DEF v
<1>5. LET q == [p EXCEPT !.y = v] IN
        q \in ScreenPages /\ q.x = p.x /\ q.y = v /\ q.rows = p.rows /\ q.astray = p.astray
  BY <1>2, ScreenSetY
<1> QED BY <1>3, <1>4, <1>5

LEMMA RowDownIs ==
  ASSUME NEW p \in ScreenPages, NEW y \in 0..Wrap - 1
  PROVE  LET q == RowDown(p, y) IN
           /\ q \in ScreenPages /\ q.x = 0 /\ q.rows = p.rows /\ q.astray = p.astray
           /\ q.y = (y + 1) % Wrap /\ (y + 1 < Wrap => q.y = y + 1)
<1> DEFINE v == (y + 1) % Wrap
           p0 == [p EXCEPT !.x = 0]
<1>1. v \in 0..Wrap - 1
  BY WrapRange
<1>2. y + 1 < Wrap => v = y + 1
  BY WrapSmall, ScreenSizes
<1>3. 0 \in 0..Wrap - 1
  BY ScreenSizes
<1>4. p0 \in ScreenPages /\ p0.x = 0 /\ p0.y = p.y /\ p0.rows = p.rows /\ p0.astray = p.astray
  BY <1>3, ScreenSetX
<1>5. RowDown(p, y) = [p0 EXCEPT !.y = v]
  BY DEF RowDown, ScreenPages
<1> HIDE DEF v, p0
<1>6. LET q == [p0 EXCEPT !.y = v] IN
        q \in ScreenPages /\ q.x = p0.x /\ q.y = v /\ q.rows = p0.rows /\ q.astray = p0.astray
  BY <1>1, <1>4, ScreenSetY
<1> QED BY <1>2, <1>4, <1>5, <1>6 DEF v

(* In and just below the window, the comparison does not wrap. *)
LEMMA BelowBottomIs ==
  ASSUME NEW y \in 0..Rows + 1
  PROVE  BelowBottom(y) <=> y >= Rows
<1>1. y + 1 \in 0..Wrap - 1
  BY ScreenSizes
<1>2. (y + 1) % Wrap = y + 1
  BY <1>1, WrapSmall
<1> QED BY <1>2, ScreenSizes DEF BelowBottom

(* A newline on the screen, and on the paper. *)
LEMMA NewLineIs ==
  ASSUME NEW p \in ScreenPages
  PROVE  LET q == NewLine(p) IN
           /\ q \in ScreenPages /\ q.x = 0 /\ q.astray = p.astray
           /\ p.y + 1 < Rows => q.y = p.y + 1 /\ q.rows = p.rows
           /\ p.y + 1 = Rows => q.y = p.y /\ q.rows = RowsUp(p.rows)
           /\ p.y = Rows => q.y = Rows
<1> DEFINE q == RowDown(p, p.y)
           r == RowUp(scroll_up(q))
<1>1. p.y \in 0..Wrap - 1 /\ p.endless = FALSE
  BY ScreenFields
<1>2. NewLine(p) = IF BelowBottom(q.y) THEN r ELSE q
  BY <1>1 DEF NewLine
<1>3. q \in ScreenPages /\ q.x = 0 /\ q.rows = p.rows /\ q.astray = p.astray /\ (p.y + 1 < Wrap => q.y = p.y + 1)
  BY <1>1, RowDownIs
<1>4. r \in ScreenPages /\ r.x = q.x /\ r.rows = RowsUp(q.rows) /\ r.astray = q.astray /\ (q.y >= 1 => r.y = q.y - 1)
  <2> DEFINE s == scroll_up(q)
  <2>1. s \in ScreenPages /\ s.x = q.x /\ s.y = q.y /\ s.rows = RowsUp(q.rows) /\ s.astray = q.astray
    BY <1>3, ScrollIs
  <2>2. r = RowUp(s)
    OBVIOUS
  <2> HIDE DEF s, q, r
  <2>3. LET t == RowUp(s) IN t \in ScreenPages /\ t.x = s.x /\ t.rows = s.rows /\ t.astray = s.astray /\ (s.y >= 1 => t.y = s.y - 1)
    BY <2>1, RowUpIs
  <2> QED BY <2>1, <2>2, <2>3
<1> HIDE DEF q, r
<1>5. p.y <= Rows => q.y = p.y + 1 /\ q.y \in 0..Rows + 1 /\ q.y >= 1
  BY <1>1, <1>3, ScreenSizes
<1>6. p.y + 1 < Rows => ~BelowBottom(q.y)
  BY <1>1, <1>5, BelowBottomIs, ScreenSizes
<1>7. p.y + 1 = Rows \/ p.y = Rows => BelowBottom(q.y)
  BY <1>1, <1>5, BelowBottomIs, ScreenSizes
<1>8. CASE BelowBottom(q.y)
  <2>1. NewLine(p) = r
    BY <1>2, <1>8
  <2> QED BY <1>1, <1>3, <1>4, <1>5, <1>6, <1>7, <1>8, <2>1, ScreenSizes
<1>9. CASE ~BelowBottom(q.y)
  <2>1. NewLine(p) = q
    BY <1>2, <1>9
  <2> QED BY <1>1, <1>3, <1>5, <1>6, <1>7, <1>9, <2>1, ScreenSizes
<1> QED BY <1>8, <1>9

LEMMA NextLineIs ==
  ASSUME NEW p \in PaperPages
  PROVE  LET q == NewLine(p) IN
           /\ q \in PaperPages /\ q.x = 0
           /\ p.y + 1 < Rows => /\ q.y = p.y + 1
                                /\ q.rows = [y \in 0..p.y + 1 |-> IF y > p.y THEN Blank ELSE p.rows[y]]
           /\ p.y + 1 = Rows => /\ q.y = p.y
                                /\ q.rows = [y \in 0..p.y |-> IF y + 1 > p.y THEN Blank ELSE p.rows[y + 1]]
<1>1. /\ p.rows \in [0..p.y -> ScreenRow] /\ p.y \in 0..Rows - 1 /\ p.endless = TRUE
      /\ p \in [rows : UNION {[0..n -> ScreenRow] : n \in 0..Rows - 1}, x : 0..Wrap - 1, y : 0..Rows - 1, endless : {TRUE}, astray : BOOLEAN]
  BY PaperFields DEF PaperPages
<1>2. NewLine(p) = NextLine(p)
  BY <1>1 DEF NewLine
<1>3. 0 \in 0..Wrap - 1
  BY ScreenSizes
<1>4. ASSUME NEW v \in 0..Rows - 1, NEW r \in [0..v -> ScreenRow]
      PROVE  LET q == [p EXCEPT !.rows = r, !.x = 0, !.y = v] IN q \in PaperPages /\ q.x = 0 /\ q.y = v /\ q.rows = r
  <2>1. r \in UNION {[0..n -> ScreenRow] : n \in 0..Rows - 1} /\ DOMAIN r = 0..v
    OBVIOUS
  <2> QED BY <1>1, <1>3, <2>1 DEF PaperPages
<1> DEFINE lines == [y \in 0..p.y + 1 |-> IF y > p.y THEN Blank ELSE p.rows[y]]
<1>5. \A y \in 0..p.y + 1 : lines[y] \in ScreenRow /\ lines[y] = IF y > p.y THEN Blank ELSE p.rows[y]
  BY <1>1, BlankIs
<1>6. CASE p.y + 1 < Rows
  <2> DEFINE v == p.y + 1
             r == [y \in 0..v |-> IF y > p.y THEN Blank ELSE p.rows[y]]
  <2>1. v \in 0..Rows - 1 /\ r \in [0..v -> ScreenRow]
    <3>1. v \in 0..Rows - 1
      BY <1>1, <1>6, ScreenSizes
    <3>2. \A y \in 0..v : (IF y > p.y THEN Blank ELSE p.rows[y]) \in ScreenRow
      BY <1>1, BlankIs
    <3> QED BY <3>1, <3>2
  <2>2. NextLine(p) = [p EXCEPT !.rows = [y \in 0..p.y + 1 - 0 |-> lines[y + 0]], !.x = 0, !.y = p.y + 1 - 0]
    BY <1>1, <1>6 DEF NextLine
  <2>3. p.y + 1 - 0 = v /\ [y \in 0..p.y + 1 - 0 |-> lines[y + 0]] = r
    BY <1>1, <1>5
  <2>4. NextLine(p) = [p EXCEPT !.rows = r, !.x = 0, !.y = v]
    BY <2>2, <2>3
  <2>5. p.y + 1 # Rows
    BY <1>1, <1>6, ScreenSizes
  <2> HIDE DEF v, r
  <2>6. LET q == [p EXCEPT !.rows = r, !.x = 0, !.y = v] IN q \in PaperPages /\ q.x = 0 /\ q.y = v /\ q.rows = r
    BY <1>4, <2>1
  <2>7. LET q == NewLine(p) IN q \in PaperPages /\ q.x = 0 /\ q.y = v /\ q.rows = r
    BY <1>2, <2>4, <2>6
  <2> QED BY <2>5, <2>7 DEF v, r
<1>7. CASE ~(p.y + 1 < Rows)
  <2> DEFINE v == p.y
             r == [y \in 0..v |-> IF y + 1 > p.y THEN Blank ELSE p.rows[y + 1]]
  <2>1. v \in 0..Rows - 1 /\ \A y \in 0..v : y + 1 \in 0..p.y + 1
    BY <1>1
  <2>2. NextLine(p) = [p EXCEPT !.rows = [y \in 0..p.y + 1 - 1 |-> lines[y + 1]], !.x = 0, !.y = p.y + 1 - 1]
    BY <1>1, <1>7 DEF NextLine
  <2>3. p.y + 1 - 1 = v
    BY <1>1
  <2>4. \A y \in 0..v : lines[y + 1] = IF y + 1 > p.y THEN Blank ELSE p.rows[y + 1]
    BY <1>5, <2>1
  <2>5. \A y \in 0..v : lines[y + 1] \in ScreenRow
    BY <1>5, <2>1
  <2> HIDE DEF lines
  <2>6. [y \in 0..v |-> lines[y + 1]] = r /\ r \in [0..v -> ScreenRow]
    BY <2>4, <2>5
  <2>7. NextLine(p) = [p EXCEPT !.rows = r, !.x = 0, !.y = v]
    BY <2>2, <2>3, <2>6
  <2> HIDE DEF v, r
  <2>8. LET q == [p EXCEPT !.rows = r, !.x = 0, !.y = v] IN q \in PaperPages /\ q.x = 0 /\ q.y = v /\ q.rows = r
    BY <1>4, <2>1, <2>6, ZenonT(60)
  <2>9. LET q == NewLine(p) IN q \in PaperPages /\ q.x = 0 /\ q.y = v /\ q.rows = r
    BY <1>2, <2>7, <2>8
  <2> QED BY <1>7, <2>9 DEF v, r
<1> QED BY <1>6, <1>7

(* The screen that scrolls shows what the paper that grows shows. *)
LEMMA NewLineLike ==
  ASSUME NEW p, NEW q, Like(p, q)
  PROVE  Like(NewLine(p), NewLine(q))
<1> DEFINE p2 == NewLine(p)
           q2 == NewLine(q)
<1>1. p \in ScreenPages /\ q \in PaperPages /\ p.y = q.y /\ p.y \in 0..Rows - 1
  BY LikeAtCursor
<1>2. p.rows \in [0..Rows - 1 -> ScreenRow] /\ q.rows \in [0..q.y -> ScreenRow]
  BY <1>1, ScreenFields, PaperFields
<1>3. \A y \in 0..Rows - 1 : p.rows[y] = IF y <= q.y THEN q.rows[y] ELSE Blank
  BY DEF Like
<1>4. p2 \in ScreenPages /\ p2.x = 0 /\ q2 \in PaperPages /\ q2.x = 0
  BY <1>1, NewLineIs, NextLineIs
<1> SUFFICES Like(p2, q2)
  OBVIOUS
<1>5. CASE p.y + 1 < Rows
  <2>1. p2.y = p.y + 1 /\ p2.rows = p.rows
    BY <1>1, <1>5, NewLineIs
  <2>2. q2.y = q.y + 1 /\ q2.rows = [y \in 0..q.y + 1 |-> IF y > q.y THEN Blank ELSE q.rows[y]]
    BY <1>1, <1>5, NextLineIs
  <2> HIDE DEF p2, q2
  <2>3. ASSUME NEW y \in 0..Rows - 1 PROVE p2.rows[y] = IF y <= q2.y THEN q2.rows[y] ELSE Blank
    <3>1. CASE y <= q2.y
      <4>1. y \in 0..q.y + 1
        BY <1>1, <2>2, <3>1
      <4>2. q2.rows[y] = IF y > q.y THEN Blank ELSE q.rows[y]
        BY <2>2, <4>1
      <4> QED BY <1>1, <1>3, <2>1, <3>1, <4>2
    <3>2. CASE ~(y <= q2.y)
      <4>1. ~(y <= q.y)
        BY <1>1, <2>2, <3>2
      <4> QED BY <1>3, <2>1, <3>2, <4>1
    <3> QED BY <3>1, <3>2
  <2> QED BY <1>1, <1>4, <2>1, <2>2, <2>3 DEF Like
<1>6. CASE ~(p.y + 1 < Rows)
  <2>0. p.y + 1 = Rows
    BY <1>1, <1>6, ScreenSizes
  <2>1. p2.y = p.y /\ p2.rows = RowsUp(p.rows)
    BY <1>1, <2>0, NewLineIs
  <2>2. q2.y = q.y /\ q2.rows = [y \in 0..q.y |-> IF y + 1 > q.y THEN Blank ELSE q.rows[y + 1]]
    BY <1>1, <2>0, NextLineIs
  <2> HIDE DEF p2, q2
  <2>3. ASSUME NEW y \in 0..Rows - 1 PROVE p2.rows[y] = IF y <= q2.y THEN q2.rows[y] ELSE Blank
    <3>1. y \in 0..q.y /\ y <= q2.y
      BY <1>1, <2>0, <2>2
    <3>2. q2.rows[y] = IF y + 1 > q.y THEN Blank ELSE q.rows[y + 1]
      BY <2>2, <3>1
    <3>3. p2.rows[y] = IF y + 1 < Rows THEN p.rows[y + 1] ELSE Blank
      BY <2>1 DEF RowsUp
    <3>4. y + 1 < Rows <=> ~(y + 1 > q.y)
      BY <1>1, <2>0, ScreenSizes
    <3>5. y + 1 < Rows => p.rows[y + 1] = q.rows[y + 1]
      BY <1>1, <1>3, <3>4, ScreenSizes
    <3> QED BY <3>1, <3>2, <3>3, <3>4, <3>5
  <2> QED BY <1>1, <1>4, <2>1, <2>2, <2>3 DEF Like
<1> QED BY <1>5, <1>6

(* What each part of putchar does to a screen. *)
LEMMA GoesOn ==
  ASSUME NEW p \in ScreenPages, NEW q, NEW r, Goes(p, q), Goes(q, r)
  PROVE  Goes(p, r) /\ (Neat(p, q) /\ Neat(q, r) => Neat(p, r))
<1>1. p.y \in 0..Wrap - 1 /\ q.y \in 0..Wrap - 1 /\ r.y \in 0..Wrap - 1 /\ p.x \in 0..Wrap - 1 /\ q.x \in 0..Wrap - 1 /\ r.x \in 0..Wrap - 1
  BY ScreenFields DEF Goes
<1>2. Goes(p, r)
  BY <1>1, ScreenSizes DEF Goes
<1>3. ASSUME Neat(p, q), Neat(q, r) PROVE Neat(p, r)
  <2>1. p.y < Rows => q.y < Rows
    BY DEF Goes
  <2> QED BY <1>3, <2>1, Zenon DEF Neat
<1> QED BY <1>2, <1>3

LEMMA GoesStill ==
  ASSUME NEW p \in ScreenPages, NEW q \in ScreenPages, q.y = p.y
  PROVE  Goes(p, q)
<1>1. p.y \in 0..Wrap - 1
  BY ScreenFields
<1> QED BY <1>1 DEF Goes

LEMMA DrawGoes ==
  ASSUME NEW p \in ScreenPages, NEW cell \in ScreenCell
  PROVE  Goes(p, draw_rect(p, cell)) /\ Neat(p, draw_rect(p, cell))
<1> DEFINE q == draw_rect(p, cell)
<1>1. q \in ScreenPages /\ q.x = p.x /\ q.y = p.y /\ q.astray = p.astray
  BY DrawIs
<1> HIDE DEF q
<1>2. Goes(p, q)
  BY <1>1, GoesStill
<1>3. Neat(p, q)
  BY <1>1, Zenon DEF Neat
<1> QED BY <1>2, <1>3 DEF q

(* A newline never takes the cursor out of the window. *)
LEMMA NewLineGoes ==
  ASSUME NEW p \in ScreenPages
  PROVE  Goes(p, NewLine(p)) /\ Neat(p, NewLine(p))
<1> DEFINE q == NewLine(p)
<1>1. /\ q \in ScreenPages /\ q.x = 0 /\ q.astray = p.astray
      /\ (p.y + 1 < Rows => q.y = p.y + 1) /\ (p.y + 1 = Rows => q.y = p.y) /\ (p.y = Rows => q.y = Rows)
  BY NewLineIs
<1> HIDE DEF q
<1>2. p.y \in 0..Wrap - 1
  BY ScreenFields
<1>0. 0 <= Far
  BY ScreenSizes
<1>3. Goes(p, q)
  BY <1>1, <1>2, ScreenSizes DEF Goes
<1>4. Neat(p, q)
  BY <1>0, <1>1, Zenon DEF Neat
<1> QED BY <1>3, <1>4 DEF q

LEMMA RightIs ==
  ASSUME NEW p \in ScreenPages
  PROVE  LET q == Right(p) IN
           /\ q \in ScreenPages /\ q.y = p.y /\ q.rows = p.rows /\ q.astray = p.astray
           /\ q.x = (p.x + 1) % Wrap /\ (p.x <= Far => q.x = p.x + 1)
<1>1. p.x \in 0..Wrap - 1
  BY ScreenFields
<1> DEFINE v == (p.x + 1) % Wrap
<1>2. v \in 0..Wrap - 1
  BY <1>1, WrapRange
<1>3. p.x <= Far => v = p.x + 1
  <2>1. p.x <= Far => p.x + 1 \in 0..Wrap - 1
    BY <1>1, ScreenSizes
  <2> QED BY <2>1, WrapSmall
<1>4. Right(p) = [p EXCEPT !.x = v]
  BY DEF Right
<1> HIDE DEF v
<1>5. LET q == [p EXCEPT !.x = v] IN q \in ScreenPages /\ q.x = v /\ q.y = p.y /\ q.rows = p.rows /\ q.astray = p.astray
  BY <1>2, ScreenSetX
<1> QED BY <1>3, <1>4, <1>5 DEF v

LEMMA LeftIs ==
  ASSUME NEW p \in ScreenPages
  PROVE  LET q == Left(p) IN
           q \in ScreenPages /\ q.y = p.y /\ q.astray = p.astray /\ (p.x >= 1 => q.x = p.x - 1)
<1>1. p.x \in 0..Wrap - 1
  BY ScreenFields
<1> DEFINE v == (p.x - 1) % Wrap
<1>2. v \in 0..Wrap - 1
  BY <1>1, WrapRange
<1>3. p.x >= 1 => v = p.x - 1
  <2>1. p.x >= 1 => p.x - 1 \in 0..Wrap - 1
    BY <1>1, ScreenSizes
  <2> QED BY <2>1, WrapSmall
<1>4. Left(p) = [p EXCEPT !.x = v]
  BY DEF Left
<1> HIDE DEF v
<1>5. LET q == [p EXCEPT !.x = v] IN q \in ScreenPages /\ q.x = v /\ q.y = p.y /\ q.rows = p.rows /\ q.astray = p.astray
  BY <1>2, ScreenSetX
<1> QED BY <1>3, <1>4, <1>5

LEMMA RightLike ==
  ASSUME NEW p, NEW q, Like(p, q)
  PROVE  Like(Right(p), Right(q)) /\ Like(Left(p), Left(q))
<1>1. p.x \in 0..Wrap - 1 /\ p.x = q.x
  BY LikeAtCursor
<1>2. (p.x + 1) % Wrap \in 0..Wrap - 1 /\ (p.x - 1) % Wrap \in 0..Wrap - 1
  BY <1>1, WrapRange
<1>3. Right(p) = [p EXCEPT !.x = (p.x + 1) % Wrap] /\ Right(q) = [q EXCEPT !.x = (p.x + 1) % Wrap]
  BY <1>1 DEF Right
<1>4. Left(p) = [p EXCEPT !.x = (p.x - 1) % Wrap] /\ Left(q) = [q EXCEPT !.x = (p.x - 1) % Wrap]
  BY <1>1 DEF Left
<1> QED BY <1>2, <1>3, <1>4, LikeX

(* A cursor that is at the end of a row has wrapped before something is put. *)
LEMMA WrappedIs ==
  ASSUME NEW p \in ScreenPages, NEW c
  PROVE  LET q == Wrapped(p, c) IN
           /\ Goes(p, q) /\ q.astray = p.astray
           /\ p.x <= Far => q.x < Cols
<1>1. p.x \in 0..Wrap - 1 /\ p.y \in 0..Wrap - 1
  BY ScreenFields
<1>2. p.x <= Far => (p.x + 1) % Wrap = p.x + 1
  <2>1. p.x <= Far => p.x + 1 \in 0..Wrap - 1
    BY <1>1, ScreenSizes
  <2> QED BY <2>1, WrapSmall
<1>3. CASE Wraps(p, c)
  <2>1. Wrapped(p, c) = NewLine(p)
    BY <1>3 DEF Wrapped
  <2>2. LET q == NewLine(p) IN q.x = 0 /\ q.astray = p.astray
    BY NewLineIs
  <2>3. 0 < Cols
    BY ScreenSizes
  <2> QED BY <2>1, <2>2, <2>3, NewLineGoes, Zenon
<1>4. CASE ~Wraps(p, c)
  <2>1. Wrapped(p, c) = p
    BY <1>4 DEF Wrapped
  <2>2. p.x <= Far => p.x < Cols
    BY <1>1, <1>2, <1>4, ScreenSizes DEF Wraps
  <2>3. Goes(p, p)
    BY GoesStill
  <2> QED BY <2>1, <2>2, <2>3, Zenon
<1> QED BY <1>3, <1>4

LEMMA WrappedLike ==
  ASSUME NEW p, NEW q, Like(p, q), NEW c
  PROVE  Like(Wrapped(p, c), Wrapped(q, c))
<1>1. p.x = q.x
  BY LikeAtCursor
<1>2. Wraps(p, c) <=> Wraps(q, c)
  BY <1>1 DEF Wraps
<1> QED BY <1>2, NewLineLike DEF Wrapped

LEMMA TabGoes ==
  ASSUME NEW p \in ScreenPages
  PROVE  Goes(p, Tab(p)) /\ Neat(p, Tab(p)) /\ Tab(p) \in ScreenPages
<1> DEFINE q == Wrapped(p, TAB4)
           r == Right(q)
<1>1. Goes(p, q) /\ q.astray = p.astray /\ (p.x <= Far => q.x < Cols)
  BY WrappedIs
<1>2. q \in ScreenPages
  BY <1>1 DEF Goes
<1>3. Tab(p) = r
  BY DEF Tab
<1>4. r \in ScreenPages /\ r.y = q.y /\ r.astray = q.astray /\ (q.x <= Far => r.x = q.x + 1)
  BY <1>2, RightIs
<1> HIDE DEF q, r
<1>5. Goes(q, r)
  BY <1>2, <1>4, GoesStill
<1>6. q.x \in 0..Wrap - 1
  BY <1>2, ScreenFields
<1>7. p.x <= Far => r.x <= Far
  BY <1>1, <1>4, <1>6, ScreenSizes
<1>8. Neat(p, r)
  BY <1>1, <1>4, <1>7, Zenon DEF Neat
<1> QED BY <1>1, <1>3, <1>4, <1>5, <1>8, GoesOn

LEMMA GlyphGoes ==
  ASSUME NEW p \in ScreenPages, NEW c \in Glyphs, NEW d
  PROVE  LET r == Right(putchar_fast(Wrapped(p, d), c)) IN Goes(p, r) /\ Neat(p, r)
<1> DEFINE q == Wrapped(p, d)
           s == putchar_fast(q, c)
           r == Right(s)
<1>1. Goes(p, q) /\ q.astray = p.astray /\ (p.x <= Far => q.x < Cols)
  BY WrappedIs
<1>2. q \in ScreenPages
  BY <1>1 DEF Goes
<1>3. s \in ScreenPages /\ s.x = q.x /\ s.y = q.y /\ (q.x < Cols /\ q.y < Rows => s.astray = q.astray)
  BY <1>2, FastIs
<1>4. r \in ScreenPages /\ r.y = s.y /\ r.astray = s.astray /\ (s.x <= Far => r.x = s.x + 1)
  BY <1>3, RightIs
<1> SUFFICES Goes(p, r) /\ Neat(p, r)
  OBVIOUS
<1> HIDE DEF q, r, s
<1>5. Goes(q, r)
  BY <1>2, <1>3, <1>4, GoesStill
<1>6. q.x \in 0..Wrap - 1
  BY <1>2, ScreenFields
<1>7. p.x <= Far => r.x <= Far
  BY <1>1, <1>3, <1>4, <1>6, ScreenSizes
<1>8. p.y < Rows => q.y < Rows
  BY <1>1 DEF Goes
<1>9. Neat(p, r)
  BY <1>1, <1>3, <1>4, <1>7, <1>8, Zenon DEF Neat
<1> QED BY <1>1, <1>5, <1>9, GoesOn

(* putchar, and a text put by it, never takes the cursor out of the window. *)
LEMMA PutcharGoes ==
  ASSUME NEW p \in ScreenPages, NEW c \in Putable
  PROVE  Goes(p, putchar(p, c)) /\ Neat(p, putchar(p, c)) /\ putchar(p, c) \in ScreenPages
<1> SUFFICES Goes(p, putchar(p, c)) /\ Neat(p, putchar(p, c))
  BY DEF Goes
<1>1. CASE c = NL
  <2>1. putchar(p, c) = NewLine(p)
    BY <1>1 DEF putchar
  <2> QED BY <2>1, NewLineGoes
<1>2. CASE c # NL /\ c = CR
  <2> DEFINE q == [p EXCEPT !.x = 0]
  <2>1. putchar(p, c) = q
    BY <1>2 DEF putchar
  <2>2. 0 \in 0..Wrap - 1 /\ 0 <= Far
    BY ScreenSizes
  <2>3. q \in ScreenPages /\ q.x = 0 /\ q.y = p.y /\ q.astray = p.astray
    BY <2>2, ScreenSetX
  <2> HIDE DEF q
  <2>4. Goes(p, q)
    BY <2>3, GoesStill
  <2>5. Neat(p, q)
    BY <2>2, <2>3, Zenon DEF Neat
  <2> QED BY <2>1, <2>4, <2>5
<1>3. CASE c # NL /\ c # CR /\ c = TAB4
  <2> DEFINE p1 == Tab(p)
             p2 == Tab(p1)
             p3 == Tab(p2)
             p4 == Tab(p3)
  <2>1. putchar(p, c) = p4
    BY <1>3 DEF putchar
  <2>2. Goes(p, p1) /\ Neat(p, p1) /\ p1 \in ScreenPages
    BY TabGoes
  <2>3. Goes(p1, p2) /\ Neat(p1, p2) /\ p2 \in ScreenPages
    BY <2>2, TabGoes
  <2>4. Goes(p2, p3) /\ Neat(p2, p3) /\ p3 \in ScreenPages
    BY <2>3, TabGoes
  <2>5. Goes(p3, p4) /\ Neat(p3, p4)
    BY <2>4, TabGoes
  <2> HIDE DEF p1, p2, p3, p4
  <2>6. Goes(p, p2) /\ Neat(p, p2)
    BY <2>2, <2>3, GoesOn
  <2>7. Goes(p, p3) /\ Neat(p, p3)
    BY <2>4, <2>6, GoesOn
  <2>8. Goes(p, p4) /\ Neat(p, p4)
    BY <2>5, <2>7, GoesOn
  <2> QED BY <2>1, <2>8
<1>4. CASE c # NL /\ c # CR /\ c # TAB4 /\ c = BS
  <2>1. CASE p.x >= 1
    <3> DEFINE l == Left(p)
               q == draw_rect(l, {})
    <3>1. putchar(p, c) = q
      BY <1>4, <2>1 DEF putchar
    <3>2. l \in ScreenPages /\ l.y = p.y /\ l.astray = p.astray /\ l.x = p.x - 1
      BY <2>1, LeftIs
    <3> HIDE DEF l
    <3>3. Goes(l, q) /\ Neat(l, q)
      BY <3>2, DrawGoes DEF ScreenCell
    <3>4. p.x \in 0..Wrap - 1
      BY ScreenFields
    <3>5. p.x <= Far => l.x <= Far
      BY <3>2, <3>4, ScreenSizes
    <3>6. Neat(p, l)
      BY <3>2, <3>5, Zenon DEF Neat
    <3>7. Goes(p, l)
      BY <3>2, GoesStill
    <3> HIDE DEF q
    <3> QED BY <3>1, <3>3, <3>6, <3>7, GoesOn
  <2>2. CASE ~(p.x >= 1)
    <3>1. putchar(p, c) = p
      BY <1>4, <2>2 DEF putchar
    <3>2. Neat(p, p) /\ Goes(p, p)
      BY GoesStill DEF Neat
    <3> QED BY <3>1, <3>2
  <2> QED BY <2>1, <2>2
<1>5. CASE c # NL /\ c # CR /\ c # TAB4 /\ c # BS
  <2>1. putchar(p, c) = Right(putchar_fast(Wrapped(p, c), c))
    BY <1>5 DEF putchar
  <2>2. c \in Glyphs
    BY <1>5 DEF Putable
  <2> QED BY <2>1, <2>2, GlyphGoes
<1> QED BY <1>1, <1>2, <1>3, <1>4, <1>5

LEMMA TabLike ==
  ASSUME NEW p, NEW q, Like(p, q)
  PROVE  Like(Tab(p), Tab(q))
BY WrappedLike, RightLike DEF Tab

(* putchar leaves pages that are alike so. *)
LEMMA PutcharLike ==
  ASSUME NEW p, NEW q, Like(p, q), NEW c \in Putable
  PROVE  Like(putchar(p, c), putchar(q, c))
<1>0. p.x = q.x /\ 0 \in 0..Wrap - 1
  BY LikeAtCursor, ScreenSizes
<1>1. CASE c = NL
  BY <1>1, NewLineLike DEF putchar
<1>2. CASE c # NL /\ c = CR
  BY <1>0, <1>2, LikeX DEF putchar
<1>3. CASE c # NL /\ c # CR /\ c = TAB4
  <2>1. Like(Tab(p), Tab(q))
    BY TabLike
  <2>2. Like(Tab(Tab(p)), Tab(Tab(q)))
    BY <2>1, TabLike
  <2>3. Like(Tab(Tab(Tab(p))), Tab(Tab(Tab(q))))
    BY <2>2, TabLike
  <2>4. Like(Tab(Tab(Tab(Tab(p)))), Tab(Tab(Tab(Tab(q)))))
    BY <2>3, TabLike
  <2> QED BY <1>3, <2>4 DEF putchar
<1>4. CASE c # NL /\ c # CR /\ c # TAB4 /\ c = BS
  <2>1. Like(draw_rect(Left(p), {}), draw_rect(Left(q), {}))
    BY RightLike, DrawLike DEF ScreenCell
  <2> QED BY <1>0, <1>4, <2>1 DEF putchar
<1>5. CASE c # NL /\ c # CR /\ c # TAB4 /\ c # BS
  <2>1. c \in Glyphs
    BY <1>5 DEF Putable
  <2>2. Like(Wrapped(p, c), Wrapped(q, c))
    BY WrappedLike
  <2>3. Like(putchar_fast(Wrapped(p, c), c), putchar_fast(Wrapped(q, c), c))
    BY <2>1, <2>2, FastLike
  <2>4. Like(Right(putchar_fast(Wrapped(p, c), c)), Right(putchar_fast(Wrapped(q, c), c)))
    BY <2>3, RightLike
  <2> QED BY <1>5, <2>4 DEF putchar
<1> QED BY <1>1, <1>2, <1>3, <1>4, <1>5

(* A text is put one character after the other. *)
LEMMA PuttingIs ==
  ASSUME NEW V, \A p \in V, c \in Putable : putchar(p, c) \in V, NEW p \in V, NEW text \in Seq(Putable)
  PROVE  /\ Putting(p, text)[0] = p
         /\ \A n \in 1..Len(text) : Putting(p, text)[n] = putchar(Putting(p, text)[n - 1], text[n])
<1> DEFINE N == Len(text)
           P(h) == h = [n \in 0..N |-> IF n = 0 THEN p ELSE putchar(h[n - 1], text[n])]
           F == [z \in V \X (1..N) |-> putchar(z[1], text[z[2]])]
<1>1. N \in Nat /\ \A n \in 1..N : text[n] \in Putable
  OBVIOUS
<1>2. F \in [V \X (1..N) -> V]
  BY <1>1
<1>3. \A s \in V, n \in 1..N : F[<<s, n>>] = putchar(s, text[n])
  OBVIOUS
<1>4. Putting(p, text) = CHOOSE h : P(h)
  BY DEF Putting
<1> HIDE DEF N, F
<1>5. PICK g \in [0..N -> V] : IsRun(g, N, p, F)
  BY <1>1, <1>2, LoopRuns
<1>6. P(g)
  <2>1. \A n \in 0..N : n # 0 => n \in 1..N /\ g[n - 1] \in V
    BY <1>1
  <2>2. \A n \in 0..N : g[n] = IF n = 0 THEN p ELSE putchar(g[n - 1], text[n])
    BY <1>3, <1>5, <2>1 DEF IsRun
  <2> QED BY <2>2
<1> DEFINE a == Putting(p, text)
<1>7. P(a)
  <2> HIDE DEF P
  <2> QED BY <1>4, <1>6
<1> SUFFICES a[0] = p /\ \A n \in 1..N : a[n] = putchar(a[n - 1], text[n])
  BY DEF N
<1> HIDE DEF a
<1>8. \A n \in 0..N : a[n] = IF n = 0 THEN p ELSE putchar(a[n - 1], text[n])
  BY <1>7
<1>9. 0 \in 0..N /\ \A n \in 1..N : n \in 0..N /\ n # 0
  BY <1>1
<1> QED BY <1>8, <1>9

(* So does a text, by induction over its characters. *)
LEMMA StringGoes ==
  ASSUME NEW p \in ScreenPages, NEW text \in Seq(Putable)
  PROVE  Goes(p, string(p, text)) /\ Neat(p, string(p, text)) /\ string(p, text) \in ScreenPages
<1> DEFINE a == Putting(p, text)
           N == Len(text)
           V == {q \in ScreenPages : Goes(p, q) /\ Neat(p, q)}
<1>1. a[0] = p /\ \A n \in 1..N : a[n] = putchar(a[n - 1], text[n])
  BY PutcharGoes, PuttingIs
<1>2. N \in Nat /\ (\A n \in 1..N : text[n] \in Putable)
  OBVIOUS
<1>3. string(p, text) = a[N]
  BY DEF string
<1> HIDE DEF a, N
<1>4. a[0] \in V
  BY <1>1, GoesStill DEF Neat
<1>5. ASSUME NEW n \in 1..N, a[n - 1] \in V PROVE a[n] \in V
  <2> DEFINE q == a[n - 1]
             r == putchar(q, text[n])
  <2>1. q \in ScreenPages /\ Goes(p, q) /\ Neat(p, q)
    BY <1>5
  <2>2. Goes(q, r) /\ Neat(q, r) /\ r \in ScreenPages
    BY <1>2, <2>1, PutcharGoes
  <2>3. a[n] = r
    BY <1>1
  <2> HIDE DEF q, r
  <2>4. Goes(p, r) /\ Neat(p, r)
    BY <2>1, <2>2, GoesOn
  <2> QED BY <2>2, <2>3, <2>4
<1> HIDE DEF V
<1>6. \A n \in 0..N : a[n] \in V
  BY <1>2, <1>4, <1>5, LoopStays
<1>7. a[N] \in V
  BY <1>2, <1>6
<1> QED BY <1>3, <1>7 DEF V

(* Papers take the same characters. *)
LEMMA StringLike ==
  ASSUME NEW p, NEW q, Like(p, q), NEW text \in Seq(Putable)
  PROVE  Like(string(p, text), string(q, text))
<1> DEFINE N == Len(text)
           V == {z \in PaperPages : \E s \in ScreenPages : Like(s, z)}
           a == Putting(p, text)
           b == Putting(q, text)
           S == {n \in 0..N : Like(a[n], b[n])}
<1>1. p \in ScreenPages /\ q \in V
  BY DEF Like
<1>2. \A z \in V, c \in Putable : putchar(z, c) \in V
  <2> SUFFICES ASSUME NEW z \in V, NEW c \in Putable PROVE putchar(z, c) \in V
    OBVIOUS
  <2>1. PICK s \in ScreenPages : Like(s, z)
    OBVIOUS
  <2>2. Like(putchar(s, c), putchar(z, c))
    BY <2>1, PutcharLike
  <2>3. putchar(s, c) \in ScreenPages /\ putchar(z, c) \in PaperPages
    BY <2>2 DEF Like
  <2> QED BY <2>2, <2>3
<1>3. N \in Nat /\ (\A n \in 1..N : text[n] \in Putable)
  OBVIOUS
<1> HIDE DEF V
<1>4. a[0] = p /\ \A n \in 1..N : a[n] = putchar(a[n - 1], text[n])
  BY <1>1, PutcharGoes, PuttingIs
<1>5. b[0] = q /\ \A n \in 1..N : b[n] = putchar(b[n - 1], text[n])
  BY <1>1, <1>2, PuttingIs
<1>6. string(p, text) = a[N] /\ string(q, text) = b[N]
  BY DEF string
<1> HIDE DEF a, b, N
<1>7. 0 \in S
  BY <1>3, <1>4, <1>5
<1>8. ASSUME NEW n \in 0..N - 1, n \in S PROVE n + 1 \in S
  <2>1. n + 1 \in 1..N /\ (n + 1) - 1 = n /\ Like(a[n], b[n])
    BY <1>3, <1>8
  <2>2. a[n + 1] = putchar(a[n], text[n + 1]) /\ b[n + 1] = putchar(b[n], text[n + 1])
    BY <1>4, <1>5, <2>1
  <2>3. Like(a[n + 1], b[n + 1])
    BY <1>3, <2>1, <2>2, PutcharLike
  <2> QED BY <2>1, <2>3
<1> HIDE DEF S
<1>9. 0..N \subseteq S
  BY <1>3, <1>7, <1>8, InductionOnSet
<1>10. N \in S
  BY <1>3, <1>9
<1> QED BY <1>6, <1>10 DEF S

LEMMA PromptGlyph ==
  /\ Prompt \in Glyphs /\ Prompt # NL /\ Prompt # CR /\ Prompt # TAB4 /\ Prompt # BS
  /\ <<NL, Prompt>> \in Seq(Putable) /\ Len(<<NL, Prompt>>) = 2
<1>1. Prompt \in Glyphs /\ Glyphs \cap {"_", NL, CR, TAB4, BS} = {}
  BY ScreenAssumption, Zenon
<1>2. Prompt # NL /\ Prompt # CR /\ Prompt # TAB4 /\ Prompt # BS
  BY <1>1, Zenon
<1>3. NL \in Putable /\ Prompt \in Putable
  BY <1>1, Zenon DEF Putable
<1>4. <<NL, Prompt>> \in Seq(Putable)
  BY <1>3
<1>5. Len(<<NL, Prompt>>) = 2
  OBVIOUS
<1> QED BY <1>1, <1>2, <1>4, <1>5

(* A prompt begins a line. *)
LEMMA PromptIs ==
  ASSUME NEW p \in ScreenPages
  PROVE  LET q == shell_print_prompt(p) IN Goes(p, q) /\ Neat(p, q) /\ q \in ScreenPages /\ q.x = 1
<1> DEFINE text == <<NL, Prompt>>
           a == Putting(p, text)
           q == NewLine(p)
           s == putchar_fast(q, Prompt)
<1>1. text \in Seq(Putable) /\ Len(text) = 2
  BY PromptGlyph
<1>2. shell_print_prompt(p) = string(p, text)
  BY DEF shell_print_prompt
<1>3. Goes(p, string(p, text)) /\ Neat(p, string(p, text)) /\ string(p, text) \in ScreenPages
  BY <1>1, StringGoes
<1>4. string(p, text) = a[2] /\ text[1] = NL /\ text[2] = Prompt
  BY <1>1 DEF string
<1>5. a[0] = p /\ \A n \in 1..2 : a[n] = putchar(a[n - 1], text[n])
  <2> HIDE DEF text
  <2>1. a[0] = p /\ \A n \in 1..Len(text) : a[n] = putchar(a[n - 1], text[n])
    <3>1. \A z \in ScreenPages, c \in Putable : putchar(z, c) \in ScreenPages
      BY PutcharGoes
    <3>2. /\ Putting(p, text)[0] = p
          /\ \A n \in 1..Len(text) : Putting(p, text)[n] = putchar(Putting(p, text)[n - 1], text[n])
      BY <1>1, <3>1, PuttingIs, ZenonT(60)
    <3> QED BY <3>2
  <2> QED BY <1>1, <2>1
<1> HIDE DEF a, text
<1>6. a[1] = putchar(p, NL) /\ a[2] = putchar(a[1], Prompt)
  BY <1>4, <1>5
<1>7. a[1] = q
  BY <1>6 DEF putchar
<1>8. q \in ScreenPages /\ q.x = 0
  BY NewLineIs
<1>9. ~Wraps(q, Prompt)
  <2>1. 1 % Wrap = 1
    BY WrapSmall, ScreenSizes
  <2>2. (q.x + 1) % Wrap = 1
    BY <1>8, <2>1
  <2> QED BY <2>2, PromptGlyph, ScreenSizes DEF Wraps
<1>10. a[2] = Right(s)
  BY <1>6, <1>7, <1>9, PromptGlyph DEF putchar, Wrapped
<1>11. s \in ScreenPages /\ s.x = 0
  BY <1>8, FastIs, PromptGlyph
<1> HIDE DEF s
<1>12. a[2].x = 1
  <2>1. 0 <= Far
    BY ScreenSizes
  <2>2. Right(s).x = s.x + 1
    BY <1>11, <2>1, RightIs
  <2> QED BY <1>10, <1>11, <2>2
<1> QED BY <1>2, <1>3, <1>4, <1>12

LEMMA PromptLike ==
  ASSUME NEW p, NEW q, Like(p, q)
  PROVE  Like(shell_print_prompt(p), shell_print_prompt(q))
BY PromptGlyph, StringLike DEF shell_print_prompt

(* The screen and the paper when they have been cleared. *)
LEMMA ClearIs ==
  ASSUME NEW p \in ScreenPages
  PROVE  LET q == console_window_clear(p) IN
           /\ q \in ScreenPages /\ q.x = 0 /\ q.y = 0 /\ q.astray = p.astray
           /\ q.rows = [y \in 0..Rows - 1 |-> Blank]
<1>1. DOMAIN p.rows = 0..Rows - 1 /\ p.endless = FALSE
  BY ScreenFields
<1> DEFINE r == [y \in 0..Rows - 1 |-> Blank]
<1>2. r \in [0..Rows - 1 -> ScreenRow] /\ 0 \in 0..Wrap - 1
  BY BlankIs, ScreenSizes
<1>3. console_window_clear(p) = [p EXCEPT !.rows = r, !.x = 0, !.y = 0]
  BY <1>1 DEF console_window_clear
<1> HIDE DEF r
<1>4. LET q == [p EXCEPT !.rows = r, !.x = 0, !.y = 0] IN
        q \in ScreenPages /\ q.x = 0 /\ q.y = 0 /\ q.astray = p.astray /\ q.rows = r
  BY <1>2 DEF ScreenPages
<1> QED BY <1>3, <1>4 DEF r

LEMMA ClearPaper ==
  ASSUME NEW p \in PaperPages
  PROVE  LET q == console_window_clear(p) IN q \in PaperPages /\ q.x = 0 /\ q.y = 0 /\ q.rows = [y \in {0} |-> Blank]
<1>1. p.endless = TRUE
  BY PaperFields
<1> DEFINE r == [y \in {0} |-> Blank]
<1>2. r \in [0..0 -> ScreenRow] /\ 0 \in 0..Wrap - 1 /\ 0 \in 0..Rows - 1
  BY BlankIs, ScreenSizes
<1>3. console_window_clear(p) = [p EXCEPT !.rows = r, !.x = 0, !.y = 0]
  BY <1>1 DEF console_window_clear
<1> HIDE DEF r
<1>4. r \in UNION {[0..n -> ScreenRow] : n \in 0..Rows - 1} /\ DOMAIN r = 0..0
  BY <1>2
<1>5. LET q == [p EXCEPT !.rows = r, !.x = 0, !.y = 0] IN q \in PaperPages /\ q.x = 0 /\ q.y = 0 /\ q.rows = r
  BY <1>2, <1>4 DEF PaperPages
<1> QED BY <1>3, <1>5 DEF r

LEMMA ClearLike ==
  ASSUME NEW p, NEW q, Like(p, q)
  PROVE  Like(console_window_clear(p), console_window_clear(q))
<1> DEFINE p2 == console_window_clear(p)
           q2 == console_window_clear(q)
<1>1. p \in ScreenPages /\ q \in PaperPages
  BY DEF Like
<1>2. p2 \in ScreenPages /\ p2.x = 0 /\ p2.y = 0 /\ p2.rows = [y \in 0..Rows - 1 |-> Blank]
  BY <1>1, ClearIs
<1>3. q2 \in PaperPages /\ q2.x = 0 /\ q2.y = 0 /\ q2.rows = [y \in {0} |-> Blank]
  BY <1>1, ClearPaper
<1> SUFFICES Like(p2, q2)
  OBVIOUS
<1> HIDE DEF p2, q2
<1>4. ASSUME NEW y \in 0..Rows - 1 PROVE p2.rows[y] = IF y <= q2.y THEN q2.rows[y] ELSE Blank
  <2>1. p2.rows[y] = Blank
    BY <1>2
  <2>2. y <= 0 => y = 0 /\ q2.rows[y] = Blank
    BY <1>3
  <2> QED BY <1>3, <2>1, <2>2
<1> QED BY <1>2, <1>3, <1>4 DEF Like

(* The underline leaves the cursor where it is. *)
LEMMA CursorGoes ==
  ASSUME NEW p \in ScreenPages
  PROVE  /\ LET q == cursor_c(p) IN q \in ScreenPages /\ Goes(p, q) /\ Neat(p, q) /\ q.x = p.x /\ q.y = p.y /\ q.astray = p.astray
         /\ LET q == cursor_draw(p) IN q \in ScreenPages /\ Goes(p, q) /\ Neat(p, q) /\ q.x = p.x /\ q.y = p.y /\ q.astray = p.astray
<1> DEFINE c == AtCursor(p) \ {"_"}
           d == AtCursor(p) \cup (IF cursor_visible THEN {"_"} ELSE {})
<1>1. c \in ScreenCell /\ d \in ScreenCell
  BY AtCursorIs DEF ScreenCell
<1>2. cursor_c(p) = draw_rect(p, c) /\ cursor_draw(p) = draw_rect(p, d)
  BY DEF cursor_c, cursor_draw
<1> HIDE DEF c, d
<1>3. LET q == draw_rect(p, c) IN q \in ScreenPages /\ q.x = p.x /\ q.y = p.y /\ q.astray = p.astray
  BY <1>1, DrawIs
<1>4. LET q == draw_rect(p, d) IN q \in ScreenPages /\ q.x = p.x /\ q.y = p.y /\ q.astray = p.astray
  BY <1>1, DrawIs
<1>5. Goes(p, draw_rect(p, c)) /\ Neat(p, draw_rect(p, c)) /\ Goes(p, draw_rect(p, d)) /\ Neat(p, draw_rect(p, d))
  BY <1>1, DrawGoes
<1> QED BY <1>2, <1>3, <1>4, <1>5, Zenon

LEMMA CursorLike ==
  ASSUME NEW p, NEW q, Like(p, q)
  PROVE  Like(cursor_c(p), cursor_c(q)) /\ Like(cursor_draw(p), cursor_draw(q))
<1> DEFINE c == AtCursor(p) \ {"_"}
           d == AtCursor(p) \cup (IF cursor_visible THEN {"_"} ELSE {})
<1>1. c \in ScreenCell /\ d \in ScreenCell
  BY AtCursorLike DEF ScreenCell
<1>2. cursor_c(p) = draw_rect(p, c) /\ cursor_draw(p) = draw_rect(p, d)
  BY DEF cursor_c, cursor_draw
<1>3. cursor_c(q) = draw_rect(q, c) /\ cursor_draw(q) = draw_rect(q, d)
  BY AtCursorLike DEF cursor_c, cursor_draw
<1> HIDE DEF c, d
<1> QED BY <1>1, <1>2, <1>3, DrawLike

(* The input line is redrawn from its start. *)
LEMMA TextsAre ==
  ASSUME NEW text \in Texts
  PROVE  text \in Seq(Putable) /\ Len(text) \in 0..MAX_INPUT_LEN
<1>1. PICK n \in 0..MAX_INPUT_LEN : text \in [1..n -> Glyphs]
  BY DEF Texts
<1>2. text \in [1..n -> Putable] /\ n \in Nat
  BY <1>1 DEF Putable
<1>3. text \in Seq(Putable) /\ Len(text) = n
  BY <1>2
<1> QED BY <1>3

BareRow(p) == [x \in DOMAIN p.rows[p.y] |-> IF x >= input_start_x THEN {} ELSE p.rows[p.y][x]]
BarePlace(p) == LET from == [p EXCEPT !.x = input_start_x]
                IN  IF p.y \in DOMAIN p.rows THEN OfRow(from, BareRow(p)) ELSE from

LEMMA RedrawIs ==
  ASSUME NEW p, NEW text, NEW pos,
         p \in ScreenPages \/ p \in PaperPages, input_start_x \in 0..Wrap - 1
  PROVE  redraw_input_line(p, text, pos) =
           cursor_draw([string(BarePlace(p), text) EXCEPT !.x = (input_start_x + pos) % Wrap])
<1> DEFINE from == [p EXCEPT !.x = input_start_x]
           bare == IF p.y \in DOMAIN p.rows
                   THEN [from EXCEPT !.rows[p.y] = [x \in DOMAIN @ |-> IF x >= input_start_x THEN {} ELSE @[x]]] ELSE from
<1>1. redraw_input_line(p, text, pos) = cursor_draw([string(bare, text) EXCEPT !.x = (input_start_x + pos) % Wrap])
  BY DEF redraw_input_line
<1>2. from.rows = p.rows /\ from.y = p.y
  BY ScreenSetX, PaperSetX
<1>3. bare = BarePlace(p)
  BY <1>2 DEF BarePlace, OfRow, BareRow
<1> HIDE DEF bare
<1> QED BY <1>1, <1>3

LEMMA BareIs ==
  ASSUME NEW p \in ScreenPages, input_start_x \in 0..Wrap - 1
  PROVE  LET q == BarePlace(p) IN q \in ScreenPages /\ q.x = input_start_x /\ q.y = p.y /\ q.astray = p.astray
<1> DEFINE from == [p EXCEPT !.x = input_start_x]
<1>1. from \in ScreenPages /\ from.x = input_start_x /\ from.y = p.y /\ from.rows = p.rows /\ from.astray = p.astray
  BY ScreenSetX
<1>2. BarePlace(p) = IF p.y \in DOMAIN p.rows THEN OfRow(from, BareRow(p)) ELSE from
  BY DEF BarePlace
<1> HIDE DEF from
<1>3. CASE p.y \in DOMAIN p.rows
  <2>1. p.y \in 0..Rows - 1 /\ p.rows[p.y] \in ScreenRow
    BY <1>3, ScreenFields
  <2>2. BareRow(p) \in ScreenRow /\ from.y < Rows
    <3>1. BareRow(p) \in ScreenRow
      BY <2>1 DEF BareRow, ScreenRow
    <3>2. from.y < Rows
      BY <1>1, <2>1, ScreenSizes
    <3> QED BY <3>1, <3>2
  <2>3. LET q == OfRow(from, BareRow(p)) IN q \in ScreenPages /\ q.x = from.x /\ q.y = from.y /\ q.astray = from.astray
    BY <1>1, <2>2, ScreenRowSet, Zenon
  <2> QED BY <1>1, <1>2, <1>3, <2>3
<1>4. CASE p.y \notin DOMAIN p.rows
  BY <1>1, <1>2, <1>4
<1> QED BY <1>3, <1>4

LEMMA BareLike ==
  ASSUME NEW p, NEW q, Like(p, q), input_start_x \in 0..Wrap - 1
  PROVE  Like(BarePlace(p), BarePlace(q))
<1> DEFINE p1 == [p EXCEPT !.x = input_start_x]
           q1 == [q EXCEPT !.x = input_start_x]
<1>1. p.y = q.y /\ p.rows[p.y] = q.rows[q.y] /\ p.rows[p.y] \in ScreenRow /\ p.y \in DOMAIN p.rows /\ q.y \in DOMAIN q.rows
  BY LikeAtCursor
<1>2. BareRow(p) = BareRow(q) /\ BareRow(p) \in ScreenRow
  BY <1>1 DEF BareRow, ScreenRow
<1>3. Like(p1, q1)
  BY LikeX
<1>4. BarePlace(p) = OfRow(p1, BareRow(p)) /\ BarePlace(q) = OfRow(q1, BareRow(p))
  BY <1>1, <1>2 DEF BarePlace
<1> HIDE DEF p1, q1
<1> QED BY <1>2, <1>3, <1>4, LikeRow

(* The input line redrawn stays in the window, and the cursor is where the line says. *)
LEMMA RedrawGoes ==
  ASSUME NEW p \in ScreenPages, NEW text \in Texts, NEW pos \in 0..MAX_INPUT_LEN, input_start_x \in 0..Wrap - 1
  PROVE  LET r == redraw_input_line(p, text, pos) IN
           /\ r \in ScreenPages /\ Goes(p, r)
           /\ p.y < Rows /\ input_start_x <= Cols => (r.astray => p.astray) /\ r.x = input_start_x + pos
<1> DEFINE b == BarePlace(p)
           s == string(b, text)
           v == (input_start_x + pos) % Wrap
           t == [s EXCEPT !.x = v]
           r == cursor_draw(t)
<1>1. redraw_input_line(p, text, pos) = r
  BY RedrawIs
<1>2. b \in ScreenPages /\ b.x = input_start_x /\ b.y = p.y /\ b.astray = p.astray
  BY BareIs
<1>3. Goes(b, s) /\ Neat(b, s) /\ s \in ScreenPages
  BY <1>2, TextsAre, StringGoes
<1>4. v \in 0..Wrap - 1 /\ (input_start_x <= Cols => v = input_start_x + pos)
  <2>1. input_start_x + pos \in Int
    OBVIOUS
  <2>2. input_start_x <= Cols => input_start_x + pos \in 0..Wrap - 1
    BY ScreenSizes DEF Far
  <2> QED BY <2>1, <2>2, WrapRange, WrapSmall
<1>5. t \in ScreenPages /\ t.x = v /\ t.y = s.y /\ t.astray = s.astray
  BY <1>3, <1>4, ScreenSetX
<1>6. r \in ScreenPages /\ r.x = t.x /\ r.y = t.y /\ r.astray = t.astray
  BY <1>5, CursorGoes
<1> SUFFICES /\ r \in ScreenPages /\ Goes(p, r)
             /\ p.y < Rows /\ input_start_x <= Cols => (r.astray => p.astray) /\ r.x = input_start_x + pos
  BY <1>1
<1> HIDE DEF b, s, t, v, r
<1>7. Goes(p, b) /\ Goes(s, r)
  BY <1>2, <1>3, <1>5, <1>6, GoesStill
<1>8. Goes(p, s)
  BY <1>3, <1>7, GoesOn
<1>9. Goes(p, r)
  BY <1>7, <1>8, GoesOn
<1>10. input_start_x <= Cols => input_start_x <= Far
  BY ScreenSizes
<1>11. p.y < Rows /\ input_start_x <= Cols => (s.astray => p.astray)
  BY <1>2, <1>3, <1>10, Zenon DEF Neat
<1> QED BY <1>4, <1>5, <1>6, <1>9, <1>11, Zenon

(* On both pages it is redrawn the same. *)
LEMMA RedrawLike ==
  ASSUME NEW p, NEW q, Like(p, q), NEW text \in Texts, NEW pos \in 0..MAX_INPUT_LEN, input_start_x \in 0..Wrap - 1
  PROVE  Like(redraw_input_line(p, text, pos), redraw_input_line(q, text, pos))
<1> DEFINE v == (input_start_x + pos) % Wrap
           p1 == string(BarePlace(p), text)
           q1 == string(BarePlace(q), text)
<1>1. /\ redraw_input_line(p, text, pos) = cursor_draw([p1 EXCEPT !.x = v])
      /\ redraw_input_line(q, text, pos) = cursor_draw([q1 EXCEPT !.x = v])
  BY LikeAtCursor, RedrawIs
<1>2. Like(p1, q1)
  BY BareLike, TextsAre, StringLike
<1>3. v \in 0..Wrap - 1
  BY WrapRange
<1> HIDE DEF p1, q1, v
<1>4. Like([p1 EXCEPT !.x = v], [q1 EXCEPT !.x = v])
  BY <1>2, <1>3, LikeX
<1>5. Like(cursor_draw([p1 EXCEPT !.x = v]), cursor_draw([q1 EXCEPT !.x = v]))
  BY <1>4, CursorLike
<1> QED BY <1>1, <1>5

(* A character of the log is put in steps, and each leaves what it will be. *)
LEMMA FinishChar ==
  ASSUME NEW p \in ScreenPages, NEW c \in Putable, c \notin {CR, BS}, NEW y
  PROVE  Finish([at |-> IF c = NL THEN "line" ELSE "test", c |-> c, n |-> IF c = TAB4 THEN 4 ELSE 1, y |-> y], p) = putchar(p, c)
<1>1. CASE c = NL
  BY <1>1 DEF Finish, FinishLine, putchar
<1>2. CASE c = TAB4
  BY <1>2 DEF Finish, Tabs, putchar, TAB4, NL, CR
<1>3. CASE c # NL /\ c # TAB4
  BY <1>3 DEF Finish, putchar
<1> QED BY <1>1, <1>2, <1>3

LEMMA TabsNext ==
  ASSUME NEW p, NEW n \in 1..4
  PROVE  Tabs(n, p) = Tabs(n - 1, Tab(p))
<1>1. n = 1 \/ n = 2 \/ n = 3 \/ n = 4
  OBVIOUS
<1> QED BY <1>1 DEF Tabs

(* Each step of the log leaves what the screen will be. *)
LEMMA FinishTest ==
  ASSUME NEW p \in ScreenPages, NEW l \in LogStep, l.at = "test", l.c \notin {NL, CR, BS}, l.n \in 1..4, NEW m, m \in LogStep,
         m.at = (IF Wraps(p, l.c) THEN "line" ELSE "draw"), m.c = l.c, m.n = l.n
  PROVE  Finish(m, p) = Finish(l, p)
<1>1. Finish(m, p) = FinishDraw(m, Wrapped(p, l.c))
  <2>1. CASE Wraps(p, l.c)
    BY <2>1 DEF Finish, FinishLine, Wrapped
  <2>2. CASE ~Wraps(p, l.c)
    BY <2>2 DEF Finish, Wrapped
  <2> QED BY <2>1, <2>2
<1>2. CASE l.c = TAB4
  <2>1. Finish(l, p) = Tabs(l.n, p) /\ FinishDraw(m, Wrapped(p, l.c)) = Tabs(l.n - 1, Tab(p))
    BY <1>2 DEF Finish, FinishDraw, Tab
  <2> QED BY <1>1, <2>1, TabsNext
<1>3. CASE l.c # TAB4
  BY <1>1, <1>3 DEF Finish, FinishDraw, putchar
<1> QED BY <1>2, <1>3

LEMMA FinishRow ==
  ASSUME NEW p \in ScreenPages, NEW l \in LogStep, l.at = "line", NEW m, m \in LogStep,
         m.at = "bottom", m.c = l.c, m.n = l.n
  PROVE  Finish(m, RowDown(p, p.y)) = Finish(l, p)
<1> DEFINE q == RowDown(p, p.y)
           r == IF BelowBottom(q.y) THEN RowUp(scroll_up(q)) ELSE q
<1>1. NewLine(p) = r
  BY ScreenFields DEF NewLine
<1>2. Finish(m, q) = FinishLine(m, r)
  BY DEF Finish
<1> HIDE DEF r
<1>3. Finish(l, p) = FinishLine(l, r)
  BY <1>1 DEF Finish
<1>4. FinishLine(m, r) = FinishLine(l, r)
  BY DEF FinishLine, FinishDraw
<1> QED BY <1>2, <1>3, <1>4

LEMMA FinishBottom ==
  ASSUME NEW p \in ScreenPages, NEW l \in LogStep, l.at = "bottom", NEW m, m \in LogStep
  PROVE  /\ BelowBottom(p.y) /\ m.at = "scrolled" /\ m.c = l.c /\ m.n = l.n => Finish(m, scroll_up(p)) = Finish(l, p)
         /\ ~BelowBottom(p.y) /\ l.c = NL /\ m.at = "none" => Finish(m, p) = Finish(l, p)
         /\ ~BelowBottom(p.y) /\ l.c # NL /\ m.at = "draw" /\ m.c = l.c /\ m.n = l.n => Finish(m, p) = Finish(l, p)
BY DEF Finish, FinishLine, FinishDraw

LEMMA FinishScrolled ==
  ASSUME NEW p \in ScreenPages, NEW l \in LogStep, l.at = "scrolled", NEW m, m \in LogStep
  PROVE  /\ l.c = NL /\ m.at = "none" => Finish(m, RowUp(p)) = Finish(l, p)
         /\ l.c # NL /\ m.at = "draw" /\ m.c = l.c /\ m.n = l.n => Finish(m, RowUp(p)) = Finish(l, p)
BY DEF Finish, FinishLine, FinishDraw

LEMMA FinishDrawn ==
  ASSUME NEW p \in ScreenPages, NEW l \in LogStep, l.at = "draw", l.n \in 1..4, l.c # TAB4 => l.n = 1, NEW m, m \in LogStep
  PROVE  LET q == Right(IF l.c = TAB4 THEN p ELSE putchar_fast(p, l.c)) IN
           /\ l.n > 1 /\ m.at = "test" /\ m.c = l.c /\ m.n = l.n - 1 => Finish(m, q) = Finish(l, p)
           /\ l.n <= 1 /\ m.at = "none" => Finish(m, q) = Finish(l, p)
<1>1. l.n <= 1 => l.n = 1
  OBVIOUS
<1>2. CASE l.c = TAB4
  <2>1. Finish(l, p) = Tabs(l.n - 1, Right(p))
    BY <1>2 DEF Finish, FinishDraw
  <2>2. l.n = 1 => Tabs(l.n - 1, Right(p)) = Right(p)
    BY DEF Tabs
  <2> QED BY <1>1, <1>2, <2>1, <2>2 DEF Finish
<1>3. CASE l.c # TAB4
  BY <1>1, <1>3 DEF Finish, FinishDraw
<1> QED BY <1>2, <1>3

(* What a key may do. *)
KeyTypes ==
  /\ screen' \in ScreenPages /\ log' = log /\ boot_completed' = boot_completed
  /\ early' = early + (IF boot_completed THEN 0 ELSE 1)
  /\ input_len' \in 0..MAX_INPUT_LEN /\ input_pos' \in 0..input_len' /\ input_start_x' \in 0..Wrap - 1
  /\ cursor_visible' \in BOOLEAN /\ cleared' \in BOOLEAN /\ overfull' \in BOOLEAN
  /\ cleared => cleared'
  /\ cleared' => cleared \/ ~boot_completed

KeyRows == ~cleared' => Goes(screen, screen') \/ (boot_completed /\ screen'.y < Rows)

KeyKept ==
  early' = 0 =>
    /\ Like(screen', paper')
    /\ ~overfull' => /\ ~screen'.astray /\ screen'.x <= Far /\ input_start_x' <= Cols
                     /\ input_len' > 0 => screen'.x = input_start_x' + input_pos'

(* A key that does no more than that preserves the invariant. *)
LEMMA KeyKeeps ==
  ASSUME ScreenInv, KeyTypes, KeyRows, KeyKept
  PROVE  ScreenInv'
<1>1. LogTypes'
  BY DEF ScreenInv, LogTypes, KeyTypes
<1>2. screen.y \in 0..Wrap - 1 /\ screen'.y \in 0..Wrap - 1 /\ log.y \in 0..Wrap - 1
  BY ScreenFields DEF ScreenInv, LogTypes, LogStep, KeyTypes
<1>3. ASSUME ~cleared' PROVE RowInWindow'
  <2>1. ~cleared /\ RowInWindow
    BY <1>3 DEF ScreenInv, KeyTypes
  <2>2. log' = log /\ (boot_completed => log.at = "none")
    BY DEF KeyTypes, ScreenInv, LogTypes
  <2>3. CASE boot_completed /\ screen'.y < Rows
    BY <2>2, <2>3 DEF RowInWindow
  <2>4. CASE Goes(screen, screen')
    <3>1. /\ screen.y < Rows => screen.y <= screen'.y /\ screen'.y < Rows
          /\ screen.y = Rows => screen'.y = Rows
      BY <2>4 DEF Goes
    <3> QED BY <1>2, <2>1, <2>2, <3>1, ScreenSizes DEF RowInWindow
  <2> QED BY <1>3, <2>3, <2>4 DEF KeyRows
<1>4. ASSUME early' = 0 PROVE TextKept'
  <2>1. boot_completed /\ boot_completed' /\ log' = NoLog
    BY <1>4 DEF KeyTypes, ScreenInv, LogTypes
  <2>2. Finish(log', screen') = screen' /\ log'.at = "none"
    BY <2>1 DEF Finish, NoLog
  <2> QED BY <1>4, <2>1, <2>2 DEF KeyKept, TextKept
<1>5. (cleared' => early' > 0) /\ early' \in Nat
  BY DEF ScreenInv, KeyTypes
<1> QED BY <1>1, <1>3, <1>4, <1>5 DEF ScreenInv, KeyTypes

(* What a key finds. *)
LEMMA KeyFinds ==
  ASSUME ScreenInv, early' = 0, early' = early + (IF boot_completed THEN 0 ELSE 1)
  PROVE  /\ early = 0 /\ boot_completed /\ Like(screen, paper) /\ screen.y < Rows /\ screen.x \in 0..Wrap - 1
         /\ ~overfull => /\ ~screen.astray /\ screen.x <= Far /\ input_start_x <= Cols
                         /\ input_len > 0 => screen.x = input_start_x + input_pos
<1>1. early = 0 /\ boot_completed /\ log = NoLog
  BY DEF ScreenInv, LogTypes
<1>2. Finish(log, screen) = screen
  BY <1>1 DEF Finish, NoLog
<1>3. Like(screen, paper)
  BY <1>1, <1>2 DEF ScreenInv, TextKept
<1>4. screen.y \in 0..Rows - 1 /\ screen.x \in 0..Wrap - 1
  BY <1>3, LikeAtCursor
<1>5. screen.y < Rows
  BY <1>4, ScreenSizes
<1> QED BY <1>1, <1>2, <1>3, <1>4, <1>5 DEF ScreenInv, TextKept

LEMMA InputTypes ==
  ASSUME ScreenInv
  PROVE  /\ screen \in ScreenPages /\ input_len \in 0..MAX_INPUT_LEN /\ input_pos \in 0..input_len /\ input_start_x \in 0..Wrap - 1
         /\ cursor_visible \in BOOLEAN /\ boot_completed \in BOOLEAN /\ early \in Nat /\ cleared \in BOOLEAN /\ overfull \in BOOLEAN
BY DEF ScreenInv

(* The line is redrawn. *)
LEMMA RedrawsKeeps ==
  ASSUME ScreenInv, KeyRedraws
  PROVE  ScreenInv'
<1>1. PICK text \in Texts, pos \in 0..MAX_INPUT_LEN :
        /\ pos <= Len(text) /\ input_len' = Len(text) /\ input_pos' = pos
        /\ Key(LAMBDA p : redraw_input_line(cursor_c(p), text, pos))
  BY DEF KeyRedraws
<1> DEFINE p == cursor_c(screen)
           r == redraw_input_line(p, text, pos)
<1>2. /\ early' = early + (IF boot_completed THEN 0 ELSE 1) /\ log' = log /\ screen' = r
      /\ paper' = IF early' = 0 THEN redraw_input_line(cursor_c(paper), text, pos) ELSE BarePage(1, TRUE)
  BY <1>1 DEF Key, OnPages
<1>3. /\ cursor_visible' \in {cursor_visible, TRUE} /\ input_start_x' = input_start_x /\ boot_completed' = boot_completed
      /\ cleared' = cleared /\ overfull' = overfull
  BY DEF KeyRedraws
<1>4. p \in ScreenPages /\ Goes(screen, p) /\ p.y = screen.y /\ p.astray = screen.astray
  BY InputTypes, CursorGoes
<1> HIDE DEF p
<1>5. /\ r \in ScreenPages /\ Goes(p, r)
      /\ p.y < Rows /\ input_start_x <= Cols => (r.astray => p.astray) /\ r.x = input_start_x + pos
  BY <1>4, InputTypes, RedrawGoes
<1> HIDE DEF r
<1>6. KeyTypes
  <2>1. Len(text) \in 0..MAX_INPUT_LEN /\ pos \in 0..Len(text)
    BY <1>1, TextsAre
  <2> QED BY <1>1, <1>2, <1>3, <1>5, <2>1, InputTypes DEF KeyTypes
<1>7. KeyRows
  BY <1>2, <1>4, <1>5, InputTypes, GoesOn DEF KeyRows
<1>8. KeyKept
  <2> SUFFICES ASSUME early' = 0
               PROVE  /\ Like(screen', paper')
                      /\ ~overfull' => /\ ~screen'.astray /\ screen'.x <= Far /\ input_start_x' <= Cols
                                       /\ input_len' > 0 => screen'.x = input_start_x' + input_pos'
    BY DEF KeyKept
  <2>1. /\ Like(screen, paper) /\ screen.y < Rows
        /\ ~overfull => ~screen.astray /\ input_start_x <= Cols
    BY <1>2, KeyFinds
  <2>2. Like(p, cursor_c(paper))
    BY <2>1, CursorLike DEF p
  <2>3. Like(screen', paper')
    BY <1>2, <2>2, InputTypes, RedrawLike DEF r
  <2>4. ASSUME ~overfull PROVE ~screen'.astray /\ screen'.x <= Far /\ input_start_x' <= Cols /\ screen'.x = input_start_x' + input_pos'
    <3>1. input_start_x <= Cols /\ input_start_x' = input_start_x
      BY <1>3, <2>1, <2>4
    <3>2. ~screen'.astray /\ screen'.x = input_start_x + pos
      BY <1>2, <1>4, <1>5, <2>1, <2>4, Zenon
    <3>3. screen'.x <= Far
      BY <3>1, <3>2, InputTypes, ScreenSizes DEF Far
    <3> QED BY <1>1, <3>1, <3>2, <3>3
  <2> QED BY <1>3, <2>3, <2>4
<1> QED BY <1>6, <1>7, <1>8, KeyKeeps

(* A character is put although the line is full. *)
LEMMA WhenFullKeeps ==
  ASSUME ScreenInv, KeyWhenFull
  PROVE  ScreenInv'
<1>1. PICK c \in Glyphs : Key(LAMBDA p : putchar(cursor_c(p), c))
  BY DEF KeyWhenFull
<1> DEFINE p == cursor_c(screen)
           r == putchar(p, c)
<1>2. /\ early' = early + (IF boot_completed THEN 0 ELSE 1) /\ log' = log /\ screen' = r
      /\ paper' = IF early' = 0 THEN putchar(cursor_c(paper), c) ELSE BarePage(1, TRUE)
  BY <1>1 DEF Key, OnPages
<1>3. /\ cursor_visible' = TRUE /\ overfull' = TRUE /\ boot_completed' = boot_completed /\ cleared' = cleared
      /\ input_start_x' = input_start_x /\ input_len' = input_len /\ input_pos' = input_pos
  BY DEF KeyWhenFull
<1>4. p \in ScreenPages /\ Goes(screen, p) /\ c \in Putable
  BY InputTypes, CursorGoes DEF Putable
<1>5. Goes(p, r) /\ r \in ScreenPages
  BY <1>4, PutcharGoes
<1>6. KeyTypes
  <2> HIDE DEF r
  <2> QED BY <1>2, <1>3, <1>5, InputTypes DEF KeyTypes
<1>7. KeyRows
  <2> HIDE DEF r, p
  <2> QED BY <1>2, <1>4, <1>5, InputTypes, GoesOn DEF KeyRows
<1>8. ASSUME early' = 0 PROVE Like(screen', paper')
  <2>1. Like(screen, paper)
    BY <1>2, <1>8, KeyFinds
  <2>2. Like(p, cursor_c(paper))
    BY <2>1, CursorLike
  <2> QED BY <1>2, <1>4, <1>8, <2>2, PutcharLike
<1>9. KeyKept
  BY <1>3, <1>8 DEF KeyKept
<1> QED BY <1>6, <1>7, <1>9, KeyKeeps

(* An arrow moves the cursor by one cell. *)
LEMMA ArrowKeeps ==
  ASSUME ScreenInv, KeyLeft \/ KeyRight
  PROVE  ScreenInv'
<1> DEFINE p == cursor_c(screen)
           m == IF KeyLeft THEN Left(p) ELSE Right(p)
           r == cursor_draw(m)
           m2 == IF KeyLeft THEN Left(cursor_c(paper)) ELSE Right(cursor_c(paper))
<1>1. p \in ScreenPages /\ p.x = screen.x /\ p.y = screen.y /\ p.astray = screen.astray
  BY InputTypes, CursorGoes
<1>2. /\ early' = early + (IF boot_completed THEN 0 ELSE 1) /\ log' = log /\ screen' = r
      /\ paper' = IF early' = 0 THEN cursor_draw(m2) ELSE BarePage(1, TRUE)
  <2>1. CASE KeyLeft
    BY <2>1 DEF KeyLeft, Key, OnPages
  <2>2. CASE ~KeyLeft
    <3>1. KeyRight
      BY <2>2
    <3> QED BY <2>2, <3>1 DEF KeyRight, Key, OnPages
  <2> QED BY <2>1, <2>2
<1>3. /\ cursor_visible' = cursor_visible /\ overfull' = overfull /\ boot_completed' = boot_completed /\ cleared' = cleared
      /\ input_start_x' = input_start_x /\ input_len' = input_len
      /\ input_len > 0 /\ input_pos' \in 0..input_len
      /\ input_pos' = IF KeyLeft THEN input_pos - 1 ELSE input_pos + 1
  <2>1. CASE KeyLeft
    BY <2>1, InputTypes DEF KeyLeft
  <2>2. CASE ~KeyLeft
    <3>1. KeyRight
      BY <2>2
    <3> QED BY <2>2, <3>1, InputTypes DEF KeyRight
  <2> QED BY <2>1, <2>2
<1>4. /\ m \in ScreenPages /\ m.y = p.y /\ m.astray = p.astray
      /\ KeyLeft /\ p.x >= 1 => m.x = p.x - 1
      /\ ~KeyLeft /\ p.x <= Far => m.x = p.x + 1
  <2>1. Left(p) \in ScreenPages /\ Left(p).y = p.y /\ Left(p).astray = p.astray /\ (p.x >= 1 => Left(p).x = p.x - 1)
    BY <1>1, LeftIs
  <2>2. Right(p) \in ScreenPages /\ Right(p).y = p.y /\ Right(p).astray = p.astray /\ (p.x <= Far => Right(p).x = p.x + 1)
    BY <1>1, RightIs
  <2> HIDE DEF p
  <2> QED BY <2>1, <2>2
<1>5. r \in ScreenPages /\ r.x = m.x /\ r.y = m.y /\ r.astray = m.astray
  <2> HIDE DEF m
  <2> QED BY <1>4, CursorGoes
<1>6. KeyTypes
  <2> HIDE DEF r
  <2> QED BY <1>2, <1>3, <1>5, InputTypes DEF KeyTypes
<1>7. KeyRows
  <2> HIDE DEF r, m, p
  <2>1. Goes(screen, r)
    BY <1>1, <1>4, <1>5, InputTypes, GoesStill
  <2> QED BY <1>2, <2>1 DEF KeyRows
<1>8. ASSUME early' = 0 PROVE Like(screen', paper')
  <2>1. Like(screen, paper)
    BY <1>2, <1>8, KeyFinds
  <2>2. Like(p, cursor_c(paper))
    BY <2>1, CursorLike
  <2>3. Like(m, m2)
    BY <2>2, RightLike
  <2> HIDE DEF m, m2
  <2> QED BY <1>2, <1>8, <2>3, CursorLike
<1>9. ASSUME early' = 0, ~overfull'
      PROVE  /\ ~screen'.astray /\ screen'.x <= Far /\ input_start_x' <= Cols
             /\ screen'.x = input_start_x' + input_pos'
  <2>1. ~overfull
    BY <1>3, <1>9
  <2>2. ~screen.astray /\ screen.x <= Far /\ input_start_x <= Cols /\ screen.x = input_start_x + input_pos
    BY <1>2, <1>3, <1>9, <2>1, KeyFinds
  <2> HIDE DEF r, m, p
  <2>3. ~screen'.astray
    BY <1>1, <1>2, <1>4, <1>5, <2>2
  <2>4. screen'.x = input_start_x + input_pos'
    <3>1. CASE KeyLeft
      <4>1. p.x >= 1 /\ input_pos' = input_pos - 1
        BY <1>1, <1>3, <2>2, <3>1, InputTypes DEF KeyLeft
      <4> QED BY <1>1, <1>2, <1>4, <1>5, <2>2, <3>1, <4>1, InputTypes
    <3>2. CASE ~KeyLeft
      BY <1>1, <1>2, <1>3, <1>4, <1>5, <2>2, <3>2, InputTypes
    <3> QED BY <3>1, <3>2
  <2>5. screen'.x <= Far
    <3>1. input_pos' \in 0..MAX_INPUT_LEN
      <4>1. input_len \in 0..MAX_INPUT_LEN /\ input_pos' \in 0..input_len
        BY <1>3, InputTypes
      <4> QED BY <4>1, ScreenSizes
    <3> QED BY <2>2, <2>4, <3>1, InputTypes, ScreenSizes DEF Far
  <2> QED BY <1>3, <2>2, <2>3, <2>4, <2>5
<1>10. KeyKept
  BY <1>8, <1>9 DEF KeyKept
<1> QED BY <1>6, <1>7, <1>10, KeyKeeps

(* A key that leaves the cursor and the line where they are, and the blinking. *)
LEMMA StillKeeps ==
  ASSUME ScreenInv, screen' \in ScreenPages, screen'.x = screen.x, screen'.y = screen.y, screen'.astray = screen.astray,
         early' = early + (IF boot_completed THEN 0 ELSE 1), log' = log, cursor_visible' \in BOOLEAN,
         early' = 0 /\ Like(screen, paper) => Like(screen', paper'),
         UNCHANGED <<input_len, input_pos, input_start_x, boot_completed, cleared, overfull>>
  PROVE  ScreenInv'
<1>1. KeyTypes
  BY InputTypes DEF KeyTypes
<1>2. KeyRows
  <2>1. Goes(screen, screen')
    BY InputTypes, GoesStill
  <2> QED BY <2>1 DEF KeyRows
<1>3. ASSUME early' = 0 PROVE Like(screen', paper')
  BY <1>3, KeyFinds
<1>4. ASSUME early' = 0, ~overfull'
      PROVE  /\ ~screen'.astray /\ screen'.x <= Far /\ input_start_x' <= Cols
             /\ input_len' > 0 => screen'.x = input_start_x' + input_pos'
  <2>1. ~overfull
    BY <1>4
  <2>2. ~screen.astray /\ screen.x <= Far /\ input_start_x <= Cols /\ (input_len > 0 => screen.x = input_start_x + input_pos)
    BY <1>4, <2>1, KeyFinds
  <2> QED BY <2>2
<1>5. KeyKept
  BY <1>3, <1>4 DEF KeyKept
<1> QED BY <1>1, <1>2, <1>5, KeyKeeps

(* A key that changes nothing. *)
LEMMA IdleKeeps ==
  ASSUME ScreenInv, KeyIdle
  PROVE  ScreenInv'
<1>1. UNCHANGED <<input_len, input_pos, input_start_x, cursor_visible, boot_completed, cleared, overfull>>
  BY DEF KeyIdle
<1> DEFINE p == cursor_c(screen)
<1>2. p \in ScreenPages /\ p.x = screen.x /\ p.y = screen.y /\ p.astray = screen.astray
  BY InputTypes, CursorGoes
<1>3. cursor_visible' \in BOOLEAN
  BY <1>1, InputTypes
<1>4. CASE Key(cursor_c)
  <2>1. /\ early' = early + (IF boot_completed THEN 0 ELSE 1) /\ log' = log /\ screen' = p
        /\ paper' = IF early' = 0 THEN cursor_c(paper) ELSE BarePage(1, TRUE)
    BY <1>4 DEF Key, OnPages
  <2>2. early' = 0 /\ Like(screen, paper) => Like(screen', paper')
    BY <2>1, CursorLike
  <2> HIDE DEF p
  <2> QED BY <1>1, <1>2, <1>3, <2>1, <2>2, StillKeeps
<1>5. CASE Key(LAMBDA q : cursor_draw(cursor_c(q)))
  <2> DEFINE r == cursor_draw(p)
  <2>1. /\ early' = early + (IF boot_completed THEN 0 ELSE 1) /\ log' = log /\ screen' = r
        /\ paper' = IF early' = 0 THEN cursor_draw(cursor_c(paper)) ELSE BarePage(1, TRUE)
    BY <1>5 DEF Key, OnPages
  <2>2. ASSUME Like(screen, paper) PROVE Like(r, cursor_draw(cursor_c(paper)))
    <3>1. Like(p, cursor_c(paper))
      BY <2>2, CursorLike
    <3> HIDE DEF p
    <3> QED BY <3>1, CursorLike
  <2> HIDE DEF p
  <2>3. r \in ScreenPages /\ r.x = p.x /\ r.y = p.y /\ r.astray = p.astray
    BY <1>2, CursorGoes
  <2> HIDE DEF r
  <2> QED BY <1>1, <1>2, <1>3, <2>1, <2>2, <2>3, StillKeeps
<1> QED BY <1>4, <1>5 DEF KeyIdle

(* The underline blinks. *)
LEMMA BlinkKeeps ==
  ASSUME ScreenInv, cursor_timer_callback
  PROVE  ScreenInv'
<1>1. /\ cursor_visible' = ~cursor_visible
      /\ UNCHANGED <<input_len, input_pos, input_start_x, boot_completed, cleared, overfull>>
  BY DEF cursor_timer_callback
<1>2. cursor_visible' \in BOOLEAN
  BY <1>1
<1> DEFINE add == IF cursor_visible' THEN {"_"} ELSE {}
           c == (AtCursor(screen) \ {"_"}) \cup add
           r == draw_rect(screen, c)
<1>3. /\ early' = early + (IF boot_completed THEN 0 ELSE 1) /\ log' = log /\ screen' = r
      /\ paper' = IF early' = 0 THEN draw_rect(paper, (AtCursor(paper) \ {"_"}) \cup add) ELSE BarePage(1, TRUE)
  BY DEF cursor_timer_callback, Key, OnPages
<1>4. c \in ScreenCell
  BY InputTypes, AtCursorIs DEF ScreenCell
<1>5. r \in ScreenPages /\ r.x = screen.x /\ r.y = screen.y /\ r.astray = screen.astray
  <2> HIDE DEF c
  <2> QED BY <1>4, InputTypes, DrawIs
<1>6. ASSUME Like(screen, paper) PROVE Like(r, draw_rect(paper, (AtCursor(paper) \ {"_"}) \cup add))
  <2>1. AtCursor(paper) = AtCursor(screen)
    BY <1>6, AtCursorLike
  <2>2. (AtCursor(paper) \ {"_"}) \cup add = c
    BY <2>1
  <2> HIDE DEF c, add
  <2> QED BY <1>4, <1>6, <2>2, DrawLike
<1> HIDE DEF r, add
<1> QED BY <1>1, <1>2, <1>3, <1>5, <1>6, StillKeeps

LEMMA PromptedIs ==
  ASSUME NEW p \in ScreenPages
  PROVE  LET q == Prompted(p) IN Goes(p, q) /\ Neat(p, q) /\ q \in ScreenPages /\ (boot_completed => q.x = 1)
<1>1. CASE boot_completed
  BY <1>1, PromptIs DEF Prompted
<1>2. CASE ~boot_completed
  <2>1. Prompted(p) = p
    BY <1>2 DEF Prompted
  <2>2. Goes(p, p) /\ Neat(p, p)
    BY GoesStill DEF Neat
  <2> QED BY <1>2, <2>1, <2>2
<1> QED BY <1>1, <1>2

LEMMA PromptedLike ==
  ASSUME NEW p, NEW q, Like(p, q)
  PROVE  Like(Prompted(p), Prompted(q))
BY PromptLike DEF Prompted

(* A line that is run: it puts a text, or clears the screen, and there is a *)
(* new prompt.                                                              *)
LEMMA RunKeeps ==
  ASSUME ScreenInv, NEW p, NEW q, p \in ScreenPages, screen' = Prompted(p),
         early' = early + (IF boot_completed THEN 0 ELSE 1), log' = log,
         paper' = (IF early' = 0 THEN Prompted(q) ELSE BarePage(1, TRUE)),
         Like(screen, paper) => Like(p, q),
         ~screen.astray /\ screen.x <= Far /\ screen.y < Rows => ~p.astray /\ p.x <= Far,
         ~cleared' => Goes(screen, p) \/ (boot_completed /\ p.y < Rows),
         cleared' \in BOOLEAN, cleared => cleared', cleared' => cleared \/ ~boot_completed,
         input_len' \in {0, input_len}, input_pos' = 0, input_start_x' = screen'.x, cursor_visible' = TRUE,
         UNCHANGED <<boot_completed, overfull>>
  PROVE  ScreenInv'
<1>1. Goes(p, screen') /\ Neat(p, screen') /\ screen' \in ScreenPages /\ (boot_completed => screen'.x = 1)
  BY PromptedIs
<1>2. screen'.x \in 0..Wrap - 1 /\ p.y \in 0..Wrap - 1 /\ screen'.y \in 0..Wrap - 1
  BY <1>1, ScreenFields
<1>3. KeyTypes
  <2>1. input_len' \in 0..MAX_INPUT_LEN /\ input_pos' \in 0..input_len'
    BY InputTypes, ScreenSizes
  <2> QED BY <1>1, <1>2, <2>1, InputTypes DEF KeyTypes
<1>4. KeyRows
  <2> SUFFICES ASSUME ~cleared' PROVE Goes(screen, screen') \/ (boot_completed /\ screen'.y < Rows)
    BY DEF KeyRows
  <2>1. CASE Goes(screen, p)
    BY <1>1, <2>1, InputTypes, GoesOn
  <2>2. CASE boot_completed /\ p.y < Rows
    BY <1>1, <2>2 DEF Goes
  <2> QED BY <2>1, <2>2
<1>5. ASSUME early' = 0
      PROVE  /\ Like(screen', paper')
             /\ ~overfull' => /\ ~screen'.astray /\ screen'.x <= Far /\ input_start_x' <= Cols
                              /\ input_len' > 0 => screen'.x = input_start_x' + input_pos'
  <2>1. /\ boot_completed /\ Like(screen, paper) /\ screen.y < Rows
        /\ ~overfull => ~screen.astray /\ screen.x <= Far
    BY <1>5, KeyFinds
  <2>2. Like(p, q)
    BY <2>1
  <2>3. Like(screen', paper')
    BY <1>5, <2>2, PromptedLike
  <2>4. ASSUME ~overfull' PROVE ~screen'.astray
    <3>1. ~screen.astray /\ screen.x <= Far /\ screen.y < Rows
      BY <2>1, <2>4
    <3>2. ~p.astray /\ p.x <= Far
      BY <3>1
    <3>3. p.y \in 0..Rows - 1
      BY <2>2, LikeAtCursor
    <3>4. p.y < Rows
      BY <3>3, ScreenSizes
    <3> QED BY <1>1, <3>2, <3>4, Zenon DEF Neat
  <2>5. screen'.x = 1 /\ input_start_x' = 1 /\ 1 <= Cols /\ 1 <= Far
    BY <1>1, <2>1, ScreenSizes
  <2>6. screen'.x = input_start_x' + input_pos'
    BY <2>5
  <2> QED BY <2>3, <2>4, <2>5, <2>6
<1>6. KeyKept
  BY <1>5 DEF KeyKept
<1> QED BY <1>3, <1>4, <1>6, KeyKeeps

(* Enter. *)
LEMMA EnterKeeps ==
  ASSUME ScreenInv, KeyEnter
  PROVE  ScreenInv'
<1>1. input_pos' = 0 /\ input_start_x' = screen'.x /\ cursor_visible' = TRUE /\ UNCHANGED <<boot_completed, overfull>>
  BY DEF KeyEnter
<1> DEFINE p == cursor_c(screen)
           q == cursor_c(paper)
<1>2. p \in ScreenPages /\ p.x = screen.x /\ p.y = screen.y /\ p.astray = screen.astray /\ Goes(screen, p) /\ Neat(screen, p)
  BY InputTypes, CursorGoes
<1>3. Like(screen, paper) => Like(p, q)
  BY CursorLike
<1>4. cleared \in BOOLEAN /\ boot_completed \in BOOLEAN /\ screen \in ScreenPages
  BY InputTypes
<1>5. CASE Key(LAMBDA z : Prompted(cursor_c(z))) /\ UNCHANGED <<input_len, cleared>>
  <2>1. /\ early' = early + (IF boot_completed THEN 0 ELSE 1) /\ log' = log /\ screen' = Prompted(p)
        /\ paper' = IF early' = 0 THEN Prompted(q) ELSE BarePage(1, TRUE)
    BY <1>5 DEF Key, OnPages
  <2> HIDE DEF p, q
  <2>2. ~screen.astray /\ screen.x <= Far /\ screen.y < Rows => ~p.astray /\ p.x <= Far
    BY <1>2
  <2> QED BY <1>1, <1>2, <1>3, <1>4, <1>5, <2>1, <2>2, RunKeeps
<1>6. CASE /\ \E text \in Outputs : Key(LAMBDA z : Prompted(string(cursor_c(z), text)))
           /\ input_len' = 0 /\ cleared' = cleared
  <2>1. PICK text \in Outputs : Key(LAMBDA z : Prompted(string(cursor_c(z), text)))
    BY <1>6
  <2> DEFINE p2 == string(p, text)
             q2 == string(q, text)
  <2>2. /\ early' = early + (IF boot_completed THEN 0 ELSE 1) /\ log' = log /\ screen' = Prompted(p2)
        /\ paper' = IF early' = 0 THEN Prompted(q2) ELSE BarePage(1, TRUE)
    BY <2>1 DEF Key, OnPages
  <2>3. text \in Seq(Putable)
    <3>1. Outputs \subseteq Seq(Putable)
      BY ScreenAssumption, Zenon
    <3> QED BY <2>1, <3>1
  <2> HIDE DEF p, q
  <2>4. Goes(p, p2) /\ Neat(p, p2) /\ p2 \in ScreenPages
    BY <1>2, <2>3, StringGoes
  <2>5. Like(screen, paper) => Like(p2, q2)
    BY <1>3, <2>3, StringLike
  <2> HIDE DEF p2, q2
  <2>6. Goes(screen, p2) /\ Neat(screen, p2)
    BY <1>2, <1>4, <2>4, GoesOn
  <2>7. ~screen.astray /\ screen.x <= Far /\ screen.y < Rows => ~p2.astray /\ p2.x <= Far
    BY <2>6, Zenon DEF Neat
  <2> QED BY <1>1, <1>4, <1>6, <2>2, <2>4, <2>5, <2>6, <2>7, RunKeeps
<1>7. CASE Key(LAMBDA z : Prompted(console_window_clear(z))) /\ cleared' = (cleared \/ ~boot_completed) /\ input_len' = 0
  <2> DEFINE p2 == console_window_clear(screen)
             q2 == console_window_clear(paper)
  <2>1. /\ early' = early + (IF boot_completed THEN 0 ELSE 1) /\ log' = log /\ screen' = Prompted(p2)
        /\ paper' = IF early' = 0 THEN Prompted(q2) ELSE BarePage(1, TRUE)
    BY <1>7 DEF Key, OnPages
  <2>2. p2 \in ScreenPages /\ p2.x = 0 /\ p2.y = 0 /\ p2.astray = screen.astray
    BY <1>4, ClearIs
  <2>3. Like(screen, paper) => Like(p2, q2)
    BY ClearLike
  <2> HIDE DEF p2, q2
  <2>4. 0 < Rows /\ 0 <= Far
    BY ScreenSizes
  <2>5. /\ cleared' \in BOOLEAN /\ (cleared => cleared') /\ (cleared' => cleared \/ ~boot_completed)
        /\ ~cleared' => boot_completed /\ p2.y < Rows
    BY <1>4, <1>7, <2>2, <2>4
  <2>6. ~screen.astray /\ screen.x <= Far /\ screen.y < Rows => ~p2.astray /\ p2.x <= Far
    BY <2>2, <2>4
  <2> QED BY <1>1, <1>7, <2>1, <2>2, <2>3, <2>5, <2>6, RunKeeps
<1> QED BY <1>5, <1>6, <1>7 DEF KeyEnter

(* Ctrl-C. *)
LEMMA CancelsKeeps ==
  ASSUME ScreenInv, KeyCancels
  PROVE  ScreenInv'
<1>1. /\ input_pos' = 0 /\ input_len' = 0 /\ cursor_visible' = TRUE
      /\ UNCHANGED <<input_start_x, boot_completed, cleared, overfull>>
  BY DEF KeyCancels
<1> DEFINE p == cursor_c(screen)
           r == shell_print_prompt(p)
<1>2. /\ early' = early + (IF boot_completed THEN 0 ELSE 1) /\ log' = log /\ screen' = r
      /\ paper' = IF early' = 0 THEN shell_print_prompt(cursor_c(paper)) ELSE BarePage(1, TRUE)
  BY DEF KeyCancels, Key, OnPages
<1>3. p \in ScreenPages /\ Goes(screen, p) /\ Neat(screen, p)
  BY InputTypes, CursorGoes
<1>4. Goes(p, r) /\ Neat(p, r) /\ r \in ScreenPages /\ r.x = 1
  BY <1>3, PromptIs
<1>5. ASSUME early' = 0 PROVE Like(screen', paper')
  <2>1. Like(screen, paper)
    BY <1>2, <1>5, KeyFinds
  <2>2. Like(p, cursor_c(paper))
    BY <2>1, CursorLike
  <2> QED BY <1>2, <1>5, <2>2, PromptLike
<1> HIDE DEF p, r
<1>6. Goes(screen, r) /\ Neat(screen, r)
  BY <1>3, <1>4, InputTypes, GoesOn
<1>7. KeyTypes
  <2>1. 0 \in 0..MAX_INPUT_LEN /\ 0 \in 0..0
    BY ScreenSizes
  <2> QED BY <1>1, <1>2, <1>4, <2>1, InputTypes DEF KeyTypes
<1>8. KeyRows
  BY <1>2, <1>6 DEF KeyRows
<1>9. ASSUME early' = 0, ~overfull'
      PROVE  /\ ~screen'.astray /\ screen'.x <= Far /\ input_start_x' <= Cols
             /\ ~(input_len' > 0)
  <2>1. screen.y < Rows /\ ~screen.astray /\ screen.x <= Far /\ input_start_x <= Cols
    BY <1>1, <1>2, <1>9, KeyFinds
  <2>2. ~screen'.astray /\ screen'.x <= Far
    BY <1>2, <1>6, <2>1, Zenon DEF Neat
  <2> QED BY <1>1, <2>1, <2>2
<1>10. KeyKept
  BY <1>5, <1>9 DEF KeyKept
<1> QED BY <1>7, <1>8, <1>10, KeyKeeps

(* The boot is over. *)
LEMMA BootKeeps ==
  ASSUME ScreenInv, BootEnds
  PROVE  ScreenInv'
<1>1. /\ ~boot_completed /\ log = NoLog /\ boot_completed' = TRUE /\ cursor_visible' = TRUE
      /\ log' = log /\ early' = early /\ cleared' = cleared /\ overfull' = overfull
      /\ input_pos' = 0 /\ input_len' = 0 /\ input_start_x' = screen'.x
  BY DEF BootEnds
<1> DEFINE c == AtCursor(screen) \cup {"_"}
           p == draw_rect(screen, c)
           q == putchar(p, NL)
           r == shell_print_prompt(q)
           p2 == draw_rect(paper, AtCursor(paper) \cup {"_"})
           r2 == shell_print_prompt(putchar(p2, NL))
<1>2. screen' = r /\ paper' = IF early' = 0 THEN r2 ELSE BarePage(1, TRUE)
  BY DEF BootEnds, OnPages
<1>3. c \in ScreenCell /\ NL \in Putable /\ screen \in ScreenPages
  BY InputTypes, AtCursorIs DEF ScreenCell, Putable
<1>4. Like(screen, paper) => Like(r, r2)
  <2> SUFFICES ASSUME Like(screen, paper) PROVE Like(r, r2)
    OBVIOUS
  <2>1. AtCursor(paper) \cup {"_"} = c
    BY AtCursorLike
  <2>2. Like(p, p2)
    BY <1>3, <2>1, DrawLike
  <2>3. Like(q, putchar(p2, NL))
    BY <1>3, <2>2, PutcharLike
  <2> QED BY <2>3, PromptLike
<1>5. Goes(screen, p) /\ Neat(screen, p)
  BY <1>3, DrawGoes
<1>6. p \in ScreenPages
  BY <1>5 DEF Goes
<1>7. Goes(p, q) /\ Neat(p, q) /\ q \in ScreenPages
  BY <1>3, <1>6, PutcharGoes
<1>8. Goes(q, r) /\ Neat(q, r) /\ r \in ScreenPages /\ r.x = 1
  BY <1>7, PromptIs
<1> HIDE DEF p, q, r, p2, r2
<1>9. Goes(screen, r) /\ Neat(screen, r)
  BY <1>3, <1>5, <1>6, <1>7, <1>8, GoesOn
<1>10. log.at = "none" /\ LogTypes'
  BY <1>1 DEF ScreenInv, LogTypes, NoLog
<1>11. ASSUME ~cleared' PROVE RowInWindow'
  <2>1. screen.y < Rows
    BY <1>1, <1>10, <1>11 DEF ScreenInv, RowInWindow
  <2>2. screen'.y < Rows
    BY <1>2, <1>9, <2>1 DEF Goes
  <2> QED BY <1>1, <1>10, <2>2 DEF RowInWindow
<1>12. ASSUME early' = 0 PROVE TextKept'
  <2>1. Finish(log, screen) = screen /\ Finish(log', screen') = screen'
    BY <1>1, <1>10 DEF Finish
  <2>2. TextKept
    BY <1>1, <1>12 DEF ScreenInv
  <2>3. Like(screen, paper) /\ (~overfull => ~screen.astray /\ screen.x <= Far)
    BY <2>1, <2>2 DEF TextKept
  <2>4. Like(screen', paper')
    BY <1>2, <1>4, <1>12, <2>3
  <2>5. screen.y < Rows
    <3>1. screen.y \in 0..Rows - 1
      BY <2>3, LikeAtCursor
    <3> QED BY <3>1, ScreenSizes
  <2>6. ~overfull => ~screen'.astray /\ screen'.x <= Far
    BY <1>2, <1>9, <2>3, <2>5, Zenon DEF Neat
  <2>7. input_start_x' <= Cols
    BY <1>1, <1>2, <1>8, ScreenSizes
  <2> QED BY <1>1, <1>10, <2>1, <2>4, <2>6, <2>7 DEF TextKept
<1>13. input_len' \in 0..MAX_INPUT_LEN /\ input_pos' \in 0..input_len' /\ input_start_x' \in 0..Wrap - 1
  BY <1>1, <1>2, <1>8, ScreenSizes
<1> QED BY <1>1, <1>2, <1>8, <1>10, <1>11, <1>12, <1>13 DEF ScreenInv

(* A step of the log. *)
LogTaken ==
  /\ UNCHANGED <<input_len, input_pos, input_start_x, cursor_visible, boot_completed, early, cleared, overfull>>
  /\ ~boot_completed /\ screen' \in ScreenPages

LogKept ==
  early = 0 => /\ Like(Finish(log', screen'), paper')
               /\ log'.at \in {"line", "bottom"} => log'.y = screen'.y
               /\ ~overfull => ~Finish(log', screen').astray /\ Finish(log', screen').x <= Far

(* Such a step preserves the invariant. *)
LEMMA LogKeeps ==
  ASSUME ScreenInv, LogTaken, LogTypes', ~cleared => RowInWindow', LogKept
  PROVE  ScreenInv'
<1>1. ASSUME early' = 0 PROVE TextKept'
  <2>1. early = 0 /\ TextKept
    BY <1>1 DEF ScreenInv, LogTaken
  <2>2. UNCHANGED <<input_len, input_pos, input_start_x, boot_completed, overfull>> /\ ~boot_completed
    BY DEF LogTaken
  <2>3. input_len = 0 /\ (~overfull => input_start_x <= Cols)
    BY <2>1, <2>2 DEF TextKept
  <2>4. ~(input_len' > 0)
    BY <2>2, <2>3
  <2> QED BY <2>1, <2>2, <2>3, <2>4 DEF LogKept, TextKept
<1> QED BY <1>1 DEF ScreenInv, LogTaken

(* A step that leaves what the screen will be. *)
LEMMA FinishKept ==
  ASSUME ScreenInv, LogTaken, paper' = paper, early = 0 => Finish(log', screen') = Finish(log, screen),
         early = 0 /\ log'.at \in {"line", "bottom"} => log'.y = screen'.y
  PROVE  LogKept
BY DEF ScreenInv, TextKept, LogKept

(* A character of the log is begun. *)
LEMMA LogCharKeeps ==
  ASSUME ScreenInv, LogChar
  PROVE  ScreenInv'
<1>1. PICK c \in Putable :
        /\ paper' = IF early = 0 THEN putchar(paper, c) ELSE paper
        /\ IF c \in {CR, BS} THEN Log(NoLog, putchar(screen, c))
           ELSE Log([at |-> IF c = NL THEN "line" ELSE "test", c |-> c, n |-> IF c = TAB4 THEN 4 ELSE 1, y |-> screen.y], screen)
  BY DEF LogChar
<1>2. ~boot_completed /\ log = NoLog /\ log.at = "none"
  BY DEF LogChar, NoLog
<1>3. screen \in ScreenPages /\ screen.y \in 0..Wrap - 1
  BY InputTypes, ScreenFields
<1>4. Finish(log, screen) = screen
  BY <1>2 DEF Finish
<1> DEFINE r == putchar(screen, c)
           l == [at |-> IF c = NL THEN "line" ELSE "test", c |-> c, n |-> IF c = TAB4 THEN 4 ELSE 1, y |-> screen.y]
<1>5. Goes(screen, r) /\ Neat(screen, r) /\ r \in ScreenPages
  BY <1>3, PutcharGoes
<1>6. ASSUME early = 0 PROVE Like(r, paper') /\ (~overfull => ~r.astray /\ r.x <= Far)
  <2>1. Like(screen, paper) /\ (~overfull => ~screen.astray /\ screen.x <= Far)
    BY <1>4, <1>6 DEF ScreenInv, TextKept
  <2>2. Like(r, paper')
    BY <1>1, <1>6, <2>1, PutcharLike
  <2>3. screen.y < Rows
    <3>1. screen.y \in 0..Rows - 1
      BY <2>1, LikeAtCursor
    <3> QED BY <3>1, ScreenSizes
  <2> HIDE DEF r
  <2>4. ~overfull => ~r.astray /\ r.x <= Far
    BY <1>5, <2>1, <2>3, Zenon DEF Neat
  <2> QED BY <2>2, <2>4
<1>7. ~cleared => screen.y < Rows
  BY <1>2 DEF ScreenInv, RowInWindow
<1>8. CASE c \in {CR, BS}
  <2>1. Log(NoLog, r)
    BY <1>1, <1>8
  <2> HIDE DEF r
  <2>2. log' = NoLog /\ screen' = r /\ LogTaken /\ log'.at = "none"
    BY <1>2, <1>5, <2>1 DEF Log, LogTaken, NoLog
  <2>3. Finish(log', screen') = r
    BY <2>2 DEF Finish
  <2>4. LogTypes'
    <3>1. NoLog \in LogStep
      BY ScreenSizes DEF NoLog, LogStep, Putable
    <3> QED BY <2>2, <3>1 DEF LogTypes
  <2>5. ~cleared => RowInWindow'
    BY <1>5, <1>7, <2>2 DEF RowInWindow, Goes
  <2>6. LogKept
    BY <1>6, <2>2, <2>3 DEF LogKept
  <2> QED BY <2>2, <2>4, <2>5, <2>6, LogKeeps
<1>9. CASE c \notin {CR, BS}
  <2>1. Log(l, screen)
    BY <1>1, <1>9
  <2>2. Finish(l, screen) = r
    BY <1>3, <1>9, FinishChar
  <2>3. l.at = (IF c = NL THEN "line" ELSE "test") /\ l.c = c /\ l.n = (IF c = TAB4 THEN 4 ELSE 1) /\ l.y = screen.y /\ l \in LogStep
    BY <1>3 DEF LogStep
  <2> HIDE DEF r, l
  <2>4. log' = l /\ screen' = screen /\ LogTaken
    BY <1>2, <1>3, <2>1 DEF Log, LogTaken
  <2>5. LogTypes'
    BY <1>2, <1>9, <2>3, <2>4 DEF LogTypes, LogTaken
  <2>6. ~cleared => RowInWindow'
    BY <1>3, <1>7, <2>3, <2>4 DEF RowInWindow
  <2>7. LogKept
    BY <1>6, <2>2, <2>3, <2>4 DEF LogKept
  <2> QED BY <2>4, <2>5, <2>6, <2>7, LogKeeps
<1> QED BY <1>8, <1>9

(* What a step of the log finds. *)
LEMMA LogFinds ==
  ASSUME ScreenInv, log.at # "none"
  PROVE  /\ log \in LogStep /\ log.n \in 1..4 /\ log.c \in Putable /\ log.c \notin {CR, BS} /\ log.y \in 0..Wrap - 1
         /\ ~boot_completed /\ (log.c # TAB4 => log.n = 1) /\ (log.at \in {"test", "draw"} => log.c # NL)
         /\ screen \in ScreenPages /\ screen.y \in 0..Wrap - 1
<1>1. log \in LogStep /\ log.n >= 1 /\ log.c \notin {CR, BS} /\ ~boot_completed /\ (log.c # TAB4 => log.n = 1)
      /\ (log.at \in {"test", "draw"} => log.c # NL)
  BY DEF ScreenInv, LogTypes
<1>2. log.n \in 0..4 /\ log.c \in Putable /\ log.y \in 0..Wrap - 1
  BY <1>1 DEF LogStep
<1>3. screen \in ScreenPages /\ screen.y \in 0..Wrap - 1
  BY InputTypes, ScreenFields
<1>4. log.n \in 1..4
  BY <1>1, <1>2
<1> QED BY <1>1, <1>2, <1>3, <1>4

LEMMA NoLogIs ==
  NoLog \in LogStep /\ NoLog.at = "none" /\ NoLog.n = 0
BY ScreenSizes DEF NoLog, LogStep, Putable

(* A row is looked at, and a wrap is a line of its own. *)
LEMMA LogTestKeeps ==
  ASSUME ScreenInv, LogTest
  PROVE  ScreenInv'
<1> DEFINE l == [log EXCEPT !.at = IF Wraps(screen, log.c) THEN "line" ELSE "draw", !.y = screen.y]
<1>1. log.at = "test" /\ paper' = paper /\ Log(l, screen)
  BY DEF LogTest
<1>2. /\ log \in LogStep /\ log.n \in 1..4 /\ log.c \notin {NL, CR, BS} /\ ~boot_completed
      /\ (log.c # TAB4 => log.n = 1) /\ screen \in ScreenPages /\ screen.y \in 0..Wrap - 1
  BY <1>1, LogFinds
<1>3. /\ l \in LogStep /\ l.at = (IF Wraps(screen, log.c) THEN "line" ELSE "draw")
      /\ l.c = log.c /\ l.n = log.n /\ l.y = screen.y
  BY <1>2 DEF LogStep
<1> HIDE DEF l
<1>4. log' = l /\ screen' = screen /\ LogTaken
  BY <1>1, <1>2 DEF Log, LogTaken
<1>5. Finish(log', screen') = Finish(log, screen)
  BY <1>1, <1>2, <1>3, <1>4, FinishTest
<1>6. LogKept
  BY <1>1, <1>3, <1>4, <1>5, FinishKept
<1>7. LogTypes'
  BY <1>2, <1>3, <1>4 DEF LogTypes, LogTaken
<1>8. ~cleared => RowInWindow'
  BY <1>1, <1>2, <1>3, <1>4 DEF ScreenInv, RowInWindow
<1> QED BY <1>4, <1>6, <1>7, <1>8, LogKeeps

(* The cursor goes down from the row it is in, or from the one it was in. *)
LEMMA LogLineKeeps ==
  ASSUME ScreenInv, LogLine
  PROVE  ScreenInv'
<1>1. log.at = "line" /\ paper' = paper
  BY DEF LogLine
<1>2. PICK y \in {screen.y, log.y} : Log([log EXCEPT !.at = "bottom", !.y = (y + 1) % Wrap], RowDown(screen, y))
  BY DEF LogLine
<1> DEFINE l == [log EXCEPT !.at = "bottom", !.y = (y + 1) % Wrap]
           q == RowDown(screen, y)
<1>3. /\ log \in LogStep /\ log.n \in 1..4 /\ log.c \notin {CR, BS} /\ ~boot_completed
      /\ (log.c # TAB4 => log.n = 1) /\ screen \in ScreenPages /\ screen.y \in 0..Wrap - 1 /\ log.y \in 0..Wrap - 1
  BY <1>1, LogFinds
<1>4. y \in 0..Wrap - 1
  BY <1>3
<1>5. q \in ScreenPages /\ q.y = (y + 1) % Wrap /\ (y + 1 < Wrap => q.y = y + 1)
  BY <1>3, <1>4, RowDownIs
<1>6. (y + 1) % Wrap \in 0..Wrap - 1
  BY <1>4, WrapRange
<1>7. l \in LogStep /\ l.at = "bottom" /\ l.c = log.c /\ l.n = log.n /\ l.y = (y + 1) % Wrap
  <2> DEFINE v == (y + 1) % Wrap
  <2> HIDE DEF v
  <2>1. v \in 0..Wrap - 1
    BY <1>6 DEF v
  <2>2. LET m == [log EXCEPT !.at = "bottom", !.y = v] IN m \in LogStep /\ m.at = "bottom" /\ m.c = log.c /\ m.n = log.n /\ m.y = v
    BY <1>3, <2>1 DEF LogStep
  <2> QED BY <2>2 DEF v
<1>8. log' = l /\ screen' = q /\ LogTaken
  BY <1>2, <1>3, <1>5 DEF Log, LogTaken
<1>9. ASSUME early = 0 PROVE Finish(log', screen') = Finish(log, screen)
  <2>1. y = screen.y
    BY <1>1, <1>9 DEF ScreenInv, TextKept
  <2>2. Finish(l, RowDown(screen, screen.y)) = Finish(log, screen)
    BY <1>1, <1>3, <1>7, FinishRow
  <2> QED BY <1>8, <2>1, <2>2
<1> HIDE DEF l, q
<1>10. LogKept
  BY <1>1, <1>5, <1>7, <1>8, <1>9, FinishKept
<1>11. LogTypes'
  BY <1>3, <1>7, <1>8 DEF LogTypes, LogTaken
<1>12. ASSUME ~cleared PROVE RowInWindow'
  <2>1. log.y <= screen.y /\ screen.y < Rows
    BY <1>1, <1>12 DEF ScreenInv, RowInWindow
  <2>2. y < Rows /\ y + 1 < Wrap
    BY <1>3, <1>4, <2>1, ScreenSizes
  <2>3. q.y = y + 1 /\ l.y = y + 1
    BY <1>5, <1>7, <2>2
  <2>4. q.y <= Rows
    BY <1>4, <2>2, <2>3, ScreenSizes
  <2>5. log'.at = "bottom" /\ log'.y = screen'.y /\ screen'.y <= Rows /\ screen'.y \in Int
    BY <1>4, <1>7, <1>8, <2>3, <2>4
  <2> QED BY <2>5 DEF RowInWindow
<1> QED BY <1>8, <1>10, <1>11, <1>12, LogKeeps

(* After the line, a newline is done and a glyph is drawn. *)
LEMMA LogDoneIs ==
  ASSUME ScreenInv, log.at \in {"bottom", "scrolled"}
  PROVE  /\ LogDone \in LogStep
         /\ log.c = NL => LogDone = NoLog /\ LogDone.at = "none"
         /\ log.c # NL => LogDone.at = "draw" /\ LogDone.c = log.c /\ LogDone.n = log.n
<1>1. log \in LogStep
  BY LogFinds
<1>2. CASE log.c = NL
  BY <1>2, NoLogIs DEF LogDone
<1>3. CASE log.c # NL
  <2>1. LogDone = [log EXCEPT !.at = "draw"]
    BY <1>3 DEF LogDone
  <2>2. LET m == [log EXCEPT !.at = "draw"] IN m \in LogStep /\ m.at = "draw" /\ m.c = log.c /\ m.n = log.n
    BY <1>1 DEF LogStep
  <2> QED BY <1>3, <2>1, <2>2
<1> QED BY <1>2, <1>3

(* The bottom is looked for at the cursor's row or at the one it came to. *)
LEMMA LogBottomKeeps ==
  ASSUME ScreenInv, LogBottom
  PROVE  ScreenInv'
<1>1. log.at = "bottom" /\ paper' = paper
  BY DEF LogBottom
<1>2. PICK y \in {screen.y, log.y} :
        IF BelowBottom(y) THEN Log([log EXCEPT !.at = "scrolled"], scroll_up(screen)) ELSE Log(LogDone, screen)
  BY DEF LogBottom
<1>3. /\ log \in LogStep /\ log.n \in 1..4 /\ log.c \notin {CR, BS} /\ ~boot_completed
      /\ (log.c # TAB4 => log.n = 1) /\ screen \in ScreenPages /\ screen.y \in 0..Wrap - 1 /\ log.y \in 0..Wrap - 1
  BY <1>1, LogFinds
<1>4. ASSUME ~cleared
      PROVE  screen.y <= Rows /\ (BelowBottom(y) <=> screen.y = Rows)
  <2>1. log.y <= screen.y /\ screen.y <= Rows /\ (log.y = Rows <=> screen.y = Rows)
    BY <1>1, <1>4 DEF ScreenInv, RowInWindow
  <2>2. y \in 0..Rows + 1 /\ (y >= Rows <=> screen.y = Rows)
    BY <1>3, <2>1, ScreenSizes
  <2> QED BY <2>1, <2>2, BelowBottomIs
<1>5. early = 0 => y = screen.y
  BY <1>1 DEF ScreenInv, TextKept
<1>6. CASE BelowBottom(y)
  <2> DEFINE l == [log EXCEPT !.at = "scrolled"]
             q == scroll_up(screen)
  <2>1. l \in LogStep /\ l.at = "scrolled" /\ l.c = log.c /\ l.n = log.n
    BY <1>3 DEF LogStep
  <2>2. q \in ScreenPages /\ q.y = screen.y
    BY <1>3, ScrollIs
  <2>3. log' = l /\ screen' = q /\ LogTaken
    BY <1>2, <1>3, <1>6, <2>2 DEF Log, LogTaken
  <2>4. ASSUME early = 0 PROVE Finish(log', screen') = Finish(log, screen)
    <3>1. BelowBottom(screen.y)
      BY <1>5, <1>6, <2>4
    <3> HIDE DEF l
    <3>2. Finish(l, q) = Finish(log, screen)
      BY <1>1, <1>3, <2>1, <3>1, FinishBottom
    <3> QED BY <2>3, <3>2
  <2> HIDE DEF l, q
  <2>5. LogKept
    BY <1>1, <2>1, <2>3, <2>4, FinishKept
  <2>6. LogTypes'
    BY <1>3, <2>1, <2>3 DEF LogTypes, LogTaken
  <2>7. ~cleared => RowInWindow'
    BY <1>4, <1>6, <2>1, <2>2, <2>3 DEF RowInWindow
  <2> QED BY <2>3, <2>5, <2>6, <2>7, LogKeeps
<1>7. CASE ~BelowBottom(y)
  <2> DEFINE l == LogDone
  <2>1. /\ l \in LogStep /\ (log.c = NL => l = NoLog /\ l.at = "none")
        /\ log.c # NL => l.at = "draw" /\ l.c = log.c /\ l.n = log.n
    BY <1>1, LogDoneIs
  <2>2. log' = l /\ screen' = screen /\ LogTaken
    BY <1>2, <1>3, <1>7 DEF Log, LogTaken
  <2> HIDE DEF l
  <2>3. ASSUME early = 0 PROVE Finish(log', screen') = Finish(log, screen)
    <3>1. ~BelowBottom(screen.y)
      BY <1>5, <1>7, <2>3
    <3>2. Finish(l, screen) = Finish(log, screen)
      BY <1>1, <1>3, <2>1, <3>1, FinishBottom
    <3> QED BY <2>2, <3>2
  <2>4. l.at \in {"none", "draw"}
    BY <2>1
  <2>5. LogKept
    BY <1>1, <2>2, <2>3, <2>4, FinishKept
  <2>6. LogTypes'
    BY <1>3, <2>1, <2>2 DEF LogTypes, LogTaken
  <2>7. ASSUME ~cleared PROVE RowInWindow'
    <3>1. screen.y < Rows
      BY <1>3, <1>4, <1>7, <2>7, ScreenSizes
    <3> QED BY <2>2, <2>4, <3>1 DEF RowInWindow
  <2> QED BY <2>2, <2>5, <2>6, <2>7, LogKeeps
<1> QED BY <1>6, <1>7

(* After the rows have moved the cursor moves with them. *)
LEMMA LogScrolledKeeps ==
  ASSUME ScreenInv, LogScrolled
  PROVE  ScreenInv'
<1> DEFINE l == LogDone
           q == RowUp(screen)
<1>1. log.at = "scrolled" /\ paper' = paper /\ Log(l, q)
  BY DEF LogScrolled
<1>2. /\ log \in LogStep /\ log.n \in 1..4 /\ log.c \notin {CR, BS} /\ ~boot_completed
      /\ (log.c # TAB4 => log.n = 1) /\ screen \in ScreenPages /\ screen.y \in 0..Wrap - 1
  BY <1>1, LogFinds
<1>3. /\ l \in LogStep /\ (log.c = NL => l = NoLog /\ l.at = "none")
      /\ log.c # NL => l.at = "draw" /\ l.c = log.c /\ l.n = log.n
  BY <1>1, LogDoneIs
<1>4. q \in ScreenPages /\ (screen.y >= 1 => q.y = screen.y - 1)
  BY <1>2, RowUpIs
<1>5. log' = l /\ screen' = q /\ LogTaken
  BY <1>1, <1>2, <1>4 DEF Log, LogTaken
<1> HIDE DEF l
<1>6. Finish(log', screen') = Finish(log, screen)
  <2>1. Finish(l, q) = Finish(log, screen)
    BY <1>1, <1>2, <1>3, FinishScrolled
  <2> QED BY <1>5, <2>1
<1> HIDE DEF q
<1>7. l.at \in {"none", "draw"}
  BY <1>3
<1>8. LogKept
  BY <1>1, <1>5, <1>6, <1>7, FinishKept
<1>9. LogTypes'
  BY <1>2, <1>3, <1>5 DEF LogTypes, LogTaken
<1>10. ASSUME ~cleared PROVE RowInWindow'
  <2>1. screen.y = Rows
    BY <1>1, <1>10 DEF ScreenInv, RowInWindow
  <2>2. q.y < Rows
    BY <1>4, <2>1, ScreenSizes
  <2> QED BY <1>5, <1>7, <2>2 DEF RowInWindow
<1> QED BY <1>5, <1>8, <1>9, <1>10, LogKeeps

(* A glyph is drawn, or a quarter of a tab is passed. *)
LEMMA LogDrawKeeps ==
  ASSUME ScreenInv, LogDraw
  PROVE  ScreenInv'
<1> DEFINE l == IF log.n > 1 THEN [log EXCEPT !.at = "test", !.n = log.n - 1] ELSE NoLog
           p == IF log.c = TAB4 THEN screen ELSE putchar_fast(screen, log.c)
           q == Right(p)
<1>1. log.at = "draw" /\ paper' = paper /\ Log(l, q)
  BY DEF LogDraw
<1>2. /\ log \in LogStep /\ log.n \in 1..4 /\ log.c \in Putable /\ log.c \notin {NL, CR, BS} /\ ~boot_completed
      /\ (log.c # TAB4 => log.n = 1) /\ screen \in ScreenPages /\ screen.y \in 0..Wrap - 1
  BY <1>1, LogFinds
<1>3. log.c # TAB4 => log.c \in Glyphs
  BY <1>2 DEF Putable
<1>4. p \in ScreenPages /\ p.y = screen.y
  BY <1>2, <1>3, FastIs
<1>5. q \in ScreenPages /\ q.y = screen.y
  <2> HIDE DEF p
  <2> QED BY <1>4, RightIs
<1>6. log.n > 1 => l \in LogStep /\ l.at = "test" /\ l.c = log.c /\ l.n = log.n - 1 /\ l.n \in 1..4 /\ log.c = TAB4
  <2> SUFFICES ASSUME log.n > 1 PROVE l \in LogStep /\ l.at = "test" /\ l.c = log.c /\ l.n = log.n - 1 /\ l.n \in 1..4 /\ log.c = TAB4
    OBVIOUS
  <2>1. log.n - 1 \in 0..4 /\ log.n - 1 \in 1..4 /\ l = [log EXCEPT !.at = "test", !.n = log.n - 1] /\ log.c = TAB4
    BY <1>2
  <2>2. LET m == [log EXCEPT !.at = "test", !.n = log.n - 1] IN m \in LogStep /\ m.at = "test" /\ m.c = log.c /\ m.n = log.n - 1
    BY <1>2, <2>1 DEF LogStep
  <2> HIDE DEF l
  <2> QED BY <2>1, <2>2
<1>7. log.n <= 1 => l \in LogStep /\ l = NoLog /\ l.at = "none"
  BY <1>2, NoLogIs
<1>8. log' = l /\ screen' = q /\ LogTaken
  BY <1>1, <1>2, <1>5 DEF Log, LogTaken
<1> HIDE DEF l
<1>9. log.n > 1 \/ log.n <= 1
  BY <1>2
<1>10. Finish(log', screen') = Finish(log, screen)
  <2>1. l \in LogStep
    BY <1>6, <1>7, <1>9
  <2>2. /\ log.n > 1 /\ l.at = "test" /\ l.c = log.c /\ l.n = log.n - 1 => Finish(l, q) = Finish(log, screen)
        /\ log.n <= 1 /\ l.at = "none" => Finish(l, q) = Finish(log, screen)
    BY <1>1, <1>2, <2>1, FinishDrawn
  <2> HIDE DEF q
  <2> QED BY <1>6, <1>7, <1>8, <1>9, <2>2
<1> HIDE DEF p, q
<1>11. l.at \in {"none", "test"}
  BY <1>6, <1>7, <1>9
<1>12. LogKept
  BY <1>1, <1>8, <1>10, <1>11, FinishKept
<1>13. LogTypes'
  BY <1>2, <1>6, <1>7, <1>8, <1>9 DEF LogTypes, LogTaken
<1>14. ~cleared => RowInWindow'
  BY <1>1, <1>5, <1>8, <1>11 DEF ScreenInv, RowInWindow
<1> QED BY <1>8, <1>12, <1>13, <1>14, LogKeeps

(* The screen and the paper are bare at first. *)
LEMMA ScreenStarts ==
  ASSUME ScreenInit
  PROVE  ScreenInv
<1> DEFINE r == [y \in 0..Rows - 1 |-> Blank]
           z == [y \in 0..0 |-> Blank]
<1>1. r \in [0..Rows - 1 -> ScreenRow] /\ z \in [0..0 -> ScreenRow] /\ DOMAIN z = 0..0
  BY BlankIs
<1>2. screen = [rows |-> r, x |-> 0, y |-> 0, endless |-> FALSE, astray |-> FALSE]
  BY DEF ScreenInit, BarePage
<1>3. paper = [rows |-> z, x |-> 0, y |-> 0, endless |-> TRUE, astray |-> FALSE]
  <2>1. 1 - 1 = 0
    OBVIOUS
  <2> QED BY <2>1 DEF ScreenInit, BarePage
<1>4. 0 \in 0..Wrap - 1 /\ 0 \in 0..Rows - 1 /\ 0 < Rows /\ 0 <= Far /\ 0 <= Cols /\ 0 \in 0..MAX_INPUT_LEN
  BY ScreenSizes
<1>5. \A y \in 0..Rows - 1 : r[y] = Blank /\ (y <= 0 => z[y] = Blank)
  OBVIOUS
<1> HIDE DEF r, z
<1>6. screen \in ScreenPages
  BY <1>1, <1>2, <1>4 DEF ScreenPages
<1>7. paper \in PaperPages
  <2>1. z \in UNION {[0..n -> ScreenRow] : n \in 0..Rows - 1}
    BY <1>1, <1>4
  <2> QED BY <1>1, <1>3, <1>4, <2>1 DEF PaperPages
<1>8. Like(screen, paper)
  BY <1>2, <1>3, <1>5, <1>6, <1>7 DEF Like
<1>9. log = NoLog /\ log.at = "none" /\ log \in LogStep
  BY NoLogIs DEF ScreenInit
<1>10. LogTypes
  BY <1>9 DEF LogTypes
<1>11. Finish(log, screen) = screen
  BY <1>9 DEF Finish
<1>12. screen.x = 0 /\ screen.y = 0 /\ screen.astray = FALSE
  BY <1>2
<1>13. RowInWindow
  BY <1>4, <1>9, <1>12 DEF RowInWindow
<1>14. /\ input_len = 0 /\ input_pos = 0 /\ input_start_x = 0 /\ cursor_visible = TRUE /\ boot_completed = FALSE
       /\ early = 0 /\ cleared = FALSE /\ overfull = FALSE
  BY DEF ScreenInit
<1>15. TextKept
  BY <1>4, <1>8, <1>9, <1>11, <1>12, <1>14 DEF TextKept
<1>16. input_len \in 0..MAX_INPUT_LEN /\ input_pos \in 0..input_len /\ input_start_x \in 0..Wrap - 1 /\ early \in Nat
  BY <1>4, <1>14
<1>17. cursor_visible \in BOOLEAN /\ boot_completed \in BOOLEAN /\ cleared \in BOOLEAN /\ overfull \in BOOLEAN /\ ~cleared
  BY <1>14, Zenon
<1> QED BY <1>6, <1>10, <1>13, <1>15, <1>16, <1>17, Zenon DEF ScreenInv

(* One step per action. *)
LEMMA ScreenInductive ==
  ASSUME ScreenInv, [ScreenNext]_screenVars
  PROVE  ScreenInv'
<1>1. CASE LogChar
  BY <1>1, LogCharKeeps
<1>2. CASE LogTest
  BY <1>2, LogTestKeeps
<1>3. CASE LogLine
  BY <1>3, LogLineKeeps
<1>4. CASE LogBottom
  BY <1>4, LogBottomKeeps
<1>5. CASE LogScrolled
  BY <1>5, LogScrolledKeeps
<1>6. CASE LogDraw
  BY <1>6, LogDrawKeeps
<1>7. CASE BootEnds
  BY <1>7, BootKeeps
<1>8. CASE KeyRedraws
  BY <1>8, RedrawsKeeps
<1>9. CASE KeyWhenFull
  BY <1>9, WhenFullKeeps
<1>10. CASE KeyLeft \/ KeyRight
  BY <1>10, ArrowKeeps
<1>11. CASE KeyIdle
  BY <1>11, IdleKeeps
<1>12. CASE KeyEnter
  BY <1>12, EnterKeeps
<1>13. CASE KeyCancels
  BY <1>13, CancelsKeeps
<1>14. CASE cursor_timer_callback
  BY <1>14, BlinkKeeps
<1>15. CASE UNCHANGED screenVars
  BY <1>15 DEF screenVars, ScreenInv, LogTypes, RowInWindow, TextKept
<1> QED BY <1>1, <1>2, <1>3, <1>4, <1>5, <1>6, <1>7, <1>8, <1>9, <1>10, <1>11, <1>12, <1>13, <1>14, <1>15 DEF ScreenNext

(* The invariant says what the screen shows when a character has been put. *)
LEMMA ScreenShows ==
  ASSUME ScreenInv
  PROVE  TextShown
<1> SUFFICES ASSUME log = NoLog
             PROVE  /\ ~cleared => screen.y < Rows
                    /\ early = 0 => /\ (~overfull => ~screen.astray) /\ screen.x = paper.x /\ screen.y = paper.y
                                    /\ \A y \in 0..Rows - 1 :
                                         screen.rows[y] = IF y \in DOMAIN paper.rows THEN paper.rows[y] ELSE Blank
  BY DEF TextShown
<1>1. log.at = "none" /\ Finish(log, screen) = screen
  BY NoLogIs DEF Finish
<1>2. ~cleared => screen.y < Rows
  BY <1>1 DEF ScreenInv, RowInWindow
<1>3. ASSUME early = 0
      PROVE  /\ (~overfull => ~screen.astray) /\ screen.x = paper.x /\ screen.y = paper.y
             /\ \A y \in 0..Rows - 1 : screen.rows[y] = IF y \in DOMAIN paper.rows THEN paper.rows[y] ELSE Blank
  <2>1. Like(screen, paper) /\ (~overfull => ~screen.astray)
    BY <1>1, <1>3 DEF ScreenInv, TextKept
  <2>2. paper \in PaperPages /\ screen.x = paper.x /\ screen.y = paper.y
    BY <2>1 DEF Like
  <2>3. DOMAIN paper.rows = 0..paper.y /\ paper.y \in 0..Rows - 1
    BY <2>2, PaperFields
  <2>4. \A y \in 0..Rows - 1 : y <= paper.y <=> y \in DOMAIN paper.rows
    BY <2>3
  <2> QED BY <2>1, <2>2, <2>4 DEF Like
<1> QED BY <1>2, <1>3

(* In every state of the text screen, for every size of the framebuffer,    *)
(* of the line and every set of outputs: when the log and the keys have put *)
(* their characters, the screen shows the last lines of the text up to the  *)
(* cursor's row and nothing below, no glyph is drawn outside as long as the *)
(* line was not full, and an early key leaves the cursor in the window      *)
(* unless it cleared the screen (putchar, scroll_up, redraw_input_line,     *)
(* console_handle_key).                                                     *)
THEOREM TextCorrect == ScreenSpec => []TextShown
<1>1. ScreenInit => ScreenInv
  BY ScreenStarts
<1>2. ScreenInv /\ [ScreenNext]_screenVars => ScreenInv'
  BY ScreenInductive
<1>3. ScreenInv => TextShown
  BY ScreenShows
<1> QED BY <1>1, <1>2, <1>3, PTL DEF ScreenSpec
=============================================================================
