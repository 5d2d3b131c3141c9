------------------------------ MODULE Keyboard ------------------------------
(***************************************************************************)
(* The two keyboard drivers and where their key codes go: the GUI, the     *)
(* editor or the shell.                                                    *)
(*                                                                         *)
(* The PS/2 keyboard (drivers/ps2/keyboard/keyboard.c) interrupts: one     *)
(* action per scan code.  The user presses, holds and releases keys as     *)
(* they like, with two Shift and two Ctrl keys that share a flag each.     *)
(* The prefix byte of an extended key is taken for the release of an       *)
(* unknown key and has no effect.                                          *)
(*                                                                         *)
(* The USB keyboard (drivers/usb/usb_keyboard.c) is polled by the main     *)
(* loop with interrupts on: one action per slot of a report, so that scan  *)
(* codes fall in between.  A report lists the keys that are down in any    *)
(* order; the protocol gives the slots no meaning.                         *)
(***************************************************************************)
EXTENDS Integers, SequencesExt

CONSTANTS
  Letters,    \* the scan codes of the letter keys in use
  MaxHeld,    \* bound: keys held down at once
  UsbKeys,    \* the codes of the keys in use on the USB keyboard
  SLOTS       \* 6: keys in a report

(* The keys by their scan codes, + 256 for an extended one. *)
Shifts == {42, 54}
Ctrls == {29, 29 + 256}
CAPS == 58
UP == 72 + 256
ENTER == 28
Q == 16
Ps2Keys == Shifts \cup Ctrls \cup {CAPS, UP, ENTER} \cup Letters

(* The part of the table that these keys use. *)
scancode_to_ascii == [sc \in Letters \cup {ENTER, UP} |->
  CASE sc = Q -> 113 [] sc = 31 -> 115 [] sc = 46 -> 99 [] sc = ENTER -> 10 [] sc = UP -> 0]

ASSUME KeyboardAssumption ==
  /\ Letters \subseteq {16, 31, 46} /\ MaxHeld \in Nat
  /\ UsbKeys \subseteq {20, 40, 57, 82} /\ SLOTS \in Nat \ {0}

VARIABLES
  held,                                      \* the keys that are down
  shift_pressed, ctrl_pressed, caps_lock,
  gui_running, in_kedit,
  got,                                       \* the last key code handed on, and to whom
  report, prev_keys, slot,                      \* the last report; the loop's index, SLOTS + 1 once it is done
  before, passed                             \* auxiliary: the report before; keys passed on for this one

focus == <<gui_running, in_kedit, got>>
ps2 == <<held, shift_pressed, ctrl_pressed, caps_lock>>
usb == <<report, prev_keys, slot, before, passed>>
kbdVars == <<ps2, focus, usb>>
modifiers == <<shift_pressed, ctrl_pressed, caps_lock>>

NoKeys == [s \in 1 .. SLOTS |-> 0]
DownKeys(keys) == {keys[s] : s \in 1 .. SLOTS} \ {0}
EachOnce(keys) == \A s, t \in 1 .. SLOTS : keys[s] = keys[t] /\ keys[s] # 0 => s = t

KbdInit ==
  /\ held = {} /\ shift_pressed = FALSE /\ ctrl_pressed = FALSE /\ caps_lock = FALSE
  /\ gui_running = FALSE /\ in_kedit = FALSE /\ got = [to |-> "none", code |-> 0]
  /\ report = [keys |-> NoKeys, shift |-> FALSE] /\ prev_keys = NoKeys /\ slot = SLOTS + 1
  /\ before = NoKeys /\ passed = <<>>

-----------------------------------------------------------------------------
Handed(to, code) == got' = [to |-> to, code |-> code]

(* A command or a click may start or leave the GUI; a command may start the *)
(* editor.                                                                  *)
gui_handle_key(code) ==
  /\ Handed("gui", code) /\ UNCHANGED in_kedit
  /\ gui_running' \in (IF code = 10 THEN BOOLEAN ELSE {TRUE})

kedit_handle_key(code) ==
  /\ Handed("kedit", code) /\ UNCHANGED gui_running
  /\ in_kedit' = (code # 17)

shell_handle_key(code) ==
  /\ Handed("shell", code)
  /\ IF code = 10 THEN gui_running' \in BOOLEAN /\ in_kedit' \in BOOLEAN
     ELSE UNCHANGED <<gui_running, in_kedit>>

console_handle_key(code) ==
  IF gui_running THEN UNCHANGED focus
  ELSE IF in_kedit THEN kedit_handle_key(code)
  ELSE shell_handle_key(code)

(* The shifted table has the capital, Caps Lock makes one of a small letter. *)
Ascii(key) ==
  IF key \in Letters /\ (shift_pressed \/ caps_lock) THEN scancode_to_ascii[key] - 32 ELSE scancode_to_ascii[key]

KeyCode(key) ==
  IF ctrl_pressed
  THEN IF Ascii(key) = 99 THEN console_handle_key(3) ELSE UNCHANGED focus
  ELSE IF Ascii(key) = 0 THEN console_handle_key(128)
  ELSE IF gui_running THEN gui_handle_key(Ascii(key))
  ELSE console_handle_key(Ascii(key))

ModifierMade(key) ==
  /\ shift_pressed' = (shift_pressed \/ key \in Shifts)
  /\ ctrl_pressed' = (ctrl_pressed \/ key \in Ctrls)
  /\ caps_lock' = (caps_lock # (key = CAPS))

(* keyboard_interrupt_handler on a make code: a press, or a repeat. *)
Make(key) ==
  /\ Cardinality(held \cup {key}) <= MaxHeld
  /\ held' = held \cup {key}
  /\ IF key \in Shifts \cup Ctrls \cup {CAPS}
     THEN ModifierMade(key) /\ UNCHANGED focus
     ELSE KeyCode(key) /\ UNCHANGED modifiers
  /\ UNCHANGED usb

(* Mutant: only the left Shift and Ctrl are released. *)
BreakLeft(key) ==
  /\ key \in held /\ held' = held \ {key}
  /\ shift_pressed' = (shift_pressed /\ key # 42)
  /\ ctrl_pressed' = (ctrl_pressed /\ key # 29)
  /\ UNCHANGED <<caps_lock, focus, usb>>

(* ... and on a break code. *)
Break(key) ==
  /\ key \in held /\ held' = held \ {key}
  /\ shift_pressed' = (shift_pressed /\ key \notin Shifts)
  /\ ctrl_pressed' = (ctrl_pressed /\ key \notin Ctrls)
  /\ UNCHANGED <<caps_lock, focus, usb>>

-----------------------------------------------------------------------------
(* usb_kb_callback: starting the GUI sets it to gui_handle_key, leaving the *)
(* GUI back to console_handle_key.                                          *)
usb_kb_callback(code) == IF gui_running THEN gui_handle_key(code) ELSE console_handle_key(code)

(* hid_to_ascii and the arrows: q, Enter, Up, and Caps Lock, which has no   *)
(* character.                                                               *)
UsbCode(key, shift) ==
  CASE key = 20 -> IF shift THEN 81 ELSE 113 [] key = 40 -> 10 [] key = 82 -> 128 [] key = 57 -> 0

(* The host controller hands over a report. *)
Report(keys, shift) ==
  /\ slot = SLOTS + 1 /\ slot' = 1
  /\ report' = [keys |-> keys, shift |-> shift] /\ before' = report.keys /\ passed' = <<>>
  /\ UNCHANGED <<ps2, focus, prev_keys>>

IsNew(key) == key # 0 /\ prev_keys[slot] # key

(* One iteration of usb_keyboard_handle_report's loop over the slots; the   *)
(* last one is followed by the loop that forgets keys that are not down.    *)
usb_keyboard_handle_report ==
  LET key == report.keys[slot]
      keys == [prev_keys EXCEPT ![slot] = key]
      code == UsbCode(key, report.shift)
  IN
  /\ slot <= SLOTS /\ slot' = slot + 1
  /\ prev_keys' = IF slot < SLOTS THEN keys
                  ELSE [s \in 1 .. SLOTS |-> IF keys[s] \in DownKeys(report.keys) THEN keys[s] ELSE 0]
  /\ IF IsNew(key) /\ code # 0 THEN usb_kb_callback(code) /\ passed' = Append(passed, key)
     ELSE UNCHANGED <<focus, passed>>
  /\ UNCHANGED <<ps2, report, before>>

KbdNext ==
  \/ \E key \in Ps2Keys : Make(key) \/ Break(key)
  \/ \E keys \in [1 .. SLOTS -> UsbKeys \cup {0}], shift \in BOOLEAN :
       EachOnce(keys) /\ Report(keys, shift)
  \/ usb_keyboard_handle_report

KbdSpec == KbdInit /\ [][KbdNext]_kbdVars

-----------------------------------------------------------------------------
(* A modifier counts as pressed only while one of its keys is down: the     *)
(* flag that two keys share never sticks, in whatever order they are        *)
(* pressed, repeated and released.  Of a USB report, every key with a code  *)
(* that the report before did not show is passed on, and besides only keys  *)
(* that changed their slot, each once: whatever was pressed, released and   *)
(* moved since, and whatever the interrupts in between do to the GUI and    *)
(* the editor.                                                              *)
KeysRight ==
  /\ shift_pressed => held \cap Shifts # {}
  /\ ctrl_pressed => held \cap Ctrls # {}
  /\ slot = SLOTS + 1 =>
       LET keys == {key \in DownKeys(report.keys) : UsbCode(key, report.shift) # 0}
           moved == {key \in keys : \E s \in 1 .. SLOTS : report.keys[s] = key /\ before[s] # key}
       IN  /\ IsInjective(passed) /\ keys \ DownKeys(before) \subseteq ToSet(passed)
           /\ ToSet(passed) \subseteq moved

(* What the steps preserve: prev_keys is the report up to the slot that is   *)
(* looked at and the report before from there on, and the keys of the slots *)
(* behind that changed have been passed on.                                 *)
Reports == [1 .. SLOTS -> UsbKeys \cup {0}]
ChangedBefore(n) ==
  {key \in UsbKeys : /\ key # 0 /\ UsbCode(key, report.shift) # 0
                     /\ \E s \in 1 .. SLOTS : s < n /\ report.keys[s] = key /\ before[s] # key}
KbdInv ==
  /\ shift_pressed \in BOOLEAN /\ ctrl_pressed \in BOOLEAN
  /\ shift_pressed => held \cap Shifts # {}
  /\ ctrl_pressed => held \cap Ctrls # {}
  /\ report \in [keys : Reports, shift : BOOLEAN] /\ EachOnce(report.keys)
  /\ before \in Reports /\ prev_keys \in Reports /\ slot \in 1 .. SLOTS + 1
  /\ \A s \in 1 .. SLOTS : prev_keys[s] = IF s < slot THEN report.keys[s] ELSE before[s]
  /\ passed \in Seq(UsbKeys) /\ IsInjective(passed) /\ ToSet(passed) = ChangedBefore(slot)

(* The status line of the editor says "Ctrl+Q Quit": pressing q while a     *)
(* Ctrl key is down leaves the editor.                                      *)
QuitStep ==
  (Q \notin held /\ Q \in held' /\ held \cap Ctrls # {} /\ in_kedit /\ ~gui_running) => ~in_kedit'
CtrlQQuits == [][QuitStep]_kbdVars
=============================================================================
