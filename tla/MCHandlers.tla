----------------------------- MODULE MCHandlers -----------------------------
(* Instances of Keyboard, Pointer, Timer and Screen for TLC: the state that   *)
(* the handlers of interrupts and reports keep. They share none, so each is   *)
(* run by itself. The text screen has two rows of three cells. The letter key *)
(* is C (46), or Q (16); the USB keyboard has q and Caps Lock and two slots.  *)
(* Of the pointer's axes one is run, the one that is turned over. As in the   *)
(* kernel, 1 ms is 0 ticks, 7 ms are 2 ticks.                                 *)
EXTENDS Keyboard, Pointer, Timer, Screen

VARIABLE part

MCSize == [a \in Axes |-> 4]
MCRels == {-10, 5}
MCDeltas == {-1, 11}
MCWideDeltas == {-20000}
MCOutputs == {<<>>, <<NL, "a">>, <<NL, NL, "a", NL>>}

MCInit ==
  /\ part \in {"keyboard", "pointer", "timer", "screen"}
  /\ KbdInit /\ PointerInit /\ TimerInit /\ ScreenInit
MCNext ==
  /\ UNCHANGED part
  /\ \/ part = "keyboard" /\ KbdNext /\ UNCHANGED <<pointerVars, timerVars, screenVars>>
     \/ part = "pointer" /\ PointerNext /\ UNCHANGED <<kbdVars, timerVars, screenVars>>
     \/ part = "timer" /\ TimerNext /\ UNCHANGED <<kbdVars, pointerVars, screenVars>>
     \/ part = "screen" /\ ScreenNext /\ UNCHANGED <<kbdVars, pointerVars, timerVars>>
MCSpec == MCInit /\ [][MCNext]_<<part, kbdVars, pointerVars, timerVars, screenVars>>
=============================================================================
