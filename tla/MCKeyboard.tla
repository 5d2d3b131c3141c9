----------------------------- MODULE MCKeyboard -----------------------------
(* Instances of Keyboard for TLC: the letter key C (46), or Q (16); q and   *)
(* Caps Lock on the USB keyboard, with two slots.                           *)
EXTENDS Keyboard
=============================================================================
