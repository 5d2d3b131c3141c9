---------------------------- MODULE MCInterrupts ----------------------------
(* Instances of Interrupts for TLC: calm surroundings and the opposite, or  *)
(* keys pressed while interrupts are prompt.                                *)
EXTENDS Interrupts

MCSurroundings == {[prompt |-> TRUE, early |-> FALSE], [prompt |-> FALSE, early |-> TRUE]}
MCTyping == {[prompt |-> TRUE, early |-> TRUE]}
=============================================================================
