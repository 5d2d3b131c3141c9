------------------------------- MODULE MCGui -------------------------------
(* The window manager with three windows and two kinds of programs.         *)
EXTENDS Gui
=============================================================================
