------------------------------- MODULE MCText -------------------------------
(* Instances of Tmpfs, Kedit, Shell and Terminal for TLC: the places where   *)
(* text is kept and edited.  They share no state (the editor sees a file as  *)
(* a whole, the shell hands over whole lines), so each is run by itself.     *)
EXTENDS Tmpfs, Kedit, Shell, Terminal

VARIABLE part

MCData == {<<>>, <<"a", "b">>, <<"b">>}

(* A file with a last newline, one with too long a line and a file with too *)
(* many lines.                                                              *)
MCFiles == { <<"a", NL>>, <<"a", "b", "a", NL, "b">>, <<NL, "b", NL, NL>> }

(* What an array on the stack may hold. *)
MCGarbage == {<<>>, <<"a", " ">>}

(* Three directories, with prompts of different lengths, the last of which   *)
(* is too long; commands that go there, and one that prints a line.          *)
MCPrompts == << <<"$">>, <<"/", "$">>, <<"/", "/", "$">> >>
MCTermCommands ==
  (<<"r">> :> [cd |-> 1, prints |-> <<>>]) @@ (<<"d">> :> [cd |-> 2, prints |-> <<>>])
  @@ (<<"d", "r">> :> [cd |-> 3, prints |-> <<>>]) @@ (<<"d", "d">> :> [cd |-> 0, prints |-> << <<"o", "u", "t">> >>])
MCNotFound == <<"?">>

MCInit ==
  /\ part \in {"tmpfs", "kedit", "shell", "terminal"}
  /\ TmpfsInit /\ KeditInit /\ ShellInit /\ TermInit
  /\ part # "kedit" => file = NoFile
  /\ part # "terminal" => window_width_chars = [t \in Terms |-> 1]

MCNext ==
  /\ UNCHANGED part
  /\ \/ part = "tmpfs" /\ TmpfsNext /\ UNCHANGED <<keditVars, shellVars, termVars>>
     \/ part = "kedit" /\ KeditNext /\ UNCHANGED <<tmpfsVars, shellVars, termVars>>
     \/ part = "shell" /\ ShellNext /\ UNCHANGED <<tmpfsVars, keditVars, termVars>>
     \/ part = "terminal" /\ TermNext /\ UNCHANGED <<tmpfsVars, keditVars, shellVars>>

MCSpec == MCInit /\ [][MCNext]_<<part, tmpfsVars, keditVars, shellVars, termVars>>
=============================================================================
