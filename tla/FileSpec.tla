------------------------------ MODULE FileSpec ------------------------------
(***************************************************************************)
(* What a file promises to those who have it open: one sequence of bytes   *)
(* shared by all descriptors, each with a position of its own.  A write    *)
(* replaces the bytes at the position and extends the file if it must; a   *)
(* read returns the bytes at the position; both advance it by what was     *)
(* transferred.  A write may fail, and then has no effect.                 *)
(***************************************************************************)
EXTENDS FileOps

CONSTANTS Fds, Data, Counts, MaxPos

VARIABLES content, pos, result

vars == <<content, pos, result>>

CLOSED == -1

Init == content = <<>> /\ pos = [f \in Fds |-> CLOSED] /\ result = <<>>

Open(f) == pos[f] = CLOSED /\ pos' = [pos EXCEPT ![f] = 0] /\ UNCHANGED <<content, result>>
Close(f) == pos[f] # CLOSED /\ pos' = [pos EXCEPT ![f] = CLOSED] /\ UNCHANGED <<content, result>>

Write(f, bytes) ==
  /\ pos[f] # CLOSED
  /\ content' = Overwrite(content, pos[f], bytes)
  /\ pos' = [pos EXCEPT ![f] = @ + Len(bytes)]
  /\ UNCHANGED result

WriteFails(f) == pos[f] # CLOSED /\ UNCHANGED vars

(* At or past the end of the file nothing is read. *)
Read(f, cnt) ==
  /\ pos[f] # CLOSED
  /\ result' = Slice(content, pos[f], cnt)
  /\ pos' = [pos EXCEPT ![f] = @ + Len(result')]
  /\ UNCHANGED content

Seek(f, to) == pos[f] # CLOSED /\ pos' = [pos EXCEPT ![f] = to] /\ UNCHANGED <<content, result>>

Next ==
  \E f \in Fds :
    \/ Open(f) \/ Close(f) \/ WriteFails(f)
    \/ \E bytes \in Data : Write(f, bytes)
    \/ \E cnt \in Counts : Read(f, cnt)
    \/ \E to \in 0 .. MaxPos : Seek(f, to)

Spec == Init /\ [][Next]_vars
=============================================================================
