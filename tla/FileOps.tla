------------------------------- MODULE FileOps -------------------------------
(* The contents of a file as a sequence of bytes, and what one write or one *)
(* read means for them.                                                     *)
EXTENDS Integers, Sequences

JUNK == "junk"   \* a byte that nobody wrote: what the heap block held before

SmallerOf(a, b) == IF a < b THEN a ELSE b
LargerOf(a, b) == IF a < b THEN b ELSE a

(* The contents after `bytes' are written at offset pos. *)
Overwrite(content, pos, bytes) ==
  [i \in 1 .. LargerOf(Len(content), pos + Len(bytes)) |->
     IF i > pos /\ i <= pos + Len(bytes) THEN bytes[i - pos]
     ELSE IF i <= Len(content) THEN content[i] ELSE JUNK]

(* What a read of at most cnt bytes at offset pos returns. *)
Slice(content, pos, cnt) == SubSeq(content, pos + 1, SmallerOf(pos + cnt, Len(content)))
=============================================================================
