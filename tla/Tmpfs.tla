-------------------------------- MODULE Tmpfs --------------------------------
(***************************************************************************)
(* The contents of a tmpfs file (tmpfs.c: tmpfs_read, tmpfs_write) as the  *)
(* descriptor calls of the VFS reach them: a heap buffer that is replaced  *)
(* by a larger one when a write does not fit, a size in the node, and one  *)
(* position per open descriptor.                                           *)
(***************************************************************************)
EXTENDS FileOps

CONSTANTS
  Fds,        \* descriptors that have the file open at some time
  Bytes,      \* the values of a byte
  Data,       \* what callers write: sequences of bytes
  Counts,     \* how much callers ask to read
  Offsets,    \* what callers of fs_lseek pass (ELF section offsets: not negative)
  BLOCK,      \* 4096
  MaxPos      \* bound: no call that would move a position beyond

ASSUME TmpfsAssumption ==
  /\ Data \subseteq Seq(Bytes) /\ Counts \subseteq Nat /\ Offsets \subseteq Nat
  /\ BLOCK \in Nat \ {0} /\ MaxPos \in Nat

VARIABLES
  priv,      \* node->priv allocated?
  buf,       \* data->data: offset -> byte; empty when NULL.  data->cap is its size
  size,      \* node->size
  pos,       \* file->pos of the open descriptors
  buffers,   \* buffers allocated and not freed
  result     \* what the last read returned

tmpfsVars == <<priv, buf, size, pos, buffers, result>>

CLOSED == -1
Cap == Len(buf)

TmpfsInit ==
  /\ priv = FALSE /\ buf = <<>> /\ size = 0 /\ buffers = 0 /\ result = <<>>
  /\ pos = [f \in Fds |-> CLOSED]

fs_open(f) == pos[f] = CLOSED /\ pos' = [pos EXCEPT ![f] = 0] /\ UNCHANGED <<priv, buf, size, buffers, result>>
fs_close(f) == pos[f] # CLOSED /\ pos' = [pos EXCEPT ![f] = CLOSED] /\ UNCHANGED <<priv, buf, size, buffers, result>>

(* Mutant: copies one byte too few. *)
GrownShort(needed) ==
  [i \in 1 .. ((needed + BLOCK - 1) \div BLOCK) * BLOCK |-> IF i < size THEN buf[i] ELSE JUNK]

(* The buffer that replaces one that is too small: node->size bytes copied. *)
Grown(needed) ==
  [i \in 1 .. ((needed + BLOCK - 1) \div BLOCK) * BLOCK |-> IF i <= size THEN buf[i] ELSE JUNK]

(* Mutant: the old buffer is not freed. *)
FreesOldNever == FALSE

(* The old buffer is freed only together with the copying. *)
FreesOld == Cap > 0 /\ size > 0

SizeAfter(p) == LargerOf(size, p)

(* priv and the buffer are allocated as needed: heapPriv and heapBuf tell   *)
(* whether the heap has room.                                               *)
tmpfs_write(f, bytes, heapPriv, heapBuf) ==
  LET p == pos[f]
      needed == p + Len(bytes)
      room == IF needed > Cap THEN Grown(needed) ELSE buf
  IN
  /\ p # CLOSED /\ needed <= MaxPos
  /\ IF ~priv /\ ~heapPriv THEN UNCHANGED tmpfsVars
     ELSE /\ priv' = TRUE
          /\ IF needed > Cap /\ ~heapBuf THEN UNCHANGED <<buf, size, pos, buffers, result>>
             ELSE /\ buf' = [i \in DOMAIN room |-> IF i > p /\ i <= needed THEN bytes[i - p] ELSE room[i]]
                  /\ buffers' = IF needed > Cap THEN buffers + 1 - (IF FreesOld THEN 1 ELSE 0) ELSE buffers
                  /\ pos' = [pos EXCEPT ![f] = needed]
                  /\ size' = SizeAfter(needed)
                  /\ UNCHANGED result

ToRead(p, cnt) == IF p >= size THEN 0 ELSE SmallerOf(cnt, size - p)

tmpfs_read(f, cnt) ==
  LET p == pos[f]
      n == IF Cap = 0 THEN 0 ELSE ToRead(p, cnt)
  IN
  /\ p # CLOSED
  /\ result' = SubSeq(buf, p + 1, p + n)
  /\ pos' = [pos EXCEPT ![f] = p + n]
  /\ UNCHANGED <<priv, buf, size, buffers>>

fs_lseek(f, offset, whence) ==
  LET to == offset + (IF whence = "CUR" THEN pos[f] ELSE IF whence = "END" THEN size ELSE 0)
  IN
  /\ pos[f] # CLOSED /\ to <= MaxPos
  /\ pos' = [pos EXCEPT ![f] = to]
  /\ UNCHANGED <<priv, buf, size, buffers, result>>

TmpfsNext ==
  \E f \in Fds :
    \/ fs_open(f) \/ fs_close(f)
    \/ \E bytes \in Data, heapPriv, heapBuf \in BOOLEAN : tmpfs_write(f, bytes, heapPriv, heapBuf)
    \/ \E cnt \in Counts : tmpfs_read(f, cnt)
    \/ \E offset \in Offsets, whence \in {"SET", "CUR", "END"} : fs_lseek(f, offset, whence)

TmpfsSpec == TmpfsInit /\ [][TmpfsNext]_tmpfsVars

-----------------------------------------------------------------------------
Held == Bytes \cup {JUNK}

TmpfsTypeOK ==
  /\ priv \in BOOLEAN /\ buf \in Seq(Held) /\ size \in Nat
  /\ pos \in [Fds -> Nat \cup {CLOSED}] /\ buffers \in Nat /\ result \in Seq(Held)

(* The node owns the one buffer that is allocated, and the file ends within *)
(* it: growing the file, or failing to, leaks none and claims no byte that  *)
(* the buffer has not got.                                                  *)
BufferOwned == buffers = (IF Cap = 0 THEN 0 ELSE 1) /\ size <= Cap

(* What makes it inductive: a node that has a buffer has a size, so that    *)
(* the test for copying, which also decides about freeing the old buffer,   *)
(* never passes one over; and nobody has written beyond the size, so that a *)
(* write beyond it leaves a gap of junk whether the buffer grows or not.    *)
TmpfsInv ==
  /\ BufferOwned /\ (Cap > 0 => size > 0)
  /\ \A j \in 1 .. Cap : j > size => buf[j] = JUNK

(* The bytes that make up the file.  What is beyond the size is not part of *)
(* it, whatever the buffer holds there.                                     *)
Contents == SubSeq(buf, 1, size)

(* The file behaves as FileSpec says, for any number of descriptors with    *)
(* positions of their own: no growth, failed write or shared position loses *)
(* or mixes up a byte that was written.                                     *)
Abstract == INSTANCE FileSpec WITH content <- Contents
ImplementsFile == Abstract!Spec
=============================================================================
