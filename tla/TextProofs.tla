------------------------------ MODULE TextProofs -----------------------------
(***************************************************************************)
(* Proofs about the places where text is kept.                             *)
(*                                                                         *)
(* Tmpfs, for any number of descriptors, any data, any block size and any  *)
(* bound on positions: the buffer is neither leaked nor overrun, and the   *)
(* file behaves as FileSpec says.                                          *)
(*                                                                         *)
(* Shell, for lines and a history of any length: the line and the cursor   *)
(* stay in their array, the history is what was entered last, and a line   *)
(* runs the commands between its "&&".                                     *)
(*                                                                         *)
(* Kedit, for files, lines and buffers of any size: the cursor is inside   *)
(* the text and the text inside its arrays, after any load, edit or save.  *)
(*                                                                         *)
(* Terminal, for any number of windows, rows of any length and number, any *)
(* commands and prompts: what is run is what was typed, and the rows are   *)
(* the last lines printed.                                                 *)
(***************************************************************************)
EXTENDS Tmpfs, Kedit, Shell, Terminal, Loops, SequenceTheorems, FiniteSetTheorems, TLAPS

(* Rounding up to blocks, as tmpfs_write does it, makes room enough. *)
LEMMA RoundUp ==
  ASSUME NEW n \in Nat, NEW B \in Nat \ {0}
  PROVE  /\ ((n + B - 1) \div B) * B \in Nat
         /\ ((n + B - 1) \div B) * B >= n
<1> DEFINE q == (n + B - 1) \div B
<1>1. q \in Int /\ n + B - 1 = B * q + ((n + B - 1) % B) /\ (n + B - 1) % B \in 0 .. B - 1
  OBVIOUS
<1>2. q \in Nat
  BY <1>1
<1> QED BY <1>1, <1>2

(* The new buffer holds the file's bytes where they were, and has room. *)
LEMMA GrownSound ==
  ASSUME TmpfsTypeOK, size <= Cap, NEW needed \in Nat, needed > Cap
  PROVE  /\ Grown(needed) \in Seq(Held) /\ Len(Grown(needed)) >= needed
         /\ DOMAIN Grown(needed) = 1 .. Len(Grown(needed))
         /\ \A j \in 1 .. Len(Grown(needed)) : Grown(needed)[j] = IF j <= size THEN buf[j] ELSE JUNK
<1> DEFINE room == ((needed + BLOCK - 1) \div BLOCK) * BLOCK
<1>1. room \in Nat /\ room >= needed
  BY RoundUp, TmpfsAssumption
<1> HIDE DEF room
<1>2. Grown(needed) = [j \in 1 .. room |-> IF j <= size THEN buf[j] ELSE JUNK]
  BY DEF Grown, room
<1>3. \A j \in 1 .. room : (IF j <= size THEN buf[j] ELSE JUNK) \in Held
  BY <1>1 DEF TmpfsTypeOK, Cap, Held
<1> QED BY <1>1, <1>2, <1>3

(* What a write that did something leaves behind. *)
Wrote(f, bytes) ==
  LET needed == pos[f] + Len(bytes) IN
  /\ pos[f] \in Nat /\ needed \in Nat /\ pos' = [pos EXCEPT ![f] = needed]
  /\ buf' \in Seq(Held) /\ Cap' \in Nat /\ Cap' >= needed
  /\ IF needed > Cap THEN buffers' = 1 ELSE buffers' = buffers /\ Cap' = Cap
  /\ size' = LargerOf(size, needed)
  /\ priv' = TRUE /\ result' = result
  /\ \A j \in 1 .. Cap' : buf'[j] = IF j > pos[f] /\ j <= needed THEN bytes[j - pos[f]]
                                    ELSE IF j <= size THEN buf[j]
                                    ELSE IF needed > Cap THEN JUNK ELSE buf[j]

LEMMA WriteSound ==
  ASSUME TmpfsTypeOK, TmpfsInv, NEW f \in Fds, NEW bytes \in Data,
         NEW heapPriv \in BOOLEAN, NEW heapBuf \in BOOLEAN,
         tmpfs_write(f, bytes, heapPriv, heapBuf)
  PROVE  \/ UNCHANGED <<buf, size, pos, buffers, result>> /\ priv' \in BOOLEAN
         \/ Wrote(f, bytes)
<1> DEFINE p == pos[f]
           needed == p + Len(bytes)
           room == IF needed > Cap THEN Grown(needed) ELSE buf
<1>1. p \in Nat /\ bytes \in Seq(Bytes) /\ Len(bytes) \in Nat /\ needed \in Nat
  BY TmpfsAssumption DEF tmpfs_write, TmpfsTypeOK, CLOSED
<1>2. size \in Nat /\ Cap \in Nat /\ size <= Cap
  BY DEF TmpfsTypeOK, TmpfsInv, BufferOwned, Cap
<1>3. CASE UNCHANGED <<buf, size, pos, buffers, result>> /\ priv' \in BOOLEAN
  BY <1>3
<1>4. CASE ~(UNCHANGED <<buf, size, pos, buffers, result>> /\ priv' \in BOOLEAN)
  <2>1. /\ priv' = TRUE
        /\ buf' = [i \in DOMAIN room |-> IF i > p /\ i <= needed THEN bytes[i - p] ELSE room[i]]
        /\ buffers' = IF needed > Cap THEN buffers + 1 - (IF FreesOld THEN 1 ELSE 0) ELSE buffers
        /\ pos' = [pos EXCEPT ![f] = needed]
        /\ size' = SizeAfter(needed)
        /\ result' = result
    BY <1>4 DEF tmpfs_write, tmpfsVars, TmpfsTypeOK
  <2>2. /\ room \in Seq(Held) /\ Len(room) \in Nat /\ Len(room) >= needed /\ Len(room) >= Cap
        /\ DOMAIN room = 1 .. Len(room)
        /\ \A j \in 1 .. Len(room) : /\ room[j] \in Held
                                     /\ room[j] = IF j <= size THEN buf[j]
                                                  ELSE IF needed > Cap THEN JUNK ELSE buf[j]
    <3>1. CASE needed > Cap
      <4>1. Grown(needed) \in Seq(Held) /\ room = Grown(needed)
        BY <1>1, <1>2, <3>1, GrownSound
      <4>2. Len(room) \in Nat /\ \A j \in 1 .. Len(room) : room[j] \in Held
        BY <4>1
      <4> QED BY <1>1, <1>2, <3>1, <4>1, <4>2, GrownSound, SMTT(40)
    <3>2. CASE ~(needed > Cap)
      BY <1>1, <1>2, <3>2 DEF Cap, TmpfsTypeOK
    <3> QED BY <3>1, <3>2
  <2> HIDE DEF room
  <2>3. \A j \in DOMAIN room : (IF j > p /\ j <= needed THEN bytes[j - p] ELSE room[j]) \in Held
    <3> SUFFICES ASSUME NEW j \in DOMAIN room, j > p, j <= needed
                 PROVE  bytes[j - p] \in Held
      BY <2>2
    <3>1. j - p \in 1 .. Len(bytes)
      BY <1>1, <2>2
    <3> QED BY <1>1, <3>1 DEF Held
  <2>4. buf' \in [1 .. Len(room) -> Held]
    BY <2>1, <2>2, <2>3
  <2>5. buf' \in Seq(Held) /\ Cap' = Len(room)
    BY <2>2, <2>4 DEF Cap
  <2>6. buffers' = IF needed > Cap THEN 1 ELSE buffers
    BY <1>1, <1>2, <2>1 DEF TmpfsInv, BufferOwned, FreesOld
  <2>7. needed <= Cap => Cap' = Cap
    BY <1>1, <1>2, <2>5 DEF room, Cap
  <2>8. \A j \in 1 .. Cap' : buf'[j] = IF j > p /\ j <= needed THEN bytes[j - p]
                                      ELSE IF j <= size THEN buf[j]
                                      ELSE IF needed > Cap THEN JUNK ELSE buf[j]
    BY <1>1, <1>2, <2>1, <2>2, <2>5
  <2>9. Cap' \in Nat /\ Cap' >= needed /\ buf' \in Seq(Held)
    BY <2>2, <2>5
  <2>10. IF needed > Cap THEN buffers' = 1 ELSE buffers' = buffers /\ Cap' = Cap
    BY <1>1, <1>2, <2>6, <2>7
  <2>11. size' = LargerOf(size, needed)
    BY <2>1 DEF SizeAfter
  <2>12. Wrote(f, bytes)
    BY <1>1, <2>1, <2>8, <2>9, <2>10, <2>11, Zenon DEF Wrote
  <2> QED BY <2>12
<1> QED BY <1>3, <1>4

(* What a read returns and how far it moves the position. *)
LEMMA ReadSound ==
  ASSUME TmpfsTypeOK, TmpfsInv, NEW f \in Fds, NEW cnt \in Counts, tmpfs_read(f, cnt)
  PROVE  \E n \in Nat : /\ pos[f] \in Nat /\ cnt \in Nat
                        /\ n = IF pos[f] >= size THEN 0 ELSE SmallerOf(cnt, size - pos[f])
                        /\ pos' = [pos EXCEPT ![f] = pos[f] + n]
                        /\ result' \in Seq(Held) /\ Len(result') = n
                        /\ \A j \in 1 .. n : result'[j] = buf[pos[f] + j]
                        /\ UNCHANGED <<priv, buf, size, buffers>>
<1> DEFINE p == pos[f]
           n == IF Cap = 0 THEN 0 ELSE ToRead(p, cnt)
<1>1. p \in Nat /\ cnt \in Nat /\ Cap \in Nat /\ size \in Nat /\ size <= Cap
  BY TmpfsAssumption DEF tmpfs_read, TmpfsTypeOK, TmpfsInv, BufferOwned, Cap, CLOSED
<1>2. n \in Nat /\ (n > 0 => p + n <= Cap) /\ n = IF p >= size THEN 0 ELSE SmallerOf(cnt, size - p)
  BY <1>1 DEF ToRead, SmallerOf
<1>3. pos' = [pos EXCEPT ![f] = p + n] /\ result' = SubSeq(buf, p + 1, p + n) /\ UNCHANGED <<priv, buf, size, buffers>>
  BY DEF tmpfs_read
<1> HIDE DEF n
<1>4. \A j \in p + 1 .. p + n : buf[j] \in Held
  BY <1>1, <1>2 DEF TmpfsTypeOK, Cap
<1>5. /\ SubSeq(buf, p + 1, p + n) \in Seq(Held)
      /\ Len(SubSeq(buf, p + 1, p + n)) = IF p + 1 <= p + n THEN p + n - (p + 1) + 1 ELSE 0
      /\ \A j \in 1 .. p + n - (p + 1) + 1 : SubSeq(buf, p + 1, p + n)[j] = buf[p + 1 + j - 1]
  <2> DEFINE lo == p + 1
             hi == p + n
  <2>1. lo \in Int /\ hi \in Int /\ \A j \in lo .. hi : buf[j] \in Held
    BY <1>1, <1>2, <1>4
  <2> HIDE DEF lo, hi
  <2>2. /\ SubSeq(buf, lo, hi) \in Seq(Held)
        /\ Len(SubSeq(buf, lo, hi)) = IF lo <= hi THEN hi - lo + 1 ELSE 0
        /\ \A j \in 1 .. hi - lo + 1 : SubSeq(buf, lo, hi)[j] = buf[lo + j - 1]
    BY <2>1, SubSeqProperties
  <2> QED BY <1>1, <1>2, <2>2 DEF lo, hi
<1>6. Len(SubSeq(buf, p + 1, p + n)) = n
  BY <1>1, <1>2, <1>5
<1>7. \A j \in 1 .. n : SubSeq(buf, p + 1, p + n)[j] = buf[p + j]
  <2> SUFFICES ASSUME NEW j \in 1 .. n PROVE SubSeq(buf, p + 1, p + n)[j] = buf[p + j]
    OBVIOUS
  <2>1. j \in 1 .. p + n - (p + 1) + 1 /\ p + 1 + j - 1 = p + j
    BY <1>1, <1>2
  <2> QED BY <1>5, <2>1
<1> QED BY <1>1, <1>2, <1>3, <1>5, <1>6, <1>7

(* Where a seek goes. *)
LEMMA SeekSound ==
  ASSUME TmpfsTypeOK, NEW f \in Fds, NEW offset \in Offsets, NEW whence \in {"SET", "CUR", "END"},
         fs_lseek(f, offset, whence)
  PROVE  \E to \in 0 .. MaxPos : /\ pos[f] # CLOSED /\ pos' = [pos EXCEPT ![f] = to]
                                 /\ UNCHANGED <<priv, buf, size, buffers, result>>
<1> DEFINE to == offset + (IF whence = "CUR" THEN pos[f] ELSE IF whence = "END" THEN size ELSE 0)
<1>1. pos[f] \in Nat /\ offset \in Nat /\ size \in Nat
  BY TmpfsAssumption DEF fs_lseek, TmpfsTypeOK, CLOSED
<1>2. to \in Nat /\ to <= MaxPos
  BY <1>1 DEF fs_lseek
<1>3. to \in 0 .. MaxPos
  BY <1>2, TmpfsAssumption
<1>4. pos[f] # CLOSED /\ pos' = [pos EXCEPT ![f] = to] /\ UNCHANGED <<priv, buf, size, buffers, result>>
  BY DEF fs_lseek
<1> QED BY <1>3, <1>4

-----------------------------------------------------------------------------
(* The inductive invariant. *)

LEMMA InvInit == TmpfsInit => TmpfsTypeOK /\ TmpfsInv
<1> SUFFICES ASSUME TmpfsInit PROVE TmpfsTypeOK /\ TmpfsInv
  OBVIOUS
<1>1. buf \in Seq(Held) /\ Len(buf) = 0 /\ result \in Seq(Held)
  BY EmptySeq DEF TmpfsInit
<1>2. pos \in [Fds -> Nat \cup {CLOSED}]
  BY DEF TmpfsInit
<1>3. priv \in BOOLEAN /\ size = 0 /\ buffers = 0
  BY DEF TmpfsInit
<1> QED BY <1>1, <1>2, <1>3 DEF TmpfsTypeOK, TmpfsInv, BufferOwned, Cap

(* Only a write touches the buffer, so it is the one step with work to do. *)
LEMMA InvNext == TmpfsTypeOK /\ TmpfsInv /\ [TmpfsNext]_tmpfsVars => TmpfsTypeOK' /\ TmpfsInv'
<1> SUFFICES ASSUME TmpfsTypeOK, TmpfsInv, [TmpfsNext]_tmpfsVars
             PROVE  TmpfsTypeOK' /\ TmpfsInv'
  OBVIOUS
<1>1. ASSUME NEW f \in Fds, fs_open(f) \/ fs_close(f)
      PROVE  TmpfsTypeOK' /\ TmpfsInv'
  BY <1>1 DEF fs_open, fs_close, TmpfsTypeOK, TmpfsInv, BufferOwned, Cap
<1>2. ASSUME NEW f \in Fds, NEW bytes \in Data, NEW heapPriv \in BOOLEAN, NEW heapBuf \in BOOLEAN,
             tmpfs_write(f, bytes, heapPriv, heapBuf)
      PROVE  TmpfsTypeOK' /\ TmpfsInv'
  <2>1. CASE UNCHANGED <<buf, size, pos, buffers, result>> /\ priv' \in BOOLEAN
    BY <2>1 DEF TmpfsTypeOK, TmpfsInv, BufferOwned, Cap
  <2>2. CASE Wrote(f, bytes)
    <3> DEFINE needed == pos[f] + Len(bytes)
    <3>1. needed \in Nat /\ size \in Nat /\ Cap \in Nat /\ size <= Cap
      BY <2>2 DEF Wrote, TmpfsTypeOK, TmpfsInv, BufferOwned, Cap
    <3>2. size' \in Nat /\ size' >= size /\ size' >= needed /\ size' \in {size, needed}
      BY <2>2, <3>1 DEF Wrote, LargerOf
    <3>3. pos' \in [Fds -> Nat \cup {CLOSED}]
      BY <2>2, <3>1 DEF Wrote, TmpfsTypeOK
    <3>4. TmpfsTypeOK'
      BY <2>2, <3>2, <3>3 DEF Wrote, TmpfsTypeOK
    <3>5. Cap' \in Nat /\ Cap' >= needed
          /\ IF needed > Cap THEN buffers' = 1 ELSE buffers' = buffers /\ Cap' = Cap
      BY <2>2 DEF Wrote
    <3> HIDE DEF needed
    <3>6. \A j \in 1 .. Cap' : j > size' => buf'[j] = JUNK
      <4> SUFFICES ASSUME NEW j \in 1 .. Cap', j > size' PROVE buf'[j] = JUNK
        OBVIOUS
      <4>1. buf'[j] = IF j > pos[f] /\ j <= needed THEN bytes[j - pos[f]]
                      ELSE IF j <= size THEN buf[j] ELSE IF needed > Cap THEN JUNK ELSE buf[j]
        BY <2>2 DEF Wrote, needed
      <4>2. ~(j <= needed) /\ ~(j <= size) /\ (~(needed > Cap) => j \in 1 .. Cap)
        BY <3>1, <3>2, <3>5
      <4> QED BY <3>1, <4>1, <4>2 DEF TmpfsInv
    <3>7. TmpfsInv'
      BY <3>1, <3>2, <3>5, <3>6 DEF TmpfsInv, BufferOwned
    <3> QED BY <3>4, <3>7
  <2> QED BY <1>2, <2>1, <2>2, WriteSound
<1>3. ASSUME NEW f \in Fds, NEW cnt \in Counts, tmpfs_read(f, cnt)
      PROVE  TmpfsTypeOK' /\ TmpfsInv'
  <2>1. PICK n \in Nat : /\ pos[f] \in Nat /\ pos' = [pos EXCEPT ![f] = pos[f] + n]
                         /\ result' \in Seq(Held) /\ UNCHANGED <<priv, buf, size, buffers>>
    BY <1>3, ReadSound
  <2>2. pos' \in [Fds -> Nat \cup {CLOSED}]
    BY <2>1 DEF TmpfsTypeOK
  <2> QED BY <2>1, <2>2 DEF TmpfsTypeOK, TmpfsInv, BufferOwned, Cap
<1>4. ASSUME NEW f \in Fds, NEW offset \in Offsets, NEW whence \in {"SET", "CUR", "END"},
             fs_lseek(f, offset, whence)
      PROVE  TmpfsTypeOK' /\ TmpfsInv'
  <2>1. PICK to \in 0 .. MaxPos : pos' = [pos EXCEPT ![f] = to] /\ UNCHANGED <<priv, buf, size, buffers, result>>
    BY <1>4, SeekSound
  <2> QED BY <2>1, TmpfsAssumption DEF TmpfsTypeOK, TmpfsInv, BufferOwned, Cap
<1>5. CASE UNCHANGED tmpfsVars
  BY <1>5 DEF tmpfsVars, TmpfsTypeOK, TmpfsInv, BufferOwned, Cap
<1> QED BY <1>1, <1>2, <1>3, <1>4, <1>5 DEF TmpfsNext

(* tmpfs_write's buffer: whatever is written in whatever order, with the    *)
(* heap failing at any allocation, the node owns exactly the one buffer     *)
(* that is allocated, and the file ends within it.                          *)
THEOREM TmpfsCorrect == TmpfsSpec => []BufferOwned
<1>1. TmpfsTypeOK /\ TmpfsInv => BufferOwned
  BY DEF TmpfsInv
<1> QED BY <1>1, InvInit, InvNext, PTL DEF TmpfsSpec

-----------------------------------------------------------------------------
(* The refinement.  The contents are the first `size' bytes of the buffer.  *)

LEMMA ContentsIs ==
  ASSUME TmpfsTypeOK, TmpfsInv
  PROVE  /\ Contents \in Seq(Held) /\ Len(Contents) = size
         /\ \A j \in 1 .. size : Contents[j] = buf[j]
<1>1. size \in Nat /\ size <= Len(buf) /\ buf \in Seq(Held) /\ Len(buf) \in Nat
  BY DEF TmpfsTypeOK, TmpfsInv, BufferOwned, Cap
<1>2. \A j \in 1 .. size : buf[j] \in Held
  BY <1>1
<1>3. /\ SubSeq(buf, 1, size) \in Seq(Held)
      /\ Len(SubSeq(buf, 1, size)) = IF 1 <= size THEN size - 1 + 1 ELSE 0
      /\ \A j \in 1 .. size - 1 + 1 : SubSeq(buf, 1, size)[j] = buf[1 + j - 1]
  BY <1>1, <1>2, SubSeqProperties
<1> QED BY <1>1, <1>3 DEF Contents

(* A write maps to a write: the contents are overwritten at the position,   *)
(* and a gap that it leaves is filled with what the new buffer held.        *)
LEMMA WriteRefines ==
  ASSUME TmpfsTypeOK, TmpfsInv, TmpfsTypeOK', TmpfsInv', NEW f \in Fds, NEW bytes \in Data, Wrote(f, bytes)
  PROVE  Abstract!Write(f, bytes)
<1> DEFINE p == pos[f]
           needed == p + Len(bytes)
           after == Overwrite(Contents, p, bytes)
<1>1. p \in Nat /\ needed \in Nat /\ bytes \in Seq(Bytes) /\ Len(bytes) \in Nat
  BY TmpfsAssumption DEF Wrote
<1>2. size \in Nat /\ size' = LargerOf(size, needed) /\ size' \in Nat /\ size' <= Cap' /\ Cap' \in Nat
      /\ size <= Cap /\ Cap \in Nat
  BY DEF Wrote, TmpfsTypeOK, TmpfsInv, BufferOwned, Cap
<1>3. /\ Contents' \in Seq(Held) /\ Len(Contents') = size'
      /\ \A j \in 1 .. size' : Contents'[j] = buf'[j]
  <2>1. (TmpfsTypeOK /\ TmpfsInv => /\ Contents \in Seq(Held) /\ Len(Contents) = size
                                    /\ \A j \in 1 .. size : Contents[j] = buf[j])'
    BY ContentsIs, PTL
  <2> QED BY <2>1
<1>4. after = [j \in 1 .. size' |-> IF j > p /\ j <= needed THEN bytes[j - p]
                                    ELSE IF j <= size THEN Contents[j] ELSE JUNK]
  BY <1>1, <1>2, ContentsIs DEF Overwrite
<1>5. \A j \in 1 .. size' : Contents'[j] = IF j > p /\ j <= needed THEN bytes[j - p]
                                           ELSE IF j <= size THEN Contents[j] ELSE JUNK
  <2> SUFFICES ASSUME NEW j \in 1 .. size'
               PROVE  buf'[j] = IF j > p /\ j <= needed THEN bytes[j - p]
                                ELSE IF j <= size THEN Contents[j] ELSE JUNK
    BY <1>3
  <2>1. buf'[j] = IF j > p /\ j <= needed THEN bytes[j - p]
                  ELSE IF j <= size THEN buf[j] ELSE IF needed > Cap THEN JUNK ELSE buf[j]
    BY <1>2 DEF Wrote
  <2>2. j <= size => Contents[j] = buf[j]
    BY <1>2, ContentsIs
  <2>3. CASE j > size /\ j \in 1 .. Cap
    BY <2>1, <2>2, <2>3, <1>2 DEF TmpfsInv
  <2>4. CASE j > size /\ j \notin 1 .. Cap
    BY <1>1, <1>2, <2>1, <2>4 DEF LargerOf
  <2>5. CASE ~(j > size)
    BY <1>2, <2>1, <2>2, <2>5
  <2> QED BY <2>3, <2>4, <2>5
<1>6. Contents' = [j \in 1 .. size' |-> Contents'[j]]
  BY <1>2, <1>3
<1>7. Contents' = after
  BY <1>4, <1>5, <1>6
<1>8. /\ pos[f] # Abstract!CLOSED
      /\ Contents' = Abstract!Overwrite(Contents, pos[f], bytes)
      /\ pos' = [pos EXCEPT ![f] = @ + Len(bytes)]
      /\ UNCHANGED result
  <2>1. pos[f] # Abstract!CLOSED
    BY <1>1 DEF Abstract!CLOSED
  <2>2. Abstract!Overwrite(Contents, pos[f], bytes) = after
    BY DEF Abstract!Overwrite, Overwrite, Abstract!LargerOf, LargerOf, Abstract!JUNK, JUNK
  <2>3. pos' = [pos EXCEPT ![f] = @ + Len(bytes)] /\ UNCHANGED result
    BY DEF Wrote
  <2> QED BY <1>7, <2>1, <2>2, <2>3
<1> QED BY <1>8 DEF Abstract!Write

(* A read maps to a read: it returns the contents from the position on. *)
LEMMA ReadRefines ==
  ASSUME TmpfsTypeOK, TmpfsInv, NEW f \in Fds, NEW cnt \in Counts, tmpfs_read(f, cnt)
  PROVE  Abstract!Read(f, cnt)
<1> DEFINE p == pos[f]
<1>1. PICK n \in Nat : /\ p \in Nat /\ cnt \in Nat
                       /\ n = IF p >= size THEN 0 ELSE SmallerOf(cnt, size - p)
                       /\ pos' = [pos EXCEPT ![f] = p + n]
                       /\ result' \in Seq(Held) /\ Len(result') = n
                       /\ \A j \in 1 .. n : result'[j] = buf[p + j]
                       /\ UNCHANGED <<priv, buf, size, buffers>>
  BY ReadSound
<1>2. size \in Nat /\ Contents \in Seq(Held) /\ Len(Contents) = size
      /\ \A j \in 1 .. size : Contents[j] = buf[j]
  BY ContentsIs DEF TmpfsTypeOK
<1> DEFINE lo == p + 1
           hi == SmallerOf(p + cnt, size)
<1>3. lo \in Int /\ hi \in Int /\ n = (IF lo <= hi THEN hi - lo + 1 ELSE 0) /\ (lo <= hi => hi <= size)
  BY <1>1, <1>2 DEF SmallerOf
<1>4. \A j \in lo .. hi : Contents[j] \in Held
  BY <1>1, <1>2, <1>3
<1>5. Abstract!Slice(Contents, p, cnt) = SubSeq(Contents, lo, hi)
  BY <1>2 DEF Abstract!Slice, Abstract!SmallerOf, SmallerOf
<1>6. lo = p + 1
  OBVIOUS
<1> HIDE DEF lo, hi
<1>7. /\ SubSeq(Contents, lo, hi) \in Seq(Held)
      /\ Len(SubSeq(Contents, lo, hi)) = IF lo <= hi THEN hi - lo + 1 ELSE 0
      /\ \A j \in 1 .. hi - lo + 1 : SubSeq(Contents, lo, hi)[j] = Contents[lo + j - 1]
  BY <1>3, <1>4, SubSeqProperties
<1>8. Len(SubSeq(Contents, lo, hi)) = n
  BY <1>3, <1>7
<1>9. \A j \in 1 .. n : SubSeq(Contents, lo, hi)[j] = result'[j]
  <2> SUFFICES ASSUME NEW j \in 1 .. n PROVE SubSeq(Contents, lo, hi)[j] = result'[j]
    OBVIOUS
  <2>1. n = hi - lo + 1 /\ hi <= size /\ p \in Nat /\ lo = p + 1 /\ hi \in Int /\ n \in Nat
    BY <1>1, <1>3, <1>6
  <2>2. j \in 1 .. hi - lo + 1 /\ lo + j - 1 = p + j /\ p + j \in 1 .. size
    BY <1>2, <2>1, SMTT(40)
  <2> QED BY <1>1, <1>2, <1>7, <2>2
<1>10. SubSeq(Contents, lo, hi) = result'
  BY <1>1, <1>7, <1>8, <1>9, SeqEqual
<1>11. p # Abstract!CLOSED
  BY <1>1 DEF Abstract!CLOSED
<1>12. Contents' = Contents
  BY <1>1 DEF Contents
<1>13. pos' = [pos EXCEPT ![f] = @ + Len(result')]
  BY <1>1
<1> QED BY <1>5, <1>10, <1>11, <1>12, <1>13 DEF Abstract!Read

(* Every step of Tmpfs is a step of FileSpec or leaves its variables alone. *)
LEMMA StepRefines ==
  TmpfsTypeOK /\ TmpfsInv /\ TmpfsTypeOK' /\ TmpfsInv' /\ [TmpfsNext]_tmpfsVars => [Abstract!Next]_(Abstract!vars)
<1> SUFFICES ASSUME TmpfsTypeOK, TmpfsInv, TmpfsTypeOK', TmpfsInv', [TmpfsNext]_tmpfsVars
             PROVE  [Abstract!Next]_(Abstract!vars)
  OBVIOUS
<1>1. ASSUME NEW f \in Fds, fs_open(f) PROVE Abstract!Next
  <2>1. Abstract!Open(f)
    BY <1>1 DEF fs_open, Abstract!Open, Abstract!CLOSED, CLOSED, Contents
  <2> QED BY <2>1 DEF Abstract!Next
<1>2. ASSUME NEW f \in Fds, fs_close(f) PROVE Abstract!Next
  <2>1. Abstract!Close(f)
    BY <1>2 DEF fs_close, Abstract!Close, Abstract!CLOSED, CLOSED, Contents
  <2> QED BY <2>1 DEF Abstract!Next
<1>3. ASSUME NEW f \in Fds, NEW bytes \in Data, NEW heapPriv \in BOOLEAN, NEW heapBuf \in BOOLEAN,
             tmpfs_write(f, bytes, heapPriv, heapBuf)
      PROVE  [Abstract!Next]_(Abstract!vars)
  <2>1. CASE UNCHANGED <<buf, size, pos, buffers, result>> /\ priv' \in BOOLEAN
    BY <2>1 DEF Abstract!vars, Contents
  <2>2. CASE Wrote(f, bytes)
    BY <2>2, WriteRefines DEF Abstract!Next
  <2> QED BY <1>3, <2>1, <2>2, WriteSound
<1>4. ASSUME NEW f \in Fds, NEW cnt \in Counts, tmpfs_read(f, cnt) PROVE Abstract!Next
  BY <1>4, ReadRefines DEF Abstract!Next
<1>5. ASSUME NEW f \in Fds, NEW offset \in Offsets, NEW whence \in {"SET", "CUR", "END"},
             fs_lseek(f, offset, whence)
      PROVE  Abstract!Next
  <2>1. PICK to \in 0 .. MaxPos : /\ pos[f] # CLOSED /\ pos' = [pos EXCEPT ![f] = to]
                                  /\ UNCHANGED <<priv, buf, size, buffers, result>>
    BY <1>5, SeekSound
  <2>2. Abstract!Seek(f, to)
    BY <2>1 DEF Abstract!Seek, Abstract!CLOSED, CLOSED, Contents
  <2> QED BY <2>2 DEF Abstract!Next
<1>6. CASE UNCHANGED tmpfsVars
  BY <1>6 DEF tmpfsVars, Abstract!vars, Contents
<1> QED BY <1>1, <1>2, <1>3, <1>4, <1>5, <1>6 DEF TmpfsNext

LEMMA InitRefines == TmpfsInit => Abstract!Init
<1> SUFFICES ASSUME TmpfsInit PROVE Abstract!Init
  OBVIOUS
<1>1. Contents = <<>>
  BY SubSeqEmpty DEF TmpfsInit, Contents
<1> QED BY <1>1 DEF TmpfsInit, Abstract!Init, Abstract!CLOSED, CLOSED

(* tmpfs_read, tmpfs_write and fs_lseek implement a file: one sequence of   *)
(* bytes that all descriptors share, each with a position of its own, where *)
(* growing, failing to grow and writing beyond the end neither lose nor mix *)
(* up a byte.                                                               *)
THEOREM TmpfsImplements == TmpfsSpec => ImplementsFile
<1> QED BY InitRefines, InvInit, InvNext, StepRefines, PTL DEF TmpfsSpec, ImplementsFile, Abstract!Spec

-----------------------------------------------------------------------------
(* The history *)

Rank(S, i) == Cardinality({j \in S : j <= i})

LEMMA RankInjective ==
  ASSUME NEW S \in SUBSET Nat, IsFiniteSet(S), NEW i \in S, NEW k \in S, Rank(S, i) = Rank(S, k)
  PROVE  i = k
<1>1. ASSUME NEW a \in S, NEW b \in S, a < b, Rank(S, a) = Rank(S, b) PROVE FALSE
  <2> DEFINE A == {j \in S : j <= a}
  <2> DEFINE B == {j \in S : j <= b}
  <2>1. a \in Nat /\ b \in Nat
    OBVIOUS
  <2>2. A \in SUBSET B
    <3>1. \A j \in S : j <= a => j <= b
      BY <2>1, <1>1
    <3> QED BY <3>1
  <2>3. b \in B /\ b \notin A
    BY <2>1, <1>1
  <2>4. IsFiniteSet(B)
    <3>1. B \in SUBSET S
      OBVIOUS
    <3> HIDE DEF B
    <3> QED BY <3>1, FS_Subset
  <2>5. Cardinality(A) = Cardinality(B)
    BY <1>1 DEF Rank
  <2> HIDE DEF A, B
  <2>6. A = B
    BY <2>2, <2>4, <2>5, FS_Subset
  <2> QED BY <2>3, <2>6
<1>2. i \in Nat /\ k \in Nat
  OBVIOUS
<1>3. ~(i < k) /\ ~(k < i)
  BY <1>1
<1> QED BY <1>2, <1>3

LEMMA NthIs ==
  ASSUME NEW S \in SUBSET Nat, IsFiniteSet(S), NEW i \in S
  PROVE  Nth(S, Rank(S, i)) = i
<1> DEFINE k == Nth(S, Rank(S, i))
<1>1. k \in S /\ Rank(S, k) = Rank(S, i)
  BY DEF Nth, Rank
<1> HIDE DEF k
<1>2. k = i
  BY <1>1, RankInjective
<1> QED BY <1>2 DEF k

LEMMA FirstsSet ==
  ASSUME NEW T, NEW inputs \in Seq(T)
  PROVE  /\ Firsts(inputs) \in SUBSET (1 .. Len(inputs)) /\ Firsts(inputs) \in SUBSET Nat
         /\ IsFiniteSet(Firsts(inputs)) /\ Cardinality(Firsts(inputs)) \in Nat /\ Len(inputs) \in Nat
<1>1. Firsts(inputs) \in SUBSET (1 .. Len(inputs)) /\ Len(inputs) \in Nat
  BY DEF Firsts
<1> HIDE DEF Firsts
<1>2. Firsts(inputs) \in SUBSET Nat /\ \A i \in Firsts(inputs) : i <= Len(inputs)
  BY <1>1
<1>3. IsFiniteSet(Firsts(inputs))
  BY <1>1, <1>2, FS_BoundedSetOfNaturals
<1> QED BY <1>1, <1>2, <1>3, FS_CardinalityType

(* A line that is entered again adds nothing to the lines that are numbered. *)
LEMMA EnteredAgain ==
  ASSUME NEW T, NEW inputs \in Seq(T), NEW line \in T, inputs # <<>>, inputs[Len(inputs)] = line, Numbered(Firsts(inputs))
  PROVE  Firsts(Append(inputs, line)) = Firsts(inputs) /\ Distinct(Append(inputs, line)) = Distinct(inputs)
<1> DEFINE more == Append(inputs, line)
<1>1. /\ more \in Seq(T) /\ Len(more) = Len(inputs) + 1 /\ Len(inputs) \in Nat \ {0}
      /\ DOMAIN more = 1 .. Len(inputs) + 1 /\ DOMAIN inputs = 1 .. Len(inputs) /\ more[Len(inputs) + 1] = line
      /\ \A i \in 1 .. Len(inputs) : more[i] = inputs[i]
  OBVIOUS
<1> HIDE DEF more
<1>2. Firsts(more) = Firsts(inputs)
  <2>1. ASSUME NEW i \in 1 .. Len(inputs) PROVE i \in Firsts(more) <=> i \in Firsts(inputs)
    <3>1. CASE i = 1
      BY <1>1, <3>1 DEF Firsts
    <3>2. CASE i # 1
      <4>1. i - 1 \in 1 .. Len(inputs) /\ i \in 1 .. Len(inputs) + 1
        BY <1>1, <3>2
      <4> QED BY <1>1, <3>2, <4>1 DEF Firsts
    <3> QED BY <3>1, <3>2
  <2>2. Len(inputs) + 1 \notin Firsts(more) /\ Len(inputs) + 1 \notin Firsts(inputs)
    <3>1. (Len(inputs) + 1) - 1 = Len(inputs) /\ Len(inputs) + 1 # 1 /\ Len(inputs) \in 1 .. Len(inputs) /\ Len(inputs) + 1 \notin 1 .. Len(inputs)
      BY <1>1
    <3> QED BY <1>1, <3>1 DEF Firsts
  <2>3. Firsts(more) \subseteq 1 .. Len(inputs) + 1 /\ Firsts(inputs) \subseteq 1 .. Len(inputs) + 1
    BY <1>1 DEF Firsts
  <2>4. 1 .. Len(inputs) + 1 = (1 .. Len(inputs)) \cup {Len(inputs) + 1}
    BY <1>1
  <2>5. \A i : i \in Firsts(more) <=> i \in Firsts(inputs)
    BY <2>1, <2>2, <2>3, <2>4, Zenon
  <2> QED BY <2>5, Zenon
<1>3. \A k \in 1 .. Cardinality(Firsts(inputs)) : Nth(Firsts(inputs), k) \in 1 .. Len(inputs)
  BY FirstsSet DEF Nth, Numbered
<1>4. Distinct(more) = Distinct(inputs)
  BY <1>1, <1>2, <1>3 DEF Distinct
<1> QED BY <1>2, <1>4 DEF more

(* Another line is numbered with the next number. *)
LEMMA EnteredNew ==
  ASSUME NEW T, NEW inputs \in Seq(T), NEW line \in T, inputs = <<>> \/ inputs[Len(inputs)] # line, Numbered(Firsts(inputs))
  PROVE  /\ Numbered(Firsts(Append(inputs, line)))
         /\ Distinct(inputs) \in Seq(T) /\ Distinct(Append(inputs, line)) = Append(Distinct(inputs), line)
<1> DEFINE more == Append(inputs, line)
<1> DEFINE n == Len(inputs) + 1
<1> DEFINE F == Firsts(inputs)
<1> DEFINE c == Cardinality(Firsts(inputs))
<1>1. /\ more \in Seq(T) /\ Len(more) = n /\ Len(inputs) \in Nat
      /\ DOMAIN more = 1 .. n /\ DOMAIN inputs = 1 .. Len(inputs) /\ more[n] = line
      /\ \A i \in 1 .. Len(inputs) : more[i] = inputs[i]
  OBVIOUS
<1>2. F \in SUBSET (1 .. Len(inputs)) /\ F \in SUBSET Nat /\ IsFiniteSet(F) /\ c \in Nat /\ c = Cardinality(F)
  BY FirstsSet
<1>3. Firsts(more) = F \cup {n}
  <2> HIDE DEF more
  <2>1. ASSUME NEW i \in 1 .. Len(inputs) PROVE i \in Firsts(more) <=> i \in F
    <3>1. CASE i = 1
      BY <1>1, <3>1 DEF Firsts
    <3>2. CASE i # 1
      <4>1. i - 1 \in 1 .. Len(inputs) /\ i \in 1 .. n
        BY <1>1, <3>2
      <4> QED BY <1>1, <3>2, <4>1 DEF Firsts
    <3> QED BY <3>1, <3>2
  <2>2. n \in Firsts(more)
    <3>1. CASE inputs = <<>>
      BY <1>1, <3>1 DEF Firsts
    <3>2. CASE inputs # <<>>
      <4>1. n - 1 = Len(inputs) /\ Len(inputs) \in 1 .. Len(inputs) /\ n \in 1 .. n
        BY <1>1, <3>2
      <4> QED BY <1>1, <3>2, <4>1 DEF Firsts
    <3> QED BY <3>1, <3>2
  <2>3. Firsts(more) \subseteq 1 .. n
    BY <1>1 DEF Firsts
  <2>4. 1 .. n = (1 .. Len(inputs)) \cup {n}
    BY <1>1
  <2> HIDE DEF n, F
  <2> QED BY <1>2, <2>1, <2>2, <2>3, <2>4
<1> DEFINE G == F \cup {n}
<1> HIDE DEF more, F, c
<1>4. n \notin F /\ n \in Nat /\ \A i \in F : i < n /\ i \in 1 .. Len(inputs)
  BY <1>1, <1>2
<1>5. G \in SUBSET Nat /\ IsFiniteSet(G) /\ Cardinality(G) = c + 1
  <2>1. G \in SUBSET Nat
    BY <1>2, <1>4
  <2> HIDE DEF n
  <2> QED BY <2>1, <1>2, <1>4, FS_AddElement
<1>6. \A i \in F : Rank(G, i) = Rank(F, i)
  <2> SUFFICES ASSUME NEW i \in F PROVE {j \in G : j <= i} = {j \in F : j <= i}
    BY DEF Rank
  <2>1. i < n /\ i \in Nat /\ n \in Nat
    BY <1>2, <1>4
  <2>2. ~(n <= i)
    BY <2>1
  <2> HIDE DEF n
  <2> QED BY <2>2
<1>7. Rank(G, n) = c + 1
  <2>1. {j \in G : j <= n} = G
    <3>1. \A j \in F : j <= n
      BY <1>1, <1>2
    <3>2. n <= n
      BY <1>1
    <3> HIDE DEF n
    <3> QED BY <3>1, <3>2
  <2> HIDE DEF G
  <2> QED BY <2>1, <1>5 DEF Rank
<1>8. \A k \in 1 .. c : \E i \in F : Rank(F, i) = k
  BY DEF Numbered, Rank, F, c
<1>9. \A k \in 1 .. c : Nth(F, k) \in F /\ Nth(G, k) = Nth(F, k)
  <2> SUFFICES ASSUME NEW k \in 1 .. c PROVE Nth(F, k) \in F /\ Nth(G, k) = Nth(F, k)
    OBVIOUS
  <2>1. PICK i \in F : Rank(F, i) = k
    BY <1>8
  <2>2. i \in G /\ Rank(G, i) = k
    BY <1>6, <2>1
  <2> HIDE DEF G
  <2>3. Nth(F, k) = i
    BY <1>2, <2>1, NthIs
  <2>4. Nth(G, k) = i
    BY <1>5, <2>2, NthIs
  <2> QED BY <2>1, <2>3, <2>4
<1>10. Nth(G, c + 1) = n
  <2>1. n \in G
    OBVIOUS
  <2> HIDE DEF G, n
  <2> QED BY <2>1, <1>5, <1>7, NthIs
<1>11. Numbered(G)
  <2> SUFFICES ASSUME NEW k \in 1 .. c + 1 PROVE \E i \in G : Rank(G, i) = k
    BY <1>5 DEF Numbered, Rank
  <2>1. CASE k = c + 1
    BY <1>7, <2>1
  <2>2. CASE k # c + 1
    <3>1. k \in 1 .. c
      BY <1>2, <2>2
    <3> QED BY <3>1, <1>6, <1>8
  <2> QED BY <2>1, <2>2
<1>12. Distinct(inputs) = [k \in 1 .. c |-> inputs[Nth(F, k)]]
  BY DEF Distinct, F, c
<1>13. Distinct(more) = [k \in 1 .. c + 1 |-> more[Nth(G, k)]]
  <2> HIDE DEF G
  <2>1. Firsts(more) = G
    BY <1>3 DEF G
  <2> QED BY <2>1, <1>5 DEF Distinct
<1>14. Distinct(inputs) \in Seq(T) /\ Len(Distinct(inputs)) = c
  <2>1. \A k \in 1 .. c : inputs[Nth(F, k)] \in T
    BY <1>1, <1>4, <1>9
  <2> QED BY <1>2, <1>12, <2>1
<1>15. \A k \in 1 .. c : more[Nth(G, k)] = inputs[Nth(F, k)]
  BY <1>1, <1>4, <1>9
<1>16. more[Nth(G, c + 1)] = line
  BY <1>1, <1>10
<1>17. Distinct(more) = Append(Distinct(inputs), line)
  <2> HIDE DEF G, n
  <2>1. Append(Distinct(inputs), line) = [k \in 1 .. c + 1 |-> IF k = c + 1 THEN line ELSE Distinct(inputs)[k]]
    <3> DEFINE d == Distinct(inputs)
    <3>1. d \in Seq(T) /\ Len(d) = c
      BY <1>14
    <3> HIDE DEF d
    <3> DEFINE e == Append(d, line)
    <3>2. e \in Seq(T) /\ Len(e) = c + 1 /\ e[c + 1] = line /\ \A k \in 1 .. c : e[k] = d[k]
      BY <3>1, <1>2
    <3> HIDE DEF e
    <3>3. e = [k \in 1 .. c + 1 |-> e[k]]
      BY <3>2
    <3>4. \A k \in 1 .. c + 1 : e[k] = IF k = c + 1 THEN line ELSE d[k]
      BY <3>2, <1>2
    <3>5. e = [k \in 1 .. c + 1 |-> IF k = c + 1 THEN line ELSE d[k]]
      BY <3>3, <3>4
    <3> QED BY <3>5 DEF d, e
  <2>2. \A k \in 1 .. c + 1 : more[Nth(G, k)] = IF k = c + 1 THEN line ELSE Distinct(inputs)[k]
    BY <1>2, <1>12, <1>15, <1>16
  <2> QED BY <1>13, <2>1, <2>2
<1> QED BY <1>3, <1>11, <1>14, <1>17 DEF more

(* The latest n of one line more: it is appended, or the oldest gives way. *)
LEMMA LatestAppend ==
  ASSUME NEW T, NEW inputs \in Seq(T), NEW line \in T, NEW n \in Nat \ {0}
  PROVE  LET h == LatestOf(inputs, n) IN
         /\ h \in Seq(T) /\ Len(h) <= n
         /\ (Len(h) > 0 <=> inputs # <<>>) /\ (inputs # <<>> => h[Len(h)] = inputs[Len(inputs)])
         /\ LatestOf(Append(inputs, line), n) =
              IF Len(h) < n THEN Append(h, line) ELSE [i \in 1 .. n |-> IF i = n THEN line ELSE h[i + 1]]
<1> DEFINE m == Len(inputs)
<1> DEFINE from == IF m > n THEN m - n + 1 ELSE 1
<1> DEFINE h == SubSeq(inputs, from, m)
<1> DEFINE more == Append(inputs, line)
<1> DEFINE next == IF m + 1 > n THEN m + 1 - n + 1 ELSE 1
<1> DEFINE h2 == SubSeq(more, next, m + 1)
<1>1. m \in Nat /\ from \in Nat \ {0} /\ next \in Nat \ {0} /\ from <= m + 1 /\ next <= m + 1
  OBVIOUS
<1>2. more \in Seq(T) /\ Len(more) = m + 1 /\ more[m + 1] = line /\ \A i \in 1 .. m : more[i] = inputs[i]
  OBVIOUS
<1>3. LatestOf(inputs, n) = h /\ LatestOf(more, n) = h2
  BY <1>2 DEF LatestOf
<1>4. h \in Seq(T) /\ Len(h) = m - from + 1 /\ \A i \in 1 .. m - from + 1 : h[i] = inputs[from + i - 1]
  <2>1. \A i \in from .. m : inputs[i] \in T
    BY <1>1
  <2> HIDE DEF from, m
  <2> QED BY <1>1, <2>1, SubSeqProperties
<1>5. h2 \in Seq(T) /\ Len(h2) = m + 1 - next + 1 /\ \A i \in 1 .. m + 1 - next + 1 : h2[i] = more[next + i - 1]
  <2>1. \A i \in next .. m + 1 : more[i] \in T
    BY <1>1, <1>2
  <2> HIDE DEF next, m, more
  <2> QED BY <1>1, <2>1, SubSeqProperties
<1>6. inputs # <<>> <=> m > 0
  OBVIOUS
<1> HIDE DEF h, h2, more, m
<1>7. /\ Len(h) <= n /\ (Len(h) > 0 <=> m > 0) /\ Len(h) \in Nat
      /\ m > 0 => h[Len(h)] = inputs[m]
  <2>1. Len(h) <= n /\ (Len(h) > 0 <=> m > 0) /\ Len(h) \in Nat
    BY <1>1, <1>4
  <2>2. ASSUME m > 0 PROVE h[Len(h)] = inputs[m]
    <3>1. m - from + 1 \in 1 .. m - from + 1 /\ from + (m - from + 1) - 1 = m
      BY <1>1, <2>2
    <3> QED BY <1>4, <3>1
  <2> QED BY <2>1, <2>2
<1>8. CASE Len(h) < n
  <2>1. from = 1 /\ next = 1 /\ Len(h) = m /\ Len(h2) = m + 1
    BY <1>1, <1>4, <1>5, <1>8
  <2>2. \A i \in 1 .. m + 1 : h2[i] = more[i]
    BY <2>1, <1>1, <1>5
  <2>3. \A i \in 1 .. m : h[i] = inputs[i]
    BY <2>1, <1>1, <1>4
  <2> HIDE DEF from, next
  <2>4. h2 = Append(h, line)
    <3>1. Append(h, line) \in Seq(T) /\ Len(Append(h, line)) = m + 1
      BY <1>4, <2>1
    <3>2. \A i \in 1 .. m + 1 : Append(h, line)[i] = h2[i]
      BY <1>1, <1>2, <1>4, <2>1, <2>2, <2>3
    <3> QED BY <3>1, <3>2, <1>5, <2>1, SeqEqual
  <2> QED BY <1>3, <1>4, <1>6, <1>7, <1>8, <2>4 DEF more, m
<1>9. CASE ~(Len(h) < n)
  <2>1. next = from + 1 /\ Len(h) = n /\ Len(h2) = n /\ m >= n /\ from = m - n + 1
    BY <1>1, <1>4, <1>5, <1>9
  <2>2. \A i \in 1 .. n : h2[i] = more[from + i]
    <3> SUFFICES ASSUME NEW i \in 1 .. n PROVE h2[i] = more[from + i]
      OBVIOUS
    <3>1. next + i - 1 = from + i /\ m + 1 - next + 1 = n
      BY <2>1, <1>1
    <3> HIDE DEF from, next
    <3> QED BY <3>1, <1>5
  <2>3. \A i \in 1 .. n - 1 : h[i + 1] = inputs[from + i] /\ from + i \in 1 .. m
    BY <2>1, <1>1, <1>4
  <2>4. from + n = m + 1
    BY <2>1, <1>1
  <2> HIDE DEF from, next
  <2>5. \A i \in 1 .. n : h2[i] = IF i = n THEN line ELSE h[i + 1]
    <3> SUFFICES ASSUME NEW i \in 1 .. n PROVE h2[i] = IF i = n THEN line ELSE h[i + 1]
      OBVIOUS
    <3>1. CASE i = n
      BY <3>1, <2>2, <2>4, <1>2
    <3>2. CASE i # n
      <4>1. i \in 1 .. n - 1
        BY <3>2
      <4> QED BY <3>2, <4>1, <2>2, <2>3, <1>2
    <3> QED BY <3>1, <3>2
  <2>6. h2 = [i \in 1 .. n |-> IF i = n THEN line ELSE h[i + 1]]
    <3>1. h2 = [i \in 1 .. n |-> h2[i]]
      BY <1>5, <2>1
    <3> QED BY <3>1, <2>5
  <2> QED BY <1>3, <1>4, <1>6, <1>7, <1>9, <2>6 DEF more, m
<1> QED BY <1>8, <1>9

-----------------------------------------------------------------------------
(* The line *)

Chars == Keys \cup {SPACE}

LEMMA PieceOfLine ==
  ASSUME NEW line \in Lines, NEW a \in 1 .. Len(line) + 1, NEW b \in 0 .. Len(line), a <= b + 1
  PROVE  SubSeq(line, a, b) \in Seq(Chars) /\ Len(SubSeq(line, a, b)) = b - a + 1
<1>1. line \in Seq(Chars) /\ Len(line) \in Nat
  BY DEF Lines, Chars
<1>2. \A i \in a .. b : line[i] \in Chars
  BY <1>1
<1>3. a \in Int /\ b \in Int
  BY <1>1
<1>4. SubSeq(line, a, b) \in Seq(Chars) /\ Len(SubSeq(line, a, b)) = IF a <= b THEN b - a + 1 ELSE 0
  BY <1>2, <1>3, SubSeqProperties
<1> QED BY <1>1, <1>3, <1>4

LEMMA LineCut ==
  ASSUME NEW line \in Lines, NEW p \in 0 .. Len(line)
  PROVE  SubSeq(line, 1, p) \in Lines /\ Len(SubSeq(line, 1, p)) = p
<1>1. Len(line) \in Nat /\ Len(line) < MAX_INPUT_LEN /\ MAX_INPUT_LEN \in Nat
  BY ShellAssumption DEF Lines
<1>2. SubSeq(line, 1, p) \in Seq(Chars) /\ Len(SubSeq(line, 1, p)) = p
  BY <1>1, PieceOfLine
<1> QED BY <1>1, <1>2 DEF Lines, Chars

(* Text put in at the cursor. *)
Spliced(line, p, mid) == SubSeq(line, 1, p) \o mid \o SubSeq(line, p + 1, Len(line))

LEMMA LineSpliced ==
  ASSUME NEW line \in Lines, NEW p \in 0 .. Len(line), NEW mid \in Seq(Chars), Len(line) + Len(mid) < MAX_INPUT_LEN
  PROVE  Spliced(line, p, mid) \in Lines /\ Len(Spliced(line, p, mid)) = Len(line) + Len(mid)
<1> DEFINE one == SubSeq(line, 1, p)
<1> DEFINE two == SubSeq(line, p + 1, Len(line))
<1> DEFINE front == one \o mid
<1>1. Len(line) \in Nat /\ Len(mid) \in Nat
  BY DEF Lines
<1>2. one \in Seq(Chars) /\ Len(one) = p
  BY <1>1, PieceOfLine
<1>3. two \in Seq(Chars) /\ Len(two) = Len(line) - p
  BY <1>1, PieceOfLine
<1> HIDE DEF one, two
<1>4. front \in Seq(Chars) /\ Len(front) = p + Len(mid)
  BY <1>2, ConcatProperties
<1> HIDE DEF front
<1>5. front \o two \in Seq(Chars) /\ Len(front \o two) = Len(front) + Len(two)
  BY <1>3, <1>4, ConcatProperties
<1>6. Spliced(line, p, mid) = front \o two
  BY DEF Spliced, one, two, front
<1>7. Len(front \o two) = Len(line) + Len(mid)
  BY <1>1, <1>3, <1>4, <1>5
<1> QED BY <1>5, <1>6, <1>7 DEF Lines, Chars

LEMMA EmptyLine == <<>> \in Lines /\ Len(<<>>) = 0
<1>1. <<>> \in Seq(Keys \cup {SPACE}) /\ Len(<<>>) = 0
  OBVIOUS
<1> QED BY <1>1, ShellAssumption DEF Lines

(* A key that edits the line leaves the history alone. *)
LEMMA EditInv ==
  ASSUME ShellInv, NEW text \in Lines, NEW p \in 0 .. Len(text), EditsLine(text, p),
         history_pos' \in -1 .. Len(command_history) - 1
  PROVE  ShellInv'
<1>1. /\ input_buffer' = text /\ input_pos' = p /\ command_history' = command_history /\ entered' = entered
  BY DEF EditsLine
<1> QED BY <1>1 DEF ShellInv, HistoryRecent

LEMMA LineTypes ==
  ASSUME ShellInv
  PROVE  /\ input_buffer \in Lines /\ input_buffer \in Seq(Chars) /\ Len(input_buffer) \in Nat
         /\ Len(input_buffer) < MAX_INPUT_LEN /\ MAX_INPUT_LEN \in Nat /\ input_pos \in 0 .. Len(input_buffer)
         /\ command_history \in Seq(Lines) /\ Len(command_history) \in Nat
         /\ history_pos \in -1 .. Len(command_history) - 1
BY ShellAssumption DEF ShellInv, Lines, Chars

LEMMA RecallInv ==
  ASSUME ShellInv, NEW p \in 0 .. Len(command_history) - 1, Recall(p)
  PROVE  ShellInv'
<1>1. command_history \in Seq(Lines) /\ Len(command_history) \in Nat
  BY LineTypes
<1>2. command_history[p + 1] \in Lines
  BY <1>1
<1>3. Len(command_history[p + 1]) \in 0 .. Len(command_history[p + 1])
  BY <1>2 DEF Lines
<1>4. EditsLine(command_history[p + 1], Len(command_history[p + 1])) /\ history_pos' \in -1 .. Len(command_history) - 1
  BY <1>1 DEF Recall
<1> QED BY <1>2, <1>3, <1>4, EditInv

LEMMA KeyInv ==
  ASSUME ShellInv, CtrlC \/ Backspace \/ Tab \/ Up \/ Down \/ Left \/ Right
  PROVE  ShellInv'
<1>1. /\ input_buffer \in Lines /\ input_buffer \in Seq(Chars) /\ Len(input_buffer) \in Nat
      /\ Len(input_buffer) < MAX_INPUT_LEN /\ MAX_INPUT_LEN \in Nat /\ input_pos \in 0 .. Len(input_buffer)
      /\ Len(command_history) \in Nat /\ history_pos \in -1 .. Len(command_history) - 1
  BY LineTypes
<1>2. CASE CtrlC
  BY <1>1, <1>2, EmptyLine, EditInv DEF CtrlC
<1>3. CASE Backspace
  <2> DEFINE text == RemoveAt(input_buffer, input_pos)
  <2>1. input_pos > 0 /\ EditsLine(text, input_pos - 1) /\ history_pos' = history_pos
    BY <1>3 DEF Backspace
  <2>2. text \in Lines /\ Len(text) = Len(input_buffer) - 1
    <3> DEFINE one == SubSeq(input_buffer, 1, input_pos - 1)
    <3> DEFINE two == SubSeq(input_buffer, input_pos + 1, Len(input_buffer))
    <3>1. one \in Seq(Chars) /\ Len(one) = input_pos - 1
      BY <1>1, <2>1, PieceOfLine
    <3>2. two \in Seq(Chars) /\ Len(two) = Len(input_buffer) - input_pos
      BY <1>1, <2>1, PieceOfLine
    <3>3. text = one \o two
      BY DEF RemoveAt
    <3> HIDE DEF one, two, text
    <3>4. one \o two \in Seq(Chars) /\ Len(one \o two) = Len(one) + Len(two)
      BY <3>1, <3>2, ConcatProperties
    <3> QED BY <1>1, <2>1, <3>1, <3>2, <3>3, <3>4 DEF Lines, Chars
  <2> HIDE DEF text
  <2>3. input_pos - 1 \in 0 .. Len(text)
    BY <1>1, <2>1, <2>2
  <2> QED BY <1>1, <2>1, <2>2, <2>3, EditInv
<1>4. CASE Tab
  <2> DEFINE n == IF TAB < Room THEN TAB ELSE Room
  <2> DEFINE blanks == [i \in 1 .. n |-> SPACE]
  <2> DEFINE text == Spliced(input_buffer, input_pos, blanks)
  <2>1. EditsLine(text, input_pos + n) /\ history_pos' = history_pos
    BY <1>4 DEF Tab, Spliced
  <2>2. n \in Nat /\ n <= MAX_INPUT_LEN - 1 - Len(input_buffer)
    BY <1>1, ShellAssumption DEF Room
  <2> HIDE DEF n
  <2>3. blanks \in Seq(Chars) /\ Len(blanks) = n
    <3>1. SPACE \in Chars
      BY DEF Chars
    <3> HIDE DEF Chars, SPACE
    <3> QED BY <2>2, <3>1
  <2> HIDE DEF blanks
  <2>4. text \in Lines /\ Len(text) = Len(input_buffer) + n
    BY <1>1, <2>2, <2>3, LineSpliced
  <2> HIDE DEF text
  <2>5. input_pos + n \in 0 .. Len(text)
    BY <1>1, <2>2, <2>4
  <2> QED BY <1>1, <2>1, <2>4, <2>5, EditInv
<1>5. CASE Up
  <2>1. CASE history_pos < history_count - 1
    <3>1. Recall(history_pos + 1)
      BY <1>5, <2>1 DEF Up
    <3>2. history_pos + 1 \in 0 .. Len(command_history) - 1
      BY <1>1, <2>1 DEF history_count
    <3> QED BY <3>1, <3>2, RecallInv
  <2>2. CASE ~(history_pos < history_count - 1)
    <3> DEFINE text == IF history_pos = -1 THEN SubSeq(input_buffer, 1, input_pos) ELSE input_buffer
    <3>1. EditsLine(text, input_pos) /\ history_pos' = history_pos
      BY <1>5, <2>2 DEF Up
    <3>2. text \in Lines /\ input_pos \in 0 .. Len(text)
      BY <1>1, LineCut
    <3> QED BY <1>1, <3>1, <3>2, EditInv
  <2> QED BY <2>1, <2>2
<1>6. CASE Down
  <2>1. history_pos >= 0 /\ IF history_pos > 0 THEN Recall(history_pos - 1) ELSE EditsLine(<<>>, 0) /\ history_pos' = -1
    BY <1>6 DEF Down
  <2>2. CASE history_pos > 0
    <3>1. history_pos - 1 \in 0 .. Len(command_history) - 1
      BY <1>1, <2>2
    <3> QED BY <2>1, <2>2, <3>1, RecallInv
  <2>3. CASE ~(history_pos > 0)
    BY <1>1, <2>1, <2>3, EmptyLine, EditInv
  <2> QED BY <2>2, <2>3
<1>7. CASE Left
  <2>1. input_pos > 0 /\ EditsLine(input_buffer, input_pos - 1) /\ history_pos' = history_pos
    BY <1>7 DEF Left
  <2>2. input_pos - 1 \in 0 .. Len(input_buffer)
    BY <1>1, <2>1
  <2> QED BY <1>1, <2>1, <2>2, EditInv
<1>8. CASE Right
  <2>1. input_pos < Len(input_buffer) /\ EditsLine(input_buffer, input_pos + 1) /\ history_pos' = history_pos
    BY <1>8 DEF Right
  <2>2. input_pos + 1 \in 0 .. Len(input_buffer)
    BY <1>1, <2>1
  <2> QED BY <1>1, <2>1, <2>2, EditInv
<1> QED BY <1>2, <1>3, <1>4, <1>5, <1>6, <1>7, <1>8

LEMMA TypeInv ==
  ASSUME ShellInv, NEW c \in Keys, Type(c)
  PROVE  ShellInv'
<1>1. /\ input_buffer \in Lines /\ Len(input_buffer) \in Nat
      /\ Len(input_buffer) < MAX_INPUT_LEN /\ MAX_INPUT_LEN \in Nat /\ input_pos \in 0 .. Len(input_buffer)
      /\ Len(command_history) \in Nat
  BY LineTypes
<1>2. history_pos' \in -1 .. Len(command_history) - 1
  BY <1>1 DEF Type
<1>3. CASE ~(Room > 0)
  BY <1>1, <1>2, <1>3, EditInv DEF Type
<1>4. CASE Room > 0
  <2> DEFINE text == Spliced(input_buffer, input_pos, <<c>>)
  <2>1. EditsLine(text, input_pos + 1)
    <3>1. (input_pos + 1) - 1 = input_pos
      BY <1>1
    <3>2. InsertAt(input_buffer, input_pos + 1, c) = text
      BY <3>1 DEF InsertAt, Spliced
    <3> HIDE DEF text
    <3> QED BY <1>4, <3>2 DEF Type
  <2>2. <<c>> \in Seq(Chars) /\ Len(<<c>>) = 1
    <3>1. c \in Chars
      BY DEF Chars
    <3> HIDE DEF Chars
    <3> QED BY <3>1
  <2>3. Len(input_buffer) + 1 < MAX_INPUT_LEN
    BY <1>1, <1>4 DEF Room
  <2>4. text \in Lines /\ Len(text) = Len(input_buffer) + 1
    <3> DEFINE mid == <<c>>
    <3>1. mid \in Seq(Chars) /\ Len(mid) = 1
      BY <2>2
    <3> HIDE DEF mid
    <3>2. Spliced(input_buffer, input_pos, mid) \in Lines /\ Len(Spliced(input_buffer, input_pos, mid)) = Len(input_buffer) + 1
      BY <1>1, <2>3, <3>1, LineSpliced
    <3> QED BY <3>2 DEF mid
  <2> HIDE DEF text
  <2>5. input_pos + 1 \in 0 .. Len(text)
    BY <1>1, <2>4
  <2> QED BY <1>2, <2>1, <2>4, <2>5, EditInv
<1> QED BY <1>3, <1>4

(* Enter: the history goes on with the line exactly when the lines that are *)
(* numbered do.                                                             *)
LEMMA EnterInv ==
  ASSUME ShellInv, NEW garbage, Enter(garbage)
  PROVE  ShellInv'
<1> DEFINE line == SubSeq(input_buffer, 1, input_pos)
<1>1. CASE input_pos = 0
  <2>1. UNCHANGED shellVars
    BY <1>1 DEF Enter
  <2> QED BY <2>1 DEF shellVars, ShellInv, HistoryRecent
<1>2. CASE input_pos # 0
  <2>1. /\ command_history' = add_to_history(line) /\ history_pos' = -1 /\ entered' = Append(entered, line)
        /\ input_buffer' = <<>> /\ input_pos' = 0
    BY <1>2 DEF Enter
  <2>2. line \in Lines
    BY LineTypes, LineCut
  <2> HIDE DEF line
  <2>3. /\ entered \in Seq(Lines) /\ Numbered(Firsts(entered)) /\ command_history = LatestOf(Distinct(entered), MAX_HISTORY)
        /\ entered # <<>> => Distinct(entered) # <<>> /\ Last(Distinct(entered)) = Last(entered)
    BY DEF ShellInv, HistoryRecent
  <2>4. entered' \in Seq(Lines) /\ entered' # <<>> /\ Last(entered') = line
    BY <2>1, <2>2, <2>3 DEF Last
  <2>5. MAX_HISTORY \in Nat \ {0}
    BY ShellAssumption
  <2> DEFINE D == Distinct(entered)
  <2>6. D \in Seq(Lines)
    <3>1. \A k \in 1 .. Cardinality(Firsts(entered)) : entered[Nth(Firsts(entered), k)] \in Lines
      <4>1. \A k \in 1 .. Cardinality(Firsts(entered)) : Nth(Firsts(entered), k) \in Firsts(entered)
        BY <2>3 DEF Nth, Numbered
      <4>2. Firsts(entered) \in SUBSET (1 .. Len(entered))
        BY <2>3, FirstsSet
      <4> QED BY <2>3, <4>1, <4>2
    <3>2. Cardinality(Firsts(entered)) \in Nat
      BY <2>3, FirstsSet
    <3> QED BY <3>1, <3>2 DEF Distinct
  <2>7. entered = <<>> => D = <<>>
    <3> SUFFICES ASSUME entered = <<>> PROVE D = <<>>
      OBVIOUS
    <3>1. Firsts(entered) = {}
      BY DEF Firsts
    <3>2. Cardinality(Firsts(entered)) = 0
      BY <3>1, FS_EmptySet
    <3> QED BY <3>2 DEF Distinct
  <2> HIDE DEF D
  <2>8. /\ command_history \in Seq(Lines) /\ Len(command_history) <= MAX_HISTORY
        /\ Len(command_history) > 0 <=> D # <<>>
        /\ D # <<>> => command_history[Len(command_history)] = D[Len(D)]
        /\ LatestOf(Append(D, line), MAX_HISTORY) =
             IF Len(command_history) < MAX_HISTORY THEN Append(command_history, line)
             ELSE [i \in 1 .. MAX_HISTORY |-> IF i = MAX_HISTORY THEN line ELSE command_history[i + 1]]
    <3>1. command_history = LatestOf(D, MAX_HISTORY)
      BY <2>3 DEF D
    <3> QED BY <2>2, <2>5, <2>6, <3>1, LatestAppend, SMTT(40)
  <2>9. CASE entered # <<>> /\ entered[Len(entered)] = line
    <3>1. Firsts(entered') = Firsts(entered) /\ Distinct(entered') = D
      BY <2>1, <2>2, <2>3, <2>9, EnteredAgain DEF D
    <3>2. D # <<>> /\ D[Len(D)] = line
      BY <2>3, <2>9 DEF Last, D
    <3>3. command_history' = command_history
      BY <2>1, <2>8, <3>2 DEF add_to_history, history_count, Last
    <3>4. Distinct(entered') # <<>> /\ Last(Distinct(entered')) = Last(entered') /\ Numbered(Firsts(entered'))
      BY <2>3, <2>4, <3>1, <3>2 DEF Last
    <3>5. command_history' = LatestOf(Distinct(entered'), MAX_HISTORY) /\ command_history' \in Seq(Lines)
      BY <2>3, <2>8, <3>1, <3>3 DEF D
    <3>6. -1 \in -1 .. Len(command_history') - 1
      BY <3>5
    <3> QED BY <2>1, <2>4, <3>4, <3>5, <3>6, EmptyLine DEF ShellInv, HistoryRecent
  <2>10. CASE ~(entered # <<>> /\ entered[Len(entered)] = line)
    <3>1. Numbered(Firsts(entered')) /\ Distinct(entered') = Append(D, line)
      BY <2>1, <2>2, <2>3, <2>10, EnteredNew DEF D
    <3>2. ~(D # <<>> /\ D[Len(D)] = line)
      BY <2>3, <2>7, <2>10 DEF Last, D
    <3>3. ~(history_count > 0 /\ Last(command_history) = line)
      BY <2>8, <3>2 DEF history_count, Last
    <3>4. command_history' = LatestOf(Append(D, line), MAX_HISTORY)
      BY <2>1, <2>8, <3>3 DEF add_to_history, history_count
    <3>5. Append(D, line) \in Seq(Lines) /\ Append(D, line) # <<>> /\ Append(D, line)[Len(Append(D, line))] = line
      BY <2>2, <2>6
    <3>6. command_history' \in Seq(Lines)
      <4> DEFINE E == Append(D, line)
      <4> HIDE DEF E
      <4>1. E \in Seq(Lines) /\ command_history' = LatestOf(E, MAX_HISTORY)
        BY <3>4, <3>5 DEF E
      <4> QED BY <2>2, <2>5, <4>1, LatestAppend
    <3>7. -1 \in -1 .. Len(command_history') - 1
      BY <3>6
    <3>8. Distinct(entered') # <<>> /\ Last(Distinct(entered')) = Last(entered')
      BY <2>4, <3>1, <3>5 DEF Last
    <3> QED BY <2>1, <2>4, <3>1, <3>4, <3>6, <3>7, <3>8, EmptyLine DEF ShellInv, HistoryRecent
  <2> QED BY <2>9, <2>10
<1> QED BY <1>1, <1>2

LEMMA ShellInitInv == ShellInit => ShellInv
<1> SUFFICES ASSUME ShellInit PROVE ShellInv
  OBVIOUS
<1>1. input_buffer = <<>> /\ input_pos = 0 /\ command_history = <<>> /\ history_pos = -1 /\ entered = <<>>
  BY DEF ShellInit
<1>2. Firsts(entered) = {}
  BY <1>1 DEF Firsts
<1>3. Cardinality(Firsts(entered)) = 0
  BY <1>2, FS_EmptySet
<1>4. Distinct(entered) = <<>> /\ Numbered(Firsts(entered))
  BY <1>3 DEF Distinct, Numbered
<1>5. LatestOf(<<>>, MAX_HISTORY) = <<>>
  <2>1. Len(<<>>) = 0 /\ ~(0 > MAX_HISTORY)
    BY ShellAssumption
  <2> QED BY <2>1, SubSeqEmpty DEF LatestOf
<1>6. <<>> \in Seq(Lines) /\ -1 \in -1 .. Len(<<>>) - 1
  OBVIOUS
<1> QED BY <1>1, <1>4, <1>5, <1>6, EmptyLine DEF ShellInv, HistoryRecent

(* console_handle_key and add_to_history: for arrays of any size, the line  *)
(* and the cursor stay in theirs, and the history is the last lines entered *)
(* without repetitions, whatever was recalled, edited and entered again.    *)
THEOREM LinesCorrect == ShellSpec => []LinesKept
<1>1. ShellInv /\ [ShellNext]_shellVars => ShellInv'
  <2> SUFFICES ASSUME ShellInv, [ShellNext]_shellVars PROVE ShellInv'
    OBVIOUS
  <2>1. CASE UNCHANGED shellVars
    BY <2>1 DEF shellVars, ShellInv, HistoryRecent
  <2>2. CASE ShellNext
    BY <2>2, EnterInv, KeyInv, TypeInv DEF ShellNext
  <2> QED BY <2>1, <2>2
<1>2. ShellInv => LinesKept
  BY DEF ShellInv, LinesKept, LineFits, Lines, history_count
<1> QED BY <1>1, <1>2, ShellInitInv, PTL DEF ShellSpec

-----------------------------------------------------------------------------
(* The editor *)

KeditLines == {line \in Seq(FileBytes) : Len(line) < MAX_LINE_LEN}
Buffers == {ls \in Seq(KeditLines) : Len(ls) <= MAX_LINES}

LEMMA SeqElement ==
  ASSUME NEW S, NEW q \in Seq(S), NEW i \in 1 .. Len(q)
  PROVE  q[i] \in S
OBVIOUS

LEMMA SeqAppend ==
  ASSUME NEW S, NEW q \in Seq(S), NEW e \in S
  PROVE  Append(q, e) \in Seq(S) /\ Len(Append(q, e)) = Len(q) + 1
OBVIOUS

LEMMA SeqConcat ==
  ASSUME NEW S, NEW q \in Seq(S), NEW r \in Seq(S)
  PROVE  q \o r \in Seq(S) /\ Len(q \o r) = Len(q) + Len(r)
OBVIOUS

LEMMA SeqFromTo ==
  ASSUME NEW S, NEW q \in Seq(S), NEW a \in 1 .. Len(q) + 1, NEW b \in 0 .. Len(q), a <= b + 1
  PROVE  SubSeq(q, a, b) \in Seq(S) /\ Len(SubSeq(q, a, b)) = b - a + 1
<1>1. Len(q) \in Nat /\ \A i \in a .. b : q[i] \in S
  OBVIOUS
<1>2. a \in Int /\ b \in Int
  BY <1>1
<1>3. SubSeq(q, a, b) \in Seq(S) /\ Len(SubSeq(q, a, b)) = IF a <= b THEN b - a + 1 ELSE 0
  BY <1>1, <1>2, SubSeqProperties
<1> QED BY <1>1, <1>2, <1>3

(* kedit_load, byte by byte. *)
LoadStates == [done : Buffers, line : KeditLines]

LEMMA EmptyKeditLine == <<>> \in KeditLines /\ <<>> \in Buffers /\ Len(<<>>) = 0
<1>1. <<>> \in Seq(FileBytes) /\ <<>> \in Seq(KeditLines) /\ Len(<<>>) = 0
  OBVIOUS
<1> QED BY <1>1, KeditAssumption DEF KeditLines, Buffers

LEMMA LoadByteFits ==
  ASSUME NEW st \in LoadStates, NEW c \in FileBytes
  PROVE  LoadByte(st, c) \in LoadStates
<1>1. /\ st.done \in Seq(KeditLines) /\ Len(st.done) \in Nat /\ Len(st.done) <= MAX_LINES /\ st.line \in KeditLines
      /\ MAX_LINES \in Nat /\ MAX_LINE_LEN \in Nat
  BY KeditAssumption DEF LoadStates, Buffers
<1>2. st.line \in Seq(FileBytes) /\ Len(st.line) \in Nat
  BY <1>1 DEF KeditLines
<1>3. CASE LoadByte(st, c) = st
  BY <1>3
<1>4. CASE Len(st.done) < MAX_LINES /\ LoadByte(st, c) = [done |-> Append(st.done, st.line), line |-> <<>>]
  <2>1. Append(st.done, st.line) \in Seq(KeditLines) /\ Len(Append(st.done, st.line)) = Len(st.done) + 1
    BY <1>1, SeqAppend
  <2>2. Append(st.done, st.line) \in Buffers
    BY <1>1, <1>4, <2>1 DEF Buffers
  <2> QED BY <1>4, <2>2, EmptyKeditLine DEF LoadStates
<1>5. CASE Len(st.line) < MAX_LINE_LEN - 1 /\ LoadByte(st, c) = [st EXCEPT !.line = Append(@, c)]
  <2> DEFINE longer == Append(st.line, c)
  <2>1. longer \in Seq(FileBytes) /\ Len(longer) = Len(st.line) + 1
    BY <1>2, SeqAppend
  <2>2. longer \in KeditLines
    BY <1>1, <1>2, <1>5, <2>1 DEF KeditLines
  <2>3. LoadByte(st, c) = [st EXCEPT !.line = longer]
    BY <1>5
  <2> HIDE DEF longer
  <2> QED BY <2>2, <2>3 DEF LoadStates
<1>6. Len(st.done) >= MAX_LINES \/ Len(st.done) < MAX_LINES
  BY <1>1
<1> QED BY <1>3, <1>4, <1>5, <1>6 DEF LoadByte

LEMMA LoadingFits ==
  ASSUME NEW content \in Seq(FileBytes), NEW n \in 0 .. Len(content)
  PROVE  Loading(content)[n] \in LoadStates
<1> DEFINE N == Len(content)
           e == [done |-> <<>>, line |-> <<>>]
           P(h) == h = [k \in 0 .. N |-> IF k = 0 THEN e ELSE LoadByte(h[k - 1], content[k])]
           F == [x \in LoadStates \X (1 .. N) |-> LoadByte(x[1], content[x[2]])]
<1>1. N \in Nat /\ \A k \in 1 .. N : content[k] \in FileBytes
  OBVIOUS
<1>2. e \in LoadStates
  BY EmptyKeditLine DEF LoadStates
<1>3. F \in [LoadStates \X (1 .. N) -> LoadStates]
  BY <1>1, LoadByteFits
<1>4. \A st \in LoadStates, k \in 1 .. N : F[<<st, k>>] = LoadByte(st, content[k])
  OBVIOUS
<1>5. Loading(content) = CHOOSE h : P(h)
  BY DEF Loading
<1> HIDE DEF N, e, F
<1>6. PICK g \in [0 .. N -> LoadStates] : IsRun(g, N, e, F)
  BY <1>1, <1>2, <1>3, LoopRuns
<1>7. P(g)
  <2>1. \A k \in 0 .. N : k # 0 => k \in 1 .. N /\ g[k - 1] \in LoadStates
    BY <1>1
  <2>2. \A k \in 0 .. N : g[k] = IF k = 0 THEN e ELSE LoadByte(g[k - 1], content[k])
    BY <1>4, <1>6, <2>1 DEF IsRun
  <2> QED BY <2>2
<1> DEFINE after == Loading(content)
<1>8. P(after)
  <2> HIDE DEF P
  <2> QED BY <1>5, <1>7
<1> HIDE DEF after
<1>9. \A k \in 0 .. N : after[k] = IF k = 0 THEN e ELSE LoadByte(after[k - 1], content[k])
  BY <1>8
<1>10. after[0] \in LoadStates /\ \A k \in 1 .. N : after[k - 1] \in LoadStates => after[k] \in LoadStates
  BY <1>1, <1>2, <1>9, LoadByteFits, SMTT(40)
<1>11. \A k \in 0 .. N : after[k] \in LoadStates
  BY <1>1, <1>10, LoopStays
<1> QED BY <1>11 DEF N, after

LEMMA LoadedFits ==
  ASSUME NEW content \in Seq(FileBytes)
  PROVE  Loaded(content) \in Buffers /\ Loaded(content) # <<>>
<1> DEFINE st == Loading(content)[Len(content)]
           all == IF st.line # <<>> /\ Len(st.done) < MAX_LINES THEN Append(st.done, st.line) ELSE st.done
<1>1. st \in LoadStates
  <2>1. Len(content) \in 0 .. Len(content)
    OBVIOUS
  <2> QED BY <2>1, LoadingFits
<1>2. Loaded(content) = IF all = <<>> THEN <<<<>>>> ELSE all
  BY DEF Loaded
<1> HIDE DEF st
<1>3. /\ st.done \in Seq(KeditLines) /\ Len(st.done) \in Nat /\ Len(st.done) <= MAX_LINES /\ st.line \in KeditLines
      /\ MAX_LINES \in Nat /\ MAX_LINES > 1
  BY <1>1, KeditAssumption DEF LoadStates, Buffers
<1>4. all \in Buffers
  <2>1. Append(st.done, st.line) \in Seq(KeditLines) /\ Len(Append(st.done, st.line)) = Len(st.done) + 1
    BY <1>3, SeqAppend
  <2> QED BY <1>3, <2>1 DEF Buffers
<1> DEFINE one == <<>>
           empty == <<one>>
<1>5. one \in KeditLines
  BY EmptyKeditLine
<1> HIDE DEF all, one
<1>6. empty \in Seq(KeditLines) /\ Len(empty) = 1 /\ empty # <<>>
  BY <1>5
<1>7. empty \in Buffers
  BY <1>3, <1>6 DEF Buffers
<1> HIDE DEF empty
<1>8. Loaded(content) = IF all = <<>> THEN empty ELSE all
  BY <1>2 DEF empty, one
<1> QED BY <1>4, <1>6, <1>7, <1>8

(* kedit_save, write by write. *)
SaveStates == [content : Seq(FileBytes), pos : Nat]

LEMMA WrittenFits ==
  ASSUME NEW st \in SaveStates, NEW bytes \in Seq(FileBytes)
  PROVE  Written(st, bytes) \in SaveStates
<1> DEFINE c == st.content
           p == st.pos
           n == LargerOf(Len(c), p + Len(bytes))
<1>1. c \in Seq(FileBytes) /\ p \in Nat /\ Len(c) \in Nat /\ Len(bytes) \in Nat /\ n \in Nat
  BY DEF SaveStates, LargerOf
<1>2. JUNK \in FileBytes
  BY DEF FileBytes
<1>3. Written(st, bytes) = [content |-> Overwrite(c, p, bytes), pos |-> p + Len(bytes)]
  BY DEF Written
<1>4. Overwrite(c, p, bytes) = [i \in 1 .. n |-> IF i > p /\ i <= p + Len(bytes) THEN bytes[i - p]
                                                 ELSE IF i <= Len(c) THEN c[i] ELSE JUNK]
  BY DEF Overwrite
<1> HIDE DEF n, c, p
<1>5. \A i \in 1 .. n : (IF i > p /\ i <= p + Len(bytes) THEN bytes[i - p]
                         ELSE IF i <= Len(c) THEN c[i] ELSE JUNK) \in FileBytes
  BY <1>1, <1>2
<1>6. Overwrite(c, p, bytes) \in Seq(FileBytes)
  BY <1>1, <1>4, <1>5
<1> QED BY <1>1, <1>3, <1>6 DEF SaveStates

LEMMA SavedFits ==
  ASSUME KeditInv, in_kedit, NEW content \in Seq(FileBytes), NEW lost
  PROVE  AfterWrites(content, lost) \in Seq(FileBytes)
<1> DEFINE N == 2 * line_count - 1
           e == [content |-> content, pos |-> 0]
           G(st, k) == IF k \in lost THEN st ELSE Written(st, Writes[k])
           P(h) == h = [k \in 0 .. N |-> IF k = 0 THEN e ELSE G(h[k - 1], k)]
           F == [x \in SaveStates \X (1 .. N) |-> G(x[1], x[2])]
<1>1. line_count \in Nat \ {0} /\ lines \in Seq(Seq(FileBytes))
  BY DEF KeditInv, CursorInside, line_count
<1>2. N \in Nat
  BY <1>1
<1>3. \A k \in 1 .. N : Writes[k] \in Seq(FileBytes)
  <2> TAKE k \in 1 .. N
  <2>1. Writes[k] = IF k % 2 = 0 THEN <<NL>> ELSE lines[(k + 1) \div 2]
    BY DEF Writes
  <2>2. NL \in FileBytes
    BY DEF FileBytes
  <2>3. <<NL>> \in Seq(FileBytes)
    BY <2>2
  <2>4. (k + 1) \div 2 \in 1 .. Len(lines)
    BY <1>1, <1>2 DEF line_count
  <2> QED BY <1>1, <2>1, <2>3, <2>4
<1>4. e \in SaveStates
  BY DEF SaveStates
<1>5. \A st \in SaveStates, k \in 1 .. N : G(st, k) \in SaveStates
  BY <1>3, WrittenFits
<1> HIDE DEF G
<1>6. F \in [SaveStates \X (1 .. N) -> SaveStates]
  BY <1>5
<1>7. \A st \in SaveStates, k \in 1 .. N : F[<<st, k>>] = G(st, k)
  OBVIOUS
<1> DEFINE after == Saving(content, lost)
<1>8. after = CHOOSE h : P(h)
  BY DEF Saving, G
<1> HIDE DEF N, e, F, after
<1>9. PICK g \in [0 .. N -> SaveStates] : IsRun(g, N, e, F)
  BY <1>2, <1>4, <1>6, LoopRuns
<1>10. P(g)
  <2>1. \A k \in 0 .. N : k # 0 => k \in 1 .. N /\ g[k - 1] \in SaveStates
    BY <1>2
  <2>2. \A k \in 0 .. N : g[k] = IF k = 0 THEN e ELSE G(g[k - 1], k)
    BY <1>7, <1>9, <2>1 DEF IsRun
  <2> QED BY <2>2
<1>11. P(after)
  <2> HIDE DEF P
  <2> QED BY <1>8, <1>10
<1>12. \A k \in 0 .. N : after[k] = IF k = 0 THEN e ELSE G(after[k - 1], k)
  BY <1>11
<1>13. after[0] \in SaveStates /\ \A k \in 1 .. N : after[k - 1] \in SaveStates => after[k] \in SaveStates
  BY <1>2, <1>4, <1>5, <1>12
<1>14. \A k \in 0 .. N : after[k] \in SaveStates
  BY <1>2, <1>13, LoopStays
<1>15. after[N] \in SaveStates /\ AfterWrites(content, lost) = after[N].content
  BY <1>2, <1>14 DEF AfterWrites, after, N
<1> QED BY <1>15 DEF SaveStates

-----------------------------------------------------------------------------
LEMMA KeditTypes ==
  ASSUME KeditInv, in_kedit
  PROVE  /\ lines \in Seq(Seq(FileBytes)) /\ Len(lines) \in Nat /\ Len(lines) <= MAX_LINES
         /\ edit_cursor_y \in 1 .. Len(lines) /\ Line \in Seq(FileBytes) /\ Len(Line) \in Nat
         /\ edit_cursor_x \in 0 .. Len(Line) /\ Len(Line) < MAX_LINE_LEN
         /\ \A i \in 1 .. Len(lines) : lines[i] \in Seq(FileBytes) /\ Len(lines[i]) < MAX_LINE_LEN /\ Len(lines[i]) \in Nat
         /\ MAX_LINES \in Nat /\ MAX_LINES > 1 /\ MAX_LINE_LEN \in Nat /\ MAX_LINE_LEN > 1
<1>1. /\ lines \in Seq(Seq(FileBytes)) /\ Len(lines) \in Nat /\ Len(lines) <= MAX_LINES
      /\ edit_cursor_y \in 1 .. Len(lines) /\ edit_cursor_x \in 0 .. Len(Line)
      /\ \A i \in 1 .. Len(lines) : Len(lines[i]) < MAX_LINE_LEN
  BY DEF KeditInv, CursorInside, line_count
<1>2. \A i \in 1 .. Len(lines) : lines[i] \in Seq(FileBytes) /\ Len(lines[i]) \in Nat
  BY <1>1
<1> QED BY <1>1, <1>2, KeditAssumption DEF Line

(* What the buffer and the cursor have to be after an edit. *)
LEMMA EditsInv ==
  ASSUME KeditInv, NEW ls \in Seq(Seq(FileBytes)), NEW y \in 1 .. Len(ls), NEW x \in 0 .. Len(ls[y]),
         Len(ls) <= MAX_LINES, \A i \in 1 .. Len(ls) : Len(ls[i]) < MAX_LINE_LEN,
         lines' = ls, edit_cursor_x' = x, edit_cursor_y' = y, file' = file
  PROVE  KeditInv'
BY DEF KeditInv, CursorInside, line_count, Line
(* A function on 1 .. n whose values are all in S is a sequence of n of them. *)
LEMMA SeqOfValues ==
    ASSUME NEW S, NEW n \in Nat, NEW q, q = [i \in 1 .. n |-> q[i]], \A i \in 1 .. n : q[i] \in S
    PROVE  q \in Seq(S) /\ Len(q) = n
OBVIOUS


LEMMA KeditOpens == KeditInv /\ (\E opens \in BOOLEAN : cmd_kedit(opens)) => KeditInv'
<1> SUFFICES ASSUME KeditInv, NEW opens \in BOOLEAN, cmd_kedit(opens) PROVE KeditInv'
  OBVIOUS
<1>1. lines' \in Buffers /\ lines' # <<>>
  <2>1. CASE opens /\ file # NoFile
    BY <2>1, LoadedFits DEF cmd_kedit, KeditInv
  <2>2. CASE ~(opens /\ file # NoFile)
    <3> DEFINE one == <<>>
               empty == <<one>>
    <3>1. one \in KeditLines /\ lines' = empty
      BY <2>2, EmptyKeditLine DEF cmd_kedit
    <3> HIDE DEF one
    <3>2. empty \in Seq(KeditLines) /\ Len(empty) = 1 /\ empty # <<>>
      BY <3>1
    <3> QED BY <3>1, <3>2, KeditAssumption DEF Buffers
  <2> QED BY <2>1, <2>2
<1> DEFINE ls == lines'
<1>2. ls \in Seq(KeditLines) /\ Len(ls) \in Nat /\ Len(ls) <= MAX_LINES /\ ls # <<>>
  BY <1>1 DEF Buffers
<1>3. 1 \in 1 .. Len(ls)
  <2> HIDE DEF ls
  <2> QED BY <1>2
<1>4. \A i \in 1 .. Len(ls) : ls[i] \in Seq(FileBytes) /\ Len(ls[i]) < MAX_LINE_LEN /\ Len(ls[i]) \in Nat
  <2> HIDE DEF ls
  <2>1. \A i \in 1 .. Len(ls) : ls[i] \in KeditLines
    BY <1>2
  <2> QED BY <2>1 DEF KeditLines
<1>5. ls \in Seq(Seq(FileBytes))
  <2> HIDE DEF ls
  <2>1. \A i \in 1 .. Len(ls) : ls[i] \in Seq(FileBytes)
    BY <1>4
  <2> QED BY <1>2, <2>1
<1>6. edit_cursor_x' = 0 /\ edit_cursor_y' = 1 /\ file' = file
  BY DEF cmd_kedit
<1> QED BY <1>2, <1>3, <1>4, <1>5, <1>6 DEF KeditInv, CursorInside, line_count, Line

LEMMA KeditSaves ==
  ASSUME KeditInv, NEW opens \in BOOLEAN, NEW lost, kedit_save(opens, lost)
  PROVE  KeditInv'
<1>1. in_kedit /\ UNCHANGED <<lines, edit_cursor_x, edit_cursor_y, in_kedit>>
  BY DEF kedit_save
<1>2. file' \in Seq(FileBytes) \cup {NoFile}
  <2>1. CASE opens
    <3> DEFINE content == IF file = NoFile THEN <<>> ELSE file
    <3>1. content \in Seq(FileBytes)
      BY DEF KeditInv
    <3>2. file' = AfterWrites(content, lost)
      BY <2>1 DEF kedit_save
    <3> HIDE DEF content
    <3> QED BY <1>1, <3>1, <3>2, SavedFits
  <2>2. CASE ~opens
    BY <2>2 DEF kedit_save, KeditInv
  <2> QED BY <2>1, <2>2
<1> QED BY <1>1, <1>2 DEF KeditInv, CursorInside, line_count, Line

(* The buffer with one line replaced. *)
LEMMA LineReplaced ==
  ASSUME KeditInv, in_kedit, NEW line \in Seq(FileBytes), Len(line) < MAX_LINE_LEN
  PROVE  LET ls == [lines EXCEPT ![edit_cursor_y] = line] IN
         /\ ls \in Seq(Seq(FileBytes)) /\ Len(ls) = Len(lines) /\ ls[edit_cursor_y] = line
         /\ \A i \in 1 .. Len(ls) : Len(ls[i]) < MAX_LINE_LEN
<1>1. /\ lines \in Seq(Seq(FileBytes)) /\ Len(lines) \in Nat /\ edit_cursor_y \in 1 .. Len(lines)
      /\ \A i \in 1 .. Len(lines) : Len(lines[i]) < MAX_LINE_LEN
  BY KeditTypes
<1> DEFINE ls == [lines EXCEPT ![edit_cursor_y] = line]
<1>2. ls \in Seq(Seq(FileBytes)) /\ Len(ls) = Len(lines)
  BY <1>1
<1>3. \A i \in 1 .. Len(ls) : ls[i] = IF i = edit_cursor_y THEN line ELSE lines[i]
  BY <1>1
<1> HIDE DEF ls
<1>4. \A i \in 1 .. Len(ls) : Len(ls[i]) < MAX_LINE_LEN
  BY <1>1, <1>2, <1>3
<1>5. ls[edit_cursor_y] = line
  BY <1>1, <1>2, <1>3
<1> QED BY <1>2, <1>4, <1>5 DEF ls

LEMMA KeditInserts ==
  ASSUME KeditInv, NEW c \in EditKeys, kedit_insert_char(c)
  PROVE  KeditInv'
<1>1. in_kedit
  BY DEF kedit_insert_char
<1>2. CASE Ignored
  BY <1>2 DEF Ignored, KeditInv, CursorInside, line_count, Line
<1> DEFINE one == SubSeq(Line, 1, edit_cursor_x)
           two == SubSeq(Line, edit_cursor_x + 1, Len(Line))
           mid == <<c>>
           line == (one \o mid) \o two
           ls == [lines EXCEPT ![edit_cursor_y] = line]
<1>3. CASE ~(edit_cursor_x >= MAX_LINE_LEN - 1 \/ Len(Line) >= MAX_LINE_LEN - 1) /\ Edits(ls, edit_cursor_x + 1, edit_cursor_y)
  <2>1. /\ Line \in Seq(FileBytes) /\ Len(Line) \in Nat /\ edit_cursor_x \in 0 .. Len(Line) /\ MAX_LINE_LEN \in Nat
        /\ edit_cursor_y \in 1 .. Len(lines) /\ Len(lines) \in Nat /\ Len(lines) <= MAX_LINES
    BY <1>1, KeditTypes
  <2>2. one \in Seq(FileBytes) /\ Len(one) = edit_cursor_x
    BY <2>1, SeqFromTo
  <2>3. two \in Seq(FileBytes) /\ Len(two) = Len(Line) - edit_cursor_x
    BY <2>1, SeqFromTo
  <2>4. mid \in Seq(FileBytes) /\ Len(mid) = 1
    <3>1. c \in FileBytes
      BY DEF FileBytes
    <3> QED BY <3>1
  <2> DEFINE start == one \o mid
  <2> HIDE DEF one, two, mid
  <2>5. start \in Seq(FileBytes) /\ Len(start) = edit_cursor_x + 1
    BY <2>1, <2>2, <2>4, SeqConcat
  <2> HIDE DEF start
  <2>6. start \o two \in Seq(FileBytes) /\ Len(start \o two) = Len(Line) + 1
    BY <2>1, <2>3, <2>5, SeqConcat
  <2>7. line \in Seq(FileBytes) /\ Len(line) = Len(Line) + 1 /\ Len(line) < MAX_LINE_LEN
    BY <1>3, <2>1, <2>6 DEF start
  <2> HIDE DEF line
  <2>8. /\ ls \in Seq(Seq(FileBytes)) /\ Len(ls) = Len(lines) /\ ls[edit_cursor_y] = line
        /\ \A i \in 1 .. Len(ls) : Len(ls[i]) < MAX_LINE_LEN
    BY <1>1, <2>7, LineReplaced
  <2>9. lines' = ls /\ edit_cursor_x' = edit_cursor_x + 1 /\ edit_cursor_y' = edit_cursor_y /\ file' = file
    BY <1>3 DEF Edits
  <2> HIDE DEF ls
  <2>10. edit_cursor_x + 1 \in 0 .. Len(ls[edit_cursor_y]) /\ edit_cursor_y \in 1 .. Len(ls)
    BY <2>1, <2>7, <2>8
  <2> QED BY <2>1, <2>8, <2>9, <2>10, EditsInv
<1>4. InsertAt(Line, edit_cursor_x + 1, c) = line
  <2>1. (edit_cursor_x + 1) - 1 = edit_cursor_x
    BY <1>1, KeditTypes
  <2> QED BY <2>1 DEF InsertAt
<1>5. \/ Ignored
      \/ /\ ~(edit_cursor_x >= MAX_LINE_LEN - 1 \/ Len(Line) >= MAX_LINE_LEN - 1)
         /\ Edits([lines EXCEPT ![edit_cursor_y] = InsertAt(Line, edit_cursor_x + 1, c)], edit_cursor_x + 1, edit_cursor_y)
  BY Zenon DEF kedit_insert_char
<1> HIDE DEF line
<1> QED BY <1>2, <1>3, <1>4, <1>5

LEMMA KeditMoves ==
  ASSUME KeditInv, NEW dx \in Int, NEW dy \in Int, kedit_move_cursor(dx, dy)
  PROVE  KeditInv'
<1> DEFINE y == SmallerOf(LargerOf(1, edit_cursor_y + dy), line_count)
<1>1. in_kedit /\ edit_cursor_y' = y /\ edit_cursor_x' = ClampedX(edit_cursor_x + dx, y) /\ UNCHANGED <<file, lines>>
  BY DEF kedit_move_cursor
<1>2. /\ lines \in Seq(Seq(FileBytes)) /\ Len(lines) \in Nat /\ Len(lines) <= MAX_LINES
      /\ edit_cursor_y \in 1 .. Len(lines) /\ edit_cursor_x \in Int
      /\ \A i \in 1 .. Len(lines) : Len(lines[i]) < MAX_LINE_LEN /\ Len(lines[i]) \in Nat
  <2>1. /\ lines \in Seq(Seq(FileBytes)) /\ Len(lines) \in Nat /\ Len(lines) <= MAX_LINES
        /\ edit_cursor_y \in 1 .. Len(lines)
        /\ edit_cursor_x \in 0 .. Len(Line) /\ Len(Line) \in Nat
        /\ \A i \in 1 .. Len(lines) : Len(lines[i]) < MAX_LINE_LEN /\ Len(lines[i]) \in Nat
    BY <1>1, KeditTypes
  <2> QED BY <2>1
<1>3. y \in 1 .. Len(lines)
  BY <1>2 DEF SmallerOf, LargerOf, line_count
<1> HIDE DEF y
<1>4. ClampedX(edit_cursor_x + dx, y) \in 0 .. Len(lines[y])
  BY <1>2, <1>3 DEF ClampedX, SmallerOf, LargerOf
<1> QED BY <1>1, <1>2, <1>3, <1>4, EditsInv

LEMMA KeditDeletes == KeditInv /\ kedit_delete_char => KeditInv'
<1> SUFFICES ASSUME KeditInv, kedit_delete_char PROVE KeditInv'
  OBVIOUS
<1>1. in_kedit
  BY DEF kedit_delete_char
<1>2. /\ lines \in Seq(Seq(FileBytes)) /\ Len(lines) \in Nat /\ Len(lines) <= MAX_LINES
      /\ edit_cursor_y \in 1 .. Len(lines) /\ Line \in Seq(FileBytes) /\ Len(Line) \in Nat
      /\ edit_cursor_x \in 0 .. Len(Line) /\ Len(Line) < MAX_LINE_LEN /\ MAX_LINE_LEN \in Nat
      /\ \A i \in 1 .. Len(lines) : lines[i] \in Seq(FileBytes) /\ Len(lines[i]) < MAX_LINE_LEN /\ Len(lines[i]) \in Nat
  BY <1>1, KeditTypes
<1> DEFINE one == SubSeq(Line, 1, edit_cursor_x - 1)
           two == SubSeq(Line, edit_cursor_x + 1, Len(Line))
           line == one \o two
           less == [lines EXCEPT ![edit_cursor_y] = line]
           up == edit_cursor_y - 1
           joined == [i \in 1 .. line_count - 1 |->
                        IF i < edit_cursor_y - 1 THEN lines[i]
                        ELSE IF i = edit_cursor_y - 1 THEN lines[i] \o Line ELSE lines[i + 1]]
<1>3. CASE edit_cursor_x > 0 /\ Edits(less, edit_cursor_x - 1, edit_cursor_y)
  <2>1. one \in Seq(FileBytes) /\ Len(one) = edit_cursor_x - 1
    BY <1>2, <1>3, SeqFromTo
  <2>2. two \in Seq(FileBytes) /\ Len(two) = Len(Line) - edit_cursor_x
    BY <1>2, <1>3, SeqFromTo
  <2> HIDE DEF one, two
  <2>3. line \in Seq(FileBytes) /\ Len(line) = Len(Line) - 1 /\ Len(line) < MAX_LINE_LEN
    <3>1. line \in Seq(FileBytes) /\ Len(line) = Len(one) + Len(two)
      BY <2>1, <2>2, SeqConcat
    <3> HIDE DEF line
    <3> QED BY <1>2, <2>1, <2>2, <3>1
  <2> HIDE DEF line
  <2>4. /\ less \in Seq(Seq(FileBytes)) /\ Len(less) = Len(lines) /\ less[edit_cursor_y] = line
        /\ \A i \in 1 .. Len(less) : Len(less[i]) < MAX_LINE_LEN
    BY <1>1, <2>3, LineReplaced
  <2>5. lines' = less /\ edit_cursor_x' = edit_cursor_x - 1 /\ edit_cursor_y' = edit_cursor_y /\ file' = file
    BY <1>3 DEF Edits
  <2> HIDE DEF less
  <2>6. edit_cursor_x - 1 \in 0 .. Len(less[edit_cursor_y]) /\ edit_cursor_y \in 1 .. Len(less)
    BY <1>2, <1>3, <2>3, <2>4
  <2> QED BY <1>2, <2>4, <2>5, <2>6, EditsInv
<1>4. CASE Joins /\ Edits(joined, Len(lines[edit_cursor_y - 1]), edit_cursor_y - 1)
  <2>1. /\ up \in 1 .. Len(lines) - 1 /\ lines[up] \in Seq(FileBytes) /\ Len(lines[up]) \in Nat
        /\ Len(lines[up]) + Len(Line) < MAX_LINE_LEN
    BY <1>2, <1>4 DEF Joins
  <2>2. lines[up] \o Line \in Seq(FileBytes) /\ Len(lines[up] \o Line) = Len(lines[up]) + Len(Line)
    BY <1>2, <2>1, SeqConcat
  <2>3. lines' = joined /\ edit_cursor_x' = Len(lines[up]) /\ edit_cursor_y' = up /\ file' = file
    BY <1>4 DEF Edits
  <2> DEFINE all == lines[up] \o Line
             n == Len(lines) - 1
  <2>4. joined = [i \in 1 .. n |-> IF i < up THEN lines[i] ELSE IF i = up THEN all ELSE lines[i + 1]]
    BY <1>2 DEF line_count
  <2>5. all \in Seq(FileBytes) /\ Len(all) < MAX_LINE_LEN /\ Len(lines[up]) \in 0 .. Len(all)
    BY <1>2, <2>1, <2>2
  <2> HIDE DEF all, joined, up
  <2>6. n \in Nat /\ up \in 1 .. n
    BY <1>2, <2>1
  <2>7. \A i \in 1 .. n : i \in 1 .. Len(lines) /\ i + 1 \in 1 .. Len(lines)
    BY <1>2
  <2> HIDE DEF n
  <2>8. \A i \in 1 .. n : joined[i] \in Seq(FileBytes) /\ Len(joined[i]) < MAX_LINE_LEN
    BY <1>2, <2>4, <2>5, <2>7
  <2>9. joined \in Seq(Seq(FileBytes)) /\ Len(joined) = n
    <3>1. joined = [i \in 1 .. n |-> joined[i]]
      BY <2>4
    <3> QED BY <2>6, <2>8, <3>1
  <2>10. joined[up] = all
    BY <2>4, <2>6, <1>2, <2>1
  <2>11. Len(joined) <= MAX_LINES
    BY <1>2, <2>9, KeditAssumption DEF n
  <2> QED BY <2>3, <2>5, <2>6, <2>8, <2>9, <2>10, <2>11, EditsInv
<1>5. CASE Edits(lines, edit_cursor_x, edit_cursor_y)
  BY <1>5 DEF Edits, KeditInv, CursorInside, line_count, Line
<1>6. RemoveAt(Line, edit_cursor_x) = line
  BY DEF RemoveAt
<1>7. \/ edit_cursor_x > 0 /\ Edits([lines EXCEPT ![edit_cursor_y] = RemoveAt(Line, edit_cursor_x)], edit_cursor_x - 1, edit_cursor_y)
      \/ Joins /\ Edits(joined, Len(lines[edit_cursor_y - 1]), edit_cursor_y - 1)
      \/ Edits(lines, edit_cursor_x, edit_cursor_y)
  BY Zenon DEF kedit_delete_char
<1> HIDE DEF line, joined
<1> QED BY <1>3, <1>4, <1>5, <1>6, <1>7

LEMMA KeditSplits == KeditInv /\ kedit_new_line => KeditInv'
<1> SUFFICES ASSUME KeditInv, kedit_new_line PROVE KeditInv'
  OBVIOUS
<1>1. in_kedit
  BY DEF kedit_new_line
<1>2. /\ lines \in Seq(Seq(FileBytes)) /\ Len(lines) \in Nat /\ Len(lines) <= MAX_LINES /\ MAX_LINES \in Nat
      /\ edit_cursor_y \in 1 .. Len(lines) /\ Line \in Seq(FileBytes) /\ Len(Line) \in Nat
      /\ edit_cursor_x \in 0 .. Len(Line) /\ Len(Line) < MAX_LINE_LEN /\ MAX_LINE_LEN \in Nat
      /\ \A i \in 1 .. Len(lines) : lines[i] \in Seq(FileBytes) /\ Len(lines[i]) < MAX_LINE_LEN /\ Len(lines[i]) \in Nat
  BY <1>1, KeditTypes
<1>3. CASE Ignored
  BY <1>3 DEF Ignored, KeditInv, CursorInside, line_count, Line
<1>4. CASE line_count < MAX_LINES /\ Edits(SplitLines, 0, edit_cursor_y + 1)
  <2> DEFINE y == edit_cursor_y
             one == SubSeq(Line, 1, edit_cursor_x)
             two == SubSeq(Line, edit_cursor_x + 1, Len(Line))
             n == Len(lines) + 1
             ls == SplitLines
  <2>1. one \in Seq(FileBytes) /\ Len(one) < MAX_LINE_LEN
    <3>1. one \in Seq(FileBytes) /\ Len(one) = edit_cursor_x
      BY <1>2, SeqFromTo
    <3> HIDE DEF one
    <3> QED BY <1>2, <3>1
  <2>2. two \in Seq(FileBytes) /\ Len(two) < MAX_LINE_LEN /\ Len(two) \in Nat
    <3>1. two \in Seq(FileBytes) /\ Len(two) = Len(Line) - edit_cursor_x
      BY <1>2, SeqFromTo
    <3> HIDE DEF two
    <3> QED BY <1>2, <3>1
  <2>3. ls = [i \in 1 .. n |-> IF i < y THEN lines[i] ELSE IF i = y THEN one ELSE IF i = y + 1 THEN two ELSE lines[i - 1]]
    BY DEF SplitLines, line_count
  <2>4. lines' = ls /\ edit_cursor_x' = 0 /\ edit_cursor_y' = y + 1 /\ file' = file
    BY <1>4 DEF Edits
  <2> HIDE DEF one, two, ls
  <2>5. n \in Nat /\ n <= MAX_LINES /\ y + 1 \in 1 .. n /\ y \in 1 .. Len(lines)
    BY <1>2, <1>4 DEF line_count
  <2>6. \A i \in 1 .. n : (i < y => i \in 1 .. Len(lines)) /\ (~(i < y) /\ i # y => i - 1 \in 1 .. Len(lines))
    BY <1>2
  <2> HIDE DEF n, y
  <2>7. \A i \in 1 .. n : ls[i] \in Seq(FileBytes) /\ Len(ls[i]) < MAX_LINE_LEN
    BY <1>2, <2>1, <2>2, <2>3, <2>6
  <2>8. ls \in Seq(Seq(FileBytes)) /\ Len(ls) = n
    <3>1. ls = [i \in 1 .. n |-> ls[i]]
      BY <2>3
    <3> QED BY <2>5, <2>7, <3>1, SeqOfValues
  <2>9. ls[y + 1] = two
    BY <1>2, <2>3, <2>5
  <2>10. 0 \in 0 .. Len(ls[y + 1])
    BY <2>2, <2>9
  <2> QED BY <2>4, <2>5, <2>7, <2>8, <2>10, EditsInv
<1>5. Ignored \/ (~(line_count >= MAX_LINES) /\ Edits(SplitLines, 0, edit_cursor_y + 1))
  BY Zenon DEF kedit_new_line
<1>6. ~(line_count >= MAX_LINES) => line_count < MAX_LINES
  BY <1>2 DEF line_count
<1> QED BY <1>3, <1>4, <1>5, <1>6

(* kedit_load, kedit_save and the edits in any order, of any files: the     *)
(* cursor is always on a line and not beyond its end, and neither the lines *)
(* nor any one of them outgrow their arrays.                                *)
THEOREM CursorCorrect == KeditSpec => []CursorInside
<1>1. KeditInit => KeditInv
  <2> SUFFICES ASSUME KeditInit PROVE KeditInv
    OBVIOUS
  <2>1. file \in Seq(FileBytes) \cup {NoFile}
    BY KeditAssumption DEF KeditInit
  <2> QED BY <2>1 DEF KeditInit, KeditInv, CursorInside
<1>2. KeditInv /\ [KeditNext]_keditVars => KeditInv'
  <2> SUFFICES ASSUME KeditInv, [KeditNext]_keditVars PROVE KeditInv'
    OBVIOUS
  <2>1. CASE UNCHANGED keditVars
    BY <2>1 DEF keditVars, KeditInv, CursorInside, line_count, Line
  <2>2. CASE Quit
    BY <2>2 DEF Quit, KeditInv, CursorInside, line_count, Line
  <2>3. ASSUME NEW d \in {<<0, -1>>, <<0, 1>>, <<-1, 0>>, <<1, 0>>}, kedit_move_cursor(d[1], d[2]) PROVE KeditInv'
    <3>1. d[1] \in Int /\ d[2] \in Int
      OBVIOUS
    <3> QED BY <2>3, <3>1, KeditMoves
  <2> QED BY <2>1, <2>2, <2>3, KeditOpens, KeditSaves, KeditInserts, KeditDeletes, KeditSplits DEF KeditNext
<1>3. KeditInv => CursorInside
  BY DEF KeditInv
<1> QED BY <1>1, <1>2, <1>3, PTL DEF KeditSpec

-----------------------------------------------------------------------------
(* The terminal windows of the GUI *)

TermText == Seq(Printable)

(* A row whose last character is NUL, so that every string in it ends. *)
EndedRows == {row \in [1 .. GUI_OUTPUT_COLS -> Printable \cup {NUL}] : row[GUI_OUTPUT_COLS] = NUL}
TermRows == [1 .. GUI_OUTPUT_LINES -> EndedRows]

(* The row holds the text s behind its first p characters, and its NUL. *)
Holds(row, p, s) ==
  /\ p + Len(s) < GUI_OUTPUT_COLS
  /\ \A i \in 1 .. Len(s) : row[p + i] = s[i]
  /\ row[p + Len(s) + 1] = NUL

TermTypes ==
  /\ dir \in DOMAIN Prompts /\ Len(Prompts[dir]) < PROMPT_SIZE /\ window_width_chars \in [Terms -> Widths]
  /\ output_buffer \in [Terms -> TermRows] /\ output_line_count \in [Terms -> 1 .. GUI_OUTPUT_LINES]
  /\ term_pos \in [Terms -> 0 .. GUI_OUTPUT_COLS - 1] /\ typed \in [Terms -> TermText] /\ shown \in [Terms -> Nat]
  /\ mixed \in [Terms -> BOOLEAN] /\ printed \in [Terms -> Seq(TermText)]

(* The rows of a window above the one being typed are the lines printed. *)
RowsHold(t) ==
  /\ Len(printed[t]) = output_line_count[t]
  /\ \A i \in 1 .. output_line_count[t] - 1 : Holds(output_buffer[t][i], 0, Cut(printed[t][i]))

(* Behind the prompt that was shown, the last row is what was typed. *)
TypedHolds(t) ==
  ~mixed[t] => /\ term_pos[t] = shown[t] + Len(typed[t])
               /\ Holds(LastRow(t), shown[t], typed[t])

TermInv == TermTypes /\ \A t \in Terms : RowsHold(t) /\ TypedHolds(t)

(* The sizes of rows. *)
LEMMA TermSizes ==
  /\ GUI_OUTPUT_COLS \in Nat \ {0} /\ GUI_OUTPUT_LINES \in Nat \ {0} /\ NUL \notin Printable
  /\ \A c \in DOMAIN Prompts : Prompts[c] \in TermText /\ Len(Prompts[c]) \in Nat
                              /\ (Len(Prompts[c]) < PROMPT_SIZE => Len(Prompts[c]) < GUI_OUTPUT_COLS)
  /\ 1 \in DOMAIN Prompts /\ Len(Prompts[1]) < PROMPT_SIZE
<1>1. \A c \in DOMAIN Prompts : Prompts[c] \in TermText /\ Len(Prompts[c]) \in Nat
  BY TerminalAssumption DEF TermText
<1>2. 1 \in DOMAIN Prompts
  BY TerminalAssumption
<1>3. \A c \in DOMAIN Prompts : Len(Prompts[c]) < PROMPT_SIZE => Len(Prompts[c]) < GUI_OUTPUT_COLS
  BY <1>1, TerminalAssumption
<1>4. GUI_OUTPUT_COLS # 0
  BY <1>1, <1>2, TerminalAssumption
<1> QED BY <1>1, <1>2, <1>3, <1>4, TerminalAssumption

(* Two sequences of the same length and with the same elements are equal. *)
LEMMA EqualSeqs ==
  ASSUME NEW S, NEW T, NEW q \in Seq(S), NEW r \in Seq(T), Len(q) = Len(r), \A i \in 1 .. Len(q) : q[i] = r[i]
  PROVE  q = r
OBVIOUS

(* A piece of a row. *)
LEMMA PieceOfRow ==
  ASSUME NEW row \in EndedRows, NEW a \in 1 .. GUI_OUTPUT_COLS, NEW b \in 0 .. GUI_OUTPUT_COLS, a <= b + 1,
         \A i \in a .. b : row[i] # NUL
  PROVE  /\ SubSeq(row, a, b) \in TermText /\ Len(SubSeq(row, a, b)) = b - a + 1
         /\ \A i \in 1 .. b - a + 1 : SubSeq(row, a, b)[i] = row[a + i - 1]
<1>1. a \in Int /\ b \in Int /\ \A i \in a .. b : row[i] \in Printable
  BY TermSizes DEF EndedRows
<1>2. /\ SubSeq(row, a, b) \in Seq(Printable)
      /\ Len(SubSeq(row, a, b)) = IF a <= b THEN b - a + 1 ELSE 0
      /\ \A i \in 1 .. b - a + 1 : SubSeq(row, a, b)[i] = row[a + i - 1]
  BY <1>1, SubSeqProperties
<1> QED BY <1>1, <1>2 DEF TermText

EndsAt(row, p, e) == row[e] = NUL /\ \A i \in p + 1 .. e - 1 : row[i] # NUL

(* The string at p is the text that the row holds there. *)
LEMMA StringAtIs ==
  ASSUME NEW row \in EndedRows, NEW p \in Nat, NEW s \in TermText, Holds(row, p, s)
  PROVE  StringAt(row, p) = s
<1> DEFINE n == Len(s)
           end == CHOOSE e \in p + 1 .. GUI_OUTPUT_COLS : EndsAt(row, p, e)
<1>1. n \in Nat /\ p + n < GUI_OUTPUT_COLS /\ GUI_OUTPUT_COLS \in Nat
  BY TermSizes DEF TermText, Holds
<1>2. \A i \in 1 .. n : row[p + i] = s[i] /\ s[i] # NUL
  BY TermSizes DEF TermText, Holds
<1>3. \A i \in p + 1 .. p + n : row[i] # NUL
  <2> TAKE i \in p + 1 .. p + n
  <2>1. i - p \in 1 .. n /\ p + (i - p) = i
    BY <1>1
  <2> QED BY <1>2, <2>1
<1>4. p + n + 1 \in p + 1 .. GUI_OUTPUT_COLS /\ EndsAt(row, p, p + n + 1)
  BY <1>1, <1>3 DEF Holds, EndsAt
<1>5. end \in p + 1 .. GUI_OUTPUT_COLS /\ EndsAt(row, p, end)
  BY <1>4
<1>6. StringAt(row, p) = SubSeq(row, p + 1, end - 1)
  BY DEF StringAt, EndsAt
<1> HIDE DEF end
<1>7. end = p + n + 1
  BY <1>1, <1>3, <1>4, <1>5 DEF EndsAt
<1>8. p + 1 \in 1 .. GUI_OUTPUT_COLS /\ end - 1 \in 0 .. GUI_OUTPUT_COLS /\ p + 1 <= end - 1 + 1 /\ (end - 1) - (p + 1) + 1 = n
      /\ \A i \in p + 1 .. end - 1 : row[i] # NUL
  BY <1>1, <1>3, <1>7
<1>9. /\ StringAt(row, p) \in TermText /\ Len(StringAt(row, p)) = n
      /\ \A i \in 1 .. n : StringAt(row, p)[i] = row[p + 1 + i - 1]
  <2> DEFINE b == end - 1
  <2> HIDE DEF b
  <2>1. b \in 0 .. GUI_OUTPUT_COLS /\ p + 1 <= b + 1 /\ b - (p + 1) + 1 = n /\ \A i \in p + 1 .. b : row[i] # NUL
    BY <1>8 DEF b
  <2>2. /\ SubSeq(row, p + 1, b) \in TermText /\ Len(SubSeq(row, p + 1, b)) = b - (p + 1) + 1
        /\ \A i \in 1 .. b - (p + 1) + 1 : SubSeq(row, p + 1, b)[i] = row[p + 1 + i - 1]
    BY <1>8, <2>1, PieceOfRow
  <2> QED BY <1>6, <2>1, <2>2 DEF b
<1>10. \A i \in 1 .. n : StringAt(row, p)[i] = s[i]
  <2> TAKE i \in 1 .. n
  <2>1. p + 1 + i - 1 = p + i
    BY <1>1
  <2> QED BY <1>2, <1>9, <2>1
<1> QED BY <1>9, <1>10, EqualSeqs DEF TermText

(* Wherever it starts, there is a string in a row. *)
LEMMA StringAtHolds ==
  ASSUME NEW row \in EndedRows, NEW p \in 0 .. GUI_OUTPUT_COLS - 1
  PROVE  StringAt(row, p) \in TermText /\ Holds(row, p, StringAt(row, p))
<1> DEFINE E == {e \in p + 1 .. GUI_OUTPUT_COLS : row[e] = NUL}
<1>1. GUI_OUTPUT_COLS \in E /\ E \subseteq Nat /\ GUI_OUTPUT_COLS \in Nat /\ p \in Nat
  BY TermSizes DEF EndedRows
<1>2. PICK e \in E : \A f \in E : e <= f
  <2> HIDE DEF E
  <2> QED BY <1>1, LeastNumber
<1>3. e \in p + 1 .. GUI_OUTPUT_COLS /\ e \in Nat /\ row[e] = NUL /\ \A i \in p + 1 .. e - 1 : row[i] # NUL
  BY <1>1, <1>2
<1> DEFINE b == e - 1
           s == SubSeq(row, p + 1, b)
<1>4. p + 1 \in 1 .. GUI_OUTPUT_COLS /\ b \in 0 .. GUI_OUTPUT_COLS /\ p + 1 <= b + 1
      /\ \A i \in p + 1 .. b : row[i] # NUL
  BY <1>1, <1>3
<1>5. b - (p + 1) + 1 = e - 1 - p
  BY <1>1, <1>3
<1> HIDE DEF b
<1>6. s \in TermText /\ Len(s) = e - 1 - p /\ \A i \in 1 .. e - 1 - p : s[i] = row[p + 1 + i - 1]
  BY <1>4, <1>5, PieceOfRow
<1> HIDE DEF s
<1>7. Holds(row, p, s)
  <2>1. p + Len(s) < GUI_OUTPUT_COLS /\ p + Len(s) + 1 = e
    BY <1>1, <1>3, <1>6
  <2>2. \A i \in 1 .. Len(s) : row[p + i] = s[i]
    <3> TAKE i \in 1 .. Len(s)
    <3>1. i \in 1 .. e - 1 - p /\ p + 1 + i - 1 = p + i
      BY <1>1, <1>3, <1>6
    <3> QED BY <1>6, <3>1
  <2> QED BY <1>3, <2>1, <2>2 DEF Holds
<1> QED BY <1>1, <1>6, <1>7, StringAtIs

(* A copied string is held by the row, which stays ended. *)
LEMMA CopiedIs ==
  ASSUME NEW row \in EndedRows, NEW s \in TermText, Len(s) < GUI_OUTPUT_COLS
  PROVE  Copied(row, s) \in EndedRows /\ Holds(Copied(row, s), 0, s)
<1> DEFINE r == Copied(row, s)
<1>1. Len(s) \in Nat /\ GUI_OUTPUT_COLS \in Nat /\ \A i \in 1 .. Len(s) : s[i] \in Printable
  BY TermSizes DEF TermText
<1>2. r = [i \in 1 .. GUI_OUTPUT_COLS |-> IF i <= Len(s) THEN s[i] ELSE IF i = Len(s) + 1 THEN NUL ELSE row[i]]
  BY DEF Copied
<1> HIDE DEF r
<1>3. r \in [1 .. GUI_OUTPUT_COLS -> Printable \cup {NUL}]
  BY <1>1, <1>2 DEF EndedRows
<1>4. r[GUI_OUTPUT_COLS] = NUL
  BY <1>1, <1>2 DEF EndedRows
<1>5. \A i \in 1 .. Len(s) : r[0 + i] = s[i]
  BY <1>1, <1>2
<1>6. r[0 + Len(s) + 1] = NUL
  BY <1>1, <1>2
<1> QED BY <1>1, <1>3, <1>4, <1>5, <1>6 DEF EndedRows, Holds, r

(* A text cut at the length of a row. *)
LEMMA CutIs ==
  ASSUME NEW s \in TermText
  PROVE  Cut(s) \in TermText /\ Len(Cut(s)) < GUI_OUTPUT_COLS /\ (Len(s) < GUI_OUTPUT_COLS => Cut(s) = s)
<1> DEFINE n == IF Len(s) >= GUI_OUTPUT_COLS THEN GUI_OUTPUT_COLS - 1 ELSE Len(s)
<1>1. Len(s) \in Nat /\ GUI_OUTPUT_COLS \in Nat \ {0} /\ n \in 0 .. Len(s) /\ n < GUI_OUTPUT_COLS /\ 1 <= n + 1 /\ 1 \in 1 .. Len(s) + 1
  BY TermSizes DEF TermText
<1>2. Cut(s) = SubSeq(s, 1, n) /\ (Len(s) < GUI_OUTPUT_COLS => n = Len(s))
  BY <1>1 DEF Cut
<1> HIDE DEF n
<1>3. SubSeq(s, 1, n) \in TermText /\ Len(SubSeq(s, 1, n)) = n - 1 + 1
  BY <1>1, SeqFromTo DEF TermText
<1>4. SubSeq(s, 1, Len(s)) = s
  BY DEF TermText
<1>5. Len(s) < GUI_OUTPUT_COLS => Cut(s) = s
  BY <1>2, <1>4, Zenon
<1>6. Cut(s) \in TermText /\ Len(Cut(s)) = n - 1 + 1
  BY <1>2, <1>3, Zenon
<1>7. n - 1 + 1 < GUI_OUTPUT_COLS
  BY <1>1
<1> QED BY <1>5, <1>6, <1>7

(* A window's rows and their number, as gui_terminal_add_line takes them. *)
TermStates == [rows : TermRows, count : 0 .. GUI_OUTPUT_LINES]

(* The rows are the lines of q, each cut at the length of a row. *)
RowsAre(st, q) ==
  /\ st \in TermStates /\ q \in Seq(TermText) /\ Len(q) = st.count
  /\ \A i \in 1 .. st.count : Holds(st.rows[i], 0, Cut(q[i]))

(* The rows that move up are those below, and stay ended. *)
LEMMA ShiftedIs ==
  ASSUME NEW rows \in TermRows
  PROVE  /\ Shifted(rows) \in TermRows
         /\ \A i \in 1 .. GUI_OUTPUT_LINES - 1 : Holds(Shifted(rows)[i], 0, StringAt(rows[i + 1], 0))
<1>1. GUI_OUTPUT_LINES \in Nat \ {0} /\ 0 \in 0 .. GUI_OUTPUT_COLS - 1 /\ DOMAIN rows = 1 .. GUI_OUTPUT_LINES
      /\ \A i \in 1 .. GUI_OUTPUT_LINES : rows[i] \in EndedRows
  BY TermSizes DEF TermRows
<1> DEFINE R(i) == Copied(rows[i], StringAt(rows[i + 1], 0))
<1>2. ASSUME NEW i \in 1 .. GUI_OUTPUT_LINES - 1
      PROVE  R(i) \in EndedRows /\ Holds(R(i), 0, StringAt(rows[i + 1], 0))
  <2>1. i + 1 \in 1 .. GUI_OUTPUT_LINES /\ i \in 1 .. GUI_OUTPUT_LINES
    BY <1>1
  <2>2. StringAt(rows[i + 1], 0) \in TermText /\ Holds(rows[i + 1], 0, StringAt(rows[i + 1], 0))
    BY <1>1, <2>1, StringAtHolds
  <2>3. Len(StringAt(rows[i + 1], 0)) < GUI_OUTPUT_COLS
    BY <2>2 DEF Holds, TermText
  <2> QED BY <1>1, <2>1, <2>2, <2>3, CopiedIs
<1>3. Shifted(rows) = [i \in 1 .. GUI_OUTPUT_LINES |-> IF i < GUI_OUTPUT_LINES THEN R(i) ELSE rows[i]]
  BY <1>1 DEF Shifted
<1> HIDE DEF R
<1>4. \A i \in 1 .. GUI_OUTPUT_LINES - 1 : Shifted(rows)[i] = R(i)
  BY <1>1, <1>3
<1>5. \A i \in 1 .. GUI_OUTPUT_LINES : (IF i < GUI_OUTPUT_LINES THEN R(i) ELSE rows[i]) \in EndedRows
  BY <1>1, <1>2
<1> QED BY <1>2, <1>3, <1>4, <1>5 DEF TermRows

(* The state after a line is added, field by field. *)
LEMMA AddLineIs ==
  ASSUME NEW st \in TermStates, NEW line \in TermText
  PROVE  LET full == st.count >= GUI_OUTPUT_LINES
             up == IF full THEN Shifted(st.rows) ELSE st.rows
             n == IF full THEN GUI_OUTPUT_LINES ELSE st.count + 1
             next == gui_terminal_add_line(st, line)
         IN  /\ up \in TermRows /\ n \in 1 .. GUI_OUTPUT_LINES
             /\ next \in TermStates /\ next.count = n
             /\ Holds(next.rows[n], 0, Cut(line))
             /\ \A i \in (1 .. GUI_OUTPUT_LINES) \ {n} : next.rows[i] = up[i]
<1> DEFINE full == st.count >= GUI_OUTPUT_LINES
           up == IF full THEN Shifted(st.rows) ELSE st.rows
           n == IF full THEN GUI_OUTPUT_LINES ELSE st.count + 1
           row == Copied(up[n], Cut(line))
           next == gui_terminal_add_line(st, line)
<1>1. st.rows \in TermRows /\ st.count \in 0 .. GUI_OUTPUT_LINES /\ GUI_OUTPUT_LINES \in Nat \ {0}
  BY TermSizes DEF TermStates
<1>2. up \in TermRows
  BY <1>1, ShiftedIs
<1>3. n \in 1 .. GUI_OUTPUT_LINES
  BY <1>1
<1>4. next = [rows |-> [up EXCEPT ![n] = row], count |-> n]
  BY DEF gui_terminal_add_line
<1> HIDE DEF up, n
<1>5. up[n] \in EndedRows
  BY <1>2, <1>3 DEF TermRows
<1>6. row \in EndedRows /\ Holds(row, 0, Cut(line))
  BY <1>5, CutIs, CopiedIs
<1> HIDE DEF row, next
<1>7. next.rows = [up EXCEPT ![n] = row] /\ next.count = n
  BY <1>4
<1>8. next.rows \in TermRows /\ next.rows[n] = row /\ \A i \in (1 .. GUI_OUTPUT_LINES) \ {n} : next.rows[i] = up[i]
  BY <1>2, <1>3, <1>6, <1>7 DEF TermRows
<1>9. n \in 0 .. GUI_OUTPUT_LINES
  BY <1>1, <1>3
<1>10. next \in TermStates
  BY <1>4, <1>7, <1>8, <1>9 DEF TermStates
<1> QED BY <1>2, <1>3, <1>6, <1>7, <1>8, <1>10 DEF up, n, next

(* Adding a line appends it, and makes the oldest give way when the rows    *)
(* are full.                                                                *)
LEMMA AddLineHolds ==
  ASSUME NEW st, NEW q, RowsAre(st, q), NEW line \in TermText
  PROVE  RowsAre(gui_terminal_add_line(st, line),
                 IF Len(q) < GUI_OUTPUT_LINES THEN Append(q, line)
                 ELSE [i \in 1 .. GUI_OUTPUT_LINES |-> IF i = GUI_OUTPUT_LINES THEN line ELSE q[i + 1]])
<1> DEFINE L == GUI_OUTPUT_LINES
           next == gui_terminal_add_line(st, line)
<1>1. st \in TermStates /\ q \in Seq(TermText) /\ Len(q) = st.count /\ st.rows \in TermRows /\ st.count \in 0 .. L /\ L \in Nat \ {0}
  BY TermSizes DEF RowsAre, TermStates
<1>2. \A i \in 1 .. st.count : Holds(st.rows[i], 0, Cut(q[i])) /\ q[i] \in TermText
  BY <1>1 DEF RowsAre
<1>3. CASE Len(q) < L
  <2> DEFINE n == st.count + 1
             r == Append(q, line)
  <2>1. /\ next \in TermStates /\ next.count = n /\ Holds(next.rows[n], 0, Cut(line))
        /\ \A i \in (1 .. L) \ {n} : next.rows[i] = st.rows[i]
    BY <1>1, <1>3, AddLineIs
  <2>2. r \in Seq(TermText) /\ Len(r) = n /\ r[n] = line /\ \A i \in 1 .. st.count : r[i] = q[i]
    BY <1>1
  <2> HIDE DEF r, next
  <2>3. \A i \in 1 .. next.count : Holds(next.rows[i], 0, Cut(r[i]))
    <3> SUFFICES ASSUME NEW i \in 1 .. next.count PROVE Holds(next.rows[i], 0, Cut(r[i]))
      OBVIOUS
    <3>1. CASE i = n
      BY <2>1, <2>2, <3>1
    <3>2. CASE i # n
      <4>1. i \in 1 .. st.count /\ i \in (1 .. L) \ {n}
        BY <1>1, <2>1, <3>2
      <4> QED BY <1>2, <2>1, <2>2, <4>1
    <3> QED BY <3>1, <3>2
  <2>4. RowsAre(next, r)
    BY <2>1, <2>2, <2>3 DEF RowsAre
  <2> QED BY <1>3, <2>4 DEF r, next
<1>4. CASE ~(Len(q) < L)
  <2> DEFINE r == [i \in 1 .. L |-> IF i = L THEN line ELSE q[i + 1]]
  <2>1. st.count = L /\ st.count >= GUI_OUTPUT_LINES
    BY <1>1, <1>4
  <2>2. /\ next \in TermStates /\ next.count = L /\ Holds(next.rows[L], 0, Cut(line))
        /\ \A i \in (1 .. L) \ {L} : next.rows[i] = Shifted(st.rows)[i]
    BY <1>1, <2>1, AddLineIs
  <2>3. \A i \in 1 .. L - 1 : i + 1 \in 1 .. st.count /\ Holds(st.rows[i + 1], 0, Cut(q[i + 1])) /\ q[i + 1] \in TermText
    BY <1>1, <1>2, <2>1
  <2>4. r \in Seq(TermText) /\ Len(r) = L /\ r[L] = line /\ \A i \in 1 .. L - 1 : r[i] = q[i + 1]
    <3>1. \A i \in 1 .. L : r[i] \in TermText
      BY <1>1, <2>3
    <3>2. r \in Seq(TermText) /\ Len(r) = L
      BY <1>1, <3>1, SeqOfValues
    <3> QED BY <1>1, <3>2
  <2> HIDE DEF r, next
  <2>5. \A i \in 1 .. L : Holds(next.rows[i], 0, Cut(r[i]))
    <3> SUFFICES ASSUME NEW i \in 1 .. L PROVE Holds(next.rows[i], 0, Cut(r[i]))
      OBVIOUS
    <3>1. CASE i = L
      BY <2>2, <2>4, <3>1
    <3>2. CASE i # L
      <4>1. i \in 1 .. L - 1 /\ i \in (1 .. L) \ {L}
        BY <1>1, <3>2
      <4>2. st.rows[i + 1] \in EndedRows /\ Cut(q[i + 1]) \in TermText
        BY <1>1, <2>3, <2>1, <4>1, CutIs DEF TermRows
      <4>3. StringAt(st.rows[i + 1], 0) = Cut(q[i + 1])
        BY <2>3, <4>1, <4>2, StringAtIs
      <4>4. Holds(Shifted(st.rows)[i], 0, StringAt(st.rows[i + 1], 0))
        BY <1>1, <4>1, ShiftedIs
      <4> QED BY <2>2, <2>4, <4>1, <4>3, <4>4
    <3> QED BY <3>1, <3>2
  <2>6. RowsAre(next, r)
    BY <2>2, <2>4, <2>5 DEF RowsAre
  <2> QED BY <1>4, <2>6 DEF r, next
<1> QED BY <1>3, <1>4

(* The rows while several lines are added: each is added to the rows before. *)
LEMMA AddingIs ==
  ASSUME NEW st \in TermStates, NEW q \in Seq(TermText)
  PROVE  /\ Adding(st, q)[0] = st
         /\ \A n \in 1 .. Len(q) : Adding(st, q)[n] = gui_terminal_add_line(Adding(st, q)[n - 1], q[n])
<1> DEFINE N == Len(q)
           P(h) == h = [k \in 0 .. N |-> IF k = 0 THEN st ELSE gui_terminal_add_line(h[k - 1], q[k])]
           F == [x \in TermStates \X (1 .. N) |-> gui_terminal_add_line(x[1], q[x[2]])]
<1>1. N \in Nat /\ \A k \in 1 .. N : q[k] \in TermText
  OBVIOUS
<1>2. F \in [TermStates \X (1 .. N) -> TermStates]
  <2>1. ASSUME NEW x \in TermStates \X (1 .. N) PROVE gui_terminal_add_line(x[1], q[x[2]]) \in TermStates
    <3>1. x[1] \in TermStates /\ q[x[2]] \in TermText
      BY <1>1
    <3> QED BY <3>1, AddLineIs
  <2> QED BY <2>1
<1>3. \A s \in TermStates, k \in 1 .. N : F[<<s, k>>] = gui_terminal_add_line(s, q[k])
  OBVIOUS
<1>4. Adding(st, q) = CHOOSE h : P(h)
  BY DEF Adding
<1> HIDE DEF N, F
<1>5. PICK g \in [0 .. N -> TermStates] : IsRun(g, N, st, F)
  BY <1>1, <1>2, LoopRuns
<1>6. P(g)
  <2>1. \A k \in 0 .. N : k # 0 => k \in 1 .. N /\ g[k - 1] \in TermStates
    BY <1>1
  <2>2. \A k \in 0 .. N : g[k] = IF k = 0 THEN st ELSE gui_terminal_add_line(g[k - 1], q[k])
    BY <1>3, <1>5, <2>1 DEF IsRun
  <2> QED BY <2>2
<1> DEFINE a == Adding(st, q)
<1>7. P(a)
  <2> HIDE DEF P
  <2> QED BY <1>4, <1>6
<1> HIDE DEF a
<1>8. \A k \in 0 .. N : a[k] = IF k = 0 THEN st ELSE gui_terminal_add_line(a[k - 1], q[k])
  BY <1>7
<1>9. a[0] = st /\ \A k \in 1 .. N : a[k] = gui_terminal_add_line(a[k - 1], q[k])
  BY <1>1, <1>8
<1> QED BY <1>9 DEF N, a

(* The latest n of one line more, from the latest n before it. *)
LEMMA LatestNext ==
  ASSUME NEW T, NEW inputs \in Seq(T), NEW line \in T, NEW n \in Nat \ {0}, NEW h, h = LatestOf(inputs, n)
  PROVE  LatestOf(Append(inputs, line), n) =
           IF Len(h) < n THEN Append(h, line) ELSE [i \in 1 .. n |-> IF i = n THEN line ELSE h[i + 1]]
BY LatestAppend

(* After several lines, the rows are the latest of those before and these.  *)
LEMMA AddingHolds ==
  ASSUME NEW st, NEW old \in Seq(TermText), NEW q \in Seq(TermText), RowsAre(st, LatestOf(old, GUI_OUTPUT_LINES))
  PROVE  RowsAre(Adding(st, q)[Len(q)], LatestOf(old \o q, GUI_OUTPUT_LINES))
<1> DEFINE L == GUI_OUTPUT_LINES
           N == Len(q)
           a == Adding(st, q)
           So(n) == old \o SubSeq(q, 1, n)
           S == {n \in 0 .. N : RowsAre(a[n], LatestOf(So(n), L))}
<1>1. N \in Nat /\ L \in Nat \ {0} /\ \A n \in 1 .. N : q[n] \in TermText
  BY TermSizes
<1>2. a[0] = st /\ \A n \in 1 .. N : a[n] = gui_terminal_add_line(a[n - 1], q[n])
  BY AddingIs DEF RowsAre
<1>3. \A n \in 0 .. N : SubSeq(q, 1, n) \in Seq(TermText) /\ Len(SubSeq(q, 1, n)) = n /\ So(n) \in Seq(TermText)
  <2> SUFFICES ASSUME NEW n \in 0 .. N
               PROVE  SubSeq(q, 1, n) \in Seq(TermText) /\ Len(SubSeq(q, 1, n)) = n /\ So(n) \in Seq(TermText)
    OBVIOUS
  <2>1. n \in Nat /\ 1 \in 1 .. Len(q) + 1 /\ 1 <= n + 1 /\ n - 1 + 1 = n
    BY <1>1
  <2>2. SubSeq(q, 1, n) \in Seq(TermText) /\ Len(SubSeq(q, 1, n)) = n - 1 + 1
    BY <2>1, SeqFromTo
  <2>3. So(n) \in Seq(TermText)
    BY <2>2, SeqConcat
  <2> QED BY <2>1, <2>2, <2>3
<1>4. So(0) = old
  <2>1. SubSeq(q, 1, 0) = <<>>
    BY <1>1, <1>3
  <2> QED BY <2>1
<1>5. ASSUME NEW n \in 0 .. N - 1 PROVE So(n + 1) = Append(So(n), q[n + 1])
  <2>1. n \in 0 .. N /\ n + 1 \in 0 .. N /\ n + 1 \in 1 .. N /\ n \in Nat
    BY <1>1
  <2>2. SubSeq(q, 1, n + 1) = Append(SubSeq(q, 1, n), q[n + 1])
    <3>1. /\ SubSeq(q, 1, n) \in Seq(TermText) /\ Len(SubSeq(q, 1, n)) = n
          /\ SubSeq(q, 1, n + 1) \in Seq(TermText) /\ Len(SubSeq(q, 1, n + 1)) = n + 1
      BY <1>3, <2>1
    <3>2. /\ \A i \in 1 .. n : SubSeq(q, 1, n)[i] = q[i]
          /\ \A i \in 1 .. n + 1 : SubSeq(q, 1, n + 1)[i] = q[i]
      BY <1>1, <2>1
    <3> DEFINE u == SubSeq(q, 1, n)
               v == SubSeq(q, 1, n + 1)
               w == Append(u, q[n + 1])
    <3> HIDE DEF u, v
    <3>3. w \in Seq(TermText) /\ Len(w) = n + 1 /\ w[n + 1] = q[n + 1] /\ \A i \in 1 .. n : w[i] = u[i]
      BY <1>1, <2>1, <3>1 DEF u
    <3> HIDE DEF w
    <3>4. \A i \in 1 .. n + 1 : v[i] = w[i]
      BY <2>1, <3>2, <3>3 DEF u, v
    <3>5. v = w
      BY <3>1, <3>3, <3>4, EqualSeqs DEF v
    <3> QED BY <3>5 DEF u, v, w
  <2> DEFINE u == SubSeq(q, 1, n)
  <2>3. u \in Seq(TermText) /\ q[n + 1] \in TermText
    BY <1>1, <1>3, <2>1
  <2> HIDE DEF u
  <2>4. old \o Append(u, q[n + 1]) = Append(old \o u, q[n + 1])
    BY <2>3
  <2> QED BY <2>2, <2>4 DEF u
<1>6. So(N) = old \o q
  <2>1. SubSeq(q, 1, N) = q
    OBVIOUS
  <2> QED BY <2>1
<1> HIDE DEF So, a, N
<1>7. 0 \in S
  BY <1>1, <1>2, <1>4
<1>8. ASSUME NEW n \in 0 .. N - 1, n \in S PROVE n + 1 \in S
  <2> DEFINE h == LatestOf(So(n), L)
             line == q[n + 1]
  <2>1. n + 1 \in 1 .. N /\ n + 1 \in 0 .. N /\ (n + 1) - 1 = n /\ n \in 0 .. N
    BY <1>1
  <2>2. RowsAre(a[n], h) /\ line \in TermText /\ So(n) \in Seq(TermText) /\ a[n + 1] = gui_terminal_add_line(a[n], line)
    BY <1>1, <1>2, <1>3, <1>8, <2>1
  <2>3. LatestOf(Append(So(n), line), L) =
          IF Len(h) < L THEN Append(h, line) ELSE [i \in 1 .. L |-> IF i = L THEN line ELSE h[i + 1]]
    <3> DEFINE all == So(n)
    <3>1. L \in Nat \ {0} /\ line \in TermText /\ all \in Seq(TermText) /\ h = LatestOf(all, L)
      BY <1>1, <2>2
    <3> HIDE DEF line, L, h, all
    <3>2. LatestOf(Append(all, line), L) =
            IF Len(h) < L THEN Append(h, line) ELSE [i \in 1 .. L |-> IF i = L THEN line ELSE h[i + 1]]
      BY <3>1, LatestNext
    <3> QED BY <3>2 DEF all
  <2> HIDE DEF h, line
  <2>4. RowsAre(a[n + 1], IF Len(h) < L THEN Append(h, line) ELSE [i \in 1 .. L |-> IF i = L THEN line ELSE h[i + 1]])
    BY <2>2, AddLineHolds
  <2>5. LatestOf(So(n + 1), L) = LatestOf(Append(So(n), line), L)
    BY <1>5 DEF line
  <2>6. RowsAre(a[n + 1], LatestOf(So(n + 1), L))
    BY <2>3, <2>4, <2>5, Zenon
  <2> QED BY <2>1, <2>6
<1>9. 0 .. N \subseteq S
  <2> HIDE DEF S
  <2> QED BY <1>1, <1>7, <1>8, InductionOnSet
<1>10. N \in S
  BY <1>1, <1>9
<1> QED BY <1>6, <1>10 DEF a, N

(* Printing a text makes texts. *)
LEMMA PrintIs ==
  ASSUME NEW text \in TermText, NEW width \in Nat \ {0}
  PROVE  gui_terminal_print(text, width) \in Seq(TermText)
<1> DEFINE n == (Len(text) + width - 1) \div width
           Piece(k) == SubSeq(text, (k - 1) * width + 1, IF k * width < Len(text) THEN k * width ELSE Len(text))
<1>1. Len(text) \in Nat /\ n \in Nat
  BY DEF TermText
<1>2. gui_terminal_print(text, width) = [k \in 1 .. n |-> Piece(k)]
  BY DEF gui_terminal_print
<1>3. ASSUME NEW k \in 1 .. n PROVE Piece(k) \in TermText
  <2> DEFINE a == (k - 1) * width + 1
             b == IF k * width < Len(text) THEN k * width ELSE Len(text)
  <2>1. a \in Nat /\ a >= 1 /\ b \in Nat /\ b <= Len(text)
    <3>1. k - 1 \in Nat /\ k \in Nat
      BY <1>1
    <3>2. (k - 1) * width \in Nat /\ k * width \in Nat
      BY <3>1
    <3> QED BY <1>1, <3>2
  <2>2. Piece(k) = SubSeq(text, a, b)
    OBVIOUS
  <2> HIDE DEF a, b
  <2>3. \A i \in a .. b : text[i] \in Printable
    BY <1>1, <2>1 DEF TermText
  <2>4. SubSeq(text, a, b) \in Seq(Printable)
    BY <2>1, <2>3, SubSeqProperties
  <2> QED BY <2>2, <2>4 DEF TermText
<1> HIDE DEF n, Piece
<1> DEFINE q == [k \in 1 .. n |-> Piece(k)]
<1>4. q \in Seq(TermText)
  BY <1>1, <1>3, SeqOfValues
<1> QED BY <1>2, <1>4

(* So does printing several. *)
LEMMA PrintingIs ==
  ASSUME NEW texts \in Seq(TermText), NEW width \in Nat \ {0}
  PROVE  Printing(texts, width)[Len(texts)] \in Seq(TermText)
<1> DEFINE N == Len(texts)
           V == Seq(TermText)
           P(h) == h = [k \in 0 .. N |-> IF k = 0 THEN <<>> ELSE h[k - 1] \o gui_terminal_print(texts[k], width)]
           F == [x \in V \X (1 .. N) |-> x[1] \o gui_terminal_print(texts[x[2]], width)]
<1>1. N \in Nat /\ (\A k \in 1 .. N : gui_terminal_print(texts[k], width) \in V) /\ <<>> \in V
  BY PrintIs
<1>2. F \in [V \X (1 .. N) -> V]
  <2>1. ASSUME NEW x \in V \X (1 .. N) PROVE x[1] \o gui_terminal_print(texts[x[2]], width) \in V
    <3>1. x[1] \in V /\ gui_terminal_print(texts[x[2]], width) \in V
      BY <1>1
    <3> QED BY <3>1, SeqConcat
  <2> QED BY <2>1
<1>3. \A s \in V, k \in 1 .. N : F[<<s, k>>] = s \o gui_terminal_print(texts[k], width)
  OBVIOUS
<1>4. Printing(texts, width) = CHOOSE h : P(h)
  BY DEF Printing
<1> HIDE DEF N, F, V
<1>5. PICK g \in [0 .. N -> V] : IsRun(g, N, <<>>, F)
  BY <1>1, <1>2, LoopRuns
<1>6. P(g)
  <2>1. \A k \in 0 .. N : k # 0 => k \in 1 .. N /\ g[k - 1] \in V
    BY <1>1
  <2>2. \A k \in 0 .. N : g[k] = IF k = 0 THEN <<>> ELSE g[k - 1] \o gui_terminal_print(texts[k], width)
    BY <1>3, <1>5, <2>1 DEF IsRun
  <2> QED BY <2>2
<1> DEFINE a == Printing(texts, width)
<1>7. P(a)
  <2> HIDE DEF P
  <2> QED BY <1>4, <1>6
<1> HIDE DEF a
<1>8. \A k \in 0 .. N : a[k] = IF k = 0 THEN <<>> ELSE a[k - 1] \o gui_terminal_print(texts[k], width)
  BY <1>7
<1>9. a[0] \in V
  BY <1>1, <1>8
<1>10. \A k \in 1 .. N : a[k - 1] \in V => a[k] \in V
  <2> SUFFICES ASSUME NEW k \in 1 .. N, a[k - 1] \in V PROVE a[k] \in V
    OBVIOUS
  <2>1. a[k] = a[k - 1] \o gui_terminal_print(texts[k], width)
    <3>1. k \in 0 .. N /\ k # 0
      BY <1>1
    <3> QED BY <1>8, <3>1
  <2>2. a[k - 1] \in Seq(TermText) /\ gui_terminal_print(texts[k], width) \in Seq(TermText)
    BY <1>1 DEF V
  <2> QED BY <2>1, <2>2, SeqConcat DEF V
<1>11. \A k \in 0 .. N : a[k] \in V
  BY <1>1, <1>9, <1>10, LoopStays
<1>12. N \in 0 .. N
  BY <1>1
<1> QED BY <1>11, <1>12 DEF N, V, a

(* A command prints texts and leaves a directory that has a prompt. *)
LEMMA ExecuteIs ==
  ASSUME NEW text \in TermText, NEW width \in Nat \ {0}, dir \in DOMAIN Prompts
  PROVE  LET done == gui_execute(text, width) IN done.lines \in Seq(TermText) /\ done.dir \in DOMAIN Prompts
<1>1. CASE text = <<>>
  BY <1>1 DEF gui_execute
<1>2. CASE text # <<>> /\ text \in DOMAIN TermCommands
  <2> DEFINE texts == TermCommands[text].prints
             q == Printing(texts, width)[Len(texts)]
             d == IF TermCommands[text].cd = 0 THEN dir ELSE TermCommands[text].cd
  <2>1. texts \in Seq(TermText) /\ d \in DOMAIN Prompts
    BY <1>2, TerminalAssumption DEF TermText
  <2>2. gui_execute(text, width) = [lines |-> q, dir |-> d]
    BY <1>2 DEF gui_execute
  <2> HIDE DEF texts, d
  <2>3. q \in Seq(TermText)
    BY <2>1, PrintingIs
  <2> HIDE DEF q
  <2> QED BY <2>1, <2>2, <2>3
<1>3. CASE text # <<>> /\ text \notin DOMAIN TermCommands
  <2> DEFINE q == gui_terminal_print(text, width) \o gui_terminal_print(NotFound, width)
  <2>1. NotFound \in TermText
    BY TerminalAssumption DEF TermText
  <2>2. gui_terminal_print(text, width) \in Seq(TermText) /\ gui_terminal_print(NotFound, width) \in Seq(TermText)
    BY <2>1, PrintIs
  <2>3. q \in Seq(TermText)
    BY <2>2, SeqConcat
  <2>4. gui_execute(text, width) = [lines |-> q, dir |-> dir]
    BY <1>3 DEF gui_execute
  <2> HIDE DEF q
  <2> QED BY <2>3, <2>4
<1> QED BY <1>1, <1>2, <1>3

(* What a key finds: the last row of the window. *)
LEMMA TermRowTypes ==
  ASSUME TermInv, NEW t \in Terms
  PROVE  /\ output_line_count[t] \in 1 .. GUI_OUTPUT_LINES /\ output_buffer[t] \in TermRows
         /\ LastRow(t) \in EndedRows /\ term_pos[t] \in 0 .. GUI_OUTPUT_COLS - 1
         /\ typed[t] \in TermText /\ Len(typed[t]) \in Nat /\ shown[t] \in Nat /\ mixed[t] \in BOOLEAN
         /\ prompt_len \in Nat /\ prompt_len < GUI_OUTPUT_COLS
BY TermSizes DEF TermInv, TermTypes, LastRow, TermRows, prompt_len, TermText

(* A step of one window that changes its last row only. *)
LEMMA LastRowChanges ==
  ASSUME TermInv, NEW t \in Terms, NEW row \in EndedRows, NEW p \in 0 .. GUI_OUTPUT_COLS - 1, NEW text \in TermText,
         output_buffer' = [output_buffer EXCEPT ![t][output_line_count[t]] = row],
         term_pos' = [term_pos EXCEPT ![t] = p], typed' = [typed EXCEPT ![t] = text],
         mixed' = [mixed EXCEPT ![t] = @ \/ prompt_len # shown[t]],
         UNCHANGED <<dir, output_line_count, window_width_chars, shown, printed>>,
         ~mixed[t] /\ prompt_len = shown[t] => p = shown[t] + Len(text) /\ Holds(row, shown[t], text)
  PROVE  TermInv'
<1> DEFINE n == output_line_count[t]
<1>1. n \in 1 .. GUI_OUTPUT_LINES /\ output_buffer \in [Terms -> TermRows] /\ output_buffer[t] \in TermRows
  BY TermRowTypes DEF TermInv, TermTypes
<1> DEFINE new == [output_buffer[t] EXCEPT ![n] = row]
<1>2. new \in TermRows /\ new[n] = row /\ \A i \in (1 .. GUI_OUTPUT_LINES) \ {n} : new[i] = output_buffer[t][i]
  BY <1>1 DEF TermRows
<1>3. output_buffer' = [output_buffer EXCEPT ![t] = new]
  BY <1>1
<1> HIDE DEF new
<1>4. output_buffer' \in [Terms -> TermRows] /\ output_buffer'[t] = new /\ \A u \in Terms \ {t} : output_buffer'[u] = output_buffer[u]
  BY <1>1, <1>2, <1>3
<1>5. mixed' \in [Terms -> BOOLEAN] /\ (mixed'[t] <=> mixed[t] \/ prompt_len # shown[t])
      /\ \A u \in Terms \ {t} : mixed'[u] = mixed[u]
  BY DEF TermInv, TermTypes
<1>6. TermTypes'
  BY <1>4, <1>5 DEF TermInv, TermTypes
<1>7. ASSUME NEW u \in Terms PROVE RowsHold(u)' /\ TypedHolds(u)'
  <2>1. RowsHold(u) /\ TypedHolds(u) /\ output_line_count[u] \in 1 .. GUI_OUTPUT_LINES
    BY TermRowTypes DEF TermInv
  <2>2. CASE u # t
    <3>1. /\ output_buffer'[u] = output_buffer[u] /\ mixed'[u] = mixed[u]
          /\ term_pos'[u] = term_pos[u] /\ typed'[u] = typed[u]
      BY <1>4, <1>5, <2>2 DEF TermInv, TermTypes
    <3> QED BY <2>1, <3>1 DEF RowsHold, TypedHolds, LastRow
  <2>3. CASE u = t
    <3>1. RowsHold(t)'
      <4>1. \A i \in 1 .. n - 1 : i \in (1 .. GUI_OUTPUT_LINES) \ {n}
        BY <1>1, TermSizes
      <4> QED BY <1>2, <1>4, <2>1, <2>3, <4>1 DEF RowsHold
    <3>2. TypedHolds(t)'
      <4>1. term_pos'[t] = p /\ typed'[t] = text /\ LastRow(t)' = row
        BY <1>2, <1>4 DEF TermInv, TermTypes, LastRow
      <4> QED BY <1>5, <4>1 DEF TypedHolds
    <3> QED BY <2>3, <3>1, <3>2
  <2> QED BY <2>2, <2>3
<1> QED BY <1>6, <1>7 DEF TermInv

(* A printable key preserves the invariant. *)
LEMMA TermTypeInv ==
  ASSUME TermInv, NEW t \in Terms, NEW c \in TermKeys, TermType(t, c)
  PROVE  TermInv'
<1> DEFINE p == term_pos[t]
           row == [LastRow(t) EXCEPT ![p + 1] = c, ![p + 2] = NUL]
           text == Append(typed[t], c)
<1>1. /\ LastRow(t) \in EndedRows /\ p \in 0 .. GUI_OUTPUT_COLS - 1 /\ typed[t] \in TermText /\ Len(typed[t]) \in Nat
      /\ shown[t] \in Nat /\ GUI_OUTPUT_COLS \in Nat
  BY TermRowTypes, TermSizes
<1>2. p + 2 <= GUI_OUTPUT_COLS /\ c \in Printable /\ c # NUL
  BY TermSizes, TerminalAssumption DEF TermType, InRow
<1>3. /\ output_buffer' = [output_buffer EXCEPT ![t][output_line_count[t]] = row]
      /\ term_pos' = [term_pos EXCEPT ![t] = p + 1] /\ typed' = [typed EXCEPT ![t] = text]
      /\ mixed' = [mixed EXCEPT ![t] = @ \/ prompt_len # shown[t]]
      /\ UNCHANGED <<dir, output_line_count, window_width_chars, shown, printed>>
  BY DEF TermType, TermKey, Mixing, LastRow
<1>4. /\ row \in [1 .. GUI_OUTPUT_COLS -> Printable \cup {NUL}] /\ row[p + 1] = c /\ row[p + 2] = NUL
      /\ \A i \in 1 .. p : row[i] = LastRow(t)[i]
      /\ \A i \in p + 3 .. GUI_OUTPUT_COLS : row[i] = LastRow(t)[i]
  <2> DEFINE last == LastRow(t)
             C == Printable \cup {NUL}
             one == [last EXCEPT ![p + 1] = c]
  <2>1. last \in [1 .. GUI_OUTPUT_COLS -> C] /\ p + 1 \in 1 .. GUI_OUTPUT_COLS /\ p + 2 \in 1 .. GUI_OUTPUT_COLS
        /\ c \in C /\ NUL \in C
    BY <1>1, <1>2 DEF EndedRows
  <2>2. row = [one EXCEPT ![p + 2] = NUL]
    BY <2>1
  <2> HIDE DEF last, C, row
  <2>3. one \in [1 .. GUI_OUTPUT_COLS -> C] /\ one[p + 1] = c /\ \A i \in 1 .. GUI_OUTPUT_COLS : i # p + 1 => one[i] = last[i]
    BY <2>1
  <2> HIDE DEF one
  <2>4. row \in [1 .. GUI_OUTPUT_COLS -> C] /\ row[p + 2] = NUL /\ \A i \in 1 .. GUI_OUTPUT_COLS : i # p + 2 => row[i] = one[i]
    BY <2>1, <2>2, <2>3
  <2>5. row[p + 1] = c
    BY <1>1, <2>1, <2>3, <2>4
  <2>6. \A i \in 1 .. GUI_OUTPUT_COLS : i < p + 1 \/ i > p + 2 => row[i] = last[i]
    BY <1>1, <2>3, <2>4
  <2> QED BY <1>1, <1>2, <2>4, <2>5, <2>6 DEF last, C
<1> HIDE DEF row
<1>5. row \in EndedRows
  <2>1. row[GUI_OUTPUT_COLS] = NUL
    BY <1>1, <1>2, <1>4 DEF EndedRows
  <2> QED BY <1>4, <2>1 DEF EndedRows
<1>6. text \in TermText /\ Len(text) = Len(typed[t]) + 1 /\ text[Len(typed[t]) + 1] = c
      /\ \A i \in 1 .. Len(typed[t]) : text[i] = typed[t][i]
  BY <1>1, <1>2 DEF TermText
<1> HIDE DEF text
<1>7. ASSUME ~mixed[t] PROVE p + 1 = shown[t] + Len(text) /\ Holds(row, shown[t], text)
  <2>1. p = shown[t] + Len(typed[t]) /\ Holds(LastRow(t), shown[t], typed[t])
    BY <1>7 DEF TermInv, TypedHolds
  <2>2. \A i \in 1 .. Len(text) : row[shown[t] + i] = text[i]
    <3> SUFFICES ASSUME NEW i \in 1 .. Len(text) PROVE row[shown[t] + i] = text[i]
      OBVIOUS
    <3>1. CASE i = Len(typed[t]) + 1
      <4>1. shown[t] + i = p + 1
        BY <1>1, <2>1, <3>1
      <4> QED BY <1>4, <1>6, <3>1, <4>1
    <3>2. CASE i # Len(typed[t]) + 1
      <4>1. i \in 1 .. Len(typed[t]) /\ shown[t] + i \in 1 .. p
        BY <1>1, <1>6, <2>1, <3>2, SMTT(40)
      <4> QED BY <1>4, <1>6, <2>1, <4>1 DEF Holds
    <3> QED BY <3>1, <3>2
  <2>3. shown[t] + Len(text) + 1 = p + 2 /\ p + 1 = shown[t] + Len(text) /\ shown[t] + Len(text) < GUI_OUTPUT_COLS
    BY <1>1, <1>2, <1>6, <2>1, SMTT(40)
  <2> QED BY <1>4, <2>2, <2>3 DEF Holds
<1>8. p + 1 \in 0 .. GUI_OUTPUT_COLS - 1
  BY <1>1, <1>2
<1> QED BY <1>3, <1>5, <1>6, <1>7, <1>8, LastRowChanges

(* So does a backspace. *)
LEMMA TermBackspaceInv ==
  ASSUME TermInv, NEW t \in Terms, TermBackspace(t)
  PROVE  TermInv'
<1>1. /\ LastRow(t) \in EndedRows /\ term_pos[t] \in 0 .. GUI_OUTPUT_COLS - 1 /\ typed[t] \in TermText /\ Len(typed[t]) \in Nat
      /\ shown[t] \in Nat /\ GUI_OUTPUT_COLS \in Nat /\ prompt_len \in Nat
      /\ output_line_count[t] \in 1 .. GUI_OUTPUT_LINES /\ output_buffer[t] \in TermRows
  BY TermRowTypes, TermSizes
<1>2. /\ mixed' = [mixed EXCEPT ![t] = @ \/ prompt_len # shown[t]]
      /\ UNCHANGED <<dir, output_line_count, window_width_chars, shown, printed>>
  BY DEF TermBackspace, TermKey, Mixing
<1>3. CASE Erasable(t)
  <2> DEFINE p == term_pos[t]
             row == [LastRow(t) EXCEPT ![p] = NUL]
             text == IF typed[t] = <<>> THEN typed[t] ELSE Front(typed[t])
  <2>1. p > prompt_len /\ p \in 1 .. GUI_OUTPUT_COLS
    BY <1>1, <1>3 DEF Erasable
  <2>2. /\ output_buffer' = [output_buffer EXCEPT ![t][output_line_count[t]] = row]
        /\ term_pos' = [term_pos EXCEPT ![t] = p - 1] /\ typed' = [typed EXCEPT ![t] = text]
    BY <1>3 DEF TermBackspace, LastRow
  <2>3. /\ row \in [1 .. GUI_OUTPUT_COLS -> Printable \cup {NUL}] /\ row[p] = NUL
        /\ \A i \in 1 .. GUI_OUTPUT_COLS : i # p => row[i] = LastRow(t)[i]
    BY <1>1, <2>1 DEF EndedRows
  <2> HIDE DEF row
  <2>4. row \in EndedRows
    <3>1. row[GUI_OUTPUT_COLS] = NUL
      BY <1>1, <2>1, <2>3 DEF EndedRows
    <3> QED BY <2>3, <3>1 DEF EndedRows
  <2>5. /\ text \in TermText
        /\ Len(typed[t]) > 0 => Len(text) = Len(typed[t]) - 1 /\ \A i \in 1 .. Len(typed[t]) - 1 : text[i] = typed[t][i]
    <3>1. CASE typed[t] = <<>>
      BY <1>1, <3>1
    <3>2. CASE typed[t] # <<>>
      <4> DEFINE q == typed[t]
                 n == Len(q) - 1
      <4>1. q \in Seq(Printable) /\ Len(q) \in Nat /\ Len(q) > 0 /\ text = SubSeq(q, 1, n)
        BY <1>1, <3>2 DEF TermText, Front
      <4> HIDE DEF q, text
      <4>2. n \in 0 .. Len(q) /\ 1 \in 1 .. Len(q) + 1 /\ 1 <= n + 1 /\ n - 1 + 1 = n /\ n \in Int
        BY <4>1
      <4>3. \A i \in 1 .. n : q[i] \in Printable
        BY <4>1
      <4> HIDE DEF n
      <4>4. /\ SubSeq(q, 1, n) \in Seq(Printable) /\ Len(SubSeq(q, 1, n)) = IF 1 <= n THEN n - 1 + 1 ELSE 0
            /\ \A i \in 1 .. n - 1 + 1 : SubSeq(q, 1, n)[i] = q[1 + i - 1]
        BY <4>2, <4>3, SubSeqProperties
      <4>5. Len(SubSeq(q, 1, n)) = n /\ \A i \in 1 .. n : SubSeq(q, 1, n)[i] = q[i]
        BY <4>2, <4>4
      <4> QED BY <4>1, <4>4, <4>5 DEF TermText, n, q
    <3> QED BY <3>1, <3>2
  <2> HIDE DEF text
  <2>6. ASSUME ~mixed[t], prompt_len = shown[t] PROVE p - 1 = shown[t] + Len(text) /\ Holds(row, shown[t], text)
    <3>1. p = shown[t] + Len(typed[t]) /\ Holds(LastRow(t), shown[t], typed[t])
      BY <2>6 DEF TermInv, TypedHolds
    <3>2. Len(typed[t]) > 0 /\ Len(text) = Len(typed[t]) - 1 /\ \A i \in 1 .. Len(text) : text[i] = typed[t][i]
      BY <1>1, <2>1, <2>5, <2>6, <3>1
    <3>3. \A i \in 1 .. Len(text) : row[shown[t] + i] = text[i]
      <4> SUFFICES ASSUME NEW i \in 1 .. Len(text) PROVE row[shown[t] + i] = text[i]
        OBVIOUS
      <4>1. i \in 1 .. Len(typed[t]) /\ shown[t] + i \in 1 .. GUI_OUTPUT_COLS /\ shown[t] + i # p
        BY <1>1, <2>1, <3>1, <3>2, SMTT(40)
      <4> QED BY <2>3, <3>1, <3>2, <4>1 DEF Holds
    <3>4. shown[t] + Len(text) + 1 = p /\ p - 1 = shown[t] + Len(text) /\ shown[t] + Len(text) < GUI_OUTPUT_COLS
      BY <1>1, <2>1, <3>1, <3>2, SMTT(40)
    <3> QED BY <2>3, <3>3, <3>4 DEF Holds
  <2>7. p - 1 \in 0 .. GUI_OUTPUT_COLS - 1
    BY <1>1, <2>1
  <2> QED BY <1>2, <2>2, <2>4, <2>5, <2>6, <2>7, LastRowChanges
<1>4. CASE ~Erasable(t)
  <2> DEFINE row == LastRow(t)
  <2>1. /\ output_buffer' = output_buffer /\ term_pos' = term_pos /\ typed' = typed
    BY <1>4 DEF TermBackspace
  <2>2. /\ output_buffer' = [output_buffer EXCEPT ![t][output_line_count[t]] = row]
        /\ term_pos' = [term_pos EXCEPT ![t] = term_pos[t]] /\ typed' = [typed EXCEPT ![t] = typed[t]]
    BY <1>1, <2>1 DEF LastRow, TermInv, TermTypes, TermRows
  <2>3. ~mixed[t] => term_pos[t] = shown[t] + Len(typed[t]) /\ Holds(row, shown[t], typed[t])
    BY DEF TermInv, TypedHolds
  <2> HIDE DEF row
  <2>4. row \in EndedRows
    BY <1>1 DEF row
  <2> QED BY <1>1, <1>2, <2>2, <2>3, <2>4, LastRowChanges
<1> QED BY <1>3, <1>4

(* Enter runs the line and prints what it says: the invariant holds for the *)
(* rows that are there then.                                                *)
LEMMA TermEnterInv ==
  ASSUME TermInv, NEW t \in Terms, TermEnter(t)
  PROVE  TermInv'
<1> DEFINE L == GUI_OUTPUT_LINES
           row == LastRow(t)
           command == StringAt(row, prompt_len)
           done == gui_execute(command, window_width_chars[t])
           prompt == Prompts[done.dir]
           added == Append(done.lines, prompt)
           before == [rows |-> output_buffer[t], count |-> output_line_count[t]]
           st == Adding(before, added)[Len(added)]
           old == Front(printed[t]) \o <<StringAt(row, 0)>>
           latest == LatestOf(old \o added, L)
<1>1. /\ output_line_count[t] \in 1 .. L /\ output_buffer[t] \in TermRows /\ row \in EndedRows
      /\ prompt_len \in 0 .. GUI_OUTPUT_COLS - 1 /\ 0 \in 0 .. GUI_OUTPUT_COLS - 1 /\ L \in Nat \ {0}
  BY TermRowTypes, TermSizes
<1>2. window_width_chars[t] \in Nat \ {0} /\ dir \in DOMAIN Prompts /\ printed[t] \in Seq(TermText)
  BY TerminalAssumption DEF TermInv, TermTypes
<1>3. command \in TermText /\ StringAt(row, 0) \in TermText /\ Holds(row, 0, StringAt(row, 0))
  BY <1>1, StringAtHolds
<1>4. done.lines \in Seq(TermText) /\ done.dir \in DOMAIN Prompts
  <2> HIDE DEF command
  <2> QED BY <1>2, <1>3, ExecuteIs
<1>5. /\ dir' = done.dir
      /\ output_buffer' = [output_buffer EXCEPT ![t] = st.rows]
      /\ output_line_count' = [output_line_count EXCEPT ![t] = st.count]
      /\ term_pos' = [term_pos EXCEPT ![t] = Len(prompt)]
      /\ typed' = [typed EXCEPT ![t] = <<>>] /\ shown' = [shown EXCEPT ![t] = Len(prompt)]
      /\ mixed' = [mixed EXCEPT ![t] = FALSE]
      /\ printed' = [printed EXCEPT ![t] = latest]
      /\ UNCHANGED window_width_chars
      /\ Len(prompt) < PROMPT_SIZE
  BY DEF TermEnter, TermKey, Recent, LatestOf
<1> HIDE DEF done, row, command
<1>6. prompt \in TermText /\ Len(prompt) \in Nat /\ Len(prompt) < GUI_OUTPUT_COLS /\ Len(Prompts[dir']) < PROMPT_SIZE
  BY <1>4, <1>5, TermSizes
<1> HIDE DEF prompt
<1>7. added \in Seq(TermText) /\ Len(added) \in Nat \ {0} /\ added[Len(added)] = prompt
  BY <1>4, <1>6
<1> HIDE DEF added
<1>8. /\ old \in Seq(TermText) /\ Len(old) = output_line_count[t]
      /\ old[output_line_count[t]] = StringAt(row, 0)
      /\ \A i \in 1 .. output_line_count[t] - 1 : old[i] = printed[t][i]
  <2> DEFINE q == printed[t]
             n == Len(q) - 1
             f == SubSeq(q, 1, n)
             s == StringAt(row, 0)
  <2>1. q \in Seq(TermText) /\ Len(q) = output_line_count[t] /\ Len(q) \in Nat /\ Len(q) > 0
    BY <1>1, <1>2 DEF TermInv, RowsHold
  <2>2. n \in Nat /\ n \in 0 .. Len(q) /\ 1 \in 1 .. Len(q) + 1 /\ 1 <= n + 1 /\ n - 1 + 1 = n /\ n \in Int
    BY <2>1
  <2>3. old = f \o <<s>>
    BY DEF Front
  <2> HIDE DEF s, old
  <2>4. \A i \in 1 .. n : q[i] \in TermText
    BY <2>1
  <2>5. s \in TermText
    BY <1>3 DEF s
  <2> HIDE DEF q
  <2>6. f \in Seq(TermText) /\ Len(f) = n /\ \A i \in 1 .. n : f[i] = q[i]
    <3> HIDE DEF n
    <3>1. /\ SubSeq(q, 1, n) \in Seq(TermText) /\ Len(SubSeq(q, 1, n)) = IF 1 <= n THEN n - 1 + 1 ELSE 0
          /\ \A i \in 1 .. n - 1 + 1 : SubSeq(q, 1, n)[i] = q[1 + i - 1]
      BY <2>2, <2>4, SubSeqProperties
    <3>2. Len(SubSeq(q, 1, n)) = n /\ \A i \in 1 .. n : SubSeq(q, 1, n)[i] = q[i]
      BY <2>2, <3>1
    <3> QED BY <3>1, <3>2
  <2> HIDE DEF f
  <2>7. old \in Seq(TermText) /\ Len(old) = n + 1 /\ old[n + 1] = s /\ \A i \in 1 .. n : old[i] = f[i]
    BY <2>3, <2>5, <2>6
  <2>8. n + 1 = output_line_count[t] /\ n = output_line_count[t] - 1
    BY <2>1 DEF n
  <2> QED BY <2>6, <2>7, <2>8 DEF q, s
<1> HIDE DEF old
<1>9. RowsAre(before, LatestOf(old, L))
  <2>1. LatestOf(old, L) = old
    BY <1>1, <1>8 DEF LatestOf
  <2>2. before \in TermStates /\ before.rows = output_buffer[t] /\ before.count = output_line_count[t]
    BY <1>1 DEF TermStates
  <2>3. ASSUME NEW i \in 1 .. output_line_count[t] PROVE Holds(output_buffer[t][i], 0, Cut(old[i]))
    <3>1. CASE i = output_line_count[t]
      <4>1. output_buffer[t][i] = row /\ old[i] = StringAt(row, 0)
        BY <1>8, <3>1 DEF LastRow, row
      <4>2. Len(StringAt(row, 0)) < GUI_OUTPUT_COLS
        BY <1>3, TermSizes DEF Holds, TermText
      <4>3. Cut(StringAt(row, 0)) = StringAt(row, 0)
        BY <1>3, <4>2, CutIs
      <4> QED BY <1>3, <4>1, <4>3
    <3>2. CASE i # output_line_count[t]
      <4>1. i \in 1 .. output_line_count[t] - 1
        BY <1>1, <3>2
      <4> QED BY <1>8, <4>1 DEF TermInv, RowsHold
    <3> QED BY <3>1, <3>2
  <2> HIDE DEF before
  <2>4. RowsAre(before, old)
    BY <1>8, <2>2, <2>3 DEF RowsAre
  <2> QED BY <2>1, <2>4
<1> HIDE DEF before
<1>10. RowsAre(st, latest)
  BY <1>7, <1>8, <1>9, AddingHolds
<1>11. latest \in Seq(TermText) /\ Len(latest) > 0 /\ latest[Len(latest)] = prompt
  <2> DEFINE all == old \o added
  <2>1. all \in Seq(TermText) /\ all # <<>> /\ all[Len(all)] = prompt
    BY <1>7, <1>8
  <2> HIDE DEF all
  <2>2. LET h == LatestOf(all, L) IN
        h \in Seq(TermText) /\ (Len(h) > 0 <=> all # <<>>) /\ (all # <<>> => h[Len(h)] = all[Len(all)])
    BY <1>1, <1>6, <2>1, LatestAppend
  <2> QED BY <2>1, <2>2 DEF all
<1> HIDE DEF st, latest
<1>12. /\ st.rows \in TermRows /\ st.count \in 1 .. L /\ Len(latest) = st.count
       /\ \A i \in 1 .. st.count : Holds(st.rows[i], 0, Cut(latest[i]))
  <2>1. st.rows \in TermRows /\ st.count \in 0 .. L /\ Len(latest) = st.count
    BY <1>10 DEF RowsAre, TermStates
  <2> QED BY <1>1, <1>10, <1>11, <2>1 DEF RowsAre
<1>13. Holds(st.rows[st.count], 0, prompt)
  <2>1. st.count \in 1 .. st.count
    BY <1>1, <1>12
  <2> QED BY <1>6, <1>11, <1>12, <2>1, CutIs
<1>14. TermTypes'
  <2>1. Len(prompt) \in 0 .. GUI_OUTPUT_COLS - 1 /\ <<>> \in TermText
    BY <1>6, TermSizes DEF TermText
  <2> QED BY <1>4, <1>5, <1>6, <1>11, <1>12, <2>1 DEF TermInv, TermTypes
<1>15. ASSUME NEW u \in Terms PROVE RowsHold(u)' /\ TypedHolds(u)'
  <2>1. CASE u # t
    <3>1. /\ output_buffer'[u] = output_buffer[u] /\ output_line_count'[u] = output_line_count[u] /\ mixed'[u] = mixed[u]
          /\ term_pos'[u] = term_pos[u] /\ typed'[u] = typed[u] /\ shown'[u] = shown[u] /\ printed'[u] = printed[u]
      BY <1>5, <2>1 DEF TermInv, TermTypes
    <3>2. RowsHold(u) /\ TypedHolds(u)
      BY DEF TermInv
    <3> QED BY <3>1, <3>2 DEF RowsHold, TypedHolds, LastRow
  <2>2. CASE u = t
    <3>1. /\ output_buffer'[t] = st.rows /\ output_line_count'[t] = st.count /\ term_pos'[t] = Len(prompt)
          /\ typed'[t] = <<>> /\ shown'[t] = Len(prompt) /\ printed'[t] = latest
      BY <1>5 DEF TermInv, TermTypes
    <3>2. RowsHold(t)'
      <4>1. \A i \in 1 .. st.count - 1 : i \in 1 .. st.count
        BY <1>1, <1>12
      <4> QED BY <1>12, <3>1, <4>1 DEF RowsHold
    <3>3. TypedHolds(t)'
      <4>1. LastRow(t)' = st.rows[st.count]
        BY <3>1 DEF LastRow
      <4>2. Holds(st.rows[st.count], Len(prompt), <<>>)
        BY <1>6, <1>13, TermSizes DEF Holds
      <4>3. Len(prompt) = Len(prompt) + Len(<<>>)
        BY <1>6
      <4> QED BY <3>1, <4>1, <4>2, <4>3 DEF TypedHolds
    <3> QED BY <2>2, <3>2, <3>3
  <2> QED BY <2>1, <2>2
<1> QED BY <1>14, <1>15 DEF TermInv

(* A window starts with the first prompt in its first row. *)
LEMMA TermInitInv == TermInit => TermInv
<1> SUFFICES ASSUME TermInit PROVE TermInv
  OBVIOUS
<1> DEFINE st == [rows |-> Blank, count |-> 0]
           p == Prompts[1]
           next == gui_terminal_add_line(st, p)
<1>1. p \in TermText /\ Len(p) \in Nat /\ Len(p) < GUI_OUTPUT_COLS /\ 1 \in DOMAIN Prompts /\ GUI_OUTPUT_LINES \in Nat \ {0}
      /\ GUI_OUTPUT_COLS \in Nat \ {0}
  BY TermSizes
<1>2. Blank \in TermRows
  BY <1>1 DEF Blank, TermRows, EndedRows
<1>3. st \in TermStates /\ st.count = 0
  BY <1>1, <1>2 DEF TermStates
<1> HIDE DEF p, st
<1>4. next \in TermStates /\ next.count = 1 /\ Holds(next.rows[1], 0, Cut(p))
  BY <1>1, <1>3, AddLineIs
<1>5. next.rows \in TermRows /\ Holds(next.rows[1], 0, p)
  BY <1>1, <1>4, CutIs DEF TermStates
<1>6. gui_terminal_init = next
  BY DEF gui_terminal_init, next, st, p
<1> HIDE DEF next
<1>7. /\ dir = 1 /\ output_buffer = [t \in Terms |-> next.rows] /\ output_line_count = [t \in Terms |-> 1]
      /\ term_pos = [t \in Terms |-> Len(p)] /\ window_width_chars \in [Terms -> Widths]
      /\ typed = [t \in Terms |-> <<>>] /\ shown = [t \in Terms |-> Len(p)]
      /\ mixed = [t \in Terms |-> FALSE] /\ printed = [t \in Terms |-> <<p>>]
  BY <1>4, <1>6 DEF TermInit, p
<1>8. TermTypes
  <2>1. <<p>> \in Seq(TermText) /\ <<>> \in TermText /\ Len(p) \in 0 .. GUI_OUTPUT_COLS - 1 /\ 1 \in 1 .. GUI_OUTPUT_LINES
    BY <1>1 DEF TermText
  <2>2. Len(Prompts[dir]) < PROMPT_SIZE
    BY <1>7, TermSizes
  <2> QED BY <1>1, <1>5, <1>7, <2>1, <2>2 DEF TermTypes
<1>9. ASSUME NEW t \in Terms PROVE RowsHold(t) /\ TypedHolds(t)
  <2>1. RowsHold(t)
    BY <1>7 DEF RowsHold
  <2>2. LastRow(t) = next.rows[1] /\ shown[t] = Len(p) /\ term_pos[t] = Len(p) /\ typed[t] = <<>>
    BY <1>7 DEF LastRow
  <2>3. Holds(next.rows[1], Len(p), <<>>)
    BY <1>1, <1>5 DEF Holds
  <2> QED BY <1>1, <2>1, <2>2, <2>3 DEF TypedHolds
<1> QED BY <1>8, <1>9 DEF TermInv

(* Whatever is typed, erased and run in however many windows, a terminal    *)
(* runs what was typed at its prompt and shows the last lines printed,      *)
(* until a line is typed past the end of its row or a directory has too     *)
(* long a prompt.                                                           *)
THEOREM TerminalCorrect == TermSpec => []TerminalKeeps
<1>1. TermInv /\ [TermNext]_termVars => TermInv'
  <2> SUFFICES ASSUME TermInv, [TermNext]_termVars PROVE TermInv'
    OBVIOUS
  <2>1. CASE UNCHANGED termVars
    BY <2>1 DEF termVars, TermInv, TermTypes, RowsHold, TypedHolds, LastRow
  <2>2. CASE TermNext
    <3>1. PICK t \in Terms : \/ TermBackspace(t) \/ TermEnter(t) \/ TermEnterOver(t) \/ TermTypeOver(t)
                            \/ \E c \in TermKeys : TermType(t, c)
      BY <2>2 DEF TermNext
    <3>2. CASE TermEnterOver(t) \/ TermTypeOver(t)
      <4>1. UNCHANGED <<dir, window_width_chars, output_buffer, output_line_count, term_pos, typed, shown, mixed, printed>>
        BY <3>2 DEF TermEnterOver, TermTypeOver, TermKey, RunsOver
      <4> QED BY <4>1 DEF TermInv, TermTypes, RowsHold, TypedHolds, LastRow
    <3> QED BY <3>1, <3>2, TermBackspaceInv, TermEnterInv, TermTypeInv
  <2> QED BY <2>1, <2>2
<1>2. TermInv => TerminalKeeps
  <2> SUFFICES ASSUME TermInv PROVE TerminalKeeps
    OBVIOUS
  <2>1. TypedRuns
    <3> SUFFICES ASSUME NEW t \in Terms, ~mixed[t], prompt_len = shown[t]
                 PROVE  StringAt(LastRow(t), prompt_len) = typed[t] /\ term_pos[t] = prompt_len + Len(typed[t])
      BY DEF TypedRuns
    <3>1. LastRow(t) \in EndedRows /\ typed[t] \in TermText /\ prompt_len \in Nat
      BY TermRowTypes
    <3>2. term_pos[t] = shown[t] + Len(typed[t]) /\ Holds(LastRow(t), shown[t], typed[t])
      BY DEF TermInv, TypedHolds
    <3> QED BY <3>1, <3>2, StringAtIs
  <2>2. RowsRecent
    <3> SUFFICES ASSUME NEW t \in Terms
                 PROVE  /\ output_line_count[t] = Len(printed[t])
                        /\ \A i \in 1 .. output_line_count[t] - 1 : StringAt(output_buffer[t][i], 0) = Cut(printed[t][i])
      BY DEF RowsRecent
    <3>1. output_line_count[t] = Len(printed[t]) /\ output_line_count[t] \in 1 .. GUI_OUTPUT_LINES
          /\ output_buffer[t] \in TermRows /\ printed[t] \in Seq(TermText)
          /\ \A i \in 1 .. output_line_count[t] - 1 : Holds(output_buffer[t][i], 0, Cut(printed[t][i]))
      BY TermRowTypes DEF TermInv, TermTypes, RowsHold
    <3>2. ASSUME NEW i \in 1 .. output_line_count[t] - 1 PROVE StringAt(output_buffer[t][i], 0) = Cut(printed[t][i])
      <4>1. output_buffer[t][i] \in EndedRows /\ printed[t][i] \in TermText
        BY <3>1, TermSizes DEF TermRows
      <4> QED BY <3>1, <4>1, CutIs, StringAtIs
    <3> QED BY <3>1, <3>2
  <2> QED BY <2>1, <2>2 DEF TerminalKeeps
<1> QED BY <1>1, <1>2, TermInitInv, PTL DEF TermSpec

-----------------------------------------------------------------------------
(* The first place from a on that is in G, or b. *)
FirstIn(a, b, G, q) == q \in a .. b /\ (\A r \in a .. q - 1 : r \notin G) /\ (q < b => q \in G)

(* There is one. *)
LEMMA FirstExists ==
  ASSUME NEW a \in Nat, NEW b \in Nat, a <= b, NEW G
  PROVE  \E q \in a .. b : FirstIn(a, b, G, q)
<1> DEFINE Q == {q \in a .. b : q \in G \/ q = b}
<1>1. Q \subseteq Nat /\ Q # {}
  <2>1. b \in Q
    OBVIOUS
  <2>2. \A q \in a .. b : q \in Nat
    OBVIOUS
  <2> QED BY <2>1, <2>2
<1>2. PICK q \in Q : \A r \in Q : q <= r
  BY <1>1, LeastNumber
<1>3. q \in a .. b /\ (q < b => q \in G)
  BY <1>2
<1>4. ASSUME NEW r \in a .. q - 1 PROVE r \notin G
  <2>1. r \in a .. b /\ ~(q <= r)
    BY <1>3
  <2>2. r \notin Q
    BY <1>2, <2>1
  <2> QED BY <2>1, <2>2
<1> QED BY <1>3, <1>4 DEF FirstIn

(* There is only one. *)
LEMMA FirstOnly ==
  ASSUME NEW a \in Nat, NEW b \in Nat, NEW G, NEW q, NEW r, FirstIn(a, b, G, q), FirstIn(a, b, G, r)
  PROVE  q = r
<1>1. q \in a .. b /\ r \in a .. b
  BY DEF FirstIn
<1>2. ASSUME q < r PROVE FALSE
  <2>1. q \in a .. r - 1 /\ q < b
    BY <1>1, <1>2
  <2> QED BY <2>1 DEF FirstIn
<1>3. ASSUME r < q PROVE FALSE
  <2>1. r \in a .. q - 1 /\ r < b
    BY <1>1, <1>3
  <2> QED BY <2>1 DEF FirstIn
<1> QED BY <1>1, <1>2, <1>3

(* The last of a set of places in a sequence. *)
LEMMA LastOfSet ==
  ASSUME NEW N \in Nat, NEW G, G \subseteq 1 .. N, G # {}
  PROVE  \E t \in G : \A j \in G : j <= t
<1> DEFINE Q == {n \in 0 .. N : N - n \in G}
<1>1. \A j \in G : j \in 1 .. N /\ N - j \in 0 .. N /\ N - (N - j) = j
  OBVIOUS
<1>2. \A j \in G : N - j \in Q
  BY <1>1
<1>3. Q \subseteq Nat /\ Q # {}
  <2>1. PICK j \in G : TRUE
    OBVIOUS
  <2>2. N - j \in Q
    BY <1>2
  <2>3. \A n \in 0 .. N : n \in Nat
    OBVIOUS
  <2> QED BY <2>2, <2>3
<1> HIDE DEF Q
<1>4. PICK q \in Q : \A r \in Q : q <= r
  BY <1>3, LeastNumber
<1>5. q \in 0 .. N /\ N - q \in G
  BY <1>4 DEF Q
<1>6. ASSUME NEW j \in G PROVE j <= N - q
  <2>1. q <= N - j /\ j \in 1 .. N
    BY <1>1, <1>2, <1>4
  <2> QED BY <1>5, <2>1
<1> QED BY <1>5, <1>6

(* The elements of a set of numbers are numbered without gaps. *)
LEMMA NthExists ==
  ASSUME NEW S \in SUBSET Nat, IsFiniteSet(S), NEW n \in 1 .. Cardinality(S)
  PROVE  Nth(S, n) \in S /\ Rank(S, Nth(S, n)) = n
<1> DEFINE C == Cardinality(S)
           f == [i \in S |-> Rank(S, i)]
<1>1. C \in Nat
  BY FS_CardinalityType
<1>2. \A i \in S : Rank(S, i) \in 1 .. C
  <2> SUFFICES ASSUME NEW i \in S PROVE Rank(S, i) \in 1 .. C
    OBVIOUS
  <2> DEFINE A == {j \in S : j <= i}
  <2>1. A \subseteq S /\ i \in A
    OBVIOUS
  <2> HIDE DEF A
  <2>2. IsFiniteSet(A) /\ Cardinality(A) <= C
    BY <2>1, FS_Subset
  <2>3. Cardinality(A) \in Nat /\ Cardinality(A) # 0
    BY <2>1, <2>2, FS_CardinalityType, FS_EmptySet
  <2>4. Cardinality(A) \in 1 .. C
    BY <1>1, <2>2, <2>3
  <2> QED BY <2>4 DEF A, Rank
<1>3. f \in [S -> 1 .. C]
  BY <1>2
<1>4. \A i, k \in S : f[i] = f[k] => i = k
  BY RankInjective
<1>5. f \in Injection(S, 1 .. C)
  BY <1>3, <1>4 DEF Injection, IsInjective
<1>6. IsFiniteSet(1 .. C) /\ Cardinality(1 .. C) = C
  BY <1>1, FS_Interval
<1> HIDE DEF f
<1>7. f \in Surjection(S, 1 .. C)
  BY <1>5, <1>6, FS_Injection
<1>8. \E i \in S : f[i] = n
  BY <1>7 DEF Surjection
<1>9. \E i \in S : Cardinality({j \in S : j <= i}) = n
  BY <1>8 DEF f, Rank
<1> QED BY <1>9 DEF Nth, Rank

(* The places of a text with and without ink, and where "&&" starts. *)
Ink(s) == {i \in DOMAIN s : s[i] # SPACE}
Gaps(s) == {i \in DOMAIN s : s[i] = SPACE}
Chains(s) == {i \in DOMAIN s : ChainAt(s, i)}

(* SkipSpaces finds the first ink. *)
LEMMA SkipIs ==
  ASSUME NEW T, NEW s \in Seq(T), NEW p \in 1 .. Len(s) + 1
  PROVE  FirstIn(p, Len(s) + 1, Ink(s), SkipSpaces(s, p))
<1> DEFINE N == Len(s)
           Is(q) == (\A r \in p .. q - 1 : s[r] = SPACE) /\ (q <= N => s[q] # SPACE)
<1>1. N \in Nat /\ p \in Nat /\ N + 1 \in Nat /\ p <= N + 1 /\ DOMAIN s = 1 .. N
  OBVIOUS
<1>2. ASSUME NEW q \in p .. N + 1 PROVE Is(q) <=> FirstIn(p, N + 1, Ink(s), q)
  <2>1. q <= N <=> q < N + 1
    BY <1>1
  <2>2. q <= N => q \in 1 .. N
    BY <1>1
  <2>3. \A r \in p .. q - 1 : r \in 1 .. N
    BY <1>1
  <2> QED BY <1>1, <2>1, <2>2, <2>3 DEF FirstIn, Ink
<1>3. \E q \in p .. N + 1 : FirstIn(p, N + 1, Ink(s), q)
  BY <1>1, FirstExists
<1>4. SkipSpaces(s, p) = CHOOSE q \in p .. N + 1 : Is(q)
  BY DEF SkipSpaces
<1> HIDE DEF Is
<1>5. \E q \in p .. N + 1 : Is(q)
  BY <1>2, <1>3
<1>6. SkipSpaces(s, p) \in p .. N + 1 /\ Is(SkipSpaces(s, p))
  BY <1>4, <1>5
<1> QED BY <1>2, <1>6

(* CopyUntil finds the first "&&". *)
LEMMA CopyIs ==
  ASSUME NEW T, NEW s \in Seq(T), NEW p \in 1 .. Len(s) + 1
  PROVE  FirstIn(p, Len(s) + 1, Chains(s), CopyUntil(s, p))
<1> DEFINE N == Len(s)
           Is(q) == (\A r \in p .. q - 1 : ~ChainAt(s, r)) /\ (q <= N => ChainAt(s, q))
<1>1. N \in Nat /\ p \in Nat /\ N + 1 \in Nat /\ p <= N + 1 /\ DOMAIN s = 1 .. N
  OBVIOUS
<1>2. ASSUME NEW q \in p .. N + 1 PROVE Is(q) <=> FirstIn(p, N + 1, Chains(s), q)
  <2>1. q <= N <=> q < N + 1
    BY <1>1
  <2>2. q <= N => q \in 1 .. N
    BY <1>1
  <2>3. \A r \in p .. q - 1 : r \in 1 .. N
    BY <1>1
  <2> QED BY <1>1, <2>1, <2>2, <2>3 DEF FirstIn, Chains
<1>3. \E q \in p .. N + 1 : FirstIn(p, N + 1, Chains(s), q)
  BY <1>1, FirstExists
<1>4. CopyUntil(s, p) = CHOOSE q \in p .. N + 1 : Is(q)
  BY DEF CopyUntil
<1> HIDE DEF Is
<1>5. \E q \in p .. N + 1 : Is(q)
  BY <1>2, <1>3
<1>6. CopyUntil(s, p) \in p .. N + 1 /\ Is(CopyUntil(s, p))
  BY <1>4, <1>5
<1> QED BY <1>2, <1>6

(* console_execute: the name is the first word and the arguments begin at   *)
(* the second.                                                              *)
LEMMA CallIs ==
  ASSUME NEW T, NEW s \in Seq(T), NEW b, NEW e, NEW a,
         FirstIn(1, Len(s) + 1, Ink(s), b), FirstIn(b, Len(s) + 1, Gaps(s), e), FirstIn(e, Len(s) + 1, Ink(s), a)
  PROVE  Call(s) = [name |-> FirstFew(SubSeq(s, b, e - 1), MAX_NAME), args |-> SubSeq(s, a, Len(s))]
<1> DEFINE N == Len(s)
           Is(q) == (\A r \in b .. q - 1 : s[r] # SPACE) /\ (q <= N => s[q] = SPACE)
           end == CHOOSE q \in b .. N + 1 : Is(q)
<1>1. N \in Nat /\ N + 1 \in Nat /\ DOMAIN s = 1 .. N /\ 1 \in 1 .. N + 1
  OBVIOUS
<1>2. b \in 1 .. N + 1 /\ e \in b .. N + 1 /\ b \in Nat /\ e \in Nat /\ e \in 1 .. N + 1
  BY <1>1 DEF FirstIn
<1>3. SkipSpaces(s, 1) = b
  BY <1>1, SkipIs, FirstOnly
<1>4. SkipSpaces(s, e) = a
  BY <1>1, <1>2, SkipIs, FirstOnly
<1>5. ASSUME NEW q \in b .. N + 1 PROVE Is(q) <=> FirstIn(b, N + 1, Gaps(s), q)
  <2>1. q <= N <=> q < N + 1
    BY <1>1, <1>2
  <2>2. q <= N => q \in 1 .. N
    BY <1>1, <1>2
  <2>3. \A r \in b .. q - 1 : r \in 1 .. N
    BY <1>1, <1>2
  <2> QED BY <1>1, <2>1, <2>2, <2>3 DEF FirstIn, Gaps
<1>6. end = e
  <2>1. Is(e)
    BY <1>2, <1>5
  <2> HIDE DEF Is
  <2>2. end \in b .. N + 1 /\ Is(end)
    BY <1>2, <2>1
  <2>3. FirstIn(b, N + 1, Gaps(s), end)
    BY <1>5, <2>2
  <2> HIDE DEF end
  <2> QED BY <1>1, <1>2, <2>3, FirstOnly
<1>7. Call(s) = LET st == SkipSpaces(s, 1)
                    en == CHOOSE q \in st .. N + 1 : (\A r \in st .. q - 1 : s[r] # SPACE) /\ (q <= N => s[q] = SPACE)
                IN  [name |-> FirstFew(SubSeq(s, st, en - 1), MAX_NAME), args |-> SubSeq(s, SkipSpaces(s, en), Len(s))]
  BY DEF Call
<1>8. Call(s) = [name |-> FirstFew(SubSeq(s, b, end - 1), MAX_NAME), args |-> SubSeq(s, SkipSpaces(s, end), Len(s))]
  BY <1>3, <1>7
<1> HIDE DEF end
<1> QED BY <1>4, <1>6, <1>8

(* u is v behind d spaces, and v does not begin with one. *)
Indented(T, u, v, d) ==
  /\ u \in Seq(T) /\ v \in Seq(T) /\ d \in Nat /\ Len(u) = Len(v) + d
  /\ \A i \in 1 .. Len(v) : u[i + d] = v[i]
  /\ \A i \in 1 .. d : u[i] = SPACE
  /\ Len(v) > 0 => v[1] # SPACE

(* A piece of a text. *)
LEMMA Pieces ==
  ASSUME NEW T, NEW s \in Seq(T), NEW a \in 1 .. Len(s) + 1, NEW b \in 0 .. Len(s), a <= b + 1
  PROVE  /\ SubSeq(s, a, b) \in Seq(T) /\ Len(SubSeq(s, a, b)) = b - a + 1
         /\ \A i \in 1 .. b - a + 1 : SubSeq(s, a, b)[i] = s[a + i - 1]
<1>1. Len(s) \in Nat /\ \A i \in a .. b : s[i] \in T
  OBVIOUS
<1>2. a \in Int /\ b \in Int
  BY <1>1
<1>3. /\ SubSeq(s, a, b) \in Seq(T) /\ Len(SubSeq(s, a, b)) = IF a <= b THEN b - a + 1 ELSE 0
      /\ \A i \in 1 .. b - a + 1 : SubSeq(s, a, b)[i] = s[a + i - 1]
  BY <1>1, <1>2, SubSeqProperties
<1>4. Len(SubSeq(s, a, b)) = b - a + 1
  BY <1>2, <1>3
<1> QED BY <1>3, <1>4

(* The same piece of both. *)
LEMMA IndentedPiece ==
  ASSUME NEW T, NEW u \in Seq(T), NEW v \in Seq(T), NEW d \in Nat, Indented(T, u, v, d)
  PROVE  \A a \in 1 .. Len(v) + 1 : \A b \in 0 .. Len(v) : a <= b + 1 => SubSeq(u, a + d, b + d) = SubSeq(v, a, b)
<1> SUFFICES ASSUME NEW a \in 1 .. Len(v) + 1, NEW b \in 0 .. Len(v), a <= b + 1
             PROVE  SubSeq(u, a + d, b + d) = SubSeq(v, a, b)
  OBVIOUS
<1>1. u \in Seq(T) /\ v \in Seq(T) /\ d \in Nat /\ Len(v) \in Nat /\ Len(u) = Len(v) + d /\ \A i \in 1 .. Len(v) : u[i + d] = v[i]
  BY DEF Indented
<1>2. a + d \in 1 .. Len(u) + 1 /\ b + d \in 0 .. Len(u) /\ a + d <= b + d + 1 /\ (b + d) - (a + d) + 1 = b - a + 1
  BY <1>1
<1> DEFINE x == SubSeq(u, a + d, b + d)
           y == SubSeq(v, a, b)
<1>3. x \in Seq(T) /\ Len(x) = b - a + 1 /\ \A i \in 1 .. b - a + 1 : x[i] = u[a + d + i - 1]
  BY <1>1, <1>2, Pieces
<1>4. y \in Seq(T) /\ Len(y) = b - a + 1 /\ \A i \in 1 .. b - a + 1 : y[i] = v[a + i - 1]
  BY <1>1, Pieces
<1> HIDE DEF x, y
<1>5. ASSUME NEW i \in 1 .. b - a + 1 PROVE x[i] = y[i]
  <2>1. a + i - 1 \in 1 .. Len(v) /\ a + d + i - 1 = (a + i - 1) + d
    BY <1>1, SMTT(40)
  <2> QED BY <1>1, <1>3, <1>4, <2>1
<1>6. x = y
  BY <1>3, <1>4, <1>5, EqualSeqs
<1> QED BY <1>6 DEF x, y

(* What console_execute is called with, after the spaces at the end. *)
Alike(x, y) == (HasWord(x) <=> HasWord(y)) /\ (HasWord(x) => Call(x) = Call(y))

(* Spaces in front change nothing. *)
LEMMA IndentedCall ==
  ASSUME NEW T, NEW u \in Seq(T), NEW v \in Seq(T), NEW d \in Nat, Indented(T, u, v, d), Len(v) > 0
  PROVE  Alike(u, v)
<1> DEFINE N == Len(v)
           M == Len(u)
<1>1. /\ u \in Seq(T) /\ v \in Seq(T) /\ d \in Nat /\ N \in Nat /\ M \in Nat /\ M = N + d /\ N > 0
      /\ DOMAIN u = 1 .. M /\ DOMAIN v = 1 .. N /\ (\A i \in 1 .. N : u[i + d] = v[i])
      /\ (\A i \in 1 .. d : u[i] = SPACE) /\ v[1] # SPACE
  BY DEF Indented
<1> HIDE DEF N, M
<1>a. u \in Seq(T) /\ v \in Seq(T)
  BY <1>1
<1>b. \A i \in 1 .. Len(v) + 1 : \A j \in 0 .. Len(v) : i <= j + 1 => SubSeq(u, i + d, j + d) = SubSeq(v, i, j)
  BY IndentedPiece
<1>2. \A r \in d + 1 .. M : r - d \in 1 .. N /\ u[r] = v[r - d]
  <2> SUFFICES ASSUME NEW r \in d + 1 .. M PROVE r - d \in 1 .. N /\ u[r] = v[r - d]
    OBVIOUS
  <2>1. r - d \in 1 .. N /\ (r - d) + d = r
    BY <1>1
  <2> QED BY <1>1, <2>1
<1>3. HasWord(u) /\ HasWord(v)
  <2>1. 1 \in 1 .. N /\ 1 + d \in 1 .. M /\ u[1 + d] = v[1]
    BY <1>1
  <2> QED BY <1>1, <2>1 DEF HasWord
<1>4. FirstIn(1, N + 1, Ink(v), 1)
  BY <1>1 DEF FirstIn, Ink
<1>5. PICK e \in 1 .. N + 1 : FirstIn(1, N + 1, Gaps(v), e)
  <2>1. 1 \in Nat /\ N + 1 \in Nat /\ 1 <= N + 1
    BY <1>1
  <2> QED BY <2>1, FirstExists
<1>6. PICK a \in e .. N + 1 : FirstIn(e, N + 1, Ink(v), a)
  <2>1. e \in Nat /\ N + 1 \in Nat /\ e <= N + 1
    BY <1>1
  <2> QED BY <2>1, FirstExists
<1>7. Call(v) = [name |-> FirstFew(SubSeq(v, 1, e - 1), MAX_NAME), args |-> SubSeq(v, a, N)]
  <2>1. FirstIn(1, Len(v) + 1, Ink(v), 1) /\ FirstIn(1, Len(v) + 1, Gaps(v), e) /\ FirstIn(e, Len(v) + 1, Ink(v), a)
    BY <1>4, <1>5, <1>6 DEF N
  <2>2. Call(v) = [name |-> FirstFew(SubSeq(v, 1, e - 1), MAX_NAME), args |-> SubSeq(v, a, Len(v))]
    BY ONLY <1>a, <2>1, CallIs, ZenonT(30)
  <2> QED BY <2>2 DEF N
<1>8. FirstIn(1, M + 1, Ink(u), d + 1)
  <2>1. d + 1 \in 1 .. M + 1 /\ d + 1 \in 1 .. M /\ \A r \in 1 .. (d + 1) - 1 : r \in 1 .. d
    BY <1>1
  <2>2. u[d + 1] # SPACE
    <3>1. 1 + d = d + 1 /\ 1 \in 1 .. N
      BY <1>1
    <3> QED BY <1>1, <3>1
  <2> QED BY <1>1, <2>1, <2>2 DEF FirstIn, Ink
<1>9. FirstIn(d + 1, M + 1, Gaps(u), e + d)
  <2>1. e + d \in d + 1 .. M + 1 /\ (e + d < M + 1 => e < N + 1 /\ e + d \in d + 1 .. M /\ e + d \in 1 .. M) /\ (e + d) - d = e
    BY <1>1
  <2>2. ASSUME NEW r \in d + 1 .. (e + d) - 1 PROVE r \notin Gaps(u)
    <3>1. r \in d + 1 .. M /\ r - d \in 1 .. e - 1
      BY <1>1
    <3>2. v[r - d] # SPACE
      BY <1>1, <1>2, <1>5, <3>1 DEF FirstIn, Gaps
    <3> QED BY <1>2, <3>1, <3>2 DEF Gaps
  <2>3. ASSUME e + d < M + 1 PROVE e + d \in Gaps(u)
    <3>1. v[e] = SPACE
      BY <1>5, <2>1, <2>3 DEF FirstIn, Gaps
    <3>2. u[e + d] = SPACE
      BY <1>2, <2>1, <2>3, <3>1
    <3> QED BY <1>1, <2>1, <2>3, <3>2 DEF Gaps
  <2> QED BY <2>1, <2>2, <2>3 DEF FirstIn
<1>10. FirstIn(e + d, M + 1, Ink(u), a + d)
  <2>1. a + d \in e + d .. M + 1 /\ (a + d < M + 1 => a < N + 1 /\ a + d \in d + 1 .. M /\ a + d \in 1 .. M) /\ (a + d) - d = a
    BY <1>1
  <2>2. ASSUME NEW r \in e + d .. (a + d) - 1 PROVE r \notin Ink(u)
    <3>1. r \in d + 1 .. M /\ r - d \in e .. a - 1
      BY <1>1
    <3>2. v[r - d] = SPACE
      BY <1>1, <1>2, <1>6, <3>1 DEF FirstIn, Ink
    <3> QED BY <1>2, <3>1, <3>2 DEF Ink
  <2>3. ASSUME a + d < M + 1 PROVE a + d \in Ink(u)
    <3>1. v[a] # SPACE
      BY <1>6, <2>1, <2>3 DEF FirstIn, Ink
    <3>2. u[a + d] # SPACE
      BY <1>2, <2>1, <2>3, <3>1
    <3> QED BY <1>1, <2>1, <2>3, <3>2 DEF Ink
  <2> QED BY <2>1, <2>2, <2>3 DEF FirstIn
<1>11. Call(u) = [name |-> FirstFew(SubSeq(u, d + 1, (e + d) - 1), MAX_NAME), args |-> SubSeq(u, a + d, M)]
  <2>1. /\ FirstIn(1, Len(u) + 1, Ink(u), d + 1) /\ FirstIn(d + 1, Len(u) + 1, Gaps(u), e + d)
        /\ FirstIn(e + d, Len(u) + 1, Ink(u), a + d)
    BY <1>8, <1>9, <1>10 DEF M
  <2>2. \A i, j, k : FirstIn(1, Len(u) + 1, Ink(u), i) /\ FirstIn(i, Len(u) + 1, Gaps(u), j) /\ FirstIn(j, Len(u) + 1, Ink(u), k) =>
          Call(u) = [name |-> FirstFew(SubSeq(u, i, j - 1), MAX_NAME), args |-> SubSeq(u, k, Len(u))]
    BY ONLY <1>a, CallIs, ZenonT(30)
  <2>3. Call(u) = [name |-> FirstFew(SubSeq(u, d + 1, (e + d) - 1), MAX_NAME), args |-> SubSeq(u, a + d, Len(u))]
    BY ONLY <2>1, <2>2
  <2> QED BY <2>3 DEF M
<1>12. SubSeq(u, d + 1, (e + d) - 1) = SubSeq(v, 1, e - 1)
  <2>1. d + 1 = 1 + d /\ (e + d) - 1 = (e - 1) + d /\ 1 \in 1 .. N + 1 /\ e - 1 \in 0 .. N /\ 1 <= (e - 1) + 1
    BY <1>1
  <2> DEFINE b == e - 1
  <2>2. b \in 0 .. Len(v) /\ 1 \in 1 .. Len(v) + 1 /\ 1 <= b + 1
    BY <2>1 DEF N
  <2> HIDE DEF b
  <2>3. SubSeq(u, 1 + d, b + d) = SubSeq(v, 1, b)
    BY ONLY <1>b, <2>2
  <2> QED BY <2>1, <2>3 DEF b
<1>13. SubSeq(u, a + d, M) = SubSeq(v, a, N)
  <2>1. a \in 1 .. N + 1 /\ N \in 0 .. N /\ a <= N + 1 /\ M = N + d
    BY <1>1
  <2>2. a \in 1 .. Len(v) + 1 /\ Len(v) \in 0 .. Len(v) /\ a <= Len(v) + 1
    BY <2>1 DEF N
  <2>3. SubSeq(u, a + d, Len(v) + d) = SubSeq(v, a, Len(v))
    BY ONLY <1>b, <2>2
  <2> QED BY <2>1, <2>3 DEF N
<1> QED BY <1>3, <1>7, <1>11, <1>12, <1>13 DEF Alike

(* TrimEnd cuts behind the last ink. *)
LEMMA TrimIs ==
  ASSUME NEW T, NEW w \in Seq(T)
  PROVE  /\ Ink(w) = {} => TrimEnd(w) = <<>>
         /\ \A t \in Ink(w) : (\A j \in Ink(w) : j <= t) => TrimEnd(w) = SubSeq(w, 1, t)
<1> DEFINE n == IF Ink(w) = {} THEN 0 ELSE CHOOSE i \in Ink(w) : \A j \in Ink(w) : j <= i
<1>1. TrimEnd(w) = SubSeq(w, 1, n)
  BY DEF TrimEnd, Ink
<1>2. Ink(w) \subseteq 1 .. Len(w) /\ Len(w) \in Nat
  BY DEF Ink
<1>3. ASSUME Ink(w) = {} PROVE TrimEnd(w) = <<>>
  <2>1. n = 0
    BY <1>3
  <2> HIDE DEF n
  <2> QED BY <1>1, <2>1, SubSeqEmpty
<1>4. ASSUME NEW t \in Ink(w), \A j \in Ink(w) : j <= t PROVE TrimEnd(w) = SubSeq(w, 1, t)
  <2> DEFINE m == CHOOSE i \in Ink(w) : \A j \in Ink(w) : j <= i
  <2>1. m \in Ink(w) /\ \A j \in Ink(w) : j <= m
    BY <1>4
  <2>2. n = m
    BY <1>4
  <2> HIDE DEF n, m
  <2>3. m = t
    <3>1. m <= t /\ t <= m /\ m \in Int /\ t \in Int
      BY <1>2, <1>4, <2>1
    <3> QED BY <3>1
  <2> QED BY <1>1, <2>2, <2>3
<1> QED BY <1>3, <1>4

(* Nor do they when those at the end are cut off. *)
LEMMA TrimAlike ==
  ASSUME NEW T, NEW u \in Seq(T), NEW v \in Seq(T), NEW d \in Nat, Indented(T, u, v, d)
  PROVE  Alike(TrimEnd(u), TrimEnd(v))
<1> DEFINE N == Len(v)
           M == Len(u)
<1>1. /\ u \in Seq(T) /\ v \in Seq(T) /\ d \in Nat /\ N \in Nat /\ M \in Nat /\ M = N + d
      /\ DOMAIN u = 1 .. M /\ DOMAIN v = 1 .. N /\ (\A i \in 1 .. N : u[i + d] = v[i])
      /\ (\A i \in 1 .. d : u[i] = SPACE) /\ (N > 0 => v[1] # SPACE)
  BY DEF Indented
<1> HIDE DEF N, M
<1>2. CASE N = 0
  <2>1. Ink(v) = {} /\ Ink(u) = {}
    BY <1>1, <1>2 DEF Ink
  <2>2. TrimEnd(u) = <<>> /\ TrimEnd(v) = <<>>
    BY <1>1, <2>1, TrimIs
  <2> QED BY <2>2 DEF Alike
<1>3. CASE N > 0
  <2>1. Ink(v) \subseteq 1 .. N /\ 1 \in Ink(v)
    BY <1>1, <1>3 DEF Ink
  <2>2. PICK t \in Ink(v) : \A j \in Ink(v) : j <= t
    BY <1>1, <2>1, LastOfSet
  <2>3. t \in 1 .. N /\ v[t] # SPACE /\ t + d \in 1 .. M
    BY <1>1, <2>1, <2>2 DEF Ink
  <2>4. t + d \in Ink(u)
    BY <1>1, <2>3 DEF Ink
  <2>5. ASSUME NEW j \in Ink(u) PROVE j <= t + d
    <3>1. j \in 1 .. M /\ u[j] # SPACE
      BY <1>1 DEF Ink
    <3>2. j \notin 1 .. d
      BY <1>1, <3>1
    <3>3. j - d \in 1 .. N /\ (j - d) + d = j
      BY <1>1, <3>1, <3>2
    <3>4. v[j - d] # SPACE
      BY <1>1, <3>1, <3>3
    <3>5. j - d \in Ink(v)
      BY <1>1, <3>3, <3>4 DEF Ink
    <3>6. j - d <= t
      BY <2>2, <3>5
    <3> QED BY <1>1, <2>3, <3>1, <3>6
  <2> DEFINE x == SubSeq(u, 1, t + d)
             y == SubSeq(v, 1, t)
  <2>6. TrimEnd(u) = x /\ TrimEnd(v) = y
    BY <1>1, <2>2, <2>4, <2>5, TrimIs
  <2>7. x \in Seq(T) /\ Len(x) = t + d /\ \A i \in 1 .. t + d : x[i] = u[i]
    <3>1. 1 \in 1 .. Len(u) + 1 /\ t + d \in 0 .. Len(u) /\ 1 <= (t + d) + 1 /\ (t + d) - 1 + 1 = t + d
      BY <1>1, <2>3 DEF M
    <3>2. x \in Seq(T) /\ Len(x) = (t + d) - 1 + 1 /\ \A i \in 1 .. (t + d) - 1 + 1 : x[i] = u[1 + i - 1]
      BY <1>1, <3>1, Pieces
    <3>3. \A i \in 1 .. t + d : 1 + i - 1 = i
      BY <1>1, <2>3
    <3> HIDE DEF x
    <3> QED BY <3>1, <3>2, <3>3
  <2>8. y \in Seq(T) /\ Len(y) = t /\ \A i \in 1 .. t : y[i] = v[i]
    <3>1. 1 \in 1 .. Len(v) + 1 /\ t \in 0 .. Len(v) /\ 1 <= t + 1 /\ t - 1 + 1 = t
      BY <1>1, <2>3 DEF N
    <3>2. y \in Seq(T) /\ Len(y) = t - 1 + 1 /\ \A i \in 1 .. t - 1 + 1 : y[i] = v[1 + i - 1]
      BY <1>1, <3>1, Pieces
    <3>3. \A i \in 1 .. t : 1 + i - 1 = i
      BY <1>1, <2>3
    <3> HIDE DEF y
    <3> QED BY <3>1, <3>2, <3>3
  <2> HIDE DEF x, y
  <2>9. Indented(T, x, y, d)
    <3>a. t \in Nat /\ N \in Nat /\ t <= N
      BY <1>1, <2>3
    <3>b. \A i \in 1 .. t : i \in 1 .. N /\ i + d \in 1 .. t + d
      BY ONLY <3>a, d \in Nat
    <3>1. \A i \in 1 .. t : x[i + d] = y[i]
      BY <1>1, <2>7, <2>8, <3>b
    <3>c. \A i \in 1 .. d : i \in 1 .. t + d
      BY ONLY <3>a, d \in Nat
    <3>2. \A i \in 1 .. d : x[i] = SPACE
      BY <1>1, <2>7, <3>c
    <3>3. y[1] # SPACE
      BY <1>1, <1>3, <2>3, <2>8
    <3> QED BY <1>1, <2>7, <2>8, <3>1, <3>2, <3>3 DEF Indented
  <2>10. Len(y) > 0
    BY <2>3, <2>8
  <2>11. Alike(x, y)
    BY <2>7, <2>8, <2>9, <2>10, IndentedCall
  <2> QED BY <2>6, <2>11
<1> QED BY <1>1, <1>2, <1>3

(* Commands that are alike, one by one, are called alike. *)
LEMMA CallsAlike ==
  ASSUME NEW n \in Nat, NEW a, NEW b, DOMAIN a = 1 .. n, DOMAIN b = 1 .. n, \A i \in 1 .. n : Alike(a[i], b[i])
  PROVE  CallsOf(a) = CallsOf(b)
<1> DEFINE S == {i \in DOMAIN a : HasWord(a[i])}
<1>1. S = {i \in DOMAIN b : HasWord(b[i])}
  BY DEF Alike
<1>2. S \in SUBSET Nat /\ IsFiniteSet(S)
  <2>1. S \subseteq 1 .. n /\ IsFiniteSet(1 .. n)
    BY FS_Interval
  <2> HIDE DEF S
  <2>2. IsFiniteSet(S)
    BY <2>1, FS_Subset
  <2>3. \A i \in 1 .. n : i \in Nat
    OBVIOUS
  <2> QED BY <2>1, <2>2, <2>3
<1>3. \A k \in 1 .. Cardinality(S) : Nth(S, k) \in S
  <2> HIDE DEF S
  <2> QED BY <1>2, NthExists
<1>4. \A k \in 1 .. Cardinality(S) : Call(a[Nth(S, k)]) = Call(b[Nth(S, k)])
  BY <1>3 DEF Alike
<1>5. CallsOf(a) = [k \in 1 .. Cardinality(S) |-> Call(a[Nth(S, k)])]
  BY DEF CallsOf
<1>6. CallsOf(b) = [k \in 1 .. Cardinality(S) |-> Call(b[Nth(S, k)])]
  BY <1>1 DEF CallsOf
<1> HIDE DEF S
<1> QED BY <1>4, <1>5, <1>6

(* k ampersands stand in front of the one at i, in its run. *)
RunAt(line, i, k) ==
  k \in 0 .. i - 1 /\ (\A j \in i - k .. i : line[j] = AMP) /\ (i - k > 1 => line[i - k - 1] # AMP)

(* There is only one such number. *)
LEMMA RunOnly ==
  ASSUME NEW line, NEW i \in Nat, NEW k, NEW l, RunAt(line, i, k), RunAt(line, i, l)
  PROVE  k = l
<1>1. k \in 0 .. i - 1 /\ l \in 0 .. i - 1 /\ k \in Int /\ l \in Int
  BY DEF RunAt
<1>2. ASSUME k < l PROVE FALSE
  <2>1. i - k - 1 \in i - l .. i /\ i - k > 1
    BY <1>1, <1>2
  <2> QED BY <2>1 DEF RunAt
<1>3. ASSUME l < k PROVE FALSE
  <2>1. i - l - 1 \in i - k .. i /\ i - l > 1
    BY <1>1, <1>3
  <2> QED BY <2>1 DEF RunAt
<1> QED BY <1>1, <1>2, <1>3

(* One ampersand further. *)
LEMMA RunNext ==
  ASSUME NEW line, NEW i \in Nat, NEW k, RunAt(line, i, k), line[i + 1] = AMP
  PROVE  RunAt(line, i + 1, k + 1)
<1>1. k \in 0 .. i - 1 /\ k \in Int
  BY DEF RunAt
<1>2. k + 1 \in 0 .. (i + 1) - 1 /\ (i + 1) - (k + 1) = i - k
  BY <1>1
<1>3. ASSUME NEW j \in i - k .. i + 1 PROVE line[j] = AMP
  <2>1. j \in i - k .. i \/ j = i + 1
    BY <1>1
  <2> QED BY <2>1 DEF RunAt
<1> QED BY <1>2, <1>3 DEF RunAt

(* The first of a run. *)
LEMMA RunFirst ==
  ASSUME NEW line, NEW i \in Nat \ {0}, line[i] = AMP, i > 1 => line[i - 1] # AMP
  PROVE  RunAt(line, i, 0)
<1>1. 0 \in 0 .. i - 1 /\ i - 0 = i /\ \A j \in i .. i : j = i
  OBVIOUS
<1> QED BY <1>1 DEF RunAt

(* The splits of a line, and its "&&". *)
LEMMA CutsAre ==
  ASSUME NEW T, NEW line \in Seq(T)
  PROVE  /\ Cuts(line) = {i \in Chains(line) : \E k : RunAt(line, i, k) /\ k % 2 = 0}
         /\ Chains(line) = {i \in 1 .. Len(line) : i < Len(line) /\ line[i] = AMP /\ line[i + 1] = AMP}
<1>1. Cuts(line) = {i \in DOMAIN line : ChainAt(line, i) /\ \E k : RunAt(line, i, k) /\ k % 2 = 0}
  BY DEF Cuts, RunAt
<1> QED BY <1>1 DEF Chains, ChainAt

(* Every second number is even. *)
LEMMA EvenNext == \A k \in Nat : k % 2 = 0 => (k + 1) % 2 # 0 /\ (k + 2) % 2 = 0
OBVIOUS

(* Two "&&" that split a line do not overlap. *)
LEMMA CutsApart ==
  ASSUME NEW T, NEW line \in Seq(T), NEW i \in Cuts(line)
  PROVE  i + 1 \notin Cuts(line)
<1> SUFFICES ASSUME i + 1 \in Cuts(line) PROVE FALSE
  OBVIOUS
<1>1. i \in Nat /\ i + 1 \in Nat /\ line[i + 1] = AMP
  BY CutsAre
<1>2. PICK k : RunAt(line, i, k) /\ k % 2 = 0
  BY CutsAre
<1>3. PICK l : RunAt(line, i + 1, l) /\ l % 2 = 0
  BY CutsAre
<1>4. RunAt(line, i + 1, k + 1)
  BY <1>1, <1>2, RunNext
<1>5. l = k + 1
  BY <1>1, <1>3, <1>4, RunOnly
<1>6. k \in Nat
  BY <1>1, <1>2 DEF RunAt
<1> QED BY <1>2, <1>3, <1>5, <1>6, EvenNext

(* From the start or from behind a split, the first "&&" is a split. *)
LEMMA ChainIsCut ==
  ASSUME NEW T, NEW line \in Seq(T), NEW p \in Nat, p = 1 \/ (p > 2 /\ p - 2 \in Cuts(line)),
         NEW q, FirstIn(p, Len(line) + 1, Chains(line), q), q <= Len(line)
  PROVE  q \in Cuts(line)
<1> DEFINE N == Len(line)
<1>1. N \in Nat /\ q \in p .. N + 1 /\ q \in Nat /\ q >= 1 /\ p \in Nat /\ p >= 1 /\ q < N + 1
  BY DEF FirstIn
<1>2. q \in Chains(line)
  BY <1>1 DEF FirstIn
<1>3. q \in 1 .. N /\ q < N /\ line[q] = AMP /\ line[q + 1] = AMP
  BY <1>2, CutsAre
<1>4. CASE q = 1 \/ q > p
  <2>1. ASSUME q > 1 PROVE line[q - 1] # AMP
    <3>1. q - 1 \in p .. q - 1 /\ q - 1 \in 1 .. N /\ q - 1 < N /\ (q - 1) + 1 = q
      BY <1>1, <1>3, <1>4, <2>1
    <3>2. q - 1 \notin Chains(line)
      BY <3>1 DEF FirstIn
    <3> QED BY <1>3, <3>1, <3>2, CutsAre
  <2>2. RunAt(line, q, 0)
    BY <1>1, <1>3, <2>1, RunFirst
  <2>3. 0 % 2 = 0
    OBVIOUS
  <2> QED BY <1>2, <2>2, <2>3, CutsAre
<1>5. CASE q = p /\ q # 1
  <2>1. p - 2 \in Cuts(line) /\ q = p /\ p > 2
    BY <1>5
  <2>2. PICK k : RunAt(line, p - 2, k) /\ k % 2 = 0
    BY <2>1, CutsAre
  <2>3. line[(p - 2) + 1] = AMP /\ p - 2 \in Nat
    BY <2>1, CutsAre
  <2>4. RunAt(line, (p - 2) + 1, k + 1)
    BY <2>2, <2>3, RunNext
  <2>5. ((p - 2) + 1) + 1 = q /\ (p - 2) + 1 \in Nat
    BY <1>1, <2>1
  <2>6. line[((p - 2) + 1) + 1] = AMP
    BY <1>3, <2>5
  <2>7. RunAt(line, ((p - 2) + 1) + 1, (k + 1) + 1)
    BY <2>4, <2>5, <2>6, RunNext
  <2>8. k \in Nat /\ (k + 1) + 1 = k + 2
    BY <2>2, <2>3 DEF RunAt
  <2>9. RunAt(line, q, k + 2) /\ (k + 2) % 2 = 0
    BY <2>2, <2>5, <2>7, <2>8, EvenNext
  <2> QED BY <1>2, <2>9, CutsAre
<1> QED BY <1>1, <1>4, <1>5

(* The splits are finitely many places in the line. *)
LEMMA CutsSet ==
  ASSUME NEW T, NEW line \in Seq(T)
  PROVE  /\ Cuts(line) \in SUBSET Nat /\ IsFiniteSet(Cuts(line)) /\ Cardinality(Cuts(line)) \in Nat
         /\ \A i \in Cuts(line) : i \in 1 .. Len(line) /\ i < Len(line)
<1>1. Len(line) \in Nat /\ IsFiniteSet(1 .. Len(line))
  BY FS_Interval
<1>2. \A i \in Cuts(line) : i \in 1 .. Len(line) /\ i < Len(line) /\ i \in Nat
  BY <1>1, CutsAre
<1>3. Cuts(line) \subseteq 1 .. Len(line)
  BY <1>2
<1>4. IsFiniteSet(Cuts(line))
  BY <1>1, <1>3, FS_Subset
<1>5. Cardinality(Cuts(line)) \in Nat
  BY <1>4, FS_CardinalityType
<1> QED BY <1>2, <1>4, <1>5

(* Where the part behind the m-th split begins. *)
Begin(line, m) == IF m = 0 THEN 1 ELSE Nth(Cuts(line), m) + 2

(* The part begins in the line, at the start or behind a split, with m splits before it. *)
LEMMA BeginIs ==
  ASSUME NEW T, NEW line \in Seq(T), NEW m \in 0 .. Cardinality(Cuts(line))
  PROVE  /\ Begin(line, m) \in 1 .. Len(line) + 1
         /\ Begin(line, m) = 1 \/ (Begin(line, m) > 2 /\ Begin(line, m) - 2 \in Cuts(line))
         /\ Cardinality({j \in Cuts(line) : j < Begin(line, m)}) = m
<1> DEFINE K == Cuts(line)
           N == Len(line)
           p == Begin(line, m)
<1>1. K \in SUBSET Nat /\ IsFiniteSet(K) /\ Cardinality(K) \in Nat /\ N \in Nat /\ \A i \in K : i \in 1 .. N /\ i < N
  BY CutsSet
<1>2. CASE m = 0
  <2>1. p = 1
    BY <1>2 DEF Begin
  <2>2. {j \in K : j < 1} = {}
    BY <1>1
  <2> HIDE DEF K, p
  <2>3. Cardinality({j \in K : j < p}) = m
    BY <1>2, <2>1, <2>2, FS_EmptySet
  <2>4. p \in 1 .. N + 1
    BY <1>1, <2>1
  <2> QED BY <2>1, <2>3, <2>4 DEF K, p
<1>3. CASE m # 0
  <2> DEFINE i == Nth(K, m)
  <2>1. m \in 1 .. Cardinality(K)
    BY <1>1, <1>3
  <2>2. i \in K /\ Rank(K, i) = m
    <3> HIDE DEF K
    <3> QED BY <1>1, <2>1, NthExists
  <2>3. p = i + 2
    BY <1>3 DEF Begin
  <2>4. i + 1 \notin K
    BY <2>2, CutsApart
  <2> HIDE DEF i, p, K
  <2>5. i \in 1 .. N /\ i < N /\ i \in Nat
    BY <1>1, <2>2
  <2>6. \A j \in K : j < p <=> j <= i
    <3> SUFFICES ASSUME NEW j \in K PROVE j < p <=> j <= i
      OBVIOUS
    <3>1. j # i + 1 /\ j \in Nat
      BY <1>1, <2>4
    <3> QED BY <2>3, <2>5, <3>1
  <2>7. {j \in K : j < p} = {j \in K : j <= i}
    BY <2>6
  <2>8. Cardinality({j \in K : j < p}) = m
    BY <2>2, <2>7 DEF Rank
  <2>9. p \in 1 .. N + 1 /\ p > 2 /\ p - 2 = i
    BY <1>1, <2>3, <2>5
  <2> QED BY <2>2, <2>8, <2>9 DEF p, K
<1> QED BY <1>2, <1>3

(* The first "&&" of a part ends it: the next split, or the line's end. *)
LEMMA NextCut ==
  ASSUME NEW T, NEW line \in Seq(T), NEW m \in 0 .. Cardinality(Cuts(line)),
         NEW q, FirstIn(Begin(line, m), Len(line) + 1, Chains(line), q)
  PROVE  /\ m < Cardinality(Cuts(line)) => q \in Cuts(line) /\ q = Nth(Cuts(line), m + 1)
         /\ m = Cardinality(Cuts(line)) => q = Len(line) + 1
<1> DEFINE K == Cuts(line)
           N == Len(line)
           p == Begin(line, m)
           C == Cardinality(K)
           B == {j \in K : j < q}
<1>1. K \in SUBSET Nat /\ IsFiniteSet(K) /\ C \in Nat /\ N \in Nat /\ \A i \in K : i \in 1 .. N /\ i < N
  BY CutsSet
<1>2. p \in 1 .. N + 1 /\ (p = 1 \/ (p > 2 /\ p - 2 \in K)) /\ Cardinality({j \in K : j < p}) = m
  BY BeginIs
<1>3. FirstIn(p, N + 1, Chains(line), q)
  OBVIOUS
<1>4. K \subseteq Chains(line)
  BY CutsAre
<1>5. q \in p .. N + 1 /\ q \in Nat /\ p \in Nat
  BY <1>1, <1>2, <1>3 DEF FirstIn
<1>6. q <= N => q \in K
  BY <1>2, <1>3, <1>5, ChainIsCut
<1>7. m \in Nat /\ m \in 0 .. C
  BY <1>1
<1> HIDE DEF K, N, p, C
<1>8. B = {j \in K : j < p}
  <2>1. ASSUME NEW j \in K PROVE j < q <=> j < p
    <3>1. j \in Nat /\ j \in Chains(line)
      BY <1>1, <1>4
    <3>2. ~(j \in p .. q - 1)
      BY <1>3, <3>1 DEF FirstIn
    <3> QED BY <1>5, <3>1, <3>2
  <2> QED BY <2>1
<1>9. IsFiniteSet(B) /\ Cardinality(B) = m /\ q \notin B
  <2>1. B \subseteq K
    OBVIOUS
  <2>2. IsFiniteSet(B)
    BY <1>1, <2>1, FS_Subset
  <2>3. q \notin B
    BY <1>5
  <2> QED BY <1>2, <1>8, <2>2, <2>3
<1>10. CASE q <= N
  <2>1. {j \in K : j <= q} = B \cup {q}
    <3>1. \A j \in K : j <= q <=> j < q \/ j = q
      BY <1>1, <1>5
    <3>2. q \in K
      BY <1>6, <1>10
    <3> QED BY <1>5, <3>1, <3>2
  <2>2. Cardinality(B \cup {q}) = m + 1
    <3> HIDE DEF B
    <3> QED BY <1>7, <1>9, FS_AddElement
  <2>3. Rank(K, q) = m + 1
    BY <2>1, <2>2 DEF Rank
  <2>4. q \in K
    BY <1>6, <1>10
  <2>5. Nth(K, m + 1) = q
    <3>1. Nth(K, Rank(K, q)) = q
      BY <1>1, <2>4, NthIs
    <3> QED BY <2>3, <3>1
  <2>6. m + 1 <= C
    <3>1. B \cup {q} \subseteq K
      BY <2>4
    <3>2. Cardinality(B \cup {q}) <= Cardinality(K)
      <4> HIDE DEF B
      <4> QED BY <1>1, <3>1, FS_Subset
    <3> QED BY <2>2, <3>2 DEF C
  <2>7. m # C
    BY <1>1, <1>7, <2>6
  <2> QED BY <2>4, <2>5, <2>7 DEF K, C
<1>11. CASE ~(q <= N)
  <2>1. q = N + 1
    BY <1>1, <1>5, <1>11
  <2>2. B = K
    <3>1. \A j \in K : j < q
      BY <1>1, <2>1
    <3> QED BY <3>1
  <2>3. m = C
    BY <1>9, <2>2 DEF C
  <2>4. ~(m < C)
    BY <1>1, <1>7, <2>3
  <2> QED BY <2>1, <2>4 DEF N, C, K
<1> QED BY <1>10, <1>11

(* The places of a part from p to end - 1 whose first ink is at start. *)
LEMMA PartPlaces ==
  ASSUME NEW N \in Nat, NEW p \in 1 .. N + 1, NEW start \in p .. N + 1, NEW end \in start .. N + 1
  PROVE  LET n == (end - 1) - start + 1
             d == start - p
         IN  /\ \A i \in 1 .. n : i + d \in 1 .. n + d /\ p + (i + d) - 1 = start + i - 1
             /\ \A i \in 1 .. d : i \in 1 .. n + d /\ p + i - 1 \in p .. start - 1 /\ p + i - 1 \in 1 .. N
             /\ n > 0 => start \in 1 .. N /\ start < N + 1 /\ start + 1 - 1 = start /\ 1 \in 1 .. n
OBVIOUS

(* A round reads a part: it leaves out the spaces in front and stops at the *)
(* first "&&".                                                              *)
LEMMA PartRead ==
  ASSUME NEW T, NEW line \in Seq(T), NEW m \in 0 .. Cardinality(Cuts(line)), NEW p, p = Begin(line, m),
         NEW start, start = SkipSpaces(line, p), NEW end, end = CopyUntil(line, start)
  PROVE  /\ start \in p .. Len(line) + 1 /\ end \in start .. Len(line) + 1
         /\ m < Cardinality(Cuts(line)) => end \in Cuts(line) /\ end = Nth(Cuts(line), m + 1)
         /\ m = Cardinality(Cuts(line)) => end = Len(line) + 1
         /\ SubSeq(line, start, end - 1) \in Seq(T)
         /\ Alike(TrimEnd(SubSeq(line, start, end - 1)), TrimEnd(Part(line, m + 1)))
<1> DEFINE N == Len(line)
           C == Cardinality(Cuts(line))
           u == SubSeq(line, p, end - 1)
           v == SubSeq(line, start, end - 1)
           d == start - p
<1>1. N \in Nat /\ p \in 1 .. N + 1 /\ DOMAIN line = 1 .. N /\ C \in Nat
  <2>1. Begin(line, m) \in 1 .. Len(line) + 1
    BY BeginIs
  <2>2. Cardinality(Cuts(line)) \in Nat
    BY CutsSet
  <2> QED BY <2>1, <2>2
<1>2. FirstIn(p, N + 1, Ink(line), start)
  BY <1>1, SkipIs
<1>3. start \in p .. N + 1 /\ start \in 1 .. N + 1
  BY <1>1, <1>2 DEF FirstIn
<1>4. FirstIn(start, N + 1, Chains(line), end)
  BY <1>3, CopyIs
<1>5. end \in start .. N + 1
  BY <1>4 DEF FirstIn
<1>6. FirstIn(p, N + 1, Chains(line), end)
  <2>1. ASSUME NEW r \in p .. end - 1 PROVE r \notin Chains(line)
    <3>1. CASE r \in p .. start - 1
      <4>1. r \in 1 .. N /\ r \notin Ink(line)
        BY <1>1, <1>2, <1>3, <3>1 DEF FirstIn
      <4>2. line[r] = SPACE
        BY <1>1, <4>1 DEF Ink
      <4> QED BY <4>2, CutsAre DEF SPACE, AMP
    <3>2. CASE r \in start .. end - 1
      BY <1>4, <3>2 DEF FirstIn
    <3> QED BY <1>1, <1>3, <1>5, <3>1, <3>2
  <2>2. end \in p .. N + 1
    BY <1>1, <1>3, <1>5
  <2> QED BY <1>4, <2>1, <2>2 DEF FirstIn
<1>7. /\ m < C => end \in Cuts(line) /\ end = Nth(Cuts(line), m + 1)
      /\ m = C => end = N + 1
  BY <1>6, NextCut
<1>8. Part(line, m + 1) = u
  <2>1. m \in Nat /\ (m + 1) - 1 = m /\ (m + 1 = 1 <=> m = 0) /\ (m + 1 > C <=> m = C) /\ (m < C \/ m = C)
    BY <1>1
  <2>2. (IF m + 1 > C THEN N ELSE Nth(Cuts(line), m + 1) - 1) = end - 1
    BY <1>1, <1>7, <2>1
  <2>3. (IF m + 1 = 1 THEN 1 ELSE Nth(Cuts(line), (m + 1) - 1) + 2) = p
    BY <2>1 DEF Begin
  <2>4. Part(line, m + 1) =
          SubSeq(line, IF m + 1 = 1 THEN 1 ELSE Nth(Cuts(line), (m + 1) - 1) + 2,
                       IF m + 1 > C THEN N ELSE Nth(Cuts(line), m + 1) - 1)
    BY DEF Part
  <2> QED BY <2>2, <2>3, <2>4
<1>9. /\ end - 1 \in 0 .. Len(line) /\ p <= (end - 1) + 1 /\ start <= (end - 1) + 1 /\ d \in Nat
      /\ (end - 1) - p + 1 = ((end - 1) - start + 1) + d /\ (end - 1) - start + 1 \in Nat
  BY <1>1, <1>3, <1>5, SMTT(40)
<1> DEFINE n == (end - 1) - start + 1
<1>10. u \in Seq(T) /\ Len(u) = n + d /\ \A i \in 1 .. n + d : u[i] = line[p + i - 1]
  <2>1. u \in Seq(T) /\ Len(u) = (end - 1) - p + 1 /\ \A i \in 1 .. (end - 1) - p + 1 : u[i] = line[p + i - 1]
    <3> DEFINE z == end - 1
    <3>1. z \in 0 .. Len(line) /\ p \in 1 .. Len(line) + 1 /\ p <= z + 1
      BY <1>1, <1>9
    <3> HIDE DEF z
    <3>2. /\ SubSeq(line, p, z) \in Seq(T) /\ Len(SubSeq(line, p, z)) = z - p + 1
          /\ \A i \in 1 .. z - p + 1 : SubSeq(line, p, z)[i] = line[p + i - 1]
      BY ONLY line \in Seq(T), <3>1, Pieces
    <3> QED BY <3>2 DEF z
  <2> QED BY <1>9, <2>1
<1>11. v \in Seq(T) /\ Len(v) = n /\ \A i \in 1 .. n : v[i] = line[start + i - 1]
  <2> DEFINE z == end - 1
  <2>1. z \in 0 .. Len(line) /\ start \in 1 .. Len(line) + 1 /\ start <= z + 1
    BY <1>3, <1>9
  <2> HIDE DEF z
  <2>2. /\ SubSeq(line, start, z) \in Seq(T) /\ Len(SubSeq(line, start, z)) = z - start + 1
        /\ \A i \in 1 .. z - start + 1 : SubSeq(line, start, z)[i] = line[start + i - 1]
    BY ONLY line \in Seq(T), <2>1, Pieces
  <2> QED BY <2>2 DEF z
<1>12. n \in Nat /\ d \in Nat
  BY <1>9
<1>13. /\ \A i \in 1 .. n : i + d \in 1 .. n + d /\ p + (i + d) - 1 = start + i - 1
       /\ \A i \in 1 .. d : i \in 1 .. n + d /\ p + i - 1 \in p .. start - 1 /\ p + i - 1 \in 1 .. N
       /\ n > 0 => start \in 1 .. N /\ start < N + 1 /\ start + 1 - 1 = start /\ 1 \in 1 .. n
  BY ONLY <1>1, <1>3, <1>5, PartPlaces
<1> HIDE DEF n, d, u, v
<1>16. \A i \in 1 .. n : u[i + d] = v[i]
  <2> SUFFICES ASSUME NEW i \in 1 .. n PROVE u[i + d] = v[i]
    OBVIOUS
  <2>1. i + d \in 1 .. n + d /\ p + (i + d) - 1 = start + i - 1
    BY <1>13
  <2>2. u[i + d] = line[p + (i + d) - 1]
    BY <1>10, <2>1
  <2>3. v[i] = line[start + i - 1]
    BY <1>11
  <2> QED BY ONLY <2>1, <2>2, <2>3
<1>17. \A i \in 1 .. d : u[i] = SPACE
  <2> SUFFICES ASSUME NEW i \in 1 .. d PROVE u[i] = SPACE
    OBVIOUS
  <2>1. p + i - 1 \notin Ink(line)
    BY <1>2, <1>13 DEF FirstIn
  <2>2. line[p + i - 1] = SPACE
    BY <1>1, <1>13, <2>1 DEF Ink
  <2> QED BY <1>10, <1>13, <2>2
<1>18. n > 0 => v[1] # SPACE
  BY <1>2, <1>11, <1>13 DEF FirstIn, Ink
<1>19. Indented(T, u, v, d)
  BY <1>10, <1>11, <1>12, <1>16, <1>17, <1>18 DEF Indented
<1>20. Alike(TrimEnd(u), TrimEnd(v))
  BY <1>10, <1>11, <1>12, <1>19, TrimAlike
<1>21. Alike(TrimEnd(v), TrimEnd(u))
  BY <1>20 DEF Alike
<1> QED BY <1>3, <1>5, <1>7, <1>8, <1>11, <1>21 DEF u, v

(* What the loop of parse_and_execute_chained may hold. *)
ChainWords(T, garbage) == Seq(T) \cup {FirstFew(garbage, n) : n \in Nat}
ChainStates(T, garbage) == [p : Nat \ {0}, commands : Seq(ChainWords(T, garbage))]

(* A round keeps to it. *)
LEMMA ChainRoundStays ==
  ASSUME NEW T, NEW line \in Seq(T), NEW garbage, NEW st \in ChainStates(T, garbage)
  PROVE  ChainRound(st, line, garbage) \in ChainStates(T, garbage)
<1> DEFINE W == ChainWords(T, garbage)
           N == Len(line)
           p == st.p
           start == SkipSpaces(line, p)
           end == CopyUntil(line, start)
           z == end - 1
           cmd == SubSeq(line, start, z)
           filled == Append(st.commands, cmd)
           more == Append(filled, FirstFew(garbage, Len(cmd)))
<1>1. p \in Nat \ {0} /\ st.commands \in Seq(W) /\ N \in Nat
  BY DEF ChainStates
<1>2. CASE p > N
  <2>1. ChainRound(st, line, garbage) = st
    BY <1>2 DEF ChainRound
  <2> QED BY <2>1
<1>3. CASE ~(p > N)
  <2>1. p \in 1 .. N + 1
    BY <1>1, <1>3
  <2>2. start \in p .. N + 1 /\ start \in 1 .. N + 1
    <3>1. FirstIn(p, N + 1, Ink(line), start)
      BY <2>1, SkipIs
    <3> HIDE DEF start
    <3> QED BY <2>1, <3>1 DEF FirstIn
  <2>3. end \in start .. N + 1 /\ end \in Nat \ {0}
    <3> HIDE DEF start
    <3>1. FirstIn(start, N + 1, Chains(line), end)
      BY <2>2, CopyIs
    <3> HIDE DEF end
    <3> QED BY <2>2, <3>1 DEF FirstIn
  <2> HIDE DEF end, start
  <2>4. z \in 0 .. Len(line) /\ start \in 1 .. Len(line) + 1 /\ start <= z + 1
    BY <1>1, <2>2, <2>3
  <2> HIDE DEF z
  <2>5. cmd \in Seq(T) /\ Len(cmd) \in Nat
    BY ONLY line \in Seq(T), <2>4, Pieces
  <2> HIDE DEF cmd
  <2>6. cmd \in W /\ FirstFew(garbage, Len(cmd)) \in W
    BY <2>5 DEF ChainWords
  <2> HIDE DEF W
  <2>7. filled \in Seq(W)
    BY <1>1, <2>6
  <2> HIDE DEF filled
  <2>8. more \in Seq(W)
    BY <2>6, <2>7
  <2> HIDE DEF more
  <2>9. ChainRound(st, line, garbage) =
          IF end > N THEN [p |-> end, commands |-> filled]
          ELSE [p |-> end + 2, commands |-> IF end + 2 > N THEN more ELSE filled]
    BY <1>3 DEF ChainRound, Resume, start, end, z, cmd, filled, more
  <2>10. end + 2 \in Nat \ {0}
    BY <2>3
  <2> QED BY <2>3, <2>7, <2>8, <2>9, <2>10 DEF ChainStates, W
<1> QED BY <1>2, <1>3

(* The loop runs, round by round. *)
LEMMA FillingIs ==
  ASSUME NEW T, NEW line \in Seq(T), NEW garbage
  PROVE  /\ Filling(line, garbage)[0] = [p |-> 1, commands |-> <<>>]
         /\ \A n \in 1 .. MAX_CHAINED_CMDS : Filling(line, garbage)[n] = ChainRound(Filling(line, garbage)[n - 1], line, garbage)
<1> DEFINE N == MAX_CHAINED_CMDS
           V == ChainStates(T, garbage)
           none == [p |-> 1, commands |-> <<>>]
           P(h) == h = [n \in 0 .. N |-> IF n = 0 THEN none ELSE ChainRound(h[n - 1], line, garbage)]
           F == [x \in V \X (1 .. N) |-> ChainRound(x[1], line, garbage)]
<1>1. N \in Nat /\ none \in V
  BY ShellAssumption DEF ChainStates
<1>2. F \in [V \X (1 .. N) -> V]
  <2>1. ASSUME NEW x \in V \X (1 .. N) PROVE ChainRound(x[1], line, garbage) \in V
    <3>1. x[1] \in V
      OBVIOUS
    <3> QED BY <3>1, ChainRoundStays
  <2> QED BY <2>1
<1>3. \A s \in V, k \in 1 .. N : F[<<s, k>>] = ChainRound(s, line, garbage)
  OBVIOUS
<1>4. Filling(line, garbage) = CHOOSE h : P(h)
  BY DEF Filling
<1> HIDE DEF N, F, none, V
<1>5. PICK g \in [0 .. N -> V] : IsRun(g, N, none, F)
  BY <1>1, <1>2, LoopRuns
<1>6. P(g)
  <2>1. \A k \in 0 .. N : k # 0 => k \in 1 .. N /\ g[k - 1] \in V
    BY <1>1
  <2>2. \A k \in 0 .. N : g[k] = IF k = 0 THEN none ELSE ChainRound(g[k - 1], line, garbage)
    BY <1>3, <1>5, <2>1 DEF IsRun
  <2> QED BY <2>2
<1> DEFINE a == Filling(line, garbage)
<1>7. P(a)
  <2> HIDE DEF P
  <2> QED BY <1>4, <1>6
<1> HIDE DEF a
<1>8. \A k \in 0 .. N : a[k] = IF k = 0 THEN none ELSE ChainRound(a[k - 1], line, garbage)
  BY <1>7
<1>9. a[0] = none /\ \A k \in 1 .. N : a[k] = ChainRound(a[k - 1], line, garbage)
  BY <1>1, <1>8
<1> QED BY <1>9 DEF N, a, none

(* The commands in c stand for the first parts of the line. *)
StandFor(T, c, line) == c \in Seq(Seq(T)) /\ \A k \in 1 .. Len(c) : Alike(TrimEnd(c[k]), TrimEnd(Part(line, k)))

(* The state after n rounds. *)
Filled(T, line, st, n) ==
  LET C == Cardinality(Cuts(line)) IN
  /\ StandFor(T, st.commands, line)
  /\ n <= C => st.p = Begin(line, n) /\ Len(st.commands) = n
  /\ n > C => st.p > Len(line) /\ Len(st.commands) = C + 1

(* One round more. *)
LEMMA FilledNext ==
  ASSUME NEW T, NEW line \in Seq(T), NEW garbage, NEW st, NEW n \in Nat, Len(line) > 0, Len(line) - 1 \notin Cuts(line),
         Filled(T, line, st, n)
  PROVE  Filled(T, line, ChainRound(st, line, garbage), n + 1)
<1> DEFINE C == Cardinality(Cuts(line))
           N == Len(line)
           p == st.p
           c == st.commands
           start == SkipSpaces(line, p)
           end == CopyUntil(line, start)
           cmd == SubSeq(line, start, end - 1)
           filled == Append(c, cmd)
           more == Append(filled, FirstFew(garbage, Len(cmd)))
           new == ChainRound(st, line, garbage)
<1>1. N \in Nat /\ C \in Nat
  BY CutsSet
<1>2. CASE n > C
  <2>1. new = st
    BY <1>2 DEF ChainRound, Filled
  <2>2. n + 1 > C /\ ~(n + 1 <= C)
    BY <1>1, <1>2
  <2> QED BY <1>2, <2>1, <2>2 DEF Filled
<1>3. CASE n <= C
  <2>1. n \in 0 .. C /\ p = Begin(line, n) /\ Len(c) = n /\ c \in Seq(Seq(T))
    BY <1>1, <1>3 DEF Filled, StandFor
  <2>2. /\ start \in p .. N + 1 /\ end \in start .. N + 1
        /\ n < C => end \in Cuts(line) /\ end = Nth(Cuts(line), n + 1)
        /\ n = C => end = N + 1
        /\ cmd \in Seq(T)
        /\ Alike(TrimEnd(cmd), TrimEnd(Part(line, n + 1)))
    BY <2>1, PartRead
  <2>3. p \in 1 .. N
    <3>1. p \in 1 .. N + 1 /\ (p = 1 \/ (p > 2 /\ p - 2 \in Cuts(line)))
      BY <2>1, BeginIs
    <3>2. p # N + 1
      <4> SUFFICES ASSUME p = N + 1 PROVE FALSE
        OBVIOUS
      <4>1. p # 1 /\ p - 2 = N - 1
        BY <1>1
      <4> QED BY <3>1, <4>1
    <3> QED BY <1>1, <3>1, <3>2
  <2>4. new = IF end > N THEN [p |-> end, commands |-> filled]
              ELSE [p |-> end + 2, commands |-> IF end + 2 > N THEN more ELSE filled]
    <3>1. ~(p > N)
      BY <1>1, <2>3
    <3> QED BY <3>1 DEF ChainRound, Resume
  <2> HIDE DEF start, end, cmd, more, p, new
  <2>5. /\ filled \in Seq(Seq(T)) /\ Len(filled) = n + 1 /\ filled[n + 1] = cmd
        /\ \A k \in 1 .. n : filled[k] = c[k]
    BY <2>1, <2>2
  <2> HIDE DEF filled
  <2>6. StandFor(T, filled, line)
    <3>1. ASSUME NEW k \in 1 .. Len(filled) PROVE Alike(TrimEnd(filled[k]), TrimEnd(Part(line, k)))
      <4>1. CASE k = n + 1
        BY <2>2, <2>5, <4>1
      <4>2. CASE k \in 1 .. n
        BY <2>1, <2>5, <4>2 DEF Filled, StandFor
      <4> QED BY <2>5, <4>1, <4>2
    <3> QED BY <2>5, <3>1 DEF StandFor
  <2>7. CASE n < C
    <3>1. end \in Cuts(line) /\ end = Nth(Cuts(line), n + 1)
      BY <2>2, <2>7
    <3>2. end \in 1 .. N /\ end < N
      BY <3>1, CutsSet
    <3>3. end # N - 1
      BY <3>1
    <3>4. ~(end > N) /\ ~(end + 2 > N)
      BY <1>1, <3>2, <3>3
    <3>5. new = [p |-> end + 2, commands |-> filled]
      BY <2>4, <3>4
    <3>6. n + 1 <= C /\ ~(n + 1 > C) /\ n + 1 # 0
      BY <1>1, <2>7
    <3>7. new.p = Begin(line, n + 1) /\ new.commands = filled
      BY <3>1, <3>5, <3>6 DEF Begin
    <3> QED BY <2>5, <2>6, <3>6, <3>7 DEF Filled, new
  <2>8. CASE n = C
    <3>1. end = N + 1 /\ end > N
      BY <1>1, <2>2, <2>8
    <3>2. new = [p |-> end, commands |-> filled]
      BY <2>4, <3>1
    <3>3. n + 1 > C /\ ~(n + 1 <= C)
      BY <1>1, <2>8
    <3> QED BY <2>5, <2>6, <2>8, <3>1, <3>2, <3>3 DEF Filled, new
  <2> QED BY <1>1, <1>3, <2>7, <2>8
<1> QED BY <1>1, <1>2, <1>3

(* A line that does not end with "&&": the commands stand for its parts, as *)
(* many as fit.                                                             *)
LEMMA FillingHolds ==
  ASSUME NEW T, NEW line \in Seq(T), NEW garbage, Len(line) > 0, Len(line) - 1 \notin Cuts(line)
  PROVE  Filled(T, line, Filling(line, garbage)[MAX_CHAINED_CMDS], MAX_CHAINED_CMDS)
<1> DEFINE M == MAX_CHAINED_CMDS
           f == Filling(line, garbage)
           S == {n \in 0 .. M : Filled(T, line, f[n], n)}
<1>1. M \in Nat
  BY ShellAssumption
<1>2. f[0] = [p |-> 1, commands |-> <<>>] /\ \A n \in 1 .. M : f[n] = ChainRound(f[n - 1], line, garbage)
  BY FillingIs
<1> HIDE DEF f
<1>3. 0 \in S
  <2>1. Cardinality(Cuts(line)) \in Nat /\ 0 <= Cardinality(Cuts(line)) /\ ~(0 > Cardinality(Cuts(line)))
    BY CutsSet
  <2>2. Begin(line, 0) = 1
    BY DEF Begin
  <2>3. StandFor(T, <<>>, line)
    BY DEF StandFor
  <2>4. Filled(T, line, f[0], 0)
    BY <1>2, <2>1, <2>2, <2>3 DEF Filled
  <2> QED BY <1>1, <2>4
<1>4. ASSUME NEW n \in 0 .. M - 1, n \in S PROVE n + 1 \in S
  <2>1. n \in Nat /\ n + 1 \in 1 .. M /\ n + 1 \in 0 .. M /\ (n + 1) - 1 = n
    BY <1>1
  <2>2. Filled(T, line, f[n], n)
    BY <1>4
  <2>3. Filled(T, line, ChainRound(f[n], line, garbage), n + 1)
    BY <2>1, <2>2, FilledNext
  <2>4. f[n + 1] = ChainRound(f[n], line, garbage)
    BY <1>2, <2>1
  <2> QED BY <2>1, <2>3, <2>4
<1> HIDE DEF S
<1>5. 0 .. M \subseteq S
  BY <1>1, <1>3, <1>4, InductionOnSet
<1>6. M \in S
  BY <1>1, <1>5
<1> QED BY <1>6 DEF S, f

(* The parts that fit in commands[]. *)
PartsOf(line) ==
  LET n == Cardinality(Cuts(line)) + 1
  IN  [k \in 1 .. (IF n < MAX_CHAINED_CMDS THEN n ELSE MAX_CHAINED_CMDS) |-> Part(line, k)]

(* They are called alike. *)
LEMMA CallsParts ==
  ASSUME NEW T, NEW line \in Seq(T), NEW garbage, Len(line) > 0, Len(line) - 1 \notin Cuts(line)
  PROVE  CallsOf([i \in DOMAIN Commands(line, garbage) |-> TrimEnd(Commands(line, garbage)[i])]) =
         CallsOf([k \in DOMAIN PartsOf(line) |-> TrimEnd(PartsOf(line)[k])])
<1> DEFINE M == MAX_CHAINED_CMDS
           C == Cardinality(Cuts(line))
           c == Commands(line, garbage)
           w == IF C + 1 < M THEN C + 1 ELSE M
           parts == PartsOf(line)
           x == [i \in DOMAIN c |-> TrimEnd(c[i])]
           y == [k \in DOMAIN parts |-> TrimEnd(parts[k])]
<1>1. M \in Nat \ {0} /\ C \in Nat
  BY ShellAssumption, CutsSet
<1>2. StandFor(T, c, line) /\ (M <= C => Len(c) = M) /\ (M > C => Len(c) = C + 1)
  BY FillingHolds DEF Filled, Commands
<1>3. parts = [k \in 1 .. w |-> Part(line, k)]
  BY DEF PartsOf
<1> HIDE DEF c, parts, C, M
<1>4. w \in Nat /\ Len(c) = w
  BY <1>1, <1>2
<1> HIDE DEF w
<1>5. DOMAIN c = 1 .. w /\ DOMAIN parts = 1 .. w
  BY <1>2, <1>3, <1>4 DEF StandFor
<1>6. DOMAIN x = 1 .. w /\ DOMAIN y = 1 .. w
  BY <1>5
<1>7. \A i \in 1 .. w : x[i] = TrimEnd(c[i]) /\ y[i] = TrimEnd(Part(line, i))
  BY <1>3, <1>5
<1> HIDE DEF x, y
<1>8. \A i \in 1 .. w : Alike(x[i], y[i])
  BY <1>2, <1>4, <1>7 DEF StandFor
<1>9. CallsOf(x) = CallsOf(y)
  BY <1>4, <1>6, <1>8, CallsAlike
<1> QED BY <1>9 DEF x, y, c, parts

(* console_handle_key sees "&&" in a line exactly when it has a split. *)
LEMMA HasChainIs ==
  ASSUME NEW T, NEW line \in Seq(T)
  PROVE  HasChain(line) <=> Cardinality(Cuts(line)) # 0
<1> DEFINE N == Len(line)
<1>1. N \in Nat /\ Cuts(line) \subseteq Chains(line)
  BY CutsAre
<1>2. HasChain(line) <=> Chains(line) # {}
  BY DEF HasChain, Chains
<1>3. ASSUME Chains(line) = {} PROVE Cardinality(Cuts(line)) = 0
  BY <1>1, <1>3, FS_EmptySet
<1>4. ASSUME Cardinality(Cuts(line)) = 0 PROVE Chains(line) = {}
  <2>1. 1 \in Nat /\ N + 1 \in Nat /\ 1 <= N + 1
    BY <1>1
  <2>2. PICK q \in 1 .. N + 1 : FirstIn(1, N + 1, Chains(line), q)
    BY <2>1, FirstExists
  <2>3. 0 \in 0 .. Cardinality(Cuts(line)) /\ 0 = Cardinality(Cuts(line)) /\ Begin(line, 0) = 1
    BY <1>4 DEF Begin
  <2>4. q = N + 1
    BY <2>2, <2>3, NextCut
  <2>5. \A r \in 1 .. N : r \in 1 .. q - 1
    BY <1>1, <2>4
  <2>6. Chains(line) \subseteq 1 .. N
    BY CutsAre
  <2> QED BY <2>2, <2>5, <2>6 DEF FirstIn
<1> QED BY <1>2, <1>3, <1>4

(* What entering a line runs. *)
LEMMA EnterRuns ==
  ASSUME ShellInv, RunsParts, NEW garbage, Enter(garbage)
  PROVE  RunsParts'
<1>1. CASE input_pos = 0
  <2>1. entered' = entered /\ ran' = ran
    BY <1>1 DEF Enter, shellVars
  <2> QED BY <2>1 DEF RunsParts
<1>2. CASE input_pos # 0
  <2> DEFINE T == Keys \cup {SPACE}
             line == SubSeq(input_buffer, 1, input_pos)
             n == Cardinality(Cuts(line)) + 1
             parts == PartsOf(line)
             z == [i \in DOMAIN Commands(line, garbage) |-> TrimEnd(Commands(line, garbage)[i])]
             y == [k \in DOMAIN parts |-> TrimEnd(parts[k])]
  <2>1. input_buffer \in Seq(T) /\ input_pos \in 0 .. Len(input_buffer) /\ entered \in Seq(Lines)
    BY DEF ShellInv, Lines
  <2>2. line \in Seq(T) /\ Len(line) = input_pos /\ Len(line) > 0
    <3>1. 1 \in 1 .. Len(input_buffer) + 1 /\ 1 <= input_pos + 1 /\ input_pos - 1 + 1 = input_pos /\ input_pos > 0
      BY <1>2, <2>1
    <3>2. line \in Seq(T) /\ Len(line) = input_pos - 1 + 1
      BY ONLY <2>1, <3>1, Pieces
    <3> QED BY <3>1, <3>2
  <2>3. entered' = Append(entered, line) /\ ran' = IF HasChain(line) THEN CallsOf(z) ELSE CallsOf(<<line>>)
    BY <1>2 DEF Enter
  <2> HIDE DEF z, line, T
  <2>4. Last(entered') = line
    BY <2>1, <2>3 DEF Last
  <2>5. Cardinality(Cuts(line)) \in Nat
    BY <2>2, CutsSet
  <2>6. HasChain(line) <=> n # 1
    <3>1. HasChain(line) <=> Cardinality(Cuts(line)) # 0
      BY <2>2, HasChainIs
    <3> QED BY <2>5, <3>1
  <2>7. ASSUME Len(line) - 1 \notin Cuts(line) PROVE ran' = IF n = 1 THEN CallsOf(<<line>>) ELSE CallsOf(y)
    <3>1. CallsOf(z) = CallsOf(y)
      BY <2>2, <2>7, CallsParts DEF z
    <3> QED BY <2>3, <2>6, <3>1
  <2>8. RunsParts' = (entered' # <<>> =>
           LET l == Last(entered') IN
           Len(l) - 1 \notin Cuts(l) =>
             ran' = IF Cardinality(Cuts(l)) + 1 = 1 THEN CallsOf(<<l>>)
                    ELSE CallsOf([k \in DOMAIN PartsOf(l) |-> TrimEnd(PartsOf(l)[k])]))
    BY DEF RunsParts, PartsOf
  <2> QED BY <2>4, <2>7, <2>8
<1> QED BY <1>1, <1>2

(* The other keys run nothing. *)
LEMMA OthersRun ==
  ASSUME RunsParts, CtrlC \/ Backspace \/ Tab \/ Up \/ Down \/ Left \/ Right \/ \E c \in Keys : Type(c)
  PROVE  RunsParts'
<1>1. entered' = entered /\ ran' = ran
  BY DEF CtrlC, Backspace, Tab, Up, Down, Left, Right, Type, Recall, EditsLine
<1> QED BY <1>1 DEF RunsParts

(* Entering a line that does not end with "&&" calls the commands between   *)
(* its "&&", each once and in order, for lines, commands and arrays of any  *)
(* length and however many "&" stand in a row (parse_and_execute_chained,   *)
(* console_execute).                                                        *)
THEOREM ChainsCorrect == ShellSpec => []RunsParts
<1>1. ShellInv /\ RunsParts /\ [ShellNext]_shellVars => ShellInv' /\ RunsParts'
  <2> SUFFICES ASSUME ShellInv, RunsParts, [ShellNext]_shellVars PROVE ShellInv' /\ RunsParts'
    OBVIOUS
  <2>1. CASE UNCHANGED shellVars
    BY <2>1 DEF shellVars, ShellInv, HistoryRecent, RunsParts
  <2>2. CASE ShellNext
    <3>1. ShellInv'
      BY <2>2, EnterInv, KeyInv, TypeInv DEF ShellNext
    <3>2. RunsParts'
      BY <2>2, EnterRuns, OthersRun DEF ShellNext
    <3> QED BY <3>1, <3>2
  <2> QED BY <2>1, <2>2
<1>2. ShellInit => RunsParts
  BY DEF ShellInit, RunsParts
<1> QED BY <1>1, <1>2, ShellInitInv, PTL DEF ShellSpec
=============================================================================
