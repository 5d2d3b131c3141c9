------------------------------- MODULE PhysMem -------------------------------
(***************************************************************************)
(* The physical page-frame allocator (mem/phys/physmem.c): a bitmap and an *)
(* array of frame records, filled in from the boot loader's memory map,    *)
(* first-fit allocation of runs of frames from frame 512 on.               *)
(*                                                                         *)
(* Everything is counted in frames.  The boot loader hands over usable     *)
(* entries that are page aligned, so base / PAGE_SIZE loses nothing.       *)
(***************************************************************************)
EXTENDS Integers, FiniteSets, Sequences

CONSTANTS
  MemMaps,      \* the memory maps the boot loader may report: sequences of entries
  Track,        \* frames that the frame records and the bitmap take (to_used)
  HighBase,     \* 16 MB in frames: where the tracking area is put by preference
  MidBase,      \* 1 MB in frames: the second choice
  StartSearch,  \* frame 512: no allocation below
  Counts        \* the sizes of runs that callers ask for

Types == {"usable", "reclaimable", "reserved"}
Entry == [base : Nat, len : Nat, type : Types]
EntryFrames(e) == e.base .. e.base + e.len - 1

(* The boot protocol's promise about its map: an entry of usable memory     *)
(* overlaps no other entry.                                                 *)
UsableApart(m) ==
  \A i, j \in DOMAIN m : m[i].type = "usable" /\ i # j => EntryFrames(m[i]) \cap EntryFrames(m[j]) = {}

ASSUME PhysMemAssumption ==
  /\ \A m \in MemMaps : m \in Seq(Entry) /\ UsableApart(m)
  /\ Track \in Nat \ {0} /\ HighBase \in Nat /\ MidBase \in Nat
  /\ StartSearch \in Nat \ {0} /\ Counts \subseteq Nat

VARIABLES
  memmap,          \* the map reported at this boot
  phase,           \* "boot", "up" or "panic"
  physmem_total,   \* frames managed
  bitmap,          \* TRUE: in use
  flags,           \* physmem_pageframes[].flags, "junk" where nothing wrote it
  track_at,        \* first frame of the tracking area
  runs             \* auxiliary: the runs handed out and not freed, <<start, count>>

physvars == <<memmap, phase, physmem_total, bitmap, flags, track_at, runs>>

RunFrames(r) == r[1] .. r[1] + r[2] - 1
Highest(S) == {x \in S : \A y \in S : y <= x}
Lowest(S) == {x \in S : \A y \in S : x <= y}

PhysInit ==
  /\ memmap \in MemMaps
  /\ phase = "boot" /\ physmem_total = 0 /\ track_at = 0 /\ runs = {}
  /\ bitmap = [f \in {} |-> TRUE] /\ flags = [f \in {} |-> "junk"]

-----------------------------------------------------------------------------
(* physmem_addr_get_tracking: the first entry that is usable and large      *)
(* enough, tried above 16 MB, then above 1 MB, then anywhere.               *)
FirstFrom(m, low) ==
  LET fits == {i \in DOMAIN m : m[i].type = "usable" /\ m[i].len >= Track /\ m[i].base >= low}
  IN  {m[i].base : i \in Lowest(fits)}

physmem_addr_get_tracking(m) ==
  IF FirstFrom(m, HighBase) # {} THEN FirstFrom(m, HighBase)
  ELSE IF FirstFrom(m, MidBase) # {} THEN FirstFrom(m, MidBase)
  ELSE FirstFrom(m, 0)

Ends(m) == {m[i].base + m[i].len : i \in {j \in DOMAIN m : m[j].type \in {"usable", "reclaimable"}}}

(* physmem_addr_mark walks the entries in order: the last one that covers a *)
(* frame decides; a frame that none covers keeps memset's 0xFF and junk.    *)
Covering(m, f) == {i \in DOMAIN m : f \in EntryFrames(m[i])}

Marked(m, f) ==
  IF Covering(m, f) = {} THEN "junk"
  ELSE IF \E i \in Highest(Covering(m, f)) : m[i].type = "usable" THEN "free" ELSE "kernel"

(* A base of 0 is taken for "not found" (the address is compared with NULL). *)
physmem_init ==
  LET at == physmem_addr_get_tracking(memmap) \ {0} IN
  /\ phase = "boot"
  /\ \/ /\ at = {} /\ phase' = "panic"
        /\ UNCHANGED <<memmap, physmem_total, bitmap, flags, track_at, runs>>
     \/ \E t \in at, total \in Highest(Ends(memmap)) :
          /\ phase' = "up" /\ physmem_total' = total /\ track_at' = t
          /\ flags' = [f \in 0 .. total - 1 |-> IF f \in t .. t + Track - 1 THEN "used"
                                                ELSE Marked(memmap, f)]
          /\ bitmap' = [f \in 0 .. total - 1 |-> f \in t .. t + Track - 1 \/ Marked(memmap, f) # "free"]
          /\ UNCHANGED <<memmap, runs>>

-----------------------------------------------------------------------------
(* A run of `count' free frames from s on, inside the managed frames. *)
FreeRun(bm, s, count) == \A f \in s .. s + count - 1 : f \in DOMAIN bm /\ ~bm[f]

(* Where the scan of physmem_alloc_to stops: the lowest such run at or      *)
(* above start_search; none when it runs off the end.                       *)
FirstFit(bm, count) ==
  {s \in DOMAIN bm : /\ s >= StartSearch /\ FreeRun(bm, s, count)
                     /\ \A r \in DOMAIN bm : r >= StartSearch /\ FreeRun(bm, r, count) => s <= r}

(* Mutant: a frame in use does not break the run. *)
ScanStepNoReset(bm, count, st, f) ==
  IF st.found \/ bm[f] THEN st
  ELSE [consecutive |-> st.consecutive + 1,
        start |-> IF st.consecutive = 0 THEN f ELSE st.start,
        found |-> st.consecutive + 1 >= count]

(* One iteration of the loop of physmem_alloc_to. *)
ScanStep(bm, count, st, f) ==
  IF st.found THEN st
  ELSE IF bm[f] THEN [st EXCEPT !.consecutive = 0]
  ELSE [consecutive |-> st.consecutive + 1,
        start |-> IF st.consecutive = 0 THEN f ELSE st.start,
        found |-> st.consecutive + 1 >= count]

(* The loop over the frames from start_search on, after n of them. *)
ScanLength == IF physmem_total > StartSearch THEN physmem_total - StartSearch ELSE 0
Scanning(bm, count) ==
  LET after[n \in 0 .. ScanLength] ==
        IF n = 0 THEN [consecutive |-> 0, start |-> 0, found |-> FALSE]
        ELSE ScanStep(bm, count, after[n - 1], StartSearch + n - 1)
  IN  after

physmem_addr_mark_used(s, count) ==
  /\ bitmap' = [f \in DOMAIN bitmap |-> bitmap[f] \/ f \in s .. s + count - 1]
  /\ flags' = [f \in DOMAIN flags |-> IF f \in s .. s + count - 1 THEN "used" ELSE flags[f]]

physmem_addr_mark_free(s, count) ==
  /\ bitmap' = [f \in DOMAIN bitmap |-> bitmap[f] /\ f \notin s .. s + count - 1]
  /\ flags' = [f \in DOMAIN flags |-> IF f \in s .. s + count - 1 THEN "free" ELSE flags[f]]

physmem_alloc_to(count) ==
  /\ phase = "up"
  /\ \/ /\ count # 0
        /\ \E s \in FirstFit(bitmap, count) :
             physmem_addr_mark_used(s, count) /\ runs' = runs \cup {<<s, count>>}
     \/ /\ count = 0 \/ FirstFit(bitmap, count) = {}
        /\ UNCHANGED <<bitmap, flags, runs>>
  /\ UNCHANGED <<memmap, phase, physmem_total, track_at>>

(* The caller gives back a run it was given. *)
physmem_free_to(r) ==
  /\ phase = "up"
  /\ physmem_addr_mark_free(r[1], r[2])
  /\ runs' = runs \ {r}
  /\ UNCHANGED <<memmap, phase, physmem_total, track_at>>

-----------------------------------------------------------------------------
(* A frame is in at most one outstanding run, and every frame of such a run *)
(* is marked used.                                                          *)
RunsDisjoint ==
  /\ \A r \in runs : RunFrames(r) \subseteq DOMAIN bitmap /\ \A f \in RunFrames(r) : bitmap[f]
  /\ \A r, q \in runs : r # q => RunFrames(r) \cap RunFrames(q) = {}

(* Frames of usable entries. *)
UsableFrame(f) == \E i \in DOMAIN memmap : memmap[i].type = "usable" /\ f \in EntryFrames(memmap[i])
Tracking == track_at .. track_at + Track - 1

(* Only usable memory is handed out: never a frame of the tracking area, of *)
(* a reserved or reclaimable entry or of a hole in the map, nor one below   *)
(* the search start.                                                        *)
OnlyUsableGiven ==
  \A r \in runs : \A f \in RunFrames(r) : f >= StartSearch /\ f \notin Tracking /\ UsableFrame(f)

(* Frames are neither lost nor forgotten: outside the tracking area, which  *)
(* lies inside the managed frames and stays in use, a usable frame is       *)
(* marked used exactly while it is in an outstanding run, in the bitmap and *)
(* in the frame records alike.                                              *)
FramesAccounted ==
  phase = "up" =>
    /\ \A f \in Tracking : f < physmem_total /\ UsableFrame(f) /\ bitmap[f]
    /\ \A f \in DOMAIN bitmap :
         /\ bitmap[f] <=> flags[f] # "free"
         /\ UsableFrame(f) /\ f \notin Tracking => (bitmap[f] <=> \E r \in runs : f \in RunFrames(r))

(* However runs are allocated and released, by those who ask for them and   *)
(* for page tables, over whatever memory map the boot loader passed: they   *)
(* are disjoint, made of usable frames, and no frame is lost or forgotten   *)
(* (physmem_init, physmem_alloc_to, physmem_free_to).                       *)
FramesSound == RunsDisjoint /\ OnlyUsableGiven /\ FramesAccounted

(* The loop of physmem_alloc_to finds a run exactly when there is one, and  *)
(* then the lowest.                                                         *)
ScanIsFirstFit ==
  \A count \in Counts \ {0} :
    LET st == Scanning(bitmap, count)[ScanLength]
    IN  IF st.found THEN FirstFit(bitmap, count) = {st.start} ELSE FirstFit(bitmap, count) = {}

-----------------------------------------------------------------------------
PhysTypeOK ==
  /\ memmap \in MemMaps /\ phase \in {"boot", "up", "panic"}
  /\ physmem_total \in Nat /\ track_at \in Nat
  /\ runs \subseteq Nat \X Nat
  /\ bitmap \in [0 .. physmem_total - 1 -> BOOLEAN]
  /\ flags \in [0 .. physmem_total - 1 -> {"free", "used", "kernel", "junk"}]

(* What the bitmap says of a frame, once it is up: a free one is usable     *)
(* memory outside the tracking area.                                        *)
FreeIsUsable == \A f \in DOMAIN bitmap : ~bitmap[f] => UsableFrame(f) /\ f \notin Tracking

(* What every step of the frame allocator, and of paging above it,          *)
(* preserves.                                                               *)
FramesInv ==
  /\ PhysTypeOK /\ RunsDisjoint /\ OnlyUsableGiven /\ FramesAccounted /\ FreeIsUsable
  /\ phase = "boot" => runs = {}
=============================================================================
