--------------------------- MODULE MachineProofs ----------------------------
(***************************************************************************)
(* Proofs about what stands between the kernel and the machine: the frame  *)
(* allocator (PhysMem) under every caller that Paging has, for every memory *)
(* map in which usable memory overlaps nothing else; the page tables        *)
(* (Paging) for tables of any width and any boot tables whose huge pages    *)
(* lie elsewhere; the bytes of mouse packets (Interrupts).                  *)
(***************************************************************************)
EXTENDS Paging, Interrupts, Loops, FiniteSetTheorems, TLAPS

-----------------------------------------------------------------------------
(* Set-up *)

LEMMA MemmapFacts ==
  ASSUME memmap \in MemMaps, NEW i \in DOMAIN memmap
  PROVE  /\ memmap[i] \in Entry /\ memmap[i].base \in Nat /\ memmap[i].len \in Nat
         /\ DOMAIN memmap = 1 .. Len(memmap) /\ Len(memmap) \in Nat /\ i \in Nat
<1>1. memmap \in Seq(Entry)
  BY PhysMemAssumption
<1>2. DOMAIN memmap = 1 .. Len(memmap) /\ Len(memmap) \in Nat /\ memmap[i] \in Entry
  BY <1>1
<1> QED BY <1>2 DEF Entry

(* Where the frame records go: a usable entry that holds them. *)
LEMMA TrackingFits ==
  ASSUME memmap \in MemMaps, NEW t \in physmem_addr_get_tracking(memmap)
  PROVE  \E i \in DOMAIN memmap : memmap[i].type = "usable" /\ memmap[i].len >= Track /\ memmap[i].base = t
<1>1. ASSUME NEW low, NEW u \in FirstFrom(memmap, low)
      PROVE  \E i \in DOMAIN memmap : memmap[i].type = "usable" /\ memmap[i].len >= Track /\ memmap[i].base = u
  BY DEF FirstFrom, Lowest
<1> QED BY <1>1 DEF physmem_addr_get_tracking

(* Usable memory overlaps nothing, so the order of the entries does not     *)
(* matter: a frame is marked free exactly if it is usable.                  *)
LEMMA MarkedFree ==
  ASSUME memmap \in MemMaps, NEW f
  PROVE  Marked(memmap, f) = "free" <=> UsableFrame(f)
<1>1. ASSUME Marked(memmap, f) = "free" PROVE UsableFrame(f)
  <2>1. PICK i \in Highest(Covering(memmap, f)) : memmap[i].type = "usable"
    BY <1>1 DEF Marked
  <2> QED BY <2>1 DEF Highest, Covering, UsableFrame
<1>2. ASSUME UsableFrame(f) PROVE Marked(memmap, f) = "free"
  <2>1. PICK i \in DOMAIN memmap : memmap[i].type = "usable" /\ f \in EntryFrames(memmap[i])
    BY <1>2 DEF UsableFrame
  <2>2. \A j \in Covering(memmap, f) : j = i
    BY <2>1, PhysMemAssumption DEF Covering, UsableApart
  <2>3. i \in Covering(memmap, f) /\ i \in Nat
    BY <2>1, MemmapFacts DEF Covering
  <2>4. i \in Highest(Covering(memmap, f))
    BY <2>2, <2>3 DEF Highest
  <2> QED BY <2>1, <2>3, <2>4 DEF Marked
<1> QED BY <1>1, <1>2

LEMMA BootInv == PhysInit => FramesInv
<1> SUFFICES ASSUME PhysInit PROVE FramesInv
  OBVIOUS
<1> USE DEF PhysInit
<1>1. PhysTypeOK
  BY DEF PhysTypeOK
<1> QED BY <1>1 DEF FramesInv, RunsDisjoint, OnlyUsableGiven, FramesAccounted, FreeIsUsable

LEMMA SetUpInv == FramesInv /\ physmem_init => FramesInv'
<1> SUFFICES ASSUME FramesInv, physmem_init PROVE FramesInv'
  OBVIOUS
<1> DEFINE at == physmem_addr_get_tracking(memmap) \ {0}
<1>1. CASE phase' = "panic" /\ UNCHANGED <<memmap, physmem_total, bitmap, flags, track_at, runs>>
  BY <1>1 DEF FramesInv, PhysTypeOK, RunsDisjoint, OnlyUsableGiven, FramesAccounted, FreeIsUsable, UsableFrame, Tracking
<1>2. ASSUME NEW t \in at, NEW total \in Highest(Ends(memmap)),
             /\ phase' = "up" /\ physmem_total' = total /\ track_at' = t
             /\ flags' = [f \in 0 .. total - 1 |-> IF f \in t .. t + Track - 1 THEN "used" ELSE Marked(memmap, f)]
             /\ bitmap' = [f \in 0 .. total - 1 |-> f \in t .. t + Track - 1 \/ Marked(memmap, f) # "free"]
             /\ UNCHANGED <<memmap, runs>>
      PROVE  FramesInv'
  <2>1. memmap \in MemMaps /\ runs = {}
    BY DEF FramesInv, PhysTypeOK, physmem_init
  <2>2. PICK i \in DOMAIN memmap : memmap[i].type = "usable" /\ memmap[i].len >= Track /\ memmap[i].base = t
    BY <2>1, TrackingFits
  <2>3. t \in Nat /\ memmap[i].len \in Nat /\ Track \in Nat
    BY <2>1, <2>2, MemmapFacts, PhysMemAssumption
  <2>4. total \in Nat /\ memmap[i].base + memmap[i].len <= total
    <3>1. \A e \in Ends(memmap) : e \in Nat
      BY <2>1, MemmapFacts DEF Ends
    <3>2. memmap[i].base + memmap[i].len \in Ends(memmap)
      BY <2>2 DEF Ends
    <3> QED BY <3>1, <3>2 DEF Highest
  <2>5. \A f \in t .. t + Track - 1 : f < total /\ f \in 0 .. total - 1 /\ f \in EntryFrames(memmap[i])
    BY <2>2, <2>3, <2>4 DEF EntryFrames
  <2>6. /\ \A f : UsableFrame(f)' <=> UsableFrame(f)
        /\ Tracking' = t .. t + Track - 1 /\ DOMAIN bitmap' = 0 .. total - 1
        /\ \A f \in 0 .. total - 1 : bitmap'[f] <=> (f \in Tracking' \/ ~UsableFrame(f))
        /\ \A f \in 0 .. total - 1 : flags'[f] = "free" <=> (f \notin Tracking' /\ UsableFrame(f))
    BY <1>2, <2>1, MarkedFree DEF Tracking, UsableFrame
  <2>7. PhysTypeOK'
    <3>1. \A f : Marked(memmap, f) \in {"free", "used", "kernel", "junk"}
      BY DEF Marked
    <3>2. /\ bitmap' \in [0 .. physmem_total' - 1 -> BOOLEAN]
          /\ flags' \in [0 .. physmem_total' - 1 -> {"free", "used", "kernel", "junk"}]
      BY <1>2, <3>1
    <3> QED BY <1>2, <2>1, <2>3, <2>4, <3>2 DEF PhysTypeOK
  <2>8. RunsDisjoint' /\ OnlyUsableGiven'
    BY <1>2, <2>1 DEF RunsDisjoint, OnlyUsableGiven
  <2>9. FreeIsUsable'
    BY <2>6 DEF FreeIsUsable
  <2>10. FramesAccounted'
    <3>1. \A f \in Tracking' : f < physmem_total' /\ UsableFrame(f)' /\ bitmap'[f]
      BY <1>2, <2>2, <2>5, <2>6 DEF UsableFrame
    <3>2. \A f \in DOMAIN bitmap' : bitmap'[f] <=> flags'[f] # "free"
      BY <2>6
    <3>3. ASSUME NEW f \in DOMAIN bitmap', UsableFrame(f)', f \notin Tracking'
          PROVE  bitmap'[f] <=> \E r \in runs' : f \in RunFrames(r)
      BY <1>2, <2>1, <2>6, <3>3
    <3> QED BY <3>1, <3>2, <3>3 DEF FramesAccounted
  <2> QED BY <1>2, <2>7, <2>8, <2>9, <2>10 DEF FramesInv
<1> QED BY <1>1, <1>2 DEF physmem_init

-----------------------------------------------------------------------------
(* Runs taken and given back *)

(* The step common to physmem_alloc_to and to those that call it: the first *)
(* free run is marked used and handed out.                                  *)
LEMMA TakeInv ==
  ASSUME FramesInv, phase = "up", phase' = "up", NEW count \in Nat \ {0}, NEW s \in FirstFit(bitmap, count),
         physmem_addr_mark_used(s, count), runs' = runs \cup {<<s, count>>},
         UNCHANGED <<memmap, physmem_total, track_at>>
  PROVE  FramesInv'
<1> DEFINE run == <<s, count>>
<1>1. PhysTypeOK /\ DOMAIN bitmap = 0 .. physmem_total - 1 /\ DOMAIN flags = 0 .. physmem_total - 1
  BY DEF FramesInv, PhysTypeOK
<1>2. s \in Nat /\ s >= StartSearch /\ RunFrames(run) = s .. s + count - 1 /\ run \in Nat \X Nat
  BY <1>1 DEF FirstFit, RunFrames, PhysTypeOK
<1>3. \A f \in RunFrames(run) : f \in DOMAIN bitmap /\ ~bitmap[f] /\ UsableFrame(f) /\ f \notin Tracking /\ f >= StartSearch
  <2>1. \A f \in RunFrames(run) : f \in DOMAIN bitmap /\ ~bitmap[f]
    BY <1>2 DEF FirstFit, FreeRun
  <2>2. \A f \in RunFrames(run) : f >= StartSearch
    BY <1>2, PhysMemAssumption
  <2> QED BY <2>1, <2>2 DEF FramesInv, FreeIsUsable
<1>4. /\ DOMAIN bitmap' = DOMAIN bitmap /\ DOMAIN flags' = DOMAIN bitmap
      /\ \A f \in DOMAIN bitmap : bitmap'[f] <=> (bitmap[f] \/ f \in RunFrames(run))
      /\ \A f \in DOMAIN bitmap : flags'[f] = IF f \in RunFrames(run) THEN "used" ELSE flags[f]
  BY <1>1, <1>2 DEF physmem_addr_mark_used
<1>5. (\A f : UsableFrame(f)' <=> UsableFrame(f)) /\ Tracking' = Tracking /\ runs' = runs \cup {run}
  BY DEF UsableFrame, Tracking
<1> HIDE DEF run
<1>6. PhysTypeOK'
  <2>1. bitmap' \in [0 .. physmem_total - 1 -> BOOLEAN] /\ flags' \in [0 .. physmem_total - 1 -> {"free", "used", "kernel", "junk"}]
    BY <1>1 DEF physmem_addr_mark_used, PhysTypeOK
  <2>2. runs' \subseteq Nat \X Nat
    BY <1>1, <1>2, <1>5 DEF PhysTypeOK
  <2> QED BY <1>1, <2>1, <2>2 DEF PhysTypeOK
<1>7. RunsDisjoint'
  <2>1. \A q \in runs : RunFrames(q) \subseteq DOMAIN bitmap /\ \A f \in RunFrames(q) : bitmap[f]
    BY DEF FramesInv, RunsDisjoint
  <2>2. \A q \in runs' : RunFrames(q) \subseteq DOMAIN bitmap' /\ \A f \in RunFrames(q) : bitmap'[f]
    BY <1>3, <1>4, <1>5, <2>1
  <2>3. \A q \in runs : RunFrames(q) \cap RunFrames(run) = {}
    BY <1>3, <2>1
  <2>4. \A r, q \in runs' : r # q => RunFrames(r) \cap RunFrames(q) = {}
    BY <1>5, <2>3 DEF FramesInv, RunsDisjoint
  <2> QED BY <2>2, <2>4 DEF RunsDisjoint
<1>8. OnlyUsableGiven'
  BY <1>3, <1>5 DEF FramesInv, OnlyUsableGiven
<1>9. FreeIsUsable'
  BY <1>4, <1>5 DEF FramesInv, FreeIsUsable
<1>10. FramesAccounted'
  <2>1. \A f \in Tracking : f < physmem_total /\ UsableFrame(f) /\ bitmap[f] /\ f \in DOMAIN bitmap
    <3>1. \A f \in Tracking : f \in Nat
      BY <1>1, PhysMemAssumption DEF Tracking, PhysTypeOK
    <3> QED BY <1>1, <3>1 DEF FramesInv, FramesAccounted, PhysTypeOK
  <2>2. \A f \in Tracking' : f < physmem_total' /\ UsableFrame(f)' /\ bitmap'[f]
    BY <1>4, <1>5, <2>1
  <2>3. \A f \in DOMAIN bitmap' : bitmap'[f] <=> flags'[f] # "free"
    BY <1>4 DEF FramesInv, FramesAccounted
  <2>4. ASSUME NEW f \in DOMAIN bitmap, UsableFrame(f), f \notin Tracking
        PROVE  bitmap'[f] <=> \E r \in runs' : f \in RunFrames(r)
    BY <1>4, <1>5, <2>4 DEF FramesInv, FramesAccounted
  <2> QED BY <1>4, <1>5, <2>2, <2>3, <2>4 DEF FramesAccounted
<1> QED BY <1>6, <1>7, <1>8, <1>9, <1>10 DEF FramesInv

LEMMA GiveBackInv ==
  ASSUME FramesInv, NEW run \in runs, physmem_free_to(run)
  PROVE  FramesInv'
<1>1. /\ PhysTypeOK /\ DOMAIN bitmap = 0 .. physmem_total - 1 /\ DOMAIN flags = 0 .. physmem_total - 1
      /\ phase = "up" /\ phase' = "up"
  BY DEF FramesInv, PhysTypeOK, physmem_free_to
<1>3. \A f \in RunFrames(run) : f \in DOMAIN bitmap /\ bitmap[f] /\ UsableFrame(f) /\ f \notin Tracking
  BY DEF FramesInv, RunsDisjoint, OnlyUsableGiven
<1>4. /\ DOMAIN bitmap' = DOMAIN bitmap /\ DOMAIN flags' = DOMAIN bitmap
      /\ \A f \in DOMAIN bitmap : bitmap'[f] <=> (bitmap[f] /\ f \notin RunFrames(run))
      /\ \A f \in DOMAIN bitmap : flags'[f] = IF f \in RunFrames(run) THEN "free" ELSE flags[f]
  BY <1>1 DEF physmem_free_to, physmem_addr_mark_free, RunFrames
<1>5. (\A f : UsableFrame(f)' <=> UsableFrame(f)) /\ Tracking' = Tracking /\ runs' = runs \ {run}
  BY DEF UsableFrame, Tracking, physmem_free_to
<1>6. PhysTypeOK'
  <2>1. bitmap' \in [0 .. physmem_total - 1 -> BOOLEAN] /\ flags' \in [0 .. physmem_total - 1 -> {"free", "used", "kernel", "junk"}]
    BY <1>1 DEF physmem_free_to, physmem_addr_mark_free, PhysTypeOK
  <2> QED BY <1>1, <1>5, <2>1 DEF PhysTypeOK, physmem_free_to
<1>7. RunsDisjoint'
  BY <1>4, <1>5 DEF FramesInv, RunsDisjoint
<1>8. OnlyUsableGiven'
  BY <1>5 DEF FramesInv, OnlyUsableGiven
<1>9. FreeIsUsable'
  BY <1>3, <1>4, <1>5 DEF FramesInv, FreeIsUsable
<1>10. FramesAccounted'
  <2>1. \A f \in Tracking : f < physmem_total /\ UsableFrame(f) /\ bitmap[f] /\ f \in DOMAIN bitmap
    <3>1. \A f \in Tracking : f \in Nat
      BY <1>1, PhysMemAssumption DEF Tracking, PhysTypeOK
    <3> QED BY <1>1, <3>1 DEF FramesInv, FramesAccounted, PhysTypeOK
  <2>2. \A f \in Tracking' : f < physmem_total' /\ UsableFrame(f)' /\ bitmap'[f]
    BY <1>3, <1>4, <1>5, <2>1 DEF physmem_free_to
  <2>3. \A f \in DOMAIN bitmap' : bitmap'[f] <=> flags'[f] # "free"
    BY <1>1, <1>4 DEF FramesInv, FramesAccounted
  <2>4. ASSUME NEW f \in DOMAIN bitmap, UsableFrame(f), f \notin Tracking
        PROVE  bitmap'[f] <=> \E r \in runs' : f \in RunFrames(r)
    <3>1. bitmap[f] <=> \E r \in runs : f \in RunFrames(r)
      BY <1>1, <2>4 DEF FramesInv, FramesAccounted
    <3>2. CASE f \in RunFrames(run)
      BY <1>4, <1>5, <3>2 DEF FramesInv, RunsDisjoint
    <3>3. CASE f \notin RunFrames(run)
      BY <1>4, <1>5, <3>1, <3>3
    <3> QED BY <3>2, <3>3
  <2> QED BY <1>4, <1>5, <2>2, <2>3, <2>4 DEF FramesAccounted
<1> QED BY <1>1, <1>6, <1>7, <1>8, <1>9, <1>10 DEF FramesInv

LEMMA PhysStutter ==
  ASSUME FramesInv, phase' \in {phase, "panic"}, UNCHANGED <<memmap, physmem_total, bitmap, flags, track_at, runs>>
  PROVE  FramesInv'
BY DEF FramesInv, PhysTypeOK, RunsDisjoint, OnlyUsableGiven, FramesAccounted, FreeIsUsable, UsableFrame, Tracking

-----------------------------------------------------------------------------
(* The callers *)

LEMMA PhysCallInv == FramesInv /\ PhysCall => FramesInv'
<1> SUFFICES ASSUME FramesInv, PhysCall PROVE FramesInv'
  OBVIOUS
<1>1. CASE physmem_init
  BY <1>1, SetUpInv
<1>2. ASSUME NEW c \in Counts, physmem_alloc_to(c) PROVE FramesInv'
  <2>1. CASE c # 0 /\ \E s \in FirstFit(bitmap, c) : physmem_addr_mark_used(s, c) /\ runs' = runs \cup {<<s, c>>}
    BY <1>2, <2>1, TakeInv, PhysMemAssumption DEF physmem_alloc_to
  <2>2. CASE UNCHANGED <<bitmap, flags, runs>>
    BY <1>2, <2>2, PhysStutter DEF physmem_alloc_to
  <2> QED BY <1>2, <2>1, <2>2 DEF physmem_alloc_to
<1>3. ASSUME NEW r \in OthersRuns, physmem_free_to(r) PROVE FramesInv'
  BY <1>3, GiveBackInv DEF OthersRuns
<1> QED BY <1>1, <1>2, <1>3 DEF PhysCall

LEMMA MapInv ==
  ASSUME FramesInv, NEW g \in Regions, map_region_alloc(g[1], g[2])
  PROVE  FramesInv'
<1>1. g[2] \in Nat
  BY PagingAssumption
<1>2. CASE g[2] # 0 /\ \E s \in FirstFit(bitmap, g[2]) :
             physmem_addr_mark_used(s, g[2]) /\ runs' = runs \cup {<<s, g[2]>>} /\ UNCHANGED phase
  BY <1>1, <1>2, TakeInv DEF map_region_alloc
<1>3. CASE phase' = "panic" /\ UNCHANGED <<bitmap, flags, runs>>
  BY <1>3, PhysStutter DEF map_region_alloc
<1> QED BY <1>2, <1>3 DEF map_region_alloc

LEMMA MapPageInv == FramesInv /\ paging_map_page => FramesInv'
<1> SUFFICES ASSUME FramesInv, paging_map_page PROVE FramesInv'
  OBVIOUS
<1>1. CASE AddTable
  BY <1>1, TakeInv DEF AddTable, Walking
<1>2. CASE WalkDown \/ WalkAstray \/ WriteEntry
  BY <1>2, PhysStutter DEF WalkDown, WalkAstray, WriteEntry, physvars
<1>3. CASE NoFrameForTable
  BY <1>3, PhysStutter DEF NoFrameForTable
<1> QED BY <1>1, <1>2, <1>3 DEF paging_map_page

LEMMA FramesHold == PagingSpec => []FramesInv
<1>1. PagingInit => FramesInv
  BY BootInv DEF PagingInit
<1>2. FramesInv /\ [PagingNext]_pagevars => FramesInv'
  <2> SUFFICES ASSUME FramesInv, [PagingNext]_pagevars PROVE FramesInv'
    OBVIOUS
  <2>1. CASE UNCHANGED pagevars \/ MapRegionDone \/ \E d \in Devices : MapDevice(d)
    BY <2>1, PhysStutter DEF pagevars, physvars, MapRegionDone, MapDevice
  <2> QED BY <2>1, PhysCallInv, MapInv, MapPageInv DEF PagingNext, PagingPanicked
<1> QED BY <1>1, <1>2, PTL DEF PagingSpec

(* physmem_init, physmem_alloc_to and physmem_free_to, called for regions,  *)
(* for page tables and by others in any order: the runs that are handed out *)
(* never overlap and consist of usable frames outside the allocator's own   *)
(* area, and the bitmap and the frame records account for every frame.      *)
THEOREM FramesCorrect == PagingSpec => []FramesSound
<1>1. FramesInv => FramesSound
  BY DEF FramesInv, FramesSound
<1> QED BY <1>1, FramesHold, PTL

-----------------------------------------------------------------------------
(* The scan for free frames *)

ScanStates == [consecutive : Nat, start : Nat, found : BOOLEAN]

LEMMA ScanStepType ==
  ASSUME NEW st \in ScanStates, NEW bm, NEW count \in Nat, NEW f \in Nat
  PROVE  ScanStep(bm, count, st, f) \in ScanStates
<1>1. st.consecutive \in Nat /\ st.start \in Nat /\ st.found \in BOOLEAN
  BY DEF ScanStates
<1> DEFINE longer == st.consecutive + 1
           from == IF st.consecutive = 0 THEN f ELSE st.start
           hit == longer >= count
<1>2. longer \in Nat /\ from \in Nat /\ hit \in BOOLEAN
  BY <1>1
<1>3. ScanStep(bm, count, st, f) \in {st, [st EXCEPT !.consecutive = 0], [consecutive |-> longer, start |-> from, found |-> hit]}
  BY DEF ScanStep
<1> HIDE DEF longer, from, hit
<1>4. [consecutive |-> longer, start |-> from, found |-> hit] \in ScanStates
  BY <1>2 DEF ScanStates
<1>5. [st EXCEPT !.consecutive = 0] \in ScanStates
  BY DEF ScanStates
<1> QED BY <1>3, <1>4, <1>5

(* The loop is what its definition says. *)
LEMMA ScanningIs ==
  ASSUME PhysTypeOK, NEW count \in Nat
  PROVE  LET after == Scanning(bitmap, count) IN
         /\ ScanLength \in Nat
         /\ after[0] = [consecutive |-> 0, start |-> 0, found |-> FALSE]
         /\ \A n \in 1 .. ScanLength : after[n] = ScanStep(bitmap, count, after[n - 1], StartSearch + n - 1)
         /\ \A n \in 0 .. ScanLength : after[n] \in ScanStates
<1> DEFINE N == ScanLength
           e == [consecutive |-> 0, start |-> 0, found |-> FALSE]
           P(h) == h = [k \in 0 .. N |-> IF k = 0 THEN e ELSE ScanStep(bitmap, count, h[k - 1], StartSearch + k - 1)]
           F == [x \in ScanStates \X (1 .. N) |-> ScanStep(bitmap, count, x[1], StartSearch + x[2] - 1)]
<1>1. N \in Nat /\ StartSearch \in Nat
  BY PhysMemAssumption DEF ScanLength, PhysTypeOK
<1>2. e \in ScanStates
  BY DEF ScanStates
<1>3. F \in [ScanStates \X (1 .. N) -> ScanStates]
  <2>1. ASSUME NEW x \in ScanStates \X (1 .. N) PROVE ScanStep(bitmap, count, x[1], StartSearch + x[2] - 1) \in ScanStates
    <3>1. x[1] \in ScanStates /\ StartSearch + x[2] - 1 \in Nat
      BY <1>1
    <3> QED BY <3>1, ScanStepType
  <2> QED BY <2>1
<1>4. \A st \in ScanStates, k \in 1 .. N : F[<<st, k>>] = ScanStep(bitmap, count, st, StartSearch + k - 1)
  OBVIOUS
<1>5. Scanning(bitmap, count) = CHOOSE h : P(h)
  BY DEF Scanning
<1> HIDE DEF N, e, F
<1>6. PICK g \in [0 .. N -> ScanStates] : IsRun(g, N, e, F)
  BY <1>1, <1>2, <1>3, LoopRuns
<1>7. P(g)
  <2>1. \A k \in 0 .. N : k # 0 => k \in 1 .. N /\ g[k - 1] \in ScanStates
    BY <1>1
  <2>2. \A k \in 0 .. N : g[k] = IF k = 0 THEN e ELSE ScanStep(bitmap, count, g[k - 1], StartSearch + k - 1)
    BY <1>4, <1>6, <2>1 DEF IsRun
  <2> QED BY <2>2
<1> DEFINE after == Scanning(bitmap, count)
<1>8. P(after)
  <2> HIDE DEF P
  <2> QED BY <1>5, <1>7
<1> HIDE DEF after
<1>9. \A k \in 0 .. N : after[k] = IF k = 0 THEN e ELSE ScanStep(bitmap, count, after[k - 1], StartSearch + k - 1)
  BY <1>8
<1>10. after[0] = e /\ \A k \in 1 .. N : after[k] = ScanStep(bitmap, count, after[k - 1], StartSearch + k - 1)
  BY <1>1, <1>9
<1>11. ASSUME NEW k \in 1 .. N, after[k - 1] \in ScanStates PROVE after[k] \in ScanStates
  <2>1. StartSearch + k - 1 \in Nat
    BY <1>1
  <2> QED BY <1>10, <1>11, <2>1, ScanStepType
<1>12. \A k \in 0 .. N : after[k] \in ScanStates
  BY <1>1, <1>2, <1>10, <1>11, LoopStays
<1> QED BY <1>1, <1>10, <1>12 DEF N, after, e

(* After n frames: no run of count frames ends among them, and the frames   *)
(* counted are free and follow a used one or the start; or the lowest run   *)
(* has been found.                                                          *)
NoneBelow(count, top) == \A s \in Nat : s >= StartSearch /\ s + count <= top => ~FreeRun(bitmap, s, count)
Counting(st, count, next) ==
  /\ st.consecutive < count /\ StartSearch + st.consecutive <= next
  /\ \A f \in next - st.consecutive .. next - 1 : ~bitmap[f]
  /\ st.consecutive > 0 => st.start = next - st.consecutive
  /\ StartSearch + st.consecutive < next => bitmap[next - st.consecutive - 1]
  /\ NoneBelow(count, next)
Found(st, count, next) ==
  /\ st.start >= StartSearch /\ st.start + count <= next /\ FreeRun(bitmap, st.start, count)
  /\ \A s \in Nat : s >= StartSearch /\ s < st.start => ~FreeRun(bitmap, s, count)
ScanInv(st, count, next) == IF st.found THEN Found(st, count, next) ELSE Counting(st, count, next)

LEMMA ScanStepInv ==
  ASSUME PhysTypeOK, NEW count \in Nat \ {0}, NEW st \in ScanStates, NEW f \in Nat, f >= StartSearch, f < physmem_total,
         ScanInv(st, count, f)
  PROVE  ScanInv(ScanStep(bitmap, count, st, f), count, f + 1)
<1> DEFINE new == ScanStep(bitmap, count, st, f)
           c == st.consecutive
<1>1. /\ c \in Nat /\ st.start \in Nat /\ st.found \in BOOLEAN /\ StartSearch \in Nat /\ physmem_total \in Nat
  BY PhysMemAssumption DEF ScanStates, PhysTypeOK
<1>2. DOMAIN bitmap = 0 .. physmem_total - 1 /\ bitmap \in [0 .. physmem_total - 1 -> BOOLEAN]
  BY DEF PhysTypeOK
<1>3. CASE st.found
  <2>1. new = st
    BY <1>3 DEF ScanStep
  <2>2. Found(st, count, f)
    BY <1>3 DEF ScanInv
  <2>3. Found(st, count, f + 1)
    BY <1>1, <2>2 DEF Found
  <2> QED BY <1>3, <2>1, <2>3 DEF ScanInv
<1>4. CASE ~st.found
  <2>1. Counting(st, count, f)
    BY <1>4 DEF ScanInv
  <2>2. CASE bitmap[f]
    <3>1. new = [st EXCEPT !.consecutive = 0]
      BY <1>4, <2>2 DEF ScanStep
    <3>2. new.consecutive = 0 /\ new.found = FALSE
      BY <1>4, <3>1 DEF ScanStates
    <3>3. NoneBelow(count, f + 1)
      <4> SUFFICES ASSUME NEW s \in Nat, s >= StartSearch, s + count <= f + 1, FreeRun(bitmap, s, count) PROVE FALSE
        BY DEF NoneBelow
      <4>1. CASE s + count <= f
        BY <1>1, <2>1, <4>1 DEF Counting, NoneBelow
      <4>2. CASE s + count = f + 1
        <5>1. f \in s .. s + count - 1
          BY <4>2
        <5> QED BY <2>2, <5>1 DEF FreeRun
      <4> QED BY <4>1, <4>2
    <3> HIDE DEF new
    <3>4. Counting(new, count, f + 1)
      <4>1. 0 < count /\ StartSearch + 0 <= f + 1 /\ (f + 1) - 0 - 1 = f /\ (f + 1) - 0 .. (f + 1) - 1 = {} /\ ~(0 > 0)
        BY <1>1
      <4> QED BY <2>2, <3>2, <3>3, <4>1 DEF Counting
    <3> QED BY <3>2, <3>4 DEF ScanInv, new
  <2>3. CASE ~bitmap[f]
    <3> DEFINE from == IF c = 0 THEN f ELSE st.start
    <3>1. new = [consecutive |-> c + 1, start |-> from, found |-> c + 1 >= count]
      BY <1>4, <2>3 DEF ScanStep
    <3>2. new.consecutive = c + 1 /\ new.start = from /\ new.found = (c + 1 >= count)
      <4> DEFINE hit == c + 1 >= count
                 longer == c + 1
      <4>1. new = [consecutive |-> longer, start |-> from, found |-> hit]
        BY <3>1
      <4> HIDE DEF hit, longer, new, from
      <4>2. new.consecutive = longer /\ new.start = from /\ new.found = hit
        BY <4>1
      <4> QED BY <4>2 DEF hit, longer
    <3>3. c < count /\ StartSearch + c <= f /\ from = f - c /\ from \in Nat /\ from >= StartSearch
      BY <1>1, <2>1 DEF Counting
    <3>4. \A g \in from .. f : ~bitmap[g] /\ g \in DOMAIN bitmap
      <4> TAKE g \in from .. f
      <4>1. g = f \/ g \in f - c .. f - 1
        BY <1>1, <3>3
      <4>2. g \in DOMAIN bitmap
        BY <1>1, <1>2, <3>3
      <4> QED BY <2>1, <2>3, <4>1, <4>2 DEF Counting
    <3> HIDE DEF from, new
    <3>5. ASSUME c + 1 >= count PROVE ScanInv(new, count, f + 1)
      <4>1. c + 1 = count /\ from + count = f + 1
        BY <1>1, <3>3, <3>5
      <4>2. FreeRun(bitmap, from, count)
        <5>1. from + count - 1 = f
          BY <1>1, <3>3, <4>1
        <5> QED BY <3>4, <5>1 DEF FreeRun
      <4>3. ASSUME NEW s \in Nat, s >= StartSearch, s < from PROVE ~FreeRun(bitmap, s, count)
        <5>1. s + count <= f
          BY <1>1, <3>3, <4>1, <4>3
        <5> QED BY <2>1, <4>3, <5>1 DEF Counting, NoneBelow
      <4>4. from + count <= f + 1
        BY <1>1, <3>3, <4>1
      <4> QED BY <3>2, <3>3, <3>5, <4>2, <4>3, <4>4 DEF ScanInv, Found
    <3>6. ASSUME ~(c + 1 >= count) PROVE ScanInv(new, count, f + 1)
      <4>1. c + 1 < count /\ StartSearch + (c + 1) <= f + 1 /\ (f + 1) - (c + 1) = from /\ (f + 1) - 1 = f
        BY <1>1, <3>3, <3>6
      <4>2. StartSearch + (c + 1) < f + 1 => bitmap[(f + 1) - (c + 1) - 1]
        <5>1. (f + 1) - (c + 1) - 1 = f - c - 1 /\ (StartSearch + (c + 1) < f + 1 => StartSearch + c < f)
          BY <1>1
        <5> QED BY <2>1, <5>1 DEF Counting
      <4>3. NoneBelow(count, f + 1)
        <5> SUFFICES ASSUME NEW s \in Nat, s >= StartSearch, s + count <= f + 1, FreeRun(bitmap, s, count) PROVE FALSE
          BY DEF NoneBelow
        <5>1. CASE s + count <= f
          BY <1>1, <2>1, <5>1 DEF Counting, NoneBelow
        <5>2. CASE s + count = f + 1
          <6>1. StartSearch + c < f /\ f - c - 1 \in s .. s + count - 1
            BY <1>1, <3>3, <3>6, <5>2
          <6>2. bitmap[f - c - 1]
            BY <2>1, <6>1 DEF Counting
          <6> QED BY <6>1, <6>2 DEF FreeRun
        <5> QED BY <5>1, <5>2
      <4>4. \A g \in (f + 1) - (c + 1) .. (f + 1) - 1 : ~bitmap[g]
        BY <3>4, <4>1
      <4>5. Counting(new, count, f + 1)
        BY <3>2, <4>1, <4>2, <4>3, <4>4 DEF Counting
      <4> QED BY <3>2, <3>6, <4>5 DEF ScanInv
    <3> QED BY <3>5, <3>6 DEF new
  <2> QED BY <2>2, <2>3
<1> QED BY <1>3, <1>4

LEMMA ScanFinds ==
  ASSUME PhysTypeOK, NEW count \in Nat \ {0}
  PROVE  LET st == Scanning(bitmap, count)[ScanLength]
         IN  IF st.found THEN FirstFit(bitmap, count) = {st.start} ELSE FirstFit(bitmap, count) = {}
<1> DEFINE after == Scanning(bitmap, count)
           N == ScanLength
<1>1. /\ N \in Nat /\ after[0] = [consecutive |-> 0, start |-> 0, found |-> FALSE]
      /\ \A n \in 1 .. N : after[n] = ScanStep(bitmap, count, after[n - 1], StartSearch + n - 1)
      /\ \A n \in 0 .. N : after[n] \in ScanStates
  BY ScanningIs
<1>2. StartSearch \in Nat /\ physmem_total \in Nat /\ DOMAIN bitmap = 0 .. physmem_total - 1
  BY PhysMemAssumption DEF PhysTypeOK
<1>3. (N > 0 => StartSearch + N = physmem_total) /\ (N = 0 => StartSearch >= physmem_total)
  BY <1>2 DEF ScanLength
<1> HIDE DEF after, N
<1> DEFINE S == {n \in 0 .. N : ScanInv(after[n], count, StartSearch + n)}
<1>4. 0 \in S
  <2>1. after[0].found = FALSE /\ after[0].consecutive = 0
    BY <1>1
  <2>2. NoneBelow(count, StartSearch + 0)
    BY <1>2 DEF NoneBelow
  <2>3. Counting(after[0], count, StartSearch + 0)
    <3>1. 0 < count /\ StartSearch + 0 <= StartSearch + 0 /\ (StartSearch + 0) - 0 .. (StartSearch + 0) - 1 = {} /\ ~(0 > 0)
          /\ ~(StartSearch + 0 < StartSearch + 0)
      BY <1>2
    <3> QED BY <2>1, <2>2, <3>1 DEF Counting
  <2> QED BY <1>1, <2>1, <2>3 DEF ScanInv
<1>5. ASSUME NEW n \in 0 .. N - 1, n \in S PROVE n + 1 \in S
  <2>1. n + 1 \in 1 .. N /\ (n + 1) - 1 = n /\ StartSearch + (n + 1) - 1 = StartSearch + n
    BY <1>1, <1>2
  <2>2. after[n + 1] = ScanStep(bitmap, count, after[n], StartSearch + n) /\ after[n] \in ScanStates
    BY <1>1, <2>1
  <2>3. StartSearch + n \in Nat /\ StartSearch + n >= StartSearch /\ StartSearch + n < physmem_total
    BY <1>1, <1>2, <1>3
  <2>4. ScanInv(after[n + 1], count, StartSearch + n + 1)
    BY <1>5, <2>2, <2>3, ScanStepInv
  <2>5. StartSearch + n + 1 = StartSearch + (n + 1) /\ n + 1 \in 0 .. N
    BY <1>1, <1>2
  <2> QED BY <2>4, <2>5
<1>6. ScanInv(after[N], count, StartSearch + N)
  <2>1. 0 .. N \subseteq S
    <3> HIDE DEF S
    <3> QED BY <1>1, <1>4, <1>5, InductionOnSet
  <2>2. N \in 0 .. N
    BY <1>1
  <2> QED BY <2>1, <2>2
<1> DEFINE st == after[N]
<1>7. st.start \in Nat /\ st.found \in BOOLEAN
  BY <1>1 DEF ScanStates
<1>8. CASE st.found
  <2>1. Found(st, count, StartSearch + N)
    BY <1>6, <1>8 DEF ScanInv
  <2>2. st.start \in DOMAIN bitmap
    <3>1. st.start \in st.start .. st.start + count - 1
      BY <1>7
    <3> QED BY <2>1, <3>1 DEF Found, FreeRun
  <2> HIDE DEF st
  <2>3. st.start \in FirstFit(bitmap, count)
    <3>1. ASSUME NEW r \in DOMAIN bitmap, r >= StartSearch, FreeRun(bitmap, r, count) PROVE st.start <= r
      <4>1. r \in Nat /\ ~(r < st.start)
        BY <1>2, <2>1, <3>1 DEF Found
      <4> QED BY <1>7, <4>1
    <3> QED BY <2>1, <2>2, <3>1 DEF Found, FirstFit
  <2>4. ASSUME NEW s \in FirstFit(bitmap, count) PROVE s = st.start
    <3>1. s \in Nat /\ s >= StartSearch /\ FreeRun(bitmap, s, count) /\ s <= st.start
      BY <1>2, <2>1, <2>2 DEF FirstFit, Found
    <3>2. ~(s < st.start)
      BY <2>1, <3>1 DEF Found
    <3> QED BY <1>7, <3>1, <3>2
  <2> QED BY <1>8, <2>3, <2>4 DEF after, N, st
<1>9. CASE ~st.found
  <2>1. NoneBelow(count, StartSearch + N)
    BY <1>6, <1>9 DEF ScanInv, Counting
  <2>2. ASSUME NEW s \in FirstFit(bitmap, count) PROVE FALSE
    <3>1. s \in Nat /\ s >= StartSearch /\ FreeRun(bitmap, s, count)
      BY <1>2 DEF FirstFit
    <3>2. s + count - 1 \in s .. s + count - 1
      BY <3>1
    <3>3. s + count - 1 \in 0 .. physmem_total - 1
      BY <1>2, <3>1, <3>2 DEF FreeRun
    <3>4. s + count <= StartSearch + N
      BY <1>1, <1>2, <1>3, <3>1, <3>3
    <3> QED BY <2>1, <3>1, <3>4 DEF NoneBelow
  <2> QED BY <1>9, <2>2 DEF after, N
<1> QED BY <1>8, <1>9

(* The loop of physmem_alloc_to, over whatever allocations and mappings have *)
(* left in the bitmap: it finds a run exactly when there is one, the lowest. *)
THEOREM ScanCorrect == PagingSpec => []ScanIsFirstFit
<1>1. ASSUME FramesInv PROVE ScanIsFirstFit
  <2>1. PhysTypeOK /\ Counts \subseteq Nat
    BY <1>1, PhysMemAssumption DEF FramesInv
  <2> QED BY <2>1, ScanFinds DEF ScanIsFirstFit
<1> QED BY <1>1, FramesHold, PTL

-----------------------------------------------------------------------------
(* Indices of a page *)

LEMMA DivFacts ==
  ASSUME NEW a \in Nat, NEW b \in Nat \ {0}
  PROVE  /\ a \div b \in Nat /\ a % b \in 0 .. b - 1
         /\ a = b * (a \div b) + (a % b)
OBVIOUS

LEMMA DivUnique ==
  ASSUME NEW b \in Nat \ {0}, NEW q \in Nat, NEW p \in Nat, NEW r \in 0 .. b - 1, NEW s \in 0 .. b - 1, b * q + r = b * p + s
  PROVE  q = p
<1>1. CASE q < p
  <2>1. b * p >= b * (q + 1)
    BY <1>1
  <2>2. b * (q + 1) = b * q + b
    OBVIOUS
  <2> QED BY <2>1, <2>2
<1>2. CASE p < q
  <2>1. b * q >= b * (p + 1)
    BY <1>2
  <2>2. b * (p + 1) = b * p + b
    OBVIOUS
  <2> QED BY <2>1, <2>2
<1> QED BY <1>1, <1>2

LEMMA DivTwice ==
  ASSUME NEW v \in Nat, NEW b \in Nat \ {0}, NEW c \in Nat \ {0}
  PROVE  v \div (b * c) = (v \div b) \div c
<1> DEFINE a == v \div b
           r == v % b
           q == a \div c
           s == a % c
<1>1. a \in Nat /\ r \in 0 .. b - 1 /\ v = b * a + r
  BY DivFacts
<1>2. q \in Nat /\ s \in 0 .. c - 1 /\ a = c * q + s
  BY <1>1, DivFacts
<1>3. b * c \in Nat \ {0}
  OBVIOUS
<1> DEFINE p == v \div (b * c)
           t == v % (b * c)
<1>4. p \in Nat /\ t \in 0 .. b * c - 1 /\ v = (b * c) * p + t
  BY <1>3, DivFacts
<1> HIDE DEF a, r, q, s, p, t
<1>5. b * a = (b * c) * q + b * s
  BY <1>2
<1>6. b * s <= b * (c - 1)
  BY <1>2
<1>7. b * (c - 1) = b * c - b
  OBVIOUS
<1>8. b * s \in Nat
  BY <1>2
<1>9. b * s + r \in 0 .. b * c - 1
  BY <1>1, <1>3, <1>6, <1>7, <1>8
<1>10. v = (b * c) * q + (b * s + r)
  BY <1>1, <1>2, <1>5
<1>11. q = p
  BY <1>2, <1>3, <1>4, <1>9, <1>10, DivUnique
<1> QED BY <1>11 DEF p, q, a

LEMMA RPositive == R \in Nat \ {0}
BY PagingAssumption

LEMMA Digit ==
  ASSUME NEW v \in Nat, NEW w \in Nat, v % R = w % R, v \div R = w \div R
  PROVE  v = w
BY RPositive, DivFacts

LEMMA IdxInjective ==
  ASSUME NEW v \in Nat, NEW w \in Nat, v < R * R * R * R, w < R * R * R * R,
         \A k \in 0 .. 3 : Idx(v, k) = Idx(w, k)
  PROVE  v = w
<1> DEFINE Q(x) == x \div R
<1>1. ASSUME NEW x \in Nat, x < R * R * R * R
      PROVE  /\ x \div 1 = x /\ x \div (R * R) = Q(Q(x)) /\ x \div (R * R * R) = Q(Q(Q(x)))
             /\ Q(x) \in Nat /\ Q(Q(x)) \in Nat /\ Q(Q(Q(x))) \in Nat
             /\ Q(Q(Q(x))) < R
  <2>1. Q(x) \in Nat /\ R \in Nat \ {0}
    BY RPositive, DivFacts
  <2>2. Q(Q(x)) \in Nat
    BY <2>1, RPositive, DivFacts
  <2>3. Q(Q(Q(x))) \in Nat
    BY <2>2, RPositive, DivFacts
  <2>4. x \div (R * R) = Q(Q(x))
    BY RPositive, DivTwice
  <2>5. R * R \in Nat \ {0}
    BY RPositive
  <2>6. x \div ((R * R) * R) = (x \div (R * R)) \div R
    BY <2>5, RPositive, DivTwice
  <2>7. x \div 1 = x
    OBVIOUS
  <2> DEFINE c == R * R * R
  <2>8. c \in Nat \ {0} /\ R * R * R * R = c * R
    BY <2>5, RPositive
  <2>9. (x \div c) \in Nat /\ x % c \in 0 .. c - 1 /\ x = c * (x \div c) + (x % c)
    BY <2>8, DivFacts
  <2>10. x \div c < R
    <3> DEFINE y == x \div c
    <3>1. y \in Nat /\ c * y <= x
      BY <2>8, <2>9
    <3>4. x < c * R /\ c * R \in Nat /\ c * y \in Nat
      BY <1>1, <2>8, <2>9, RPositive
    <3> HIDE DEF y, c
    <3>2. c * y < c * R
      BY <3>1, <3>4
    <3>3. y < R
      <4>1. ASSUME y >= R PROVE c * y >= c * R
        BY <4>1, <3>1, <2>8, RPositive
      <4> QED BY <4>1, <3>1, <3>2, <2>8, RPositive
    <3> QED BY <3>3 DEF y
  <2> QED BY <2>1, <2>2, <2>3, <2>4, <2>6, <2>7, <2>10
<1>2. /\ v % R = w % R /\ Q(v) % R = Q(w) % R
      /\ Q(Q(v)) % R = Q(Q(w)) % R /\ Q(Q(Q(v))) % R = Q(Q(Q(w))) % R
  <2> HIDE DEF Q
  <2>1. Idx(v, 0) = v % R /\ Idx(w, 0) = w % R
    BY <1>1 DEF Idx, Span
  <2>2. Idx(v, 1) = Q(v) % R /\ Idx(w, 1) = Q(w) % R
    BY DEF Idx, Span, Q
  <2>3. Idx(v, 2) = Q(Q(v)) % R /\ Idx(w, 2) = Q(Q(w)) % R
    BY <1>1 DEF Idx, Span
  <2>4. Idx(v, 3) = Q(Q(Q(v))) % R /\ Idx(w, 3) = Q(Q(Q(w))) % R
    BY <1>1 DEF Idx, Span
  <2> QED BY <2>1, <2>2, <2>3, <2>4
<1>3. ASSUME NEW x \in Nat, x < R PROVE x % R = x
  BY <1>3, RPositive
<1>4. Q(Q(Q(v))) = Q(Q(Q(w)))
  <2> HIDE DEF Q
  <2> QED BY <1>1, <1>2, <1>3
<1>5. Q(Q(v)) = Q(Q(w))
  BY <1>1, <1>2, <1>4, Digit
<1>6. Q(v) = Q(w)
  BY <1>1, <1>2, <1>5, Digit
<1> QED BY <1>2, <1>6, Digit

LEMMA IdxRange ==
  ASSUME NEW v \in Nat, NEW k \in 0 .. 3 PROVE Idx(v, k) \in 0 .. R - 1
<1>1. Span(k) \in Nat \ {0}
  BY RPositive DEF Span
<1> QED BY <1>1, RPositive, DivFacts DEF Idx

-----------------------------------------------------------------------------
(* The tree of tables.  Tree(p, level): tables p whose levels are `level'.  *)
Tree(p, level) ==
  /\ DOMAIN p \subseteq Nat /\ p \in [DOMAIN p -> [0 .. R - 1 -> Nat \cup {NONE}]]
  /\ level \in [DOMAIN p -> 0 .. 3] /\ IsTree(p, level)

LEMMA NoneIsNoTable == NONE \notin Nat
BY DEF NONE

(* An entry above the last level that is no huge page leads one level down. *)
LEMMA OneDown ==
  ASSUME NEW p, NEW level, Tree(p, level), NEW t \in DOMAIN p, NEW i \in 0 .. R - 1,
         level[t] > 0, p[t][i] # NONE, <<t, i>> \notin BootHuge
  PROVE  /\ p[t][i] \in DOMAIN p /\ p[t][i] # NONE /\ level[p[t][i]] = level[t] - 1
         /\ Names(p, level, t, i)
<1>1. Names(p, level, t, i)
  BY DEF Names
<1> QED BY <1>1 DEF Tree, IsTree

LEMMA HugeLevel ==
  ASSUME NEW p, NEW level, Tree(p, level), NEW t, NEW i, <<t, i>> \in BootHuge
  PROVE  t \in DOMAIN p /\ t # NONE /\ level[t] \in {1, 2} /\ i \in 0 .. R - 1 /\ p[t][i] # NONE
<1>1. <<t, i>>[1] = t /\ <<t, i>>[2] = i
  OBVIOUS
<1>2. t \in DOMAIN p /\ level[t] \in {1, 2} /\ i \in 0 .. R - 1 /\ p[t][i] # NONE
  BY <1>1 DEF Tree, IsTree
<1> QED BY <1>2, NoneIsNoTable DEF Tree

(* Where a walk comes to. *)
LEMMA WalkDownTree ==
  ASSUME NEW p, NEW level, Tree(p, level), NEW v \in Nat
  PROVE  /\ Root \in DOMAIN p /\ level[Root] = 3 /\ Root # NONE
         /\ PdptOf(p, v) # NONE => PdptOf(p, v) \in DOMAIN p /\ level[PdptOf(p, v)] = 2 /\ Names(p, level, Root, Idx(v, 3))
         /\ PdptOf(p, v) = p[Root][Idx(v, 3)]
         /\ PdOf(p, v) # NONE => PdptOf(p, v) # NONE /\ PdOf(p, v) = p[PdptOf(p, v)][Idx(v, 2)]
         /\ PdOf(p, v) # NONE /\ ~Gigantic(p, v) =>
              PdOf(p, v) \in DOMAIN p /\ level[PdOf(p, v)] = 1 /\ Names(p, level, PdptOf(p, v), Idx(v, 2))
         /\ PtOf(p, v) # NONE => PdOf(p, v) # NONE /\ PtOf(p, v) = p[PdOf(p, v)][Idx(v, 1)]
         /\ PtOf(p, v) # NONE /\ ~UnderHuge(p, v) =>
              PtOf(p, v) \in DOMAIN p /\ level[PtOf(p, v)] = 0 /\ Names(p, level, PdOf(p, v), Idx(v, 1))
<1>1. Root \in DOMAIN p /\ level[Root] = 3 /\ Root # NONE
  BY NoneIsNoTable DEF Tree, IsTree
<1>2. PdptOf(p, v) = p[Root][Idx(v, 3)]
  BY <1>1 DEF PdptOf, Follow
<1>3. Idx(v, 3) \in 0 .. R - 1 /\ Idx(v, 2) \in 0 .. R - 1 /\ Idx(v, 1) \in 0 .. R - 1
  BY IdxRange
<1>4. ASSUME PdptOf(p, v) # NONE
      PROVE  PdptOf(p, v) \in DOMAIN p /\ level[PdptOf(p, v)] = 2 /\ Names(p, level, Root, Idx(v, 3))
  <2>1. <<Root, Idx(v, 3)>> \notin BootHuge
    BY <1>1, HugeLevel
  <2>2. p[Root][Idx(v, 3)] # NONE /\ level[Root] > 0
    BY <1>1, <1>2, <1>4
  <2> QED BY <1>1, <1>2, <1>3, <2>1, <2>2, OneDown
<1>5. ASSUME PdOf(p, v) # NONE
      PROVE  PdptOf(p, v) # NONE /\ PdOf(p, v) = p[PdptOf(p, v)][Idx(v, 2)]
  BY <1>5 DEF PdOf, Follow
<1>6. ASSUME PdOf(p, v) # NONE, ~Gigantic(p, v)
      PROVE  PdOf(p, v) \in DOMAIN p /\ level[PdOf(p, v)] = 1 /\ Names(p, level, PdptOf(p, v), Idx(v, 2))
  <2> DEFINE t == PdptOf(p, v)
  <2>1. t \in DOMAIN p /\ level[t] = 2 /\ p[t][Idx(v, 2)] # NONE /\ <<t, Idx(v, 2)>> \notin BootHuge
    BY <1>4, <1>5, <1>6 DEF Gigantic
  <2>2. PdOf(p, v) = p[t][Idx(v, 2)]
    BY <1>5, <1>6
  <2> HIDE DEF t
  <2>3. p[t][Idx(v, 2)] \in DOMAIN p /\ level[p[t][Idx(v, 2)]] = 1 /\ Names(p, level, t, Idx(v, 2))
    BY <1>3, <2>1, OneDown
  <2> QED BY <2>2, <2>3 DEF t
<1>7. ASSUME PtOf(p, v) # NONE PROVE PdOf(p, v) # NONE /\ PtOf(p, v) = p[PdOf(p, v)][Idx(v, 1)]
  BY <1>7 DEF PtOf, Follow
<1>8. ASSUME PtOf(p, v) # NONE, ~UnderHuge(p, v)
      PROVE  PtOf(p, v) \in DOMAIN p /\ level[PtOf(p, v)] = 0 /\ Names(p, level, PdOf(p, v), Idx(v, 1))
  <2>1. ~Gigantic(p, v) /\ <<PdOf(p, v), Idx(v, 1)>> \notin BootHuge
    BY <1>8 DEF UnderHuge
  <2> QED BY <1>3, <1>6, <1>7, <1>8, <2>1, OneDown
<1> QED BY <1>1, <1>2, <1>4, <1>5, <1>6, <1>7, <1>8

(* Two pages that meet the same last table have the same indices above it. *)
LEMMA SameTable ==
  ASSUME NEW p, NEW level, Tree(p, level), NEW v \in Nat, NEW w \in Nat,
         PtOf(p, v) # NONE, PtOf(p, v) = PtOf(p, w), ~UnderHuge(p, v), ~UnderHuge(p, w)
  PROVE  Idx(v, 1) = Idx(w, 1) /\ Idx(v, 2) = Idx(w, 2) /\ Idx(v, 3) = Idx(w, 3)
<1>0. ASSUME NEW t, NEW s, NEW i, NEW j, Names(p, level, t, i), Names(p, level, s, j), p[t][i] = p[s][j]
      PROVE  t = s /\ i = j
  BY <1>0 DEF Tree, IsTree, Names
<1> USE DEF UnderHuge
<1>1. PdOf(p, v) = PdOf(p, w) /\ Idx(v, 1) = Idx(w, 1) /\ PdOf(p, v) # NONE
  <2>1. /\ Names(p, level, PdOf(p, v), Idx(v, 1)) /\ Names(p, level, PdOf(p, w), Idx(w, 1))
        /\ p[PdOf(p, v)][Idx(v, 1)] = p[PdOf(p, w)][Idx(w, 1)] /\ PdOf(p, v) # NONE
    BY WalkDownTree
  <2> QED BY <1>0, <2>1
<1>2. PdptOf(p, v) = PdptOf(p, w) /\ Idx(v, 2) = Idx(w, 2) /\ PdptOf(p, v) # NONE
  <2>1. /\ Names(p, level, PdptOf(p, v), Idx(v, 2)) /\ Names(p, level, PdptOf(p, w), Idx(w, 2))
        /\ p[PdptOf(p, v)][Idx(v, 2)] = p[PdptOf(p, w)][Idx(w, 2)] /\ PdptOf(p, v) # NONE
    BY <1>1, WalkDownTree
  <2> QED BY <1>0, <2>1
<1>3. Idx(v, 3) = Idx(w, 3)
  <2>1. /\ Names(p, level, Root, Idx(v, 3)) /\ Names(p, level, Root, Idx(w, 3))
        /\ p[Root][Idx(v, 3)] = p[Root][Idx(w, 3)]
    BY <1>2, WalkDownTree
  <2> QED BY <1>0, <2>1
<1> QED BY <1>1, <1>2, <1>3

(* Tables of the last level change: the tree and the walks stay. *)
LEMMA LastLevelWritten ==
  ASSUME NEW p, NEW level, Tree(p, level), NEW q, DOMAIN q = DOMAIN p,
         q \in [DOMAIN q -> [0 .. R - 1 -> Nat \cup {NONE}]],
         \A s \in DOMAIN p : level[s] > 0 => q[s] = p[s]
  PROVE  /\ Tree(q, level)
         /\ \A v \in Nat : /\ PdptOf(q, v) = PdptOf(p, v) /\ PdOf(q, v) = PdOf(p, v)
                           /\ ~Gigantic(p, v) => PtOf(q, v) = PtOf(p, v)
<1>1. \A s, j : Names(q, level, s, j) <=> Names(p, level, s, j)
  BY DEF Names
<1>2. \A s, j : Names(p, level, s, j) => q[s][j] = p[s][j]
  BY DEF Names
<1>3. IsTree(q, level)
  <2>1. Root \in DOMAIN q /\ level[Root] = 3
    BY DEF IsTree, Tree
  <2>2. \A e \in BootHuge : /\ e[1] \in DOMAIN q /\ e[2] \in 0 .. R - 1
                            /\ level[e[1]] \in {1, 2} /\ q[e[1]][e[2]] # NONE
    <3> SUFFICES ASSUME NEW e \in BootHuge
                 PROVE  /\ e[1] \in DOMAIN q /\ e[2] \in 0 .. R - 1
                        /\ level[e[1]] \in {1, 2} /\ q[e[1]][e[2]] # NONE
      OBVIOUS
    <3>1. /\ e[1] \in DOMAIN p /\ e[2] \in 0 .. R - 1
          /\ level[e[1]] \in {1, 2} /\ p[e[1]][e[2]] # NONE
      BY Zenon DEF IsTree, Tree
    <3>2. level[e[1]] > 0
      BY <3>1
    <3>3. q[e[1]] = p[e[1]]
      BY <3>1, <3>2
    <3> QED BY <3>1, <3>3
  <2>3. \A s \in DOMAIN q, j \in 0 .. R - 1 :
          Names(q, level, s, j) => q[s][j] \in DOMAIN q /\ level[q[s][j]] = level[s] - 1
    BY <1>1, <1>2 DEF IsTree, Tree
  <2>4. \A s, r \in DOMAIN q, j, k \in 0 .. R - 1 :
          Names(q, level, s, j) /\ Names(q, level, r, k) /\ q[s][j] = q[r][k] => s = r /\ j = k
    BY <1>1, <1>2 DEF IsTree, Tree
  <2> QED BY <2>1, <2>2, <2>3, <2>4, Zenon DEF IsTree
<1>4. Tree(q, level)
  BY <1>3 DEF Tree
<1>5. ASSUME NEW v \in Nat
      PROVE  /\ PdptOf(q, v) = PdptOf(p, v) /\ PdOf(q, v) = PdOf(p, v)
             /\ ~Gigantic(p, v) => PtOf(q, v) = PtOf(p, v)
  <2>0. /\ Root \in DOMAIN p /\ level[Root] = 3
        /\ PdptOf(p, v) # NONE => PdptOf(p, v) \in DOMAIN p /\ level[PdptOf(p, v)] = 2
        /\ PdOf(p, v) # NONE /\ ~Gigantic(p, v) => PdOf(p, v) \in DOMAIN p /\ level[PdOf(p, v)] = 1
    BY WalkDownTree, ZenonT(60)
  <2>1. PdptOf(q, v) = PdptOf(p, v)
    <3>1. q[Root] = p[Root]
      BY <2>0
    <3> QED BY <3>1 DEF PdptOf, Follow
  <2>2. PdOf(q, v) = PdOf(p, v)
    <3>1. PdptOf(p, v) # NONE => q[PdptOf(p, v)] = p[PdptOf(p, v)]
      BY <2>0
    <3> QED BY <2>1, <3>1 DEF PdOf, Follow
  <2>3. ASSUME ~Gigantic(p, v) PROVE PtOf(q, v) = PtOf(p, v)
    <3>1. PdOf(p, v) # NONE => q[PdOf(p, v)] = p[PdOf(p, v)]
      BY <2>0, <2>3
    <3> QED BY <2>2, <3>1 DEF PtOf, Follow
  <2> QED BY <2>1, <2>2, <2>3
<1> QED BY <1>4, <1>5

(* The tables q are p and a new, empty table f, named by entry i of t. *)
Grown(p, level, t, i, f, q) ==
  /\ t \in DOMAIN p /\ level[t] > 0 /\ i \in 0 .. R - 1 /\ <<t, i>> \notin BootHuge
  /\ f \in Nat /\ f \notin DOMAIN p /\ DOMAIN q = DOMAIN p \cup {f}
  /\ q \in [DOMAIN q -> [0 .. R - 1 -> Nat \cup {NONE}]]
  /\ q[t][i] = f /\ \A j \in 0 .. R - 1 : q[f][j] = NONE
  /\ \A s \in DOMAIN p, j \in 0 .. R - 1 : <<s, j>> # <<t, i>> => q[s][j] = p[s][j]

(* They are a tree again. *)
LEMMA TableAdded ==
  ASSUME NEW p, NEW level, Tree(p, level), NEW t, NEW i, NEW f, NEW q, Grown(p, level, t, i, f, q)
  PROVE  \E lev \in [DOMAIN q -> 0 .. 3] : Tree(q, lev)
<1>0. /\ t \in DOMAIN p /\ level[t] > 0 /\ i \in 0 .. R - 1 /\ <<t, i>> \notin BootHuge
      /\ f \in Nat /\ f \notin DOMAIN p /\ DOMAIN q = DOMAIN p \cup {f}
      /\ q \in [DOMAIN q -> [0 .. R - 1 -> Nat \cup {NONE}]]
      /\ q[t][i] = f /\ \A j \in 0 .. R - 1 : q[f][j] = NONE
      /\ \A s \in DOMAIN p, j \in 0 .. R - 1 : <<s, j>> # <<t, i>> => q[s][j] = p[s][j]
  BY DEF Grown
<1> USE <1>0
<1> DEFINE lev == [s \in DOMAIN p \cup {f} |-> IF s = f THEN level[t] - 1 ELSE level[s]]
<1>1. lev \in [DOMAIN q -> 0 .. 3] /\ lev[f] = level[t] - 1 /\ \A s \in DOMAIN p : lev[s] = level[s]
  BY DEF Tree
<1> HIDE DEF lev
<1>2. \A s, j : Names(q, lev, s, j) => <<s, j>> = <<t, i>> \/ (Names(p, level, s, j) /\ q[s][j] = p[s][j])
  <2> SUFFICES ASSUME NEW s, NEW j, Names(q, lev, s, j), <<s, j>> # <<t, i>>
               PROVE  Names(p, level, s, j) /\ q[s][j] = p[s][j]
    OBVIOUS
  <2>1. s \in DOMAIN q /\ j \in 0 .. R - 1 /\ lev[s] > 0 /\ q[s][j] # NONE /\ <<s, j>> \notin BootHuge
    BY DEF Names
  <2>2. s # f /\ s \in DOMAIN p
    BY <2>1
  <2> QED BY <1>1, <2>1, <2>2 DEF Names
<1>3. ASSUME NEW s, NEW j, Names(p, level, s, j) PROVE p[s][j] \in DOMAIN p /\ p[s][j] # f /\ level[p[s][j]] = level[s] - 1 /\ s \in DOMAIN p
  BY <1>3 DEF Tree, IsTree, Names
<1>4. IsTree(q, lev)
  <2>1. Root \in DOMAIN q /\ lev[Root] = 3
    BY <1>1 DEF IsTree, Tree
  <2>2. ASSUME NEW e \in BootHuge
        PROVE  e[1] \in DOMAIN q /\ e[2] \in 0 .. R - 1 /\ lev[e[1]] \in {1, 2} /\ q[e[1]][e[2]] # NONE
    <3>1. e[1] \in DOMAIN p /\ e[2] \in 0 .. R - 1 /\ level[e[1]] \in {1, 2} /\ p[e[1]][e[2]] # NONE
      BY DEF IsTree, Tree
    <3>2. f # NONE /\ (<<e[1], e[2]>> = <<t, i>> => q[e[1]][e[2]] = f)
      BY NoneIsNoTable
    <3> QED BY <1>1, <3>1, <3>2
  <2>3. \A s \in DOMAIN q, j \in 0 .. R - 1 :
          Names(q, lev, s, j) => q[s][j] \in DOMAIN q /\ lev[q[s][j]] = lev[s] - 1
    <3> SUFFICES ASSUME NEW s, NEW j, Names(q, lev, s, j) PROVE q[s][j] \in DOMAIN q /\ lev[q[s][j]] = lev[s] - 1
      OBVIOUS
    <3>1. CASE s = t /\ j = i
      BY <1>1, <3>1
    <3>2. CASE Names(p, level, s, j) /\ q[s][j] = p[s][j]
      BY <1>1, <1>3, <3>2
    <3> QED BY <1>2, <3>1, <3>2
  <2>4. \A s, r \in DOMAIN q, j, k \in 0 .. R - 1 :
          Names(q, lev, s, j) /\ Names(q, lev, r, k) /\ q[s][j] = q[r][k] => s = r /\ j = k
    <3> SUFFICES ASSUME NEW s, NEW r, NEW j, NEW k, Names(q, lev, s, j), Names(q, lev, r, k), q[s][j] = q[r][k]
                 PROVE  s = r /\ j = k
      OBVIOUS
    <3>0. \A a, b, c, d : Names(p, level, a, b) /\ Names(p, level, c, d) /\ p[a][b] = p[c][d] => a = c /\ b = d
      BY SMTT(40) DEF Tree, IsTree, Names
    <3>1. CASE Names(p, level, s, j) /\ q[s][j] = p[s][j] /\ Names(p, level, r, k) /\ q[r][k] = p[r][k]
      BY <3>0, <3>1
    <3>2. ASSUME NEW a, NEW b, Names(q, lev, a, b), q[a][b] = f PROVE a = t /\ b = i
      <4>1. ~(Names(p, level, a, b) /\ q[a][b] = p[a][b])
        BY <1>3, <3>2
      <4> QED BY <1>2, <3>2, <4>1
    <3>3. CASE (s = t /\ j = i) \/ (r = t /\ k = i)
      BY <3>2, <3>3
    <3> QED BY <1>2, <3>1, <3>3
  <2> QED BY <2>1, <2>2, <2>3, <2>4, Zenon DEF IsTree
<1>5. Tree(q, lev)
  BY <1>1, <1>4 DEF Tree
<1> QED BY <1>1, <1>5

(* One step of a walk. *)
LEMMA TableStep ==
  ASSUME NEW p, NEW v, NEW k \in 1 .. 3
  PROVE  TableAt(p, v, k - 1) = Follow(p, TableAt(p, v, k), Idx(v, k))
<1>1. CASE k = 1
  BY <1>1 DEF TableAt, PtOf
<1>2. CASE k = 2
  BY <1>2 DEF TableAt, PdOf
<1>3. CASE k = 3
  BY <1>3 DEF TableAt, PdptOf
<1> QED BY <1>1, <1>2, <1>3

(* Walks that did not end are the same after entries are added. *)
LEMMA WalksGrow ==
  ASSUME NEW p, NEW level, Tree(p, level), NEW q, DOMAIN p \subseteq DOMAIN q,
         \A s \in DOMAIN p, j \in 0 .. R - 1 : p[s][j] # NONE => q[s][j] = p[s][j], NEW v \in Nat
  PROVE  /\ PdptOf(p, v) # NONE => PdptOf(q, v) = PdptOf(p, v)
         /\ PdOf(p, v) # NONE => PdOf(q, v) = PdOf(p, v)
         /\ PtOf(p, v) # NONE /\ ~Gigantic(p, v) => PtOf(q, v) = PtOf(p, v)
<1>0. /\ Root \in DOMAIN p /\ Root # NONE /\ PdptOf(p, v) = p[Root][Idx(v, 3)]
      /\ PdptOf(p, v) # NONE => PdptOf(p, v) \in DOMAIN p
      /\ PdOf(p, v) # NONE => PdptOf(p, v) # NONE /\ PdOf(p, v) = p[PdptOf(p, v)][Idx(v, 2)]
      /\ PdOf(p, v) # NONE /\ ~Gigantic(p, v) => PdOf(p, v) \in DOMAIN p
      /\ PtOf(p, v) # NONE => PdOf(p, v) # NONE /\ PtOf(p, v) = p[PdOf(p, v)][Idx(v, 1)]
  BY WalkDownTree, Zenon
<1>1. Idx(v, 3) \in 0 .. R - 1 /\ Idx(v, 2) \in 0 .. R - 1 /\ Idx(v, 1) \in 0 .. R - 1
  BY IdxRange
<1>2. PdptOf(p, v) # NONE => PdptOf(q, v) = PdptOf(p, v)
  BY <1>0, <1>1 DEF PdptOf, Follow
<1>3. PdOf(p, v) # NONE => PdOf(q, v) = PdOf(p, v)
  <2>1. PdOf(q, v) = Follow(q, PdptOf(q, v), Idx(v, 2))
    BY DEF PdOf
  <2> QED BY <1>0, <1>1, <1>2, <2>1 DEF Follow
<1>4. PtOf(p, v) # NONE /\ ~Gigantic(p, v) => PtOf(q, v) = PtOf(p, v)
  <2>1. PtOf(q, v) = Follow(q, PdOf(q, v), Idx(v, 1))
    BY DEF PtOf
  <2> QED BY <1>0, <1>1, <1>3, <2>1 DEF Follow
<1> QED BY <1>2, <1>3, <1>4

(* A new table brings no page under a huge page, and takes none from there. *)
LEMMA HugeGrows ==
  ASSUME NEW p, NEW level, Tree(p, level), NEW t \in DOMAIN p, NEW i \in 0 .. R - 1, p[t][i] = NONE,
         NEW f, f \notin DOMAIN p, NEW q, DOMAIN p \subseteq DOMAIN q,
         q[t][i] = f, \A j \in 0 .. R - 1 : q[f][j] = NONE,
         \A s \in DOMAIN p, j \in 0 .. R - 1 : <<s, j>> # <<t, i>> => q[s][j] = p[s][j],
         NEW v \in Nat
  PROVE  /\ Gigantic(q, v) <=> Gigantic(p, v)
         /\ UnderHuge(q, v) <=> UnderHuge(p, v)
         /\ UnderHuge(p, v) => Translate(q, v) = Translate(p, v)
<1>0. Idx(v, 3) \in 0 .. R - 1 /\ Idx(v, 2) \in 0 .. R - 1 /\ Idx(v, 1) \in 0 .. R - 1
  BY IdxRange
<1>1. \A s \in DOMAIN p, j \in 0 .. R - 1 : p[s][j] # NONE => q[s][j] = p[s][j]
  OBVIOUS
<1>2. /\ PdptOf(p, v) # NONE => PdptOf(q, v) = PdptOf(p, v)
      /\ PdOf(p, v) # NONE => PdOf(q, v) = PdOf(p, v)
      /\ PtOf(p, v) # NONE /\ ~Gigantic(p, v) => PtOf(q, v) = PtOf(p, v)
  BY <1>1, WalksGrow
<1>3. Root \in DOMAIN p /\ Root # NONE /\ PdptOf(p, v) = p[Root][Idx(v, 3)]
      /\ (PdptOf(p, v) # NONE => PdptOf(p, v) \in DOMAIN p)
  BY WalkDownTree, Zenon
<1>4. PdptOf(q, v) = q[Root][Idx(v, 3)]
  BY <1>3 DEF PdptOf, Follow
<1>5. PdptOf(q, v) = f \/ PdptOf(q, v) = PdptOf(p, v)
  BY <1>0, <1>3, <1>4
<1>6. ASSUME Gigantic(p, v) PROVE Gigantic(q, v) /\ PdOf(p, v) # NONE
  <2>1. PdptOf(p, v) # NONE /\ p[PdptOf(p, v)][Idx(v, 2)] # NONE
    BY <1>6, HugeLevel DEF Gigantic
  <2>2. PdOf(p, v) = p[PdptOf(p, v)][Idx(v, 2)]
    BY <2>1 DEF PdOf, Follow
  <2> QED BY <1>2, <1>6, <2>1, <2>2 DEF Gigantic
<1>7. ASSUME Gigantic(q, v) PROVE Gigantic(p, v)
  <2>1. PdptOf(q, v) \in DOMAIN p
    BY <1>7, HugeLevel DEF Gigantic
  <2> QED BY <1>5, <1>7, <2>1 DEF Gigantic
<1> DEFINE H(x) == <<PdOf(x, v), Idx(v, 1)>> \in BootHuge
<1>8. ASSUME H(p) PROVE H(q) /\ PdOf(p, v) \in DOMAIN p /\ PtOf(p, v) # NONE
  <2>1. PdOf(p, v) # NONE /\ PdOf(p, v) \in DOMAIN p /\ p[PdOf(p, v)][Idx(v, 1)] # NONE
    BY <1>8, HugeLevel
  <2>2. PtOf(p, v) = p[PdOf(p, v)][Idx(v, 1)]
    BY <2>1 DEF PtOf, Follow
  <2> QED BY <1>2, <1>8, <2>1, <2>2
<1>9. ASSUME H(q) PROVE H(p)
  <2>1. PdOf(q, v) \in DOMAIN p /\ PdOf(q, v) # NONE /\ PdOf(q, v) # f
    BY <1>9, HugeLevel
  <2>2. PdptOf(q, v) # NONE /\ PdOf(q, v) = q[PdptOf(q, v)][Idx(v, 2)]
    BY <2>1 DEF PdOf, Follow
  <2>3. PdptOf(q, v) # f
    BY <1>0, <2>1, <2>2
  <2>4. PdptOf(q, v) = PdptOf(p, v) /\ PdptOf(p, v) \in DOMAIN p
    BY <1>3, <1>5, <2>2, <2>3
  <2>5. PdOf(q, v) = p[PdptOf(p, v)][Idx(v, 2)]
    BY <1>0, <2>1, <2>2, <2>4
  <2>6. PdOf(p, v) = PdOf(q, v)
    BY <2>2, <2>4, <2>5 DEF PdOf, Follow
  <2> QED BY <1>9, <2>6
<1>10. UnderHuge(q, v) <=> UnderHuge(p, v)
  BY <1>6, <1>7, <1>8, <1>9 DEF UnderHuge
<1>11. ASSUME UnderHuge(p, v) PROVE Translate(q, v) = Translate(p, v)
  <2>1. CASE Gigantic(p, v)
    BY <1>2, <1>6, <2>1 DEF Translate
  <2>2. CASE ~Gigantic(p, v)
    <3>1. H(p) /\ ~Gigantic(q, v)
      BY <1>7, <1>11, <2>2 DEF UnderHuge
    <3>2. PtOf(q, v) = PtOf(p, v)
      BY <1>2, <1>8, <2>2, <3>1
    <3> QED BY <1>10, <1>11, <2>2, <3>1, <3>2 DEF Translate
  <2> QED BY <2>1, <2>2
<1> QED BY <1>6, <1>7, <1>10, <1>11

(* Nor does an entry of the last level. *)
LEMMA HugeWritten ==
  ASSUME NEW p, NEW level, Tree(p, level), NEW q, NEW v \in Nat,
         PdptOf(q, v) = PdptOf(p, v), PdOf(q, v) = PdOf(p, v), ~Gigantic(p, v) => PtOf(q, v) = PtOf(p, v)
  PROVE  /\ Gigantic(q, v) <=> Gigantic(p, v)
         /\ UnderHuge(q, v) <=> UnderHuge(p, v)
         /\ UnderHuge(p, v) => Translate(q, v) = Translate(p, v)
<1>1. (Gigantic(q, v) <=> Gigantic(p, v)) /\ (UnderHuge(q, v) <=> UnderHuge(p, v))
  BY DEF Gigantic, UnderHuge
<1> QED BY <1>1 DEF Translate

(* The tables that can be reached above the last level. *)
LEMMA UpperTables ==
  ASSUME PtTypeOK, NEW level, Tree(pt, level)
  PROVE  /\ Upper \subseteq DOMAIN pt /\ \A s \in Upper : level[s] > 0
         /\ \A e \in Naming(Upper) : e = <<e[1], e[2]>> /\ Names(pt, level, e[1], e[2])
<1>1. Root \in DOMAIN pt /\ level[Root] = 3
  BY DEF Tree, IsTree
<1>2. ASSUME NEW S, S \subseteq DOMAIN pt, NEW k \in 1 .. 3, \A s \in S : level[s] = k
      PROVE  \A u \in Below(S) : u \in DOMAIN pt /\ level[u] = k - 1
  <2> SUFFICES ASSUME NEW e \in Naming(S) PROVE pt[e[1]][e[2]] \in DOMAIN pt /\ level[pt[e[1]][e[2]]] = k - 1
    BY DEF Below
  <2>1. e[1] \in S /\ e[2] \in 0 .. R - 1 /\ e = <<e[1], e[2]>> /\ pt[e[1]][e[2]] # NONE /\ e \notin BootHuge
    BY DEF Naming, PtTypeOK
  <2>2. e[1] \in DOMAIN pt /\ level[e[1]] = k /\ <<e[1], e[2]>> \notin BootHuge /\ level[e[1]] > 0
    BY <1>2, <2>1
  <2> QED BY <2>1, <2>2, OneDown
<1>3. \A u \in Below({Root}) : u \in DOMAIN pt /\ level[u] = 2
  <2>1. {Root} \subseteq DOMAIN pt /\ 3 \in 1 .. 3 /\ \A s \in {Root} : level[s] = 3
    BY <1>1
  <2>2. \A u \in Below({Root}) : u \in DOMAIN pt /\ level[u] = 3 - 1
    BY <1>2, <2>1
  <2> QED BY <2>2
<1>4. \A u \in Below(Below({Root})) : u \in DOMAIN pt /\ level[u] = 1
  <2> DEFINE S == Below({Root})
  <2>1. S \subseteq DOMAIN pt /\ 2 \in 1 .. 3 /\ \A s \in S : level[s] = 2
    BY <1>3
  <2> HIDE DEF S
  <2>2. \A u \in Below(S) : u \in DOMAIN pt /\ level[u] = 2 - 1
    BY <1>2, <2>1
  <2> QED BY <2>2 DEF S
<1>5. Upper \subseteq DOMAIN pt /\ \A s \in Upper : level[s] > 0
  BY <1>1, <1>3, <1>4 DEF Upper
<1>6. ASSUME NEW e \in Naming(Upper) PROVE e = <<e[1], e[2]>> /\ Names(pt, level, e[1], e[2])
  <2>1. e[1] \in Upper /\ e[2] \in 0 .. R - 1 /\ e = <<e[1], e[2]>> /\ pt[e[1]][e[2]] # NONE /\ e \notin BootHuge
    BY DEF Naming, PtTypeOK
  <2> QED BY <1>5, <2>1 DEF Names
<1> QED BY <1>5, <1>6

(* A walk meets such tables. *)
LEMMA WalkInUpper ==
  ASSUME PtTypeOK, NEW level, Tree(pt, level), NEW v \in Nat, NEW k \in 1 .. 3, TableAt(pt, v, k) # NONE,
         k = 1 => ~Gigantic(pt, v)
  PROVE  TableAt(pt, v, k) \in Upper /\ TableAt(pt, v, k) \in DOMAIN pt /\ level[TableAt(pt, v, k)] = k
<1>0. /\ Root \in DOMAIN pt /\ level[Root] = 3 /\ PdptOf(pt, v) = pt[Root][Idx(v, 3)]
      /\ PdptOf(pt, v) # NONE => PdptOf(pt, v) \in DOMAIN pt /\ level[PdptOf(pt, v)] = 2 /\ Names(pt, level, Root, Idx(v, 3))
      /\ PdOf(pt, v) # NONE => PdptOf(pt, v) # NONE /\ PdOf(pt, v) = pt[PdptOf(pt, v)][Idx(v, 2)]
      /\ PdOf(pt, v) # NONE /\ ~Gigantic(pt, v) => /\ PdOf(pt, v) \in DOMAIN pt /\ level[PdOf(pt, v)] = 1
                                                    /\ Names(pt, level, PdptOf(pt, v), Idx(v, 2))
  BY WalkDownTree, Zenon
<1>1. ASSUME NEW S, NEW t \in S, NEW i, Names(pt, level, t, i) PROVE pt[t][i] \in Below(S)
  <2>1. <<t, i>> \in Naming(S)
    BY <1>1 DEF Naming, Names, PtTypeOK
  <2>2. <<t, i>>[1] = t /\ <<t, i>>[2] = i
    OBVIOUS
  <2> QED BY <2>1, <2>2 DEF Below
<1>2. PdptOf(pt, v) # NONE => PdptOf(pt, v) \in Below({Root})
  BY <1>0, <1>1
<1>3. PdOf(pt, v) # NONE /\ ~Gigantic(pt, v) => PdOf(pt, v) \in Below(Below({Root}))
  BY <1>0, <1>1, <1>2
<1>4. CASE k = 3
  BY <1>0, <1>4 DEF TableAt, Upper
<1>5. CASE k = 2
  BY <1>0, <1>2, <1>5 DEF TableAt, Upper
<1>6. CASE k = 1
  BY <1>0, <1>3, <1>6 DEF TableAt, Upper
<1> QED BY <1>4, <1>5, <1>6

(* What is named stays named. *)
LEMMA NamingGrows ==
  ASSUME PtTypeOK, NEW level, Tree(pt, level), huge' = huge,
         \A s \in DOMAIN pt, j \in 0 .. R - 1 : level[s] > 0 /\ pt[s][j] # NONE => pt'[s][j] = pt[s][j]
  PROVE  /\ Upper \subseteq Upper' /\ Naming(Upper) \subseteq Naming(Upper)'
         /\ \A e \in Naming(Upper) : pt'[e[1]][e[2]] = pt[e[1]][e[2]]
<1>1. ASSUME NEW S, S \subseteq Upper, NEW T, S \subseteq T
      PROVE  /\ \A e \in Naming(S) : e \in T \X (0 .. R - 1) /\ pt'[e[1]][e[2]] # NONE /\ e \notin huge'
             /\ \A e \in Naming(S) : pt'[e[1]][e[2]] = pt[e[1]][e[2]]
  <2> SUFFICES ASSUME NEW e \in Naming(S)
               PROVE  e \in T \X (0 .. R - 1) /\ pt'[e[1]][e[2]] = pt[e[1]][e[2]] /\ pt[e[1]][e[2]] # NONE /\ e \notin huge'
    OBVIOUS
  <2>1. e \in S \X (0 .. R - 1) /\ pt[e[1]][e[2]] # NONE /\ e \notin huge
    BY DEF Naming
  <2>2. e[1] \in DOMAIN pt /\ level[e[1]] > 0 /\ e[2] \in 0 .. R - 1
    BY <1>1, <2>1, UpperTables
  <2>3. e \in T \X (0 .. R - 1)
    BY <1>1, <2>1
  <2> QED BY <2>1, <2>2, <2>3
<1>2. Root \in Upper /\ Below({Root}) \subseteq Upper
  BY DEF Upper
<1>3. Below({Root}) \subseteq Below({Root})'
  BY <1>1, <1>2 DEF Below, Naming
<1>4. Below(Below({Root})) \subseteq Below(Below({Root}))'
  <2> DEFINE S == Below({Root})
             T == Below({Root})'
             N == {e \in T \X (0 .. R - 1) : pt'[e[1]][e[2]] # NONE /\ e \notin huge'}
  <2>1. Below(Below({Root}))' = {pt'[e[1]][e[2]] : e \in N}
    BY DEF Below, Naming
  <2>2. Below(S) = {pt[e[1]][e[2]] : e \in Naming(S)}
    BY DEF Below
  <2>3. S \subseteq Upper /\ S \subseteq T
    BY <1>2, <1>3
  <2> HIDE DEF S, T
  <2>4. \A e \in Naming(S) : e \in N /\ pt'[e[1]][e[2]] = pt[e[1]][e[2]]
    BY <1>1, <2>3
  <2> HIDE DEF N
  <2>5. Below(S) \subseteq {pt'[e[1]][e[2]] : e \in N}
    BY <2>2, <2>4
  <2> QED BY <2>1, <2>5 DEF S
<1>5. Upper \subseteq Upper'
  BY <1>3, <1>4 DEF Upper
<1> QED BY <1>1, <1>5 DEF Naming

-----------------------------------------------------------------------------
(* Paging *)

LEMMA KernelPageFacts ==
  ASSUME NEW v \in KernelPages PROVE v \in Nat /\ v < R * R * R * R
<1>1. v \in Nat
  BY PagingAssumption DEF KernelPages, Direct
<1> QED BY <1>1, KernelPagesAssumption

LEMMA TreeOfTables ==
  ASSUME PtTypeOK, TreeKept
  PROVE  \E level : Tree(pt, level)
BY DEF PtTypeOK, TreeKept, Tree

LEMMA TreeIsKept ==
  ASSUME PtTypeOK, NEW level, Tree(pt, level)
  PROVE  TreeKept
BY DEF TreeKept, Tree

LEMMA RootIsFrame == Root \in Nat /\ Root \in DOMAIN BootTables
BY PagingAssumption, BootTablesAssumption

LEMMA TablesInit == PagingInit => PagingInv
<1> SUFFICES ASSUME PagingInit PROVE PagingInv
  OBVIOUS
<1>1. FramesInv
  BY BootInv DEF PagingInit
<1>2. PtTypeOK
  BY PagingAssumption, BootTablesAssumption DEF PagingInit, PtTypeOK
<1>3. TreeKept
  BY BootTablesAssumption DEF PagingInit, TreeKept
<1>4. TablesOwned
  BY DEF PagingInit, TablesOwned, Tables
<1>5. HugeKept
  BY DEF PagingInit, HugeKept, LoaderHuge
<1>6. JobInv
  BY RootIsFrame DEF PagingInit, JobInv, NoJob, Jobs
<1>7. RegionsInv
  BY DEF PagingInit, RegionsInv
<1> QED BY <1>1, <1>2, <1>3, <1>4, <1>5, <1>6, <1>7 DEF PagingInv

(* Steps that leave the tables, and the runs that hold them, alone. *)
LEMMA TablesStay ==
  ASSUME PagingInv, UNCHANGED <<pt, huge>>, \A t \in Tables : <<t, 1>> \in runs => <<t, 1>> \in runs'
  PROVE  /\ PtTypeOK' /\ TreeKept' /\ TablesOwned' /\ HugeKept'
         /\ \A v, f : Leads(v, f) => Leads(v, f)'
<1> USE DEF PagingInv
<1>1. PtTypeOK' /\ TreeKept' /\ HugeKept'
  BY DEF PtTypeOK, TreeKept, HugeKept
<1>2. Naming(Upper)' = Naming(Upper)
  BY DEF Naming, Upper, Below
<1>3. TablesOwned'
  BY <1>2 DEF TablesOwned, Tables
<1>4. \A v, f : Leads(v, f) => Leads(v, f)'
  BY DEF Leads
<1> QED BY <1>1, <1>3, <1>4

LEMMA OthersInv ==
  ASSUME PagingInv, FramesInv', UNCHANGED <<pt, huge, job, regions>>, \A t \in Tables : <<t, 1>> \in runs => <<t, 1>> \in runs'
  PROVE  PagingInv'
<1>1. PtTypeOK' /\ TreeKept' /\ TablesOwned' /\ HugeKept'
  BY TablesStay
<1>2. JobInv' /\ RegionsInv'
  BY DEF PagingInv, JobInv, RegionsInv, Unmapped, Page, Leads, Tables
<1> QED BY <1>1, <1>2 DEF PagingInv

LEMMA PhysCallTables == PagingInv /\ PhysCall => PagingInv'
<1> SUFFICES ASSUME PagingInv, PhysCall PROVE PagingInv'
  OBVIOUS
<1>1. FramesInv'
  BY PhysCallInv DEF PagingInv
<1>2. \A t \in Tables : <<t, 1>> \in runs => <<t, 1>> \in runs'
  <2>1. CASE physmem_init
    BY <2>1 DEF physmem_init
  <2>2. ASSUME NEW c \in Counts, physmem_alloc_to(c) PROVE runs \subseteq runs'
    BY <2>2 DEF physmem_alloc_to
  <2>3. ASSUME NEW r \in OthersRuns, physmem_free_to(r), NEW t \in Tables, <<t, 1>> \in runs PROVE <<t, 1>> \in runs'
    <3>1. <<t, 1>>[1] = t
      OBVIOUS
    <3>2. r # <<t, 1>>
      BY <2>3, <3>1 DEF OthersRuns, Tables
    <3> QED BY <2>3, <3>2 DEF physmem_free_to
  <2> QED BY <2>1, <2>2, <2>3 DEF PhysCall
<1> QED BY <1>1, <1>2, OthersInv DEF PhysCall

(* map_region begins. *)
LEMMA RegionBegins ==
  ASSUME PagingInv, FramesInv', UNCHANGED <<pt, huge, regions>>, runs \subseteq runs',
         NEW v \in Nat, NEW f \in Nat, NEW n \in Nat, v .. v + n - 1 \subseteq KernelPages, Unmapped(v, n), map_region(v, f, n)
  PROVE  PagingInv'
<1>1. /\ PtTypeOK' /\ TreeKept' /\ TablesOwned' /\ HugeKept'
      /\ \A w, g : Leads(w, g) => Leads(w, g)'
  BY TablesStay
<1>2. RegionsInv'
  BY <1>1 DEF PagingInv, RegionsInv
<1>3. JobInv'
  <2>1. /\ job' \in Jobs
        /\ job'.virt = v /\ job'.size = n /\ job'.at = 0 /\ job'.lvl = 3 /\ job'.tbl = Root
    BY RootIsFrame DEF map_region, Jobs
  <2>2. Unmapped(job.virt, job.size)'
    BY <2>1 DEF Unmapped
  <2> QED BY <2>1, <2>2 DEF JobInv, TableAt
<1> QED BY <1>1, <1>2, <1>3 DEF PagingInv

LEMMA FirstFitFree ==
  ASSUME FramesInv, NEW n \in Nat \ {0}, NEW s \in FirstFit(bitmap, n)
  PROVE  s \in Nat /\ s \in DOMAIN bitmap /\ ~bitmap[s]
<1>1. s \in DOMAIN bitmap /\ FreeRun(bitmap, s, n) /\ s \in Nat
  BY DEF FirstFit, FramesInv, PhysTypeOK
<1>2. s \in s .. s + n - 1
  BY <1>1
<1> QED BY <1>1, <1>2 DEF FreeRun

LEMMA MapTables ==
  ASSUME PagingInv, NEW g \in Regions, Unmapped(g[1], g[2]), map_region_alloc(g[1], g[2])
  PROVE  PagingInv'
<1>1. FramesInv'
  BY MapInv DEF PagingInv
<1>2. g[1] \in Nat /\ g[2] \in Nat /\ g[1] .. g[1] + g[2] - 1 \subseteq KernelPages
  BY PagingAssumption DEF KernelPages
<1>3. ASSUME g[2] # 0, NEW s \in FirstFit(bitmap, g[2]), runs' = runs \cup {<<s, g[2]>>}, map_region(g[1], s, g[2])
      PROVE  PagingInv'
  <2>1. s \in Nat
    BY <1>2, <1>3, FirstFitFree DEF PagingInv
  <2>2. UNCHANGED <<pt, huge, regions>> /\ runs \subseteq runs'
    BY <1>3 DEF map_region_alloc
  <2> QED BY <1>1, <1>2, <1>3, <2>1, <2>2, RegionBegins
<1>4. CASE UNCHANGED <<bitmap, flags, runs, job>>
  BY <1>1, <1>4, OthersInv DEF map_region_alloc
<1> QED BY <1>3, <1>4 DEF map_region_alloc

LEMMA DeviceTables ==
  ASSUME PagingInv, NEW d \in Devices, Unmapped(Direct(d), 1), MapDevice(d)
  PROVE  PagingInv'
<1>1. FramesInv'
  BY PhysStutter DEF PagingInv, MapDevice, physvars
<1>2. Direct(d) \in Nat /\ d \in Nat /\ Direct(d) .. Direct(d) + 1 - 1 \subseteq KernelPages
  <2> DEFINE v == Direct(d)
  <2>1. v \in Nat /\ d \in Nat /\ v \in KernelPages
    BY PagingAssumption DEF KernelPages, Direct
  <2> HIDE DEF v
  <2>2. v .. v + 1 - 1 \subseteq KernelPages
    BY <2>1
  <2> QED BY <2>1, <2>2 DEF v
<1>3. UNCHANGED <<pt, huge, regions>> /\ runs \subseteq runs' /\ map_region(Direct(d), d, 1)
  BY DEF MapDevice, physvars
<1> QED BY <1>1, <1>2, <1>3, RegionBegins

LEMMA DoneTables == PagingInv /\ MapRegionDone => PagingInv'
<1> SUFFICES ASSUME PagingInv, MapRegionDone PROVE PagingInv'
  OBVIOUS
<1>1. FramesInv'
  BY PhysStutter DEF PagingInv, MapRegionDone, physvars
<1>2. /\ PtTypeOK' /\ TreeKept' /\ TablesOwned' /\ HugeKept'
      /\ \A w, g : Leads(w, g) => Leads(w, g)'
  BY TablesStay DEF MapRegionDone, physvars
<1>3. JobInv'
  BY RootIsFrame DEF MapRegionDone, JobInv, NoJob, Jobs
<1>4. RegionsInv'
  <2> DEFINE new == <<job.virt, job.phys, job.size>>
  <2>1. /\ new \in Nat \X Nat \X Nat /\ new[1] .. new[1] + new[3] - 1 \subseteq KernelPages
        /\ \A i \in 0 .. new[3] - 1 : LoaderHuge(new[1] + i) \/ Leads(new[1] + i, new[2] + i)
    BY DEF MapRegionDone, PagingInv, JobInv, Jobs
  <2>2. regions' = regions \cup {new}
    BY DEF MapRegionDone
  <2> HIDE DEF new
  <2> QED BY <1>2, <2>1, <2>2 DEF RegionsInv, PagingInv
<1> QED BY <1>1, <1>2, <1>3, <1>4 DEF PagingInv

LEMMA DownTables == PagingInv /\ WalkDown => PagingInv'
<1> SUFFICES ASSUME PagingInv, WalkDown PROVE PagingInv'
  OBVIOUS
<1> USE DEF PagingInv
<1>1. FramesInv'
  BY PhysStutter DEF WalkDown, physvars
<1>2. /\ PtTypeOK' /\ TreeKept' /\ TablesOwned' /\ HugeKept'
      /\ \A w, g : Leads(w, g) => Leads(w, g)'
  BY TablesStay DEF WalkDown, physvars
<1>3. RegionsInv'
  BY <1>2 DEF RegionsInv, WalkDown
<1>4. JobInv'
  <2>1. job \in Jobs
    BY DEF JobInv
  <2>2. job.active /\ job.at < job.size /\ job.lvl \in 1 .. 3 /\ Slot # NONE
    BY <2>1 DEF WalkDown, Walking, Jobs
  <2>3. Page \in Nat /\ job.tbl # NONE
    BY <2>1, NoneIsNoTable DEF Page, Jobs
  <2>4. PICK level : Tree(pt, level)
    BY TreeOfTables
  <2>5. job.tbl = TableAt(pt, Page, job.lvl)
    BY <2>2 DEF JobInv
  <2>6. job.tbl \in DOMAIN pt
    <3>1. job.lvl = 1 => ~Gigantic(pt, Page)
      BY <2>2 DEF JobInv
    <3> QED BY <2>2, <2>3, <2>4, <2>5, <3>1, WalkInUpper
  <2>7. Idx(Page, job.lvl) \in 0 .. R - 1
    BY <2>2, <2>3, IdxRange
  <2>8. Slot \in Nat
    BY <2>2, <2>6, <2>7 DEF Slot, PtTypeOK
  <2>9. TableAt(pt, Page, job.lvl - 1) = Slot
    BY <2>2, <2>3, <2>5, TableStep DEF Follow, Slot
  <2>10. /\ job' \in Jobs
         /\ job'.virt = job.virt /\ job'.phys = job.phys /\ job'.size = job.size /\ job'.at = job.at
         /\ job'.lvl = job.lvl - 1 /\ job'.tbl = Slot
    <3> DEFINE l == job.lvl - 1
               u == Slot
    <3>1. job' = [job EXCEPT !.tbl = u, !.lvl = l] /\ l \in 0 .. 3 /\ u \in Nat
      BY <2>2, <2>8 DEF WalkDown
    <3> HIDE DEF l, u
    <3>2. job' \in Jobs /\ job'.virt = job.virt /\ job'.phys = job.phys /\ job'.size = job.size /\ job'.at = job.at
      BY <2>1, <3>1 DEF Jobs
    <3>3. job'.lvl = l /\ job'.tbl = u
      BY <2>1, <3>1 DEF Jobs
    <3> QED BY <3>2, <3>3 DEF l, u
  <2>11. Page' = Page /\ (TableAt(pt, Page, job.lvl))' = TableAt(pt, Page, job.lvl - 1)
    BY <2>10 DEF Page, WalkDown
  <2>12. Unmapped(job.virt, job.size)'
    BY <2>2, <2>10 DEF JobInv, Unmapped, WalkDown
  <2>13. \A i \in 0 .. job'.at - 1 : LoaderHuge(job'.virt + i) \/ Leads(job.virt + i, job.phys + i)'
    BY <1>2, <2>2, <2>10 DEF JobInv
  <2>14. job'.virt .. job'.virt + job'.size - 1 \subseteq KernelPages
    BY <2>2, <2>10 DEF JobInv
  <2>15. job'.at <= job'.size /\ job'.at # job'.size
    BY <2>1, <2>2, <2>10 DEF Jobs
  <2>16. job'.tbl = (TableAt(pt, Page, job.lvl))'
    BY <2>9, <2>10, <2>11
  <2>17. pt' = pt /\ huge = BootHuge
    BY DEF WalkDown, PtTypeOK
  <2>18. job'.lvl < 2 => ~Gigantic(pt, Page)
    <3>1. CASE job.lvl = 3
      BY <2>10, <3>1
    <3>2. CASE job.lvl = 2
      BY <2>5, <2>17, <3>2 DEF WalkDown, Astray, Gigantic, TableAt
    <3>3. CASE job.lvl = 1
      BY <2>2, <3>3 DEF JobInv
    <3> QED BY <2>2, <3>1, <3>2, <3>3
  <2>19. job'.lvl = 0 /\ UnderHuge(pt, Page) => Slot \notin Tables
    <3> SUFFICES ASSUME job'.lvl = 0, UnderHuge(pt, Page) PROVE Slot \notin Tables
      OBVIOUS
    <3>1. job.lvl = 1
      BY <2>1, <2>10 DEF Jobs
    <3>2. ~Gigantic(pt, Page)
      BY <2>18
    <3>3. <<job.tbl, Idx(Page, job.lvl)>> \in huge
      BY <2>5, <2>17, <3>1, <3>2 DEF UnderHuge, TableAt
    <3> QED BY <3>3 DEF WalkDown, Astray, OwnFrames
  <2>20. /\ job'.lvl < 2 => ~Gigantic(pt', Page')
         /\ job'.lvl = 0 /\ UnderHuge(pt', Page') => job'.tbl \notin Tables'
    BY <2>10, <2>11, <2>17, <2>18, <2>19 DEF Tables
  <2> QED BY <2>10, <2>12, <2>13, <2>14, <2>15, <2>16, <2>20 DEF JobInv
<1> QED BY <1>1, <1>2, <1>3, <1>4

(* A free frame is no table. *)
LEMMA FreshFrame ==
  ASSUME PagingInv, NEW f \in FirstFit(bitmap, 1)
  PROVE  f \in Nat /\ f \notin DOMAIN pt
<1> USE DEF PagingInv
<1>1. f \in Nat /\ f \in DOMAIN bitmap /\ ~bitmap[f]
  BY FirstFitFree
<1>2. f \notin DOMAIN BootTables
  <2>1. UsableFrame(f) /\ memmap \in MemMaps
    BY <1>1 DEF FramesInv, FreeIsUsable, PhysTypeOK
  <2> QED BY <2>1, BootTablesAssumption DEF UsableFrame
<1>3. <<f, 1>> \notin runs
  <2>1. f \in RunFrames(<<f, 1>>)
    BY <1>1 DEF RunFrames
  <2> QED BY <1>1, <2>1 DEF FramesInv, RunsDisjoint
<1> QED BY <1>1, <1>2, <1>3 DEF TablesOwned, Tables

(* The pages under a huge page are those of the boot loader, and lead where *)
(* they did.                                                               *)
LEMMA HugeIs ==
  ASSUME HugeKept, NEW v \in KernelPages
  PROVE  /\ UnderHuge(pt, v) <=> LoaderHuge(v)
         /\ LoaderHuge(v) => Translate(pt, v) = Translate(BootTables, v)
         /\ ~LoaderHuge(v) => ~UnderHuge(pt, v) /\ ~Gigantic(pt, v)
<1>1. /\ UnderHuge(pt, v) <=> LoaderHuge(v)
      /\ LoaderHuge(v) => Translate(pt, v) = Translate(BootTables, v)
  BY Zenon DEF HugeKept
<1>2. ~UnderHuge(pt, v) => ~Gigantic(pt, v)
  BY Zenon DEF UnderHuge
<1> QED BY <1>1, <1>2, Zenon

(* paging_map_page adds a table. *)
LEMMA AddTables == PagingInv /\ AddTable => PagingInv'
<1> SUFFICES ASSUME PagingInv, AddTable PROVE PagingInv'
  OBVIOUS
<1> USE DEF PagingInv
<1>1. FramesInv'
  BY MapPageInv DEF paging_map_page
<1>2. PICK level : Tree(pt, level)
  BY TreeOfTables
<1> DEFINE t == job.tbl
           i == Idx(Page, job.lvl)
<1>3. PICK f \in FirstFit(bitmap, 1) :
         /\ runs' = runs \cup {<<f, 1>>}
         /\ pt' = [s \in DOMAIN pt \cup {f} |->
                     IF s = f THEN EmptyTable ELSE IF s = t THEN [pt[s] EXCEPT ![i] = f] ELSE pt[s]]
         /\ job' = [job EXCEPT !.tbl = f, !.lvl = job.lvl - 1]
  BY DEF AddTable
<1>4. job.active /\ job.at < job.size /\ pt[t][i] = NONE /\ UNCHANGED <<huge, regions>>
  BY DEF AddTable, Walking, Slot
<1>5. f \in Nat /\ f \notin DOMAIN pt
  BY FreshFrame
<1>6. job \in Jobs /\ job.lvl \in 1 .. 3 /\ Page \in Nat /\ t \in Nat /\ t # NONE
  <2>1. job \in Jobs
    BY DEF JobInv
  <2> QED BY <2>1, NoneIsNoTable DEF Jobs, Page, AddTable, Walking
<1>7. t = TableAt(pt, Page, job.lvl) /\ i \in 0 .. R - 1
  BY <1>4, <1>6, IdxRange DEF JobInv
<1>8. t \in Upper /\ t \in DOMAIN pt /\ level[t] = job.lvl
  <2>1. job.lvl = 1 => ~Gigantic(pt, Page)
    BY <1>4 DEF JobInv
  <2> QED BY <1>2, <1>6, <1>7, <2>1, WalkInUpper
<1>9. Page \in KernelPages
  <2>1. Page \in job.virt .. job.virt + job.size - 1
    BY <1>4, <1>6 DEF Page, Jobs
  <2> QED BY <1>4, <2>1 DEF JobInv
<1>10. <<t, i>> \notin BootHuge
  BY <1>2, <1>4, HugeLevel
<1> HIDE DEF t, i
<1>11. /\ DOMAIN pt' = DOMAIN pt \cup {f} /\ \A j \in 0 .. R - 1 : pt'[f][j] = NONE
       /\ \A s \in DOMAIN pt : s # t => pt'[s] = pt[s]
  BY <1>3, <1>5, <1>8 DEF EmptyTable
<1>12. /\ pt' \in [DOMAIN pt' -> [0 .. R - 1 -> Nat \cup {NONE}]] /\ pt'[t][i] = f
       /\ \A s \in DOMAIN pt, j \in 0 .. R - 1 : <<s, j>> # <<t, i>> => pt'[s][j] = pt[s][j]
  <2>1. pt[t] \in [0 .. R - 1 -> Nat \cup {NONE}] /\ EmptyTable \in [0 .. R - 1 -> Nat \cup {NONE}]
    BY <1>8 DEF PtTypeOK, EmptyTable
  <2>2. pt'[t] = [pt[t] EXCEPT ![i] = f]
    BY <1>3, <1>5, <1>8
  <2>3. pt'[t] \in [0 .. R - 1 -> Nat \cup {NONE}] /\ pt'[t][i] = f /\ \A j \in 0 .. R - 1 : j # i => pt'[t][j] = pt[t][j]
    BY <1>5, <1>7, <2>1, <2>2
  <2>4. pt' \in [DOMAIN pt' -> [0 .. R - 1 -> Nat \cup {NONE}]]
    <3>1. pt'[f] = EmptyTable /\ pt' = [s \in DOMAIN pt' |-> pt'[s]]
      BY <1>3
    <3>2. \A s \in DOMAIN pt' : pt'[s] \in [0 .. R - 1 -> Nat \cup {NONE}]
      BY <1>11, <2>1, <2>3, <3>1 DEF PtTypeOK
    <3> QED BY <3>1, <3>2
  <2> QED BY <1>11, <2>3, <2>4
<1>13. PtTypeOK' /\ TreeKept'
  <2>0. Grown(pt, level, t, i, f, pt')
    BY <1>5, <1>6, <1>7, <1>8, <1>10, <1>11, <1>12 DEF Grown
  <2>1. PICK lev \in [DOMAIN pt' -> 0 .. 3] : Tree(pt', lev)
    BY <1>2, <2>0, TableAdded, Zenon
  <2>2. DOMAIN pt' \subseteq Nat /\ pt' \in [DOMAIN pt' -> [0 .. R - 1 -> Nat \cup {NONE}]] /\ IsTree(pt', lev)
    BY <2>1 DEF Tree
  <2> QED BY <1>4, <1>11, <2>1, <2>2 DEF PtTypeOK, TreeKept
<1>14. \A s \in DOMAIN pt, j \in 0 .. R - 1 : pt[s][j] # NONE => pt'[s][j] = pt[s][j]
  <2>1. pt[t][i] = NONE
    BY <1>4 DEF t, i
  <2> QED BY <1>12, <2>1
<1>15. TablesOwned'
  <2>1. /\ Upper \subseteq Upper' /\ Naming(Upper) \subseteq Naming(Upper)'
        /\ \A e \in Naming(Upper) : pt'[e[1]][e[2]] = pt[e[1]][e[2]]
    BY <1>2, <1>4, <1>14, NamingGrows
  <2>2. <<t, i>> \in Naming(Upper)' /\ <<t, i>>[1] = t /\ <<t, i>>[2] = i
    BY <1>4, <1>5, <1>7, <1>8, <1>10, <1>12, <2>1, NoneIsNoTable DEF Naming, PtTypeOK
  <2>3. ASSUME NEW s \in DOMAIN pt', s \notin DOMAIN BootTables
        PROVE  <<s, 1>> \in runs' /\ \E e \in Naming(Upper)' : pt'[e[1]][e[2]] = s
    <3>1. CASE s = f
      BY <1>3, <1>12, <2>2, <3>1
    <3>2. CASE s # f
      <4>1. s \in DOMAIN pt
        BY <1>11, <3>2
      <4>2. <<s, 1>> \in runs /\ \E e \in Naming(Upper) : pt[e[1]][e[2]] = s
        BY <2>3, <4>1 DEF TablesOwned, Tables
      <4> QED BY <1>3, <2>1, <4>2
    <3> QED BY <3>1, <3>2
  <2> QED BY <2>3 DEF TablesOwned, Tables
<1>16. ASSUME NEW v \in KernelPages
       PROVE  /\ Gigantic(pt', v) <=> Gigantic(pt, v)
              /\ UnderHuge(pt', v) <=> UnderHuge(pt, v)
              /\ UnderHuge(pt, v) => Translate(pt', v) = Translate(pt, v)
  <2>1. DOMAIN pt \subseteq DOMAIN pt' /\ \A j \in 0 .. R - 1 : pt'[f][j] = NONE
    BY <1>11
  <2>2. v \in Nat /\ pt[t][i] = NONE
    BY <1>4, KernelPageFacts DEF t, i
  <2> QED BY <1>2, <1>5, <1>7, <1>8, <1>12, <2>1, <2>2, HugeGrows
<1>20. HugeKept'
  BY <1>16 DEF HugeKept
<1>17. ASSUME NEW v \in KernelPages, NEW x, ~LoaderHuge(v), Leads(v, x) PROVE Leads(v, x)'
  <2> DEFINE u == PtOf(pt, v)
  <2>1. v \in Nat /\ ~UnderHuge(pt, v) /\ ~Gigantic(pt, v) /\ u # NONE /\ pt[u][Idx(v, 0)] = x
    BY <1>17, HugeIs, KernelPageFacts DEF Leads
  <2>2. u \in DOMAIN pt /\ level[u] = 0
    BY <1>2, <2>1, WalkDownTree, Zenon
  <2>3. PtOf(pt', v) = u
    BY <1>2, <1>11, <1>14, <2>1, WalksGrow
  <2>4. pt'[u] = pt[u]
    BY <1>6, <1>8, <1>11, <2>2
  <2> HIDE DEF u
  <2> QED BY <2>1, <2>3, <2>4 DEF Leads
<1>18. RegionsInv'
  <2> SUFFICES ASSUME NEW r \in regions, NEW k \in 0 .. r[3] - 1, ~LoaderHuge(r[1] + k) PROVE Leads(r[1] + k, r[2] + k)'
    BY <1>4 DEF RegionsInv
  <2>1. r[1] + k \in KernelPages /\ Leads(r[1] + k, r[2] + k)
    BY DEF RegionsInv
  <2> QED BY <1>17, <2>1
<1>19. JobInv'
  <2>1. /\ job' \in Jobs /\ job'.virt = job.virt /\ job'.phys = job.phys /\ job'.size = job.size /\ job'.at = job.at
        /\ job'.lvl = job.lvl - 1 /\ job'.tbl = f
    <3> DEFINE l == job.lvl - 1
    <3>1. job' = [job EXCEPT !.tbl = f, !.lvl = l] /\ l \in 0 .. 3
      BY <1>3, <1>6
    <3> HIDE DEF l
    <3>2. job' \in Jobs /\ job'.virt = job.virt /\ job'.phys = job.phys /\ job'.size = job.size /\ job'.at = job.at
      BY <1>5, <1>6, <3>1 DEF Jobs
    <3>3. job'.lvl = l /\ job'.tbl = f
      BY <1>6, <3>1 DEF Jobs
    <3> QED BY <3>2, <3>3 DEF l
  <2>2. TableAt(pt', Page, job.lvl) = t
    <3>1. CASE job.lvl = 3
      BY <1>7, <3>1 DEF TableAt
    <3>2. CASE job.lvl = 2
      BY <1>2, <1>6, <1>7, <1>11, <1>14, <3>2, WalksGrow DEF TableAt
    <3>3. CASE job.lvl = 1
      BY <1>2, <1>6, <1>7, <1>11, <1>14, <3>3, WalksGrow DEF TableAt
    <3> QED BY <1>6, <3>1, <3>2, <3>3
  <2>3. TableAt(pt', Page, job.lvl - 1) = f
    <3>1. Follow(pt', t, Idx(Page, job.lvl)) = f
      BY <1>6, <1>12 DEF Follow, i
    <3> QED BY <1>6, <2>2, <3>1, TableStep
  <2>4. Page' = Page
    BY <2>1 DEF Page
  <2>5. job'.tbl = (TableAt(pt, Page, job.lvl))'
    BY <2>1, <2>3, <2>4
  <2>6. Unmapped(job.virt, job.size)'
    BY <1>4, <2>1 DEF JobInv, Unmapped
  <2>7. job'.virt .. job'.virt + job'.size - 1 \subseteq KernelPages
    BY <1>4, <2>1 DEF JobInv
  <2>8. job'.at <= job'.size /\ job'.at # job'.size
    BY <1>4, <1>6, <2>1 DEF Jobs
  <2>9. \A k \in 0 .. job'.at - 1 : LoaderHuge(job'.virt + k) \/ Leads(job.virt + k, job.phys + k)'
    <3> SUFFICES ASSUME NEW k \in 0 .. job.at - 1, ~LoaderHuge(job.virt + k) PROVE Leads(job.virt + k, job.phys + k)'
      BY <2>1
    <3>1. job.virt + k \in job.virt .. job.virt + job.size - 1
      BY <1>4, <1>6 DEF Jobs
    <3>2. job.virt + k \in KernelPages /\ Leads(job.virt + k, job.phys + k)
      BY <1>4, <3>1 DEF JobInv
    <3> QED BY <1>17, <2>1, <3>2
  <2>10. job.lvl - 1 < 2 => ~Gigantic(pt', Page)
    <3>1. CASE job.lvl = 3
      BY <3>1
    <3>2. CASE job.lvl = 2
      BY <1>7, <1>9, <1>10, <1>16, <3>2 DEF Gigantic, TableAt, i
    <3>3. CASE job.lvl = 1
      BY <1>4, <1>9, <1>16, <3>3 DEF JobInv
    <3> QED BY <1>6, <3>1, <3>2, <3>3
  <2>11. job.lvl - 1 = 0 => ~UnderHuge(pt', Page)
    <3> SUFFICES ASSUME job.lvl = 1 PROVE ~UnderHuge(pt, Page)
      BY <1>6, <1>9, <1>16
    <3>1. ~Gigantic(pt, Page)
      BY <1>4 DEF JobInv
    <3> QED BY <1>7, <1>10, <3>1 DEF UnderHuge, TableAt, i
  <2>12. /\ job'.lvl < 2 => ~Gigantic(pt', Page')
         /\ job'.lvl = 0 /\ UnderHuge(pt', Page') => job'.tbl \notin Tables'
    BY <2>1, <2>4, <2>10, <2>11
  <2> QED BY <2>1, <2>5, <2>6, <2>7, <2>8, <2>9, <2>12 DEF JobInv
<1> QED BY <1>1, <1>13, <1>15, <1>18, <1>19, <1>20

(* Two pages of the kernel never share an entry of the last level. *)
LEMMA OwnEntries ==
  ASSUME NEW p, NEW level, Tree(p, level), NEW v \in KernelPages, NEW w \in KernelPages, v # w,
         PtOf(p, v) # NONE, PtOf(p, v) = PtOf(p, w), ~UnderHuge(p, v), ~UnderHuge(p, w)
  PROVE  Idx(v, 0) # Idx(w, 0)
<1>1. v \in Nat /\ w \in Nat /\ v < R * R * R * R /\ w < R * R * R * R
  BY KernelPageFacts
<1>2. Idx(v, 1) = Idx(w, 1) /\ Idx(v, 2) = Idx(w, 2) /\ Idx(v, 3) = Idx(w, 3)
  BY <1>1, SameTable
<1>3. ASSUME Idx(v, 0) = Idx(w, 0) PROVE FALSE
  <2>1. \A k \in 0 .. 3 : Idx(v, k) = Idx(w, k)
    <3>1. \A k \in 0 .. 3 : k = 0 \/ k = 1 \/ k = 2 \/ k = 3
      OBVIOUS
    <3> QED BY <1>2, <1>3, <3>1
  <2> QED BY <1>1, <2>1, IdxInjective
<1> QED BY <1>3

(* paging_map_page writes the entry of its page. *)
LEMMA WriteTables ==
  ASSUME PagingInv, WriteEntry, ~UnderHuge(pt, Page)
  PROVE  PagingInv'
<1> USE DEF PagingInv
<1>1. FramesInv'
  BY MapPageInv DEF paging_map_page
<1>2. PICK level : Tree(pt, level)
  BY TreeOfTables
<1> DEFINE t == job.tbl
           i == Idx(Page, 0)
           f == job.phys + job.at
<1>3. /\ job.active /\ job.at < job.size /\ job.lvl = 0 /\ UNCHANGED <<physvars, huge, regions>>
      /\ job' = [job EXCEPT !.at = job.at + 1, !.lvl = 3, !.tbl = Root]
  BY DEF WriteEntry
<1>4. job \in Jobs /\ Page \in Nat /\ t \in Nat /\ t # NONE /\ f \in Nat /\ i \in 0 .. R - 1
  <2>1. job \in Jobs
    BY DEF JobInv
  <2>2. Page \in Nat /\ t \in Nat /\ f \in Nat
    BY <2>1 DEF Jobs, Page
  <2> QED BY <2>1, <2>2, NoneIsNoTable, IdxRange
<1>5. Page \in KernelPages
  <2>1. Page \in job.virt .. job.virt + job.size - 1
    BY <1>3, <1>4 DEF Page, Jobs
  <2> QED BY <1>3, <2>1 DEF JobInv
<1>6. t = PtOf(pt, Page)
  BY <1>3, <1>5 DEF JobInv, TableAt
<1>7. t \in DOMAIN pt /\ level[t] = 0
  <2>1. PtOf(pt, Page) # NONE
    BY <1>4, <1>6
  <2>2. PtOf(pt, Page) \in DOMAIN pt /\ level[PtOf(pt, Page)] = 0
    BY <1>2, <1>4, <1>6, <2>1, WalkDownTree
  <2> QED BY <1>6, <2>2
<1>8. pt' = [pt EXCEPT ![t][i] = f]
  BY <1>7 DEF WriteEntry
<1> HIDE DEF t, i, f
<1>9. /\ DOMAIN pt' = DOMAIN pt /\ pt' \in [DOMAIN pt' -> [0 .. R - 1 -> Nat \cup {NONE}]]
      /\ pt'[t][i] = f /\ \A s \in DOMAIN pt : s # t => pt'[s] = pt[s]
      /\ \A j \in 0 .. R - 1 : j # i => pt'[t][j] = pt[t][j]
  BY <1>4, <1>7, <1>8 DEF PtTypeOK
<1>10. \A s \in DOMAIN pt : level[s] > 0 => pt'[s] = pt[s]
  BY <1>7, <1>9
<1>11. /\ Tree(pt', level)
       /\ \A v \in Nat : /\ PdptOf(pt', v) = PdptOf(pt, v) /\ PdOf(pt', v) = PdOf(pt, v)
                         /\ ~Gigantic(pt, v) => PtOf(pt', v) = PtOf(pt, v)
  BY <1>2, <1>9, <1>10, LastLevelWritten
<1>12. PtTypeOK' /\ TreeKept'
  BY <1>3, <1>9, <1>11 DEF PtTypeOK, TreeKept, Tree
<1>13. TablesOwned'
  <2>1. \A s \in DOMAIN pt, j \in 0 .. R - 1 : level[s] > 0 /\ pt[s][j] # NONE => pt'[s][j] = pt[s][j]
    BY <1>10
  <2>2. /\ Naming(Upper) \subseteq Naming(Upper)'
        /\ \A e \in Naming(Upper) : pt'[e[1]][e[2]] = pt[e[1]][e[2]]
    BY <1>2, <1>3, <2>1, NamingGrows
  <2>3. ASSUME NEW s \in DOMAIN pt', s \notin DOMAIN BootTables
        PROVE  <<s, 1>> \in runs' /\ \E e \in Naming(Upper)' : pt'[e[1]][e[2]] = s
    <3>1. <<s, 1>> \in runs /\ \E e \in Naming(Upper) : pt[e[1]][e[2]] = s
      BY <1>9, <2>3 DEF TablesOwned, Tables
    <3> QED BY <1>3, <2>2, <3>1 DEF physvars
  <2> QED BY <2>3 DEF TablesOwned, Tables
<1>14. HugeKept'
  <2> SUFFICES ASSUME NEW v \in KernelPages
               PROVE  /\ UnderHuge(pt', v) <=> LoaderHuge(v)
                      /\ LoaderHuge(v) => Translate(pt', v) = Translate(BootTables, v)
    BY DEF HugeKept
  <2>1. /\ UnderHuge(pt', v) <=> UnderHuge(pt, v)
        /\ UnderHuge(pt, v) => Translate(pt', v) = Translate(pt, v)
    BY <1>2, <1>11, KernelPageFacts, HugeWritten
  <2> QED BY <2>1, HugeIs, Zenon
<1>15. ASSUME NEW v \in KernelPages, NEW x, v # Page, ~LoaderHuge(v), Leads(v, x) PROVE Leads(v, x)'
  <2> DEFINE u == PtOf(pt, v)
  <2>1. v \in Nat /\ ~UnderHuge(pt, v) /\ ~Gigantic(pt, v) /\ u # NONE /\ pt[u][Idx(v, 0)] = x
    BY <1>15, HugeIs, KernelPageFacts DEF Leads
  <2>2. u \in DOMAIN pt /\ PtOf(pt', v) = u /\ Idx(v, 0) \in 0 .. R - 1
    BY <1>2, <1>11, <2>1, WalkDownTree, IdxRange
  <2>3. u = t => Idx(v, 0) # i
    BY <1>2, <1>5, <1>6, <1>15, <2>1, OwnEntries DEF i
  <2>4. pt'[u][Idx(v, 0)] = x
    BY <1>9, <2>1, <2>2, <2>3
  <2> HIDE DEF u
  <2> QED BY <2>1, <2>2, <2>4 DEF Leads
<1>16. PtOf(pt', Page) # NONE /\ pt'[PtOf(pt', Page)][Idx(Page, 0)] = f
  BY <1>4, <1>6, <1>9, <1>11 DEF i, UnderHuge
<1>17. RegionsInv'
  <2> SUFFICES ASSUME NEW r \in regions, NEW k \in 0 .. r[3] - 1, ~LoaderHuge(r[1] + k) PROVE Leads(r[1] + k, r[2] + k)'
    BY <1>3 DEF RegionsInv
  <2>1. r[1] + k \in KernelPages /\ Leads(r[1] + k, r[2] + k) /\ r[1] \in Nat /\ r[3] \in Nat
    BY DEF RegionsInv
  <2>2. r[1] + r[3] <= job.virt \/ job.virt + job.size <= r[1]
    BY <1>3 DEF JobInv, Unmapped
  <2>3. r[1] + k # Page
    BY <1>3, <1>4, <2>1, <2>2 DEF Page, Jobs
  <2> QED BY <1>15, <2>1, <2>3
<1>18. JobInv'
  <2>1. /\ job' \in Jobs /\ job'.virt = job.virt /\ job'.phys = job.phys /\ job'.size = job.size
        /\ job'.at = job.at + 1 /\ job'.lvl = 3 /\ job'.tbl = Root
    <3> DEFINE n == job.at + 1
               l == 3
    <3>1. job' = [job EXCEPT !.at = n, !.lvl = l, !.tbl = Root] /\ n \in Nat /\ Root \in Nat /\ l \in 0 .. 3
      BY <1>3, <1>4, RootIsFrame DEF Jobs
    <3> HIDE DEF n, l
    <3>2. job' \in Jobs /\ job'.virt = job.virt /\ job'.phys = job.phys /\ job'.size = job.size
      BY <1>4, <3>1 DEF Jobs
    <3>3. job'.at = n /\ job'.lvl = l /\ job'.tbl = Root
      BY <1>4, <3>1 DEF Jobs
    <3> QED BY <3>2, <3>3 DEF n, l
  <2>2. job'.at <= job'.size
    BY <1>3, <1>4, <2>1 DEF Jobs
  <2>3. Unmapped(job.virt, job.size)'
    BY <1>3, <2>1 DEF JobInv, Unmapped
  <2>4. job'.virt .. job'.virt + job'.size - 1 \subseteq KernelPages
    BY <1>3, <2>1 DEF JobInv
  <2>5. job'.tbl = (TableAt(pt, Page, job.lvl))'
    BY <2>1 DEF TableAt
  <2>6. ASSUME NEW k \in 0 .. job.at, ~LoaderHuge(job.virt + k) PROVE Leads(job.virt + k, job.phys + k)'
    <3>1. CASE k = job.at
      BY <1>16, <2>1, <3>1 DEF Leads, Page, f
    <3>2. CASE k # job.at
      <4>1. k \in 0 .. job.at - 1 /\ job.virt + k \in job.virt .. job.virt + job.size - 1 /\ job.virt + k # Page
        BY <1>3, <1>4, <3>2 DEF Jobs, Page
      <4>2. job.virt + k \in KernelPages /\ Leads(job.virt + k, job.phys + k)
        BY <1>3, <2>6, <4>1 DEF JobInv
      <4> QED BY <1>15, <2>1, <2>6, <4>1, <4>2
    <3> QED BY <3>1, <3>2
  <2>7. \A k \in 0 .. job'.at - 1 : LoaderHuge(job'.virt + k) \/ Leads(job.virt + k, job.phys + k)'
    <3>1. 0 .. job'.at - 1 = 0 .. job.at
      BY <1>4, <2>1 DEF Jobs
    <3> QED BY <2>1, <2>6, <3>1
  <2> QED BY <2>1, <2>2, <2>3, <2>4, <2>5, <2>7 DEF JobInv
<1> QED BY <1>1, <1>12, <1>13, <1>14, <1>17, <1>18

(* Under a huge page it writes to data. *)
LEMMA WriteToData ==
  ASSUME PagingInv, WriteEntry, UnderHuge(pt, Page)
  PROVE  PagingInv'
<1> USE DEF PagingInv
<1>1. FramesInv'
  BY MapPageInv DEF paging_map_page
<1>2. /\ job.active /\ job.at < job.size /\ job.lvl = 0 /\ UNCHANGED <<physvars, huge, regions>>
      /\ job' = [job EXCEPT !.at = job.at + 1, !.lvl = 3, !.tbl = Root] /\ job \in Jobs
  BY DEF WriteEntry, JobInv
<1>3. pt' = pt
  BY <1>2 DEF WriteEntry, JobInv, Tables
<1>4. /\ PtTypeOK' /\ TreeKept' /\ TablesOwned' /\ HugeKept'
      /\ \A w, g : Leads(w, g) => Leads(w, g)'
  BY <1>2, <1>3, TablesStay DEF physvars
<1>5. RegionsInv'
  BY <1>2, <1>4 DEF RegionsInv
<1>6. /\ job' \in Jobs /\ job'.virt = job.virt /\ job'.phys = job.phys /\ job'.size = job.size
      /\ job'.at = job.at + 1 /\ job'.lvl = 3 /\ job'.tbl = Root
  <2> DEFINE n == job.at + 1
             l == 3
  <2>1. job' = [job EXCEPT !.at = n, !.lvl = l, !.tbl = Root] /\ n \in Nat /\ Root \in Nat /\ l \in 0 .. 3
    BY <1>2, RootIsFrame DEF Jobs
  <2> HIDE DEF n, l
  <2>2. job' \in Jobs /\ job'.virt = job.virt /\ job'.phys = job.phys /\ job'.size = job.size
    BY <1>2, <2>1 DEF Jobs
  <2>3. job'.at = n /\ job'.lvl = l /\ job'.tbl = Root
    BY <1>2, <2>1 DEF Jobs
  <2> QED BY <2>2, <2>3 DEF n, l
<1>7. job'.at <= job'.size /\ Unmapped(job.virt, job.size)' /\ job'.virt .. job'.virt + job'.size - 1 \subseteq KernelPages
  <2>1. job'.at <= job'.size
    BY <1>2, <1>6 DEF Jobs
  <2> QED BY <1>2, <1>6, <2>1 DEF JobInv, Unmapped
<1>8. LoaderHuge(job.virt + job.at)
  <2>1. Page \in job.virt .. job.virt + job.size - 1
    BY <1>2 DEF Page, Jobs
  <2>2. Page \in KernelPages
    BY <1>2, <2>1 DEF JobInv
  <2>3. LoaderHuge(Page)
    BY <2>2, HugeIs, Zenon
  <2> QED BY <2>3 DEF Page
<1>9. \A k \in 0 .. job'.at - 1 : LoaderHuge(job'.virt + k) \/ Leads(job.virt + k, job.phys + k)'
  <2> SUFFICES ASSUME NEW k \in 0 .. job'.at - 1, k # job.at
               PROVE  LoaderHuge(job.virt + k) \/ Leads(job.virt + k, job.phys + k)'
    BY <1>6, <1>8
  <2>1. k \in 0 .. job.at - 1
    BY <1>2, <1>6 DEF Jobs
  <2>2. LoaderHuge(job.virt + k) \/ Leads(job.virt + k, job.phys + k)
    BY <1>2, <2>1 DEF JobInv
  <2> QED BY <1>4, <1>6, <2>2
<1>10. JobInv'
  BY <1>6, <1>7, <1>9 DEF JobInv, TableAt
<1> QED BY <1>1, <1>4, <1>5, <1>10

LEMMA PanicTables == PagingInv /\ NoFrameForTable => PagingInv'
<1> SUFFICES ASSUME PagingInv, NoFrameForTable PROVE PagingInv'
  OBVIOUS
<1>1. FramesInv'
  BY MapPageInv DEF paging_map_page, PagingInv
<1> QED BY <1>1, OthersInv DEF NoFrameForTable

LEMMA AstrayTables == PagingInv /\ WalkAstray => PagingInv'
<1> SUFFICES ASSUME PagingInv, WalkAstray PROVE PagingInv'
  OBVIOUS
<1>1. FramesInv'
  BY MapPageInv DEF paging_map_page, PagingInv
<1> QED BY <1>1, OthersInv DEF WalkAstray, physvars

LEMMA PagingStep == PagingInv /\ [PagingNext]_pagevars => PagingInv'
<1> SUFFICES ASSUME PagingInv, [PagingNext]_pagevars PROVE PagingInv'
  OBVIOUS
<1>1. CASE UNCHANGED pagevars
  <2>1. FramesInv'
    BY <1>1, PhysStutter DEF PagingInv, pagevars, physvars
  <2> QED BY <1>1, <2>1, OthersInv DEF pagevars, physvars
<1>2. CASE paging_map_page
  BY <1>2, DownTables, AstrayTables, AddTables, PanicTables, WriteTables, WriteToData DEF paging_map_page
<1>3. CASE \E g \in Regions : Unmapped(g[1], g[2]) /\ map_region_alloc(g[1], g[2])
  BY <1>3, MapTables
<1>4. CASE \E d \in Devices : Unmapped(Direct(d), 1) /\ MapDevice(d)
  BY <1>4, DeviceTables
<1> QED BY <1>1, <1>2, <1>3, <1>4, PhysCallTables, DoneTables DEF PagingNext, PagingPanicked

LEMMA InvMappingsSound == PagingInv => MappingsSound
<1> SUFFICES ASSUME PagingInv PROVE MappingsSound
  OBVIOUS
<1> USE DEF PagingInv
<1>1. PICK level : Tree(pt, level)
  BY TreeOfTables
<1>2. RegionsStayMapped
  <2> SUFFICES ASSUME NEW r \in regions, NEW k \in 0 .. r[3] - 1
               PROVE  Translate(pt, r[1] + k) = IF LoaderHuge(r[1] + k) THEN Translate(BootTables, r[1] + k) ELSE r[2] + k
    BY DEF RegionsStayMapped
  <2> DEFINE v == r[1] + k
  <2>1. v \in KernelPages /\ (LoaderHuge(v) \/ Leads(v, r[2] + k))
    BY DEF RegionsInv
  <2> HIDE DEF v
  <2>2. CASE LoaderHuge(v)
    <3>1. Translate(pt, v) = Translate(BootTables, v)
      BY <2>1, <2>2, HugeIs, Zenon
    <3> QED BY <2>2, <3>1 DEF v
  <2>3. CASE ~LoaderHuge(v)
    <3>1. ~UnderHuge(pt, v) /\ ~Gigantic(pt, v) /\ PtOf(pt, v) # NONE /\ pt[PtOf(pt, v)][Idx(v, 0)] = r[2] + k
      BY <2>1, <2>3, HugeIs, Zenon DEF Leads
    <3>2. Translate(pt, v) = r[2] + k
      BY <3>1 DEF Translate, Follow
    <3> QED BY <2>3, <3>2 DEF v
  <2> QED BY <2>2, <2>3
<1>3. TableTree
  <2> SUFFICES ASSUME NEW t \in Tables \ DOMAIN BootTables
               PROVE  <<t, 1>> \in runs /\ Cardinality({e \in Naming(Upper) : pt[e[1]][e[2]] = t}) = 1
    BY DEF TableTree
  <2>1. <<t, 1>> \in runs
    BY DEF TablesOwned
  <2>2. PICK e \in Naming(Upper) : pt[e[1]][e[2]] = t
    BY DEF TablesOwned
  <2>3. ASSUME NEW d \in Naming(Upper), pt[d[1]][d[2]] = t PROVE d = e
    <3>1. /\ Names(pt, level, d[1], d[2]) /\ Names(pt, level, e[1], e[2])
          /\ d = <<d[1], d[2]>> /\ e = <<e[1], e[2]>>
      BY <1>1, UpperTables
    <3>2. d[1] = e[1] /\ d[2] = e[2]
      BY <1>1, <2>2, <2>3, <3>1 DEF Tree, IsTree, Names
    <3> QED BY <3>1, <3>2
  <2>4. {d \in Naming(Upper) : pt[d[1]][d[2]] = t} = {e}
    BY <2>2, <2>3
  <2>5. Cardinality({e}) = 1
    BY FS_Singleton
  <2> QED BY <2>1, <2>4, <2>5
<1> QED BY <1>2, <1>3 DEF MappingsSound

(* paging_map_page and map_region over whatever tables the boot loader      *)
(* left, in any order with the frame allocator's other callers, with        *)
(* frames running out on the way: every page of a region that was mapped    *)
(* leads to its frame for good, or where the boot loader's huge page had    *)
(* it, and every added table belongs to the kernel and is named by exactly  *)
(* one entry, until a mapping over the direct map hits the kernel's own     *)
(* tables or records.                                                       *)
THEOREM MappingsCorrect == PagingSpec => []MappingsSound
<1>1. PagingSpec => []PagingInv
  BY TablesInit, PagingStep, PTL DEF PagingSpec
<1> QED BY <1>1, InvMappingsSound, PTL

-----------------------------------------------------------------------------
(* Interrupts: the bytes of the mouse *)

(* A handler that ends with an EOI leaves its line out of service. *)
LEMMA EndedOne ==
  ASSUME NEW line \in Nat PROVE Ended({} \cup {line}) = {}
BY DEF Ended

LEMMA AppendFacts ==
  ASSUME NEW S, NEW q \in Seq(S), NEW d \in S
  PROVE  /\ Append(q, d) \in Seq(S) /\ Len(Append(q, d)) = Len(q) + 1
         /\ \A i \in 1 .. Len(q) : Append(q, d)[i] = q[i]
         /\ Append(q, d)[Len(q) + 1] = d
OBVIOUS

LEMMA AppendSecond ==
  ASSUME NEW a, NEW b PROVE Append(<<a>>, b) = <<a, b>>
<1> DEFINE S == {a, b}
           q == <<a>>
           t == Append(q, b)
<1>1. Len(q) = 1 /\ q[1] = a
  OBVIOUS
<1>2. q \in Seq(S) /\ b \in S
  OBVIOUS
<1> HIDE DEF q, S
<1>3. t \in Seq(S) /\ Len(t) = Len(q) + 1 /\ (\A i \in 1 .. Len(q) : t[i] = q[i]) /\ t[Len(q) + 1] = b
  BY <1>2, AppendFacts
<1> HIDE DEF t
<1>4. t = <<a, b>>
  BY <1>1, <1>3
<1> QED BY <1>4 DEF t, q

LEMMA AppendThird ==
  ASSUME NEW a, NEW b, NEW c PROVE Append(<<a, b>>, c) = <<a, b, c>>
<1> DEFINE S == {a, b, c}
           q == <<a, b>>
           t == Append(q, c)
<1>1. Len(q) = 2 /\ q[1] = a /\ q[2] = b
  OBVIOUS
<1>2. q \in Seq(S) /\ c \in S
  OBVIOUS
<1> HIDE DEF q, S
<1>3. t \in Seq(S) /\ Len(t) = Len(q) + 1 /\ (\A i \in 1 .. Len(q) : t[i] = q[i]) /\ t[Len(q) + 1] = c
  BY <1>2, AppendFacts
<1> HIDE DEF t
<1>4. t = <<a, b, c>>
  BY <1>1, <1>3
<1> QED BY <1>4 DEF t, q

LEMMA MouseBytes ==
  /\ Append(<<>>, "ack") = <<"ack">> /\ Append(<<"ack">>, "ack") = <<"ack", "ack">>
  /\ Append(<<"ack", "ack">>, "ack") = <<"ack", "ack", "ack">>
  /\ Append(<<>>, "p1") = <<"p1">> /\ Append(<<"p1">>, "p2") = <<"p1", "p2">>
  /\ Append(<<"p1", "p2">>, "p3") = Report
  /\ Head(<<"ack">>) = "ack" /\ Tail(<<"ack">>) = <<>>
  /\ Head(Report) = "p1" /\ Tail(Report) = <<"p2", "p3">>
  /\ Head(<<"p2", "p3">>) = "p2" /\ Tail(<<"p2", "p3">>) = <<"p3">>
  /\ Head(<<"p3">>) = "p3" /\ Tail(<<"p3">>) = <<>>
<1>1. Append(<<>>, "ack") = <<"ack">> /\ Append(<<>>, "p1") = <<"p1">>
  OBVIOUS
<1>2. Append(<<"ack">>, "ack") = <<"ack", "ack">>
  BY AppendSecond, Zenon
<1>3. Append(<<"p1">>, "p2") = <<"p1", "p2">>
  BY AppendSecond, Zenon
<1>4. Append(<<"ack", "ack">>, "ack") = <<"ack", "ack", "ack">>
  BY AppendThird, Zenon
<1>5. Append(<<"p1", "p2">>, "p3") = Report
  BY AppendThird, Zenon DEF Report
<1>6. /\ Head(<<"ack">>) = "ack" /\ Tail(<<"ack">>) = <<>>
      /\ Head(<<"p2", "p3">>) = "p2" /\ Tail(<<"p2", "p3">>) = <<"p3">>
      /\ Head(<<"p3">>) = "p3" /\ Tail(<<"p3">>) = <<>>
  OBVIOUS
<1>7. Head(Report) = "p1" /\ Tail(Report) = <<"p2", "p3">>
  BY DEF Report
<1> QED BY <1>1, <1>2, <1>3, <1>4, <1>5, <1>6, <1>7

LEMMA PacketLengths ==
  /\ Len(<<>>) = 0 /\ Len(<<"ack">>) = 1 /\ Len(<<"ack", "ack">>) = 2
  /\ Len(<<"p1">>) = 1 /\ Len(<<"p1", "p2">>) = 2
  /\ <<"ack">> # <<>> /\ <<"p1">> # <<>> /\ Report # <<>> /\ <<"p2", "p3">> # <<>> /\ <<"p3">> # <<>>
  /\ <<"ack", "ack">> # <<>> /\ <<"p1", "p2">> # <<>>
BY DEF Report

LEMMA AckBytes ==
  /\ Acks(0) = <<>> /\ Acks(1) = <<"ack">> /\ Acks(2) = <<"ack", "ack">>
  /\ Acks(3) = <<>> /\ Acks(4) = <<"ack">> /\ Acks(5) = <<"ack", "ack">> /\ Acks(6) = <<>>
BY DEF Acks

(* Which line is served, while none is in service. *)
LEMMA ServedWhenIdle ==
  ASSUME BufferAnnounced
  PROVE  /\ Served(0) <=> 0 \in irr
         /\ Served(KBD) <=> KBD \in irr /\ 0 \notin irr
         /\ Served(CASCADE) <=> AUX \in irr /\ 0 \notin irr /\ KBD \notin irr
BY DEF BufferAnnounced, Served, Requests, KBD, AUX, CASCADE

(* Polling finds the output buffer empty: the handlers are faster. *)
LEMMA PolledEmpty ==
  ASSUME BufferAnnounced, Calm, Runs
  PROVE  irr = {} /\ buf = Empty
<1>1. ~Served(0) /\ ~Served(KBD) /\ ~Served(CASCADE)
  BY DEF Calm, Runs
<1>2. irr = {}
  BY <1>1, ServedWhenIdle DEF BufferAnnounced
<1> QED BY <1>2 DEF BufferAnnounced, FromMouse, Empty


LEMMA IrqInitInv == IrqInit => IrqInv
<1> SUFFICES ASSUME IrqInit PROVE IrqInv
  OBVIOUS
<1>1. BufferAnnounced
  BY DEF IrqInit, BufferAnnounced, FromMouse, Empty, KBD, AUX
<1>2. ConfigFlow
  BY DEF IrqInit, ConfigFlow, Empty
<1>3. MouseFlow
  <2>1. sent \in 0 .. Commands - 1 /\ main = "ask" /\ packet = Acks(sent) /\ mouse = <<>>
    BY AckBytes DEF IrqInit, Commands
  <2>2. ~FromMouse(buf)
    BY DEF IrqInit, FromMouse, Empty
  <2> QED BY <2>1, <2>2 DEF MouseFlow
<1> QED BY <1>1, <1>2, <1>3 DEF IrqInit, IrqInv, CalmInv

LEMMA TimerRequestInv == CalmInv /\ Calm /\ TimerRequest => CalmInv'
<1> SUFFICES ASSUME CalmInv, Calm, TimerRequest PROVE CalmInv'
  OBVIOUS
<1>1. BufferAnnounced'
  BY DEF CalmInv, BufferAnnounced, TimerRequest, port, FromMouse, KBD, AUX, Empty
<1>2. ConfigFlow'
  BY DEF CalmInv, ConfigFlow, TimerRequest, port, queues
<1>3. MouseFlow' /\ event' = event
  BY DEF CalmInv, MouseFlow, TimerRequest, port, queues, FromMouse
<1> QED BY <1>1, <1>2, <1>3 DEF CalmInv

LEMMA KeyInv == CalmInv /\ Calm /\ Key => CalmInv'
<1> SUFFICES ASSUME CalmInv, Calm, Key PROVE CalmInv'
  OBVIOUS
<1>1. BufferAnnounced'
  BY DEF CalmInv, BufferAnnounced, Key, hw, port, FromMouse, KBD, AUX, Empty
<1>2. ConfigFlow'
  <2>1. main = "done"
    BY DEF Key, Calm
  <2>2. scancodes' \in Nat
    BY DEF CalmInv, ConfigFlow, Key
  <2>3. UNCHANGED <<cfg, asked, main, buf, data>>
    BY DEF Key, port
  <2> QED BY <2>1, <2>2, <2>3 DEF CalmInv, ConfigFlow
<1>3. MouseFlow' /\ event' = event
  BY DEF CalmInv, MouseFlow, Key, port, FromMouse
<1> QED BY <1>1, <1>2, <1>3 DEF CalmInv

(* A report starts behind the last acknowledgement or the last report. *)
LEMMA MoveInv == CalmInv /\ Calm /\ Move => CalmInv'
<1> SUFFICES ASSUME CalmInv, Calm, Move PROVE CalmInv'
  OBVIOUS
<1>1. BufferAnnounced'
  BY DEF CalmInv, BufferAnnounced, Move, hw, port, FromMouse, KBD, AUX, Empty
<1>2. ConfigFlow'
  BY DEF CalmInv, ConfigFlow, Move, port
<1>3. mouse = <<>> /\ mouse' = Report /\ sent = Commands /\ UNCHANGED <<buf, main, sent, packet, event>>
  BY DEF Move, port, Report
<1>4. MouseFlow' /\ event' = event
  BY <1>3, PacketLengths DEF CalmInv, MouseFlow, FromMouse, Commands
<1> QED BY <1>1, <1>2, <1>4 DEF CalmInv

LEMMA LoadScancodeInv == CalmInv /\ Calm /\ LoadScancode => CalmInv'
<1> SUFFICES ASSUME CalmInv, Calm, LoadScancode PROVE CalmInv'
  OBVIOUS
<1>1. buf = Empty /\ buf' = "scan" /\ irr' = irr \cup {KBD} /\ UNCHANGED <<isr1, isr2, data, cfg, main, sent, packet, event, asked, mouse>>
  BY DEF CalmInv, ConfigFlow, LoadScancode, Load
<1>2. BufferAnnounced'
  BY <1>1 DEF CalmInv, BufferAnnounced, FromMouse, KBD, AUX, Empty
<1>3. ConfigFlow'
  <2>1. scancodes \in Nat /\ scancodes > 0 /\ scancodes' = scancodes - 1
    BY DEF CalmInv, ConfigFlow, LoadScancode
  <2>2. scancodes' \in Nat /\ scancodes # 0
    BY <2>1
  <2>3. main = "done"
    BY <2>2 DEF CalmInv, ConfigFlow
  <2> QED BY <1>1, <2>2, <2>3 DEF CalmInv, ConfigFlow
<1>4. MouseFlow'
  BY <1>1 DEF CalmInv, MouseFlow, FromMouse, Empty
<1> QED BY <1>1, <1>2, <1>3, <1>4 DEF CalmInv

LEMMA LoadConfigInv == CalmInv /\ Calm /\ LoadConfig => CalmInv'
<1> SUFFICES ASSUME CalmInv, Calm, LoadConfig PROVE CalmInv'
  OBVIOUS
<1>1. asked /\ buf = Empty /\ buf' = "config" /\ irr' = irr \cup {KBD} /\ ~asked'
      /\ UNCHANGED <<isr1, isr2, data, cfg, main, sent, packet, event, scancodes, mouse>>
  BY DEF CalmInv, ConfigFlow, LoadConfig, Load
<1>2. BufferAnnounced'
  BY <1>1 DEF CalmInv, BufferAnnounced, FromMouse, KBD, AUX, Empty
<1>3. main = "config"
  BY <1>1 DEF CalmInv, ConfigFlow
<1>4. ConfigFlow'
  BY <1>1, <1>3 DEF CalmInv, ConfigFlow, LoadConfig, Empty
<1>5. MouseFlow'
  BY <1>1 DEF CalmInv, MouseFlow, FromMouse, Empty
<1> QED BY <1>1, <1>2, <1>4, <1>5 DEF CalmInv

(* The next byte of the mouse comes into the buffer, in its order. *)
LEMMA LoadMouseInv == CalmInv /\ Calm /\ LoadMouse => CalmInv'
<1> SUFFICES ASSUME CalmInv, Calm, LoadMouse PROVE CalmInv'
  OBVIOUS
<1>1. /\ mouse # <<>> /\ buf = Empty /\ buf' = Head(mouse) /\ mouse' = Tail(mouse)
      /\ UNCHANGED <<isr1, isr2, data, cfg, main, sent, packet, event, scancodes, asked>>
  BY DEF LoadMouse, Load
<1>2. ~FromMouse(buf) /\ buf # "ack" /\ buf # "p1" /\ buf # "p2" /\ buf # "p3"
  BY <1>1 DEF FromMouse, Empty
<1>3. main \notin {"ask", "config", "command"}
  BY <1>1 DEF CalmInv, MouseFlow
<1>4. irr' = irr \cup {AUX}
  BY <1>3 DEF CalmInv, ConfigFlow, LoadMouse, Load
<1>5. Head(mouse) \in {"ack", "p1", "p2", "p3"}
  BY <1>1, <1>2, <1>3, MouseBytes DEF CalmInv, MouseFlow
<1>6. BufferAnnounced'
  BY <1>1, <1>4, <1>5 DEF CalmInv, BufferAnnounced, FromMouse, KBD, AUX, Empty
<1>7. ConfigFlow'
  BY <1>1, <1>3, <1>5 DEF CalmInv, ConfigFlow, Empty
<1>8. MouseFlow'
  BY <1>1, <1>2, <1>3, <1>5, MouseBytes DEF CalmInv, MouseFlow, FromMouse
<1> QED BY <1>1, <1>6, <1>7, <1>8 DEF CalmInv

LEMMA TimerHandled ==
  ASSUME CalmInv, Calm, Served(0), irr' = irr \ {0}, timer_handle_interrupt,
         UNCHANGED <<cfg, queues, main, sent, env>>
  PROVE  CalmInv'
<1>1. isr1' = {} /\ isr2' = {} /\ UNCHANGED <<buf, data, packet, event, scancodes, asked, mouse>>
  BY EndedOne DEF CalmInv, BufferAnnounced, timer_handle_interrupt, port, queues
<1>2. BufferAnnounced'
  BY <1>1 DEF CalmInv, BufferAnnounced, FromMouse, KBD, AUX, Empty
<1>3. ConfigFlow'
  BY <1>1 DEF CalmInv, ConfigFlow
<1>4. MouseFlow'
  BY <1>1 DEF CalmInv, MouseFlow, FromMouse
<1> QED BY <1>1, <1>2, <1>3, <1>4 DEF CalmInv

LEMMA KeyboardHandled ==
  ASSUME CalmInv, Calm, Served(KBD), irr' = irr \ {KBD}, keyboard_interrupt_handler,
         UNCHANGED <<cfg, queues, main, sent, env>>
  PROVE  CalmInv'
<1>1. buf \in {"scan", "config"} /\ ~FromMouse(buf)
  BY ServedWhenIdle DEF CalmInv, BufferAnnounced, FromMouse
<1>2. isr1' = {} /\ isr2' = {} /\ buf' = Empty /\ data' = buf /\ UNCHANGED <<packet, event, scancodes, asked, mouse>>
  BY <1>1, EndedOne DEF CalmInv, BufferAnnounced, keyboard_interrupt_handler, TakesByte, Inb, queues, Empty, KBD
<1>3. BufferAnnounced'
  BY <1>1, <1>2 DEF CalmInv, BufferAnnounced, FromMouse, KBD, AUX, Empty
<1>4. ConfigFlow'
  BY <1>1, <1>2 DEF CalmInv, ConfigFlow, Empty
<1>5. MouseFlow'
  BY <1>1, <1>2 DEF CalmInv, MouseFlow, FromMouse, Empty
<1> QED BY <1>2, <1>3, <1>4, <1>5 DEF CalmInv

(* A byte of the mouse is never refused: the handler is not between packets *)
(* unless the byte can start one.                                           *)
LEMMA MouseHandled ==
  ASSUME CalmInv, Calm, Served(CASCADE), irr' = irr \ {AUX}, mouse_interrupt_handler,
         UNCHANGED <<cfg, queues, main, sent, env>>
  PROVE  CalmInv'
<1>1. FromMouse(buf) /\ buf \in {"ack", "p1", "p2", "p3"} /\ AUX \in irr
  BY ServedWhenIdle DEF CalmInv, BufferAnnounced, FromMouse
<1>2. packet = <<>> => buf \in {"ack", "p1"}
  BY <1>1, PacketLengths DEF CalmInv, MouseFlow
<1>3. \A bit3 \in Bit3(buf) : packet = <<>> => bit3
  BY <1>2 DEF Bit3
<1>4. /\ TakesByte /\ irq_ack_mouse
      /\ IF Len(packet) = 2 THEN packet' = <<>> /\ event' = Append(packet, buf)
         ELSE packet' = Append(packet, buf) /\ UNCHANGED event
  BY <1>1, <1>3 DEF mouse_interrupt_handler
<1>5. isr1' = {} /\ isr2' = {} /\ buf' = Empty /\ UNCHANGED <<scancodes, asked, mouse>> /\ ~FromMouse(buf')
  BY <1>4, EndedOne DEF CalmInv, BufferAnnounced, irq_ack_mouse, TakesByte, queues, Empty, AUX, CASCADE, FromMouse
<1>6. main \notin {"ask", "config", "command"}
  BY <1>1 DEF CalmInv, MouseFlow
<1>7. BufferAnnounced'
  BY <1>1, <1>5 DEF CalmInv, BufferAnnounced, FromMouse, KBD, AUX, Empty
<1>8. ConfigFlow'
  BY <1>1, <1>5, <1>6 DEF CalmInv, ConfigFlow, Empty
<1>9. MouseFlow' /\ event' \in {<<>>, <<"ack", "ack", "ack">>, Report}
  <2>1. CASE main = "answer" /\ buf = "ack"
    <3>1. sent \in 1 .. 6 /\ packet = Acks(sent - 1) /\ (mouse = <<>> \/ (sent = 6 /\ mouse = Report))
      BY <2>1, <1>1 DEF CalmInv, MouseFlow, Commands, FromMouse
    <3>2. packet' = Acks(sent) /\ event' \in {event, <<"ack", "ack", "ack">>}
      <4>1. sent \in {1, 4} => packet = <<>>
        BY <3>1, AckBytes
      <4>2. sent \in {2, 5} => packet = <<"ack">>
        BY <3>1, AckBytes
      <4>3. sent \in {3, 6} => packet = <<"ack", "ack">>
        BY <3>1, AckBytes
      <4>4. sent \in {1, 4} => packet' = <<"ack">> /\ event' = event
        BY <4>1, <1>4, <2>1, MouseBytes, PacketLengths
      <4>5. sent \in {2, 5} => packet' = <<"ack", "ack">> /\ event' = event
        BY <4>2, <1>4, <2>1, MouseBytes, PacketLengths, SMTT(40)
      <4>6. sent \in {3, 6} => packet' = <<>> /\ event' = <<"ack", "ack", "ack">>
        BY <4>3, <1>4, <2>1, MouseBytes, PacketLengths
      <4>7. sent \in {1, 4} \/ sent \in {2, 5} \/ sent \in {3, 6}
        BY <3>1
      <4> QED BY <4>4, <4>5, <4>6, <4>7, AckBytes
    <3>3. CASE sent = 6
      BY <3>1, <3>2, <3>3, <2>1, <1>5, AckBytes DEF CalmInv, MouseFlow, Commands
    <3>4. CASE sent \in 1 .. 5
      BY <3>1, <3>2, <3>4, <2>1, <1>5 DEF CalmInv, MouseFlow, Commands
    <3> QED BY <3>1, <3>3, <3>4
  <2>2. CASE ~(main = "answer" /\ buf = "ack")
    <3>1. main \in {"answer", "done"} /\ sent = Commands
      BY <2>2, <1>1, <1>6 DEF CalmInv, MouseFlow
    <3>2. CASE packet = <<>> /\ buf = "p1" /\ mouse = <<"p2", "p3">>
      BY <3>1, <3>2, <1>4, <1>5, MouseBytes, PacketLengths DEF CalmInv, MouseFlow
    <3>3. CASE packet = <<"p1">> /\ buf = "p2" /\ mouse = <<"p3">>
      BY <3>1, <3>3, <1>4, <1>5, MouseBytes, PacketLengths DEF CalmInv, MouseFlow
    <3>4. CASE packet = <<"p1", "p2">> /\ buf = "p3" /\ mouse \in {<<>>, Report}
      BY <3>1, <3>4, <1>4, <1>5, MouseBytes, PacketLengths DEF CalmInv, MouseFlow
    <3> QED BY <2>2, <1>1, <1>6, <3>2, <3>3, <3>4 DEF CalmInv, MouseFlow
  <2> QED BY <2>1, <2>2
<1> QED BY <1>7, <1>8, <1>9 DEF CalmInv

LEMMA AskConfigInv == CalmInv /\ Calm /\ AskConfig => CalmInv'
<1> SUFFICES ASSUME CalmInv, Calm, AskConfig PROVE CalmInv'
  OBVIOUS
<1>1. /\ main = "ask" /\ main' = "config" /\ asked'
      /\ UNCHANGED <<irr, isr1, isr2, buf, data, cfg, scancodes, mouse, sent, packet, event>>
  BY DEF AskConfig, hw, port
<1>2. BufferAnnounced'
  BY <1>1 DEF CalmInv, BufferAnnounced, FromMouse
<1>3. ConfigFlow'
  BY <1>1 DEF CalmInv, ConfigFlow, AskConfig
<1>4. MouseFlow'
  BY <1>1 DEF CalmInv, MouseFlow, FromMouse
<1> QED BY <1>1, <1>2, <1>3, <1>4 DEF CalmInv

(* The answer was taken by the keyboard's handler; it is still in the data  *)
(* register, so the configuration is written back as it was.                *)
LEMMA ReadConfigInv == CalmInv /\ Calm /\ ReadConfig => CalmInv'
<1> SUFFICES ASSUME CalmInv, Calm, ReadConfig PROVE CalmInv'
  OBVIOUS
<1>1. irr = {} /\ buf = Empty
  BY PolledEmpty DEF CalmInv, ReadConfig
<1>2. mouse_wait /\ main = "config" /\ main' = "command"
  BY DEF ReadConfig, mouse_read
<1>3. ~asked /\ data = "config"
  BY <1>1, <1>2 DEF CalmInv, ConfigFlow, mouse_wait, Empty
<1>4. buf' = Empty /\ Inb = "config"
  BY <1>1, <1>3 DEF ReadConfig, mouse_read, TakesByte, Inb
<1>5. cfg' \in [kbd : {cfg.kbd}, aux : {TRUE}]
  BY <1>4 DEF ReadConfig
<1>6. cfg' \in [kbd : {TRUE}, aux : BOOLEAN] /\ cfg'.aux
  BY <1>5 DEF CalmInv, ConfigFlow
<1>7. UNCHANGED <<irr, isr1, isr2, scancodes, asked, mouse, sent, packet, event>>
  BY DEF ReadConfig, hw, queues
<1>8. BufferAnnounced'
  BY <1>1, <1>4, <1>7 DEF CalmInv, BufferAnnounced, FromMouse
<1>9. ConfigFlow'
  BY <1>1, <1>2, <1>3, <1>4, <1>6, <1>7 DEF CalmInv, ConfigFlow, Empty
<1>10. MouseFlow'
  BY <1>1, <1>2, <1>4, <1>7 DEF CalmInv, MouseFlow
<1> QED BY <1>7, <1>8, <1>9, <1>10 DEF CalmInv

LEMMA MouseWriteInv == CalmInv /\ Calm /\ mouse_write => CalmInv'
<1> SUFFICES ASSUME CalmInv, Calm, mouse_write PROVE CalmInv'
  OBVIOUS
<1>1. /\ main = "command" /\ main' = "answer" /\ sent' = sent + 1 /\ mouse' = Append(mouse, "ack")
      /\ UNCHANGED <<irr, isr1, isr2, buf, data, cfg, scancodes, asked, packet, event>>
  BY DEF mouse_write, hw, port
<1>2. sent \in 0 .. Commands - 1 /\ packet = Acks(sent) /\ ~FromMouse(buf) /\ mouse = <<>>
  BY <1>1 DEF CalmInv, MouseFlow
<1>3. sent' \in 1 .. Commands /\ sent' - 1 = sent
  BY <1>1, <1>2 DEF Commands
<1>4. mouse' = <<"ack">>
  BY <1>1, <1>2, MouseBytes
<1>5. BufferAnnounced'
  BY <1>1 DEF CalmInv, BufferAnnounced, FromMouse
<1>6. ConfigFlow'
  BY <1>1 DEF CalmInv, ConfigFlow
<1>7. packet' = Acks(sent' - 1) /\ ~FromMouse(buf')
  BY <1>1, <1>2, <1>3 DEF FromMouse
<1>8. MouseFlow'
  BY <1>1, <1>3, <1>4, <1>7 DEF MouseFlow
<1> QED BY <1>1, <1>5, <1>6, <1>8 DEF CalmInv

(* The mouse's handler took the answer; the polling loop runs out. *)
LEMMA ReadAnswerInv == CalmInv /\ Calm /\ ReadAnswer => CalmInv'
<1> SUFFICES ASSUME CalmInv, Calm, ReadAnswer PROVE CalmInv'
  OBVIOUS
<1>1. irr = {} /\ buf = Empty /\ ~FromMouse(buf) /\ buf # "ack"
  BY PolledEmpty DEF CalmInv, ReadAnswer, FromMouse, Empty
<1>2. main = "answer" /\ main' = IF sent = Commands THEN "done" ELSE "command"
  BY DEF ReadAnswer
<1>3. buf' = Empty /\ UNCHANGED <<irr, isr1, isr2, cfg, scancodes, asked, mouse, sent, packet, event>>
  BY DEF ReadAnswer, hw, queues, mouse_read, TakesByte
<1>4. "ack" \notin ToSet(mouse)
  BY <1>1 DEF ReadAnswer, mouse_read, mouse_wait
<1>5. mouse # <<"ack">>
  <2>1. ToSet(<<"ack">>) = {"ack"}
    BY DEF ToSet
  <2> QED BY <1>4, <2>1
<1>6. BufferAnnounced'
  BY <1>1, <1>3 DEF CalmInv, BufferAnnounced, FromMouse
<1>7. ConfigFlow'
  BY <1>1, <1>2, <1>3 DEF CalmInv, ConfigFlow
<1>8. MouseFlow'
  <2>1. CASE sent = Commands
    BY <2>1, <1>1, <1>2, <1>3, <1>5 DEF CalmInv, MouseFlow, FromMouse, Empty
  <2>2. CASE sent # Commands
    <3>1. sent \in 1 .. Commands /\ packet = Acks(sent) /\ mouse = <<>>
      BY <2>2, <1>1, <1>2, <1>5 DEF CalmInv, MouseFlow
    <3>2. sent' \in 0 .. Commands - 1 /\ main' = "command"
      BY <2>2, <3>1, <1>2, <1>3 DEF Commands
    <3> QED BY <3>1, <3>2, <1>1, <1>3 DEF MouseFlow
  <2> QED BY <2>1, <2>2
<1> QED BY <1>3, <1>6, <1>7, <1>8 DEF CalmInv

LEMMA IrqStepInv == IrqInv /\ [IrqNext]_irqVars => IrqInv'
<1> SUFFICES ASSUME IrqInv, [IrqNext]_irqVars PROVE IrqInv'
  OBVIOUS
<1>1. env' = env
  BY DEF IrqNext, irqVars, TimerRequest, Key, Move, LoadScancode, LoadConfig, LoadMouse, Load,
         handle_cpu_interrupt, Main, AskConfig, ReadConfig, mouse_write, ReadAnswer
<1>2. SUFFICES ASSUME Calm PROVE CalmInv'
  BY <1>1 DEF IrqInv, Calm
<1>3. CalmInv
  BY <1>2 DEF IrqInv
<1>4. CASE UNCHANGED irqVars
  BY <1>3, <1>4, ZenonT(60) DEF CalmInv, BufferAnnounced, ConfigFlow, MouseFlow, FromMouse, irqVars, hw, port, queues
<1>5. ASSUME NEW line \in {0, KBD, CASCADE}, handle_cpu_interrupt(line)
      PROVE  CalmInv'
  <2>1. Served(line) /\ UNCHANGED <<cfg, queues, main, sent, env>>
    BY <1>5 DEF handle_cpu_interrupt
  <2>2. CASE line = 0 /\ timer_handle_interrupt
    BY <1>2, <1>3, <1>5, <2>1, <2>2, TimerHandled DEF handle_cpu_interrupt, CASCADE
  <2>3. CASE line = KBD /\ keyboard_interrupt_handler
    BY <1>2, <1>3, <1>5, <2>1, <2>3, KeyboardHandled DEF handle_cpu_interrupt, KBD, CASCADE
  <2>4. CASE line = CASCADE /\ mouse_interrupt_handler
    BY <1>2, <1>3, <1>5, <2>1, <2>4, MouseHandled DEF handle_cpu_interrupt
  <2> QED BY <1>5, <2>2, <2>3, <2>4 DEF handle_cpu_interrupt
<1> QED BY <1>2, <1>3, <1>4, <1>5, TimerRequestInv, KeyInv, MoveInv, LoadScancodeInv, LoadConfigInv,
           LoadMouseInv, AskConfigInv, ReadConfigInv, MouseWriteInv, ReadAnswerInv
        DEF IrqNext, Main

LEMMA IrqInvHolds == IrqSpec => []IrqInv
<1>1. IrqInv /\ [IrqNext]_irqVars => IrqInv'
  BY IrqStepInv
<1> QED BY <1>1, IrqInitInv, PTL DEF IrqSpec

(* What the handler holds is always the beginning of a packet. *)
LEMMA InvPacketsWhole == IrqInv => PacketsWhole
<1> SUFFICES ASSUME IrqInv, Calm PROVE PacketsWhole
  BY DEF PacketsWhole
<1>1. packet \in {<<>>, <<"ack">>, <<"ack", "ack">>, <<"p1">>, <<"p1", "p2">>}
  BY DEF IrqInv, CalmInv, MouseFlow, Acks
<1>2. ASSUME NEW a, NEW b
      PROVE  IsPrefix(<<>>, <<a, b>>) /\ IsPrefix(<<a>>, <<a, b>>) /\ IsPrefix(<<a, b>>, <<a, b>>)
  BY DEF IsPrefix
<1>3. IsPrefix(packet, <<"ack", "ack">>) \/ IsPrefix(packet, <<"p1", "p2">>)
  BY <1>1, <1>2
<1> QED BY <1>3 DEF IrqInv, CalmInv, PacketsWhole, Report

(* In calm surroundings the mouse's interrupt handler acts on whole packets *)
(* only and is never in the middle of one when another begins, however      *)
(* keys, ticks, reports and the polling of mouse_init interleave, for any   *)
(* number of keys (mouse_interrupt_handler, mouse_init, mouse_read).        *)
THEOREM PacketsCorrect == IrqSpec => []PacketsWhole
<1>1. IrqInv => PacketsWhole
  BY InvPacketsWhole
<1> QED BY <1>1, IrqInvHolds, PTL
=============================================================================
