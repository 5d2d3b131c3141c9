------------------------------- MODULE Paging -------------------------------
(***************************************************************************)
(* Virtual memory (mem/paging/paging.c) on top of the frame allocator: the *)
(* four-level page tables inherited from the boot loader, extended page by *)
(* page.  A virtual page is its number; Idx(v, k) is its index at level k. *)
(* Table entries are frame numbers, NONE when not present; `huge' holds    *)
(* the entries with PTE_HUGE set, of level 1 (2 MB) and 2 (1 GB), which    *)
(* paging_map_page does not look at.                                       *)
(*                                                                         *)
(* The kernel reaches its tables, and the records of the frame allocator,  *)
(* through the direct map of the boot loader, in which HEAP_START lies     *)
(* too.  When a mapping takes one of those frames out of the direct map,   *)
(* or a write meant for a page of a region or for a table goes to one, the *)
(* tables are no longer what the calls made of them: the model stops.      *)
(***************************************************************************)
EXTENDS PhysMem

CONSTANTS
  R,           \* entries per table (512)
  Root,        \* the frame in CR3
  BootTables,  \* the tables the boot loader left: frame -> index -> frame
  BootHuge,    \* its entries that map a huge page: {<<table, index>>}
  Hhdm,        \* the page where its direct map of the frames begins
  Regions,     \* what the kernel maps: {<<first virtual page, pages>>}
  Devices,     \* frames of devices, mapped where the direct map has them
  MaxOthers    \* bound: runs that other callers of the frame allocator hold at a time

NONE == -1

ASSUME PagingAssumption ==
  /\ MaxOthers \in Nat
  /\ R \in Nat \ {0} /\ Root \in DOMAIN BootTables
  /\ BootTables \in [DOMAIN BootTables -> [0 .. R - 1 -> Nat \cup {NONE}]]
  /\ Regions \subseteq Nat \X Nat /\ Devices \subseteq Nat /\ Hhdm \in Nat

(* The index of a page at level k; an entry of a table at level k stands    *)
(* for Span(k) pages.                                                       *)
Span(k) == IF k = 0 THEN 1 ELSE IF k = 1 THEN R ELSE IF k = 2 THEN R * R ELSE R * R * R
Idx(v, k) == (v \div Span(k)) % R

(* The tables that a walk through the tables p meets for page v, NONE where *)
(* it ends.  Under a huge page of level 2, PdOf is the first frame of the   *)
(* page, and under one of level 1 PtOf is.                                  *)
Follow(p, t, i) == IF t = NONE THEN NONE ELSE p[t][i]
PdptOf(p, v) == Follow(p, Root, Idx(v, 3))
PdOf(p, v) == Follow(p, PdptOf(p, v), Idx(v, 2))
PtOf(p, v) == Follow(p, PdOf(p, v), Idx(v, 1))
TableAt(p, v, k) == IF k = 3 THEN Root ELSE IF k = 2 THEN PdptOf(p, v) ELSE IF k = 1 THEN PdOf(p, v) ELSE PtOf(p, v)

(* A table at level 3, 2 or 1 names, in each entry that is present and no   *)
(* huge page, a table of the level below, and none is named twice.          *)
Names(p, level, t, i) == t \in DOMAIN p /\ i \in 0 .. R - 1 /\ level[t] > 0 /\ p[t][i] # NONE /\ <<t, i>> \notin BootHuge
IsTree(p, level) ==
  /\ Root \in DOMAIN p /\ level[Root] = 3
  /\ \A t \in DOMAIN p, i \in 0 .. R - 1 :
       Names(p, level, t, i) => p[t][i] \in DOMAIN p /\ level[p[t][i]] = level[t] - 1
  /\ \A t, s \in DOMAIN p, i, j \in 0 .. R - 1 :
       Names(p, level, t, i) /\ Names(p, level, s, j) /\ p[t][i] = p[s][j] => t = s /\ i = j
  /\ \A e \in BootHuge : /\ e[1] \in DOMAIN p /\ e[2] \in 0 .. R - 1
                         /\ level[e[1]] \in {1, 2} /\ p[e[1]][e[2]] # NONE

(* A huge page stands on the way to page v: of level 2, of any level. *)
Gigantic(p, v) == <<PdptOf(p, v), Idx(v, 2)>> \in BootHuge
UnderHuge(p, v) == Gigantic(p, v) \/ <<PdOf(p, v), Idx(v, 1)>> \in BootHuge

(* What the processor finds for page v in the tables p. *)
Translate(p, v) ==
  IF Gigantic(p, v) THEN PdOf(p, v) + (v % (R * R))
  ELSE IF UnderHuge(p, v) THEN PtOf(p, v) + Idx(v, 0)
  ELSE Follow(p, PtOf(p, v), Idx(v, 0))

Direct(f) == Hhdm + f

(* What the boot loader promises: its tables are a tree, in memory that it  *)
(* does not report as usable, and the direct map has them and all usable    *)
(* frames.                                                                  *)
ASSUME BootTablesAssumption ==
  /\ DOMAIN BootTables \subseteq Nat
  /\ \E level \in [DOMAIN BootTables -> 0 .. 3] : IsTree(BootTables, level)
  /\ \A m \in MemMaps : \A i \in DOMAIN m : m[i].type = "usable" => EntryFrames(m[i]) \cap DOMAIN BootTables = {}
  /\ \A f \in DOMAIN BootTables : Translate(BootTables, Direct(f)) = f
  /\ \A m \in MemMaps : \A i \in DOMAIN m :
       m[i].type = "usable" => \A f \in EntryFrames(m[i]) : Translate(BootTables, Direct(f)) = f

(* What the kernel maps has page numbers of four indices. *)
KernelPages == (UNION {g[1] .. g[1] + g[2] - 1 : g \in Regions}) \cup {Direct(d) : d \in Devices}
ASSUME KernelPagesAssumption == \A v \in KernelPages : v < R * R * R * R

VARIABLES
  pt,       \* page tables in memory: frame -> index -> frame or NONE
  huge,     \* PD entries with PTE_HUGE
  job,      \* the map_region call in progress, and how far paging_map_page has walked
  strayed,  \* auxiliary: the kernel's frames were hit, or are reached no more
  regions   \* auxiliary: the regions mapped so far, <<virt, phys, pages>>

pagevars == <<physvars, pt, huge, job, strayed, regions>>

NoJob == [virt |-> 0, phys |-> 0, size |-> 0, at |-> 0, lvl |-> 3, tbl |-> Root, active |-> FALSE]
EmptyTable == [i \in 0 .. R - 1 |-> NONE]

PagingInit ==
  /\ PhysInit
  /\ pt = BootTables /\ huge = BootHuge
  /\ job = NoJob /\ strayed = FALSE /\ regions = {}

(* The frames that hold the tables and the records of the frame allocator.  *)
(* The direct map leads to each, and no page of a region does.              *)
Tables == DOMAIN pt
OwnFrames == Tables \cup Tracking
Undisturbed ==
  /\ \A f \in OwnFrames : Translate(pt, Direct(f)) = f
  /\ \A r \in regions : \A i \in 0 .. r[3] - 1 : Translate(pt, r[1] + i) \notin OwnFrames

-----------------------------------------------------------------------------
(* paging_map_page walks down from the root.  At levels 3, 2 and 1 it goes  *)
(* to the table that the entry names; an entry for a huge page is taken for *)
(* one although its frame holds data.  Whatever it finds there below level  *)
(* 2 is taken for entries, and below level 1 it will write one.             *)
Page == job.virt + job.at
Slot == pt[job.tbl][Idx(Page, job.lvl)]
Walking == phase = "up" /\ ~strayed /\ job.active /\ job.at < job.size /\ job.lvl > 0
Astray == <<job.tbl, Idx(Page, job.lvl)>> \in huge /\ (job.lvl = 2 \/ Slot \in OwnFrames)

WalkDown ==
  /\ Walking /\ Slot # NONE /\ ~Astray
  /\ job' = [job EXCEPT !.tbl = Slot, !.lvl = job.lvl - 1]
  /\ UNCHANGED <<physvars, pt, huge, strayed, regions>>

WalkAstray ==
  /\ Walking /\ Slot # NONE /\ Astray
  /\ strayed' = TRUE
  /\ UNCHANGED <<physvars, pt, huge, job, regions>>

(* Mutant: the new table's frame is not marked used. *)
AddTableUnmarked ==
  /\ Walking /\ Slot = NONE
  /\ \E f \in FirstFit(bitmap, 1) :
       /\ runs' = runs \cup {<<f, 1>>}
       /\ pt' = [t \in DOMAIN pt \cup {f} |->
                   IF t = f THEN EmptyTable
                   ELSE IF t = job.tbl THEN [pt[t] EXCEPT ![Idx(Page, job.lvl)] = f]
                   ELSE pt[t]]
       /\ job' = [job EXCEPT !.tbl = f, !.lvl = job.lvl - 1]
  /\ UNCHANGED <<memmap, phase, physmem_total, bitmap, flags, track_at, huge, regions>>
  /\ strayed' = ~Undisturbed'

(* An entry that is not present gets a table, allocated and cleared. *)
AddTable ==
  /\ Walking /\ Slot = NONE
  /\ \E f \in FirstFit(bitmap, 1) :
       /\ physmem_addr_mark_used(f, 1) /\ runs' = runs \cup {<<f, 1>>}
       /\ pt' = [t \in DOMAIN pt \cup {f} |->
                   IF t = f THEN EmptyTable
                   ELSE IF t = job.tbl THEN [pt[t] EXCEPT ![Idx(Page, job.lvl)] = f]
                   ELSE pt[t]]
       /\ job' = [job EXCEPT !.tbl = f, !.lvl = job.lvl - 1]
  /\ UNCHANGED <<memmap, phase, physmem_total, track_at, huge, regions>>
  /\ strayed' = ~Undisturbed'

NoFrameForTable ==
  /\ Walking /\ Slot = NONE /\ FirstFit(bitmap, 1) = {}
  /\ phase' = "panic"
  /\ UNCHANGED <<memmap, physmem_total, bitmap, flags, track_at, runs, pt, huge, job, strayed, regions>>

(* Mutant: the page counter is not advanced. *)
WriteEntryAgain ==
  /\ phase = "up" /\ ~strayed /\ job.active /\ job.at < job.size /\ job.lvl = 0
  /\ pt' = IF job.tbl \in DOMAIN pt
           THEN [pt EXCEPT ![job.tbl][Idx(Page, 0)] = job.phys + job.at] ELSE pt
  /\ job' = [job EXCEPT !.lvl = 3, !.tbl = Root]
  /\ UNCHANGED <<physvars, huge, regions>>
  /\ strayed' = ~Undisturbed'

(* Mutant: the walk goes on from the same table. *)
WriteEntrySameTable ==
  /\ phase = "up" /\ ~strayed /\ job.active /\ job.at < job.size /\ job.lvl = 0
  /\ pt' = IF job.tbl \in DOMAIN pt
           THEN [pt EXCEPT ![job.tbl][Idx(Page, 0)] = job.phys + job.at] ELSE pt
  /\ job' = [job EXCEPT !.at = job.at + 1]
  /\ UNCHANGED <<physvars, huge, regions>>
  /\ strayed' = ~Undisturbed'

(* The entry of the last level is overwritten, whatever it was.  Under a    *)
(* huge page the write goes to the page's data.                             *)
WriteEntry ==
  /\ phase = "up" /\ ~strayed /\ job.active /\ job.at < job.size /\ job.lvl = 0
  /\ pt' = IF job.tbl \in DOMAIN pt
           THEN [pt EXCEPT ![job.tbl][Idx(Page, 0)] = job.phys + job.at] ELSE pt
  /\ job' = [job EXCEPT !.at = job.at + 1, !.lvl = 3, !.tbl = Root]
  /\ UNCHANGED <<physvars, huge, regions>>
  /\ strayed' = ~Undisturbed'

paging_map_page == WalkDown \/ WalkAstray \/ AddTable \/ NoFrameForTable \/ WriteEntry

(* map_region, called with the frames to map.  paging_map_page on its own,  *)
(* as apic_init and ioapic_init call it, is a region of one page.           *)
map_region(virt, phys, n) ==
  job' = [virt |-> virt, phys |-> phys, size |-> n, at |-> 0, lvl |-> 3, tbl |-> Root, active |-> TRUE]

map_region_alloc(virt, n) ==
  /\ phase = "up" /\ ~strayed /\ ~job.active
  /\ \/ /\ n # 0
        /\ \E s \in FirstFit(bitmap, n) :
             /\ physmem_addr_mark_used(s, n) /\ runs' = runs \cup {<<s, n>>}
             /\ map_region(virt, s, n)
             /\ UNCHANGED phase
     \/ /\ n = 0 \/ FirstFit(bitmap, n) = {}
        /\ phase' = "panic" /\ UNCHANGED <<bitmap, flags, runs, job>>
  /\ UNCHANGED <<memmap, physmem_total, track_at, pt, huge, strayed, regions>>

MapDevice(frame) ==
  /\ phase = "up" /\ ~strayed /\ ~job.active
  /\ map_region(Direct(frame), frame, 1)
  /\ UNCHANGED <<physvars, pt, huge, strayed, regions>>

(* map_region's memset, which clears what the pages lead to, and its        *)
(* return; from now on the pages are written to.                            *)
MapRegionDone ==
  /\ phase = "up" /\ ~strayed /\ job.active /\ job.at = job.size
  /\ regions' = regions \cup {<<job.virt, job.phys, job.size>>}
  /\ job' = NoJob
  /\ UNCHANGED <<physvars, pt, huge>>
  /\ strayed' = ~Undisturbed'

(* Other callers of the frame allocator take runs and give them back. *)
OthersRuns == {r \in runs : r[1] \notin DOMAIN pt /\ \A g \in regions : g[2] # r[1]}
PhysCall ==
  /\ ~job.active /\ ~strayed
  /\ \/ physmem_init
     \/ Cardinality(OthersRuns) < MaxOthers /\ \E c \in Counts : physmem_alloc_to(c)
     \/ \E r \in OthersRuns : physmem_free_to(r)
  /\ UNCHANGED <<pt, huge, job, strayed, regions>>

PagingPanicked == phase = "panic" /\ UNCHANGED pagevars

Unmapped(v, n) == \A r \in regions : r[1] + r[3] <= v \/ v + n <= r[1]

PagingNext ==
  \/ PhysCall
  \/ \E g \in Regions : Unmapped(g[1], g[2]) /\ map_region_alloc(g[1], g[2])
  \/ paging_map_page
  \/ MapRegionDone
  \/ \E d \in Devices : Unmapped(Direct(d), 1) /\ MapDevice(d)
  \/ PagingPanicked

PagingSpec == PagingInit /\ [][PagingNext]_pagevars /\ WF_pagevars(paging_map_page \/ MapRegionDone)

-----------------------------------------------------------------------------
(* The page is under a huge page of the boot loader. *)
LoaderHuge(v) == UnderHuge(BootTables, v)

(* Once map_region has returned, and for good, every page of the region     *)
(* leads to the frame it was given: later mappings, which may share tables  *)
(* with it or add new ones, never undo it.  Under a huge page of the boot   *)
(* loader the call has no effect, and the page leads where it did before.   *)
RegionsStayMapped ==
  \A r \in regions : \A i \in 0 .. r[3] - 1 :
    Translate(pt, r[1] + i) = IF LoaderHuge(r[1] + i) THEN Translate(BootTables, r[1] + i) ELSE r[2] + i

(* The entries of the tables in S that name tables, and what they name;     *)
(* those that can be reached above the last level.                          *)
Naming(S) == {e \in S \X (0 .. R - 1) : pt[e[1]][e[2]] # NONE /\ e \notin huge}
Below(S) == {pt[e[1]][e[2]] : e \in Naming(S)}
Upper == {Root} \cup Below({Root}) \cup Below(Below({Root}))

(* Every table that the kernel added belongs to it: it is a one-frame run   *)
(* of the allocator, and exactly one entry names it as a table.             *)
TableTree ==
  \A t \in Tables \ DOMAIN BootTables :
    /\ <<t, 1>> \in runs
    /\ Cardinality({e \in Naming(Upper) : pt[e[1]][e[2]] = t}) = 1

(* Whatever is mapped in whatever order, with frames running out on the way *)
(* and tables shared: what was mapped stays so, and no table is shared or   *)
(* lost (paging_map_page, map_region).  Nothing is promised once the        *)
(* tables or the records were hit, or taken out of the direct map, because  *)
(* a region lies over the direct map of their frames.                       *)
MappingsSound == ~strayed => RegionsStayMapped /\ TableTree

(* Page v leads to frame f through a table of the last level. *)
Leads(v, f) == PtOf(pt, v) # NONE /\ pt[PtOf(pt, v)][Idx(v, 0)] = f

PtTypeOK ==
  /\ DOMAIN pt \subseteq Nat /\ DOMAIN BootTables \subseteq DOMAIN pt
  /\ pt \in [DOMAIN pt -> [0 .. R - 1 -> Nat \cup {NONE}]]
  /\ huge = BootHuge

(* The tables stay a tree, whose new ones are the kernel's own, and the     *)
(* pages under huge pages are those of the boot loader.                     *)
TreeKept == \E level \in [DOMAIN pt -> 0 .. 3] : IsTree(pt, level)
TablesOwned ==
  \A t \in Tables \ DOMAIN BootTables : <<t, 1>> \in runs /\ \E e \in Naming(Upper) : pt[e[1]][e[2]] = t
HugeKept ==
  \A v \in KernelPages : /\ UnderHuge(pt, v) <=> LoaderHuge(v)
                         /\ LoaderHuge(v) => Translate(pt, v) = Translate(BootTables, v)

Jobs == [virt : Nat, phys : Nat, size : Nat, at : Nat, lvl : 0 .. 3, tbl : Nat, active : BOOLEAN]

(* The walk in progress is at the table it has come to, and the pages before *)
(* it are mapped.                                                           *)
JobInv ==
  /\ job \in Jobs
  /\ job.active =>
       /\ job.at <= job.size /\ (job.at = job.size => job.lvl = 3)
       /\ job.virt .. job.virt + job.size - 1 \subseteq KernelPages
       /\ Unmapped(job.virt, job.size)
       /\ job.tbl = TableAt(pt, Page, job.lvl)
       /\ job.lvl < 2 => ~Gigantic(pt, Page)
       /\ job.lvl = 0 /\ UnderHuge(pt, Page) => job.tbl \notin Tables
       /\ \A i \in 0 .. job.at - 1 : LoaderHuge(job.virt + i) \/ Leads(job.virt + i, job.phys + i)

RegionsInv ==
  \A r \in regions :
    /\ r \in Nat \X Nat \X Nat /\ r[1] .. r[1] + r[3] - 1 \subseteq KernelPages
    /\ \A i \in 0 .. r[3] - 1 : LoaderHuge(r[1] + i) \/ Leads(r[1] + i, r[2] + i)

(* What every step of paging preserves. *)
PagingInv == FramesInv /\ PtTypeOK /\ TreeKept /\ TablesOwned /\ HugeKept /\ JobInv /\ RegionsInv

(* A region that is being mapped gets mapped, the kernel panics, or its own *)
(* tables or records were hit (paging_map_page, map_region).                *)
MappingEnds == job.active ~> (~job.active \/ phase = "panic" \/ strayed)
=============================================================================
