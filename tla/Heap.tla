-------------------------------- MODULE Heap --------------------------------
(***************************************************************************)
(* The kernel heap: heap.c (best-fit malloc, free with coalescing) and the *)
(* accounting layer on top of it, kernel_memory.c.                         *)
(*                                                                         *)
(* Addresses are byte offsets from start_heap and sizes are bytes, with    *)
(* the real header size and alignment.  `blk' holds the headers of the     *)
(* doubly linked list.  A header that a merge absorbs leaves the list but  *)
(* its bytes stay in memory, magic intact and used = 0; `stale' holds      *)
(* those headers for as long as no byte of them has been overwritten, so   *)
(* that freeing the same pointer twice can be modelled.                    *)
(*                                                                         *)
(* malloc is one action per outcome.  free is one action per iteration of  *)
(* its two merge loops: pc says which loop it is in, cur is the block the  *)
(* loop stands on and merged is the loop's counter.                        *)
(***************************************************************************)
EXTENDS Integers, FiniteSets

CONSTANTS
  Arena,        \* KERNEL_MEMORY_SIZE_HEAP: bytes from start_heap to its end
  Requests,     \* the sizes that callers of kernel_memory_create pass
  Counted,      \* the <<size, count>> pairs that callers of kernel_memory_alloc pass
  DoubleFree,   \* may a caller free a pointer that it has freed already?
  MaxUsed,      \* bound: no allocation once used_heap has passed MaxUsed
  U64           \* 2^64, or a smaller power of two in a model

HDR == 40       \* sizeof(heap_block_t)
ALIGN == 16
NULL == -1

ASSUME HeapAssumption ==
  /\ Arena \in Nat /\ Arena >= HDR
  /\ Requests \subseteq Nat
  /\ Counted \subseteq Nat \X Nat
  /\ DoubleFree \in BOOLEAN
  /\ MaxUsed \in Nat
  /\ U64 \in Nat /\ U64 >= ALIGN

(* The bound on used_heap leaves the counter room for one more allocation   *)
(* of the whole arena.                                                      *)
ASSUME CounterAssumption == MaxUsed + Arena < U64

VARIABLES
  blk,          \* the block list: address -> header
  stale,        \* absorbed headers still intact in memory: address -> size
  req,          \* auxiliary: what the owner of each used block asked for
  used_heap,    \* kernel_memory->used_heap
  pc, cur, merged

vars == <<blk, stale, req, used_heap, pc, cur, merged>>

Header == [size : Nat, used : BOOLEAN, next : Nat \cup {NULL}, prev : Nat \cup {NULL}]

(* The first byte after block a. *)
End(a) == a + HDR + blk[a].size

Round16(n) == (((n + ALIGN - 1) % U64) \div ALIGN) * ALIGN

Blocks == DOMAIN blk
Used == {a \in Blocks : blk[a].used}
Free == Blocks \ Used

Init ==
  /\ blk = [a \in {0} |-> [size |-> Arena - HDR, used |-> FALSE, next |-> NULL, prev |-> NULL]]
  /\ stale = [a \in {} |-> 0]
  /\ req = [a \in {} |-> 0]
  /\ used_heap = 0
  /\ pc = "idle" /\ cur = NULL /\ merged = 0

-----------------------------------------------------------------------------
(* malloc *)

(* The list is in address order (ListInv), so the first block of the least *)
(* sufficient size that the walk meets is the one with the lowest address. *)
BestFit(b, size) ==
  /\ b \in Free /\ blk[b].size >= size
  /\ \A c \in Free : blk[c].size >= size =>
       \/ blk[c].size > blk[b].size
       \/ blk[c].size = blk[b].size /\ b <= c

Splits(b, size) == blk[b].size >= size + HDR + ALIGN

(* The headers after best_fit is granted with a remainder split off. *)
SplitBlock(b, size) ==
  LET n == b + HDR + size
  IN  [a \in Blocks \cup {n} |->
         IF a = n THEN [size |-> blk[b].size - size - HDR, used |-> FALSE,
                        next |-> blk[b].next, prev |-> b]
         ELSE IF a = b THEN [size |-> size, used |-> TRUE,
                             next |-> n, prev |-> blk[b].prev]
         ELSE IF a = blk[b].next THEN [blk[a] EXCEPT !.prev = n]
         ELSE blk[a]]

(* The headers after best_fit is granted whole. *)
WholeBlock(b) == [blk EXCEPT ![b].used = TRUE]

Granted(b, size) == IF Splits(b, size) THEN SplitBlock(b, size) ELSE WholeBlock(b)

(* The stale headers that granting b leaves intact: those clear of the bytes *)
(* the new owner may write and of the header that the split writes.          *)
Intact(b, size) ==
  LET top == IF Splits(b, size) THEN b + 2 * HDR + size ELSE End(b)
      out == {a \in DOMAIN stale : a + HDR <= b \/ top <= a}
  IN  [a \in out |-> stale[a]]

GrantedSize(b, size) == IF Splits(b, size) THEN size ELSE blk[b].size

Malloc(want) ==
  LET size == Round16(want) IN
  \E b \in Free :
    /\ BestFit(b, size)
    /\ blk' = Granted(b, size)
    /\ stale' = Intact(b, size)
    /\ req' = [a \in DOMAIN req \cup {b} |-> IF a = b THEN want ELSE req[a]]
    /\ used_heap' = (used_heap + GrantedSize(b, size) + HDR) % U64
    /\ UNCHANGED <<cur, merged>>

MallocFails(want) ==
  /\ want = 0 \/ \A b \in Free : blk[b].size < Round16(want)
  /\ UNCHANGED vars

kernel_memory_create(want) ==
  /\ pc = "idle"
  /\ used_heap <= MaxUsed
  /\ \/ want # 0 /\ Malloc(want) /\ UNCHANGED pc
     \/ MallocFails(want)

(* The memset after malloc clears `total' bytes.  When rounding `total' up  *)
(* wrapped to 0, that runs past the heap's mapping: a page fault, a panic.  *)
kernel_memory_alloc(size, count) ==
  LET total == (size * count) % U64 IN
  /\ pc = "idle"
  /\ used_heap <= MaxUsed
  /\ \/ /\ size # 0 /\ total # 0 /\ Malloc(total)
        /\ pc' = IF Round16(total) < total THEN "panic" ELSE "idle"
     \/ size = 0 /\ UNCHANGED vars
     \/ MallocFails(total)

-----------------------------------------------------------------------------
(* free *)

(* A pointer whose block is no longer used: free() reads a header with the *)
(* magic intact and used = 0, warns and returns 0; kernel_memory_free has  *)
(* subtracted the size it found there already.                             *)
FreeAgain(a) ==
  /\ DoubleFree /\ pc = "idle"
  /\ a \in Free \cup DOMAIN stale
  /\ used_heap' = (used_heap - (IF a \in Free THEN blk[a].size ELSE stale[a])) % U64
  /\ UNCHANGED <<blk, stale, req, pc, cur, merged>>

kernel_memory_free(a) ==
  /\ pc = "idle"
  /\ a \in Used
  /\ used_heap' = (used_heap - blk[a].size) % U64
  /\ blk' = [blk EXCEPT ![a].used = FALSE]
  /\ req' = [x \in DOMAIN req \ {a} |-> req[x]]
  /\ pc' = "forward" /\ cur' = a /\ merged' = 0
  /\ UNCHANGED stale

(* Mutant: takes any neighbour for free. *)
IsFreeUnchecked(p) == p # NULL

IsFree(p) == p # NULL /\ ~blk[p].used

(* Mutant: forgets to point the block after the two back to `low'. *)
JoinBlocksOneWay(low, high) ==
  [a \in Blocks \ {high} |->
     IF a = low THEN [blk[low] EXCEPT !.size = blk[low].size + HDR + blk[high].size,
                                      !.next = blk[high].next]
     ELSE blk[a]]

(* The headers after `low' has taken over the bytes of its successor. *)
JoinBlocks(low, high) ==
  [a \in Blocks \ {high} |->
     IF a = low THEN [blk[low] EXCEPT !.size = blk[low].size + HDR + blk[high].size,
                                      !.next = blk[high].next]
     ELSE IF a = blk[high].next THEN [blk[a] EXCEPT !.prev = low]
     ELSE blk[a]]

(* One iteration of either loop.  The header of `high' goes stale. *)
Absorb(low, high) ==
  /\ blk' = JoinBlocks(low, high)
  /\ stale' = [a \in DOMAIN stale \cup {high} |->
                 IF a = high THEN blk[high].size ELSE stale[a]]
  /\ merged' = merged + 1
  /\ UNCHANGED <<req, used_heap, pc>>

MergeForward ==
  /\ pc = "forward"
  /\ IsFree(blk[cur].next)
  /\ Absorb(cur, blk[cur].next)
  /\ UNCHANGED cur

ForwardDone ==
  /\ pc = "forward"
  /\ ~IsFree(blk[cur].next)
  /\ pc' = "backward"
  /\ UNCHANGED <<blk, stale, req, used_heap, cur, merged>>

MergeBackward ==
  /\ pc = "backward"
  /\ IsFree(blk[cur].prev)
  /\ Absorb(blk[cur].prev, cur)
  /\ cur' = blk[cur].prev

(* Mutant: takes off one header too many. *)
FreeReturnsOneMore ==
  /\ pc = "backward"
  /\ ~IsFree(blk[cur].prev)
  /\ used_heap' = (used_heap - HDR * (merged + 1)) % U64
  /\ pc' = "idle" /\ cur' = NULL /\ merged' = 0
  /\ UNCHANGED <<blk, stale, req>>

(* Mutant: starts over as long as something was merged, and never resets it. *)
FreeReturnsStartsOver ==
  /\ pc = "backward"
  /\ ~IsFree(blk[cur].prev)
  /\ IF merged > 0 THEN pc' = "forward" /\ UNCHANGED <<used_heap, cur, merged>>
     ELSE pc' = "idle" /\ cur' = NULL /\ merged' = 0 /\ UNCHANGED used_heap
  /\ UNCHANGED <<blk, stale, req>>

FreeReturns ==
  /\ pc = "backward"
  /\ ~IsFree(blk[cur].prev)
  /\ used_heap' = (used_heap - HDR * merged) % U64
  /\ pc' = "idle" /\ cur' = NULL /\ merged' = 0
  /\ UNCHANGED <<blk, stale, req>>

(* The panic screen halts for good. *)
Panicked == pc = "panic" /\ UNCHANGED vars

Merging == MergeForward \/ ForwardDone \/ MergeBackward \/ FreeReturns

Next ==
  \/ \E want \in Requests : kernel_memory_create(want)
  \/ \E p \in Counted : kernel_memory_alloc(p[1], p[2])
  \/ \E a \in Blocks : kernel_memory_free(a)
  \/ \E a \in Blocks \cup DOMAIN stale : FreeAgain(a)
  \/ Merging
  \/ Panicked

(* free runs to its end once it has been called. *)
Spec == Init /\ [][Next]_vars /\ WF_vars(Merging)

-----------------------------------------------------------------------------
(* The types of the variables. *)
TypeOK ==
  /\ Blocks \subseteq Nat
  /\ blk \in [Blocks -> Header]
  /\ DOMAIN stale \subseteq Nat
  /\ stale \in [DOMAIN stale -> Nat]
  /\ DOMAIN req = Used
  /\ req \in [Used -> Nat]
  /\ used_heap \in 0 .. U64 - 1
  /\ pc \in {"idle", "forward", "backward", "panic"}
  /\ merged \in Nat
  /\ IF pc \in {"forward", "backward"} THEN cur \in Free ELSE cur = NULL

(* The list is well formed: it starts at the heap's first byte, every block *)
(* ends where its successor starts or at the end of the arena, and next and *)
(* prev are inverse.                                                        *)
ListInv ==
  /\ 0 \in Blocks /\ blk[0].prev = NULL
  /\ \A a \in Blocks :
       /\ End(a) <= Arena
       /\ blk[a].next = IF End(a) = Arena THEN NULL ELSE End(a)
       /\ End(a) # Arena => End(a) \in Blocks /\ blk[End(a)].prev = a
       /\ a # 0 => blk[a].prev \in Blocks /\ End(blk[a].prev) = a

(* No two blocks overlap, whatever sequence of splits and merges made them. *)
Disjoint == \A a, b \in Blocks : a < b => End(a) <= b

(* Two neighbours are never both free, except at the block that a free in   *)
(* progress is still merging: so the heap never fails an allocation because *)
(* a hole was left in two pieces.                                           *)
Coalesced ==
  \A a \in Free : blk[a].next \in Free =>
    \/ pc \in {"forward", "backward"} /\ blk[a].next = cur
    \/ pc = "forward" /\ a = cur

(* A header that a merge absorbed and that still has its magic lies wholly  *)
(* inside a free block: freeing its pointer again reads memory that nobody  *)
(* owns, finds used = 0 and is turned down.                                 *)
StaleInFree ==
  \A s \in DOMAIN stale : \E a \in Free : a + HDR <= s /\ s + HDR <= End(a)

(* The owner of a block has at least the bytes it asked for, unless the     *)
(* request was so near 2^64 that rounding it up wrapped to 0.               *)
RequestHonoured ==
  \A a \in Used : blk[a].size >= req[a] \/ req[a] > U64 - ALIGN

(* A used block keeps its place and its size until it is the argument of a  *)
(* free: no malloc, merge or rejected free moves, resizes or releases it.   *)
UsedBlocksStep ==
  \A a \in Used : \/ pc = "idle" /\ cur' = a
                  \/ a \in Used' /\ blk'[a].size = blk[a].size
UsedBlocksStay == [][UsedBlocksStep]_vars

(* Blocks start at least a header apart, so of the arena's slots of HDR     *)
(* bytes each holds the start of at most one: the bytes in use are summed   *)
(* slot by slot.                                                            *)
Slots == Arena \div HDR

UsedIn(n) == {a \in Used : a \div HDR = n}

UsedSizes ==
  [n \in 0 .. Slots - 1 |-> IF UsedIn(n) = {} THEN 0 ELSE blk[CHOOSE a \in UsedIn(n) : TRUE].size]

Sums(g) ==
  LET sum[n \in 0 .. Slots] == IF n = 0 THEN 0 ELSE sum[n - 1] + g[n - 1]
  IN  sum

UsedBytes == Sums(UsedSizes)[Slots]

(* used_heap is at least the bytes in use plus the headers that splitting   *)
(* added (it may exceed that: granting a block whole adds a header that no  *)
(* merge gives back).                                                       *)
Covers == used_heap >= UsedBytes + HDR * (Cardinality(Blocks) - 1 + merged)

(* Only freeing a pointer twice can take the counter below that: no other   *)
(* call or merge makes it too small, so while callers free each pointer     *)
(* once it never wraps below zero.                                          *)
CoversStep == Covers /\ (\A a \in Blocks \cup DOMAIN stale : ~FreeAgain(a)) => Covers'
CounterCovers == [][CoversStep]_vars

(* A call of free() always returns. *)
FreeTerminates == (pc = "forward") ~> (pc = "idle")

(* What keeps allocations apart and usable, after every sequence of calls    *)
(* and in the middle of every merge: the conjunction of the five above.     *)
HeapInv == ListInv /\ Disjoint /\ Coalesced /\ StaleInFree /\ RequestHonoured
=============================================================================
