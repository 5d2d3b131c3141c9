----------------------------- MODULE HeapProofs -----------------------------
(***************************************************************************)
(* Proofs about Heap for every arena, every set of requests and with or    *)
(* without double frees: the list of blocks stays a tiling of the arena,   *)
(* and the counter of used bytes covers it.                                *)
(***************************************************************************)
EXTENDS Heap, Loops, FiniteSetTheorems, TLAPS

-----------------------------------------------------------------------------
(* The arithmetic of Round16 and of the counter. *)

(* The remainder by 2^64 is a u64. *)
LEMMA ModRange == \A x \in Int : x % U64 \in 0 .. U64 - 1
  BY HeapAssumption DEF ALIGN

(* A number below 2^64 is its own remainder. *)
LEMMA ModSmall == \A x \in 0 .. U64 - 1 : x % U64 = x
  BY HeapAssumption DEF ALIGN

(* Rounding to 16 yields a natural number, and one that is at least its     *)
(* argument unless adding 15 passes 2^64.                                   *)
LEMMA RoundSound ==
  \A n \in Nat : /\ Round16(n) \in Nat
                 /\ n <= U64 - ALIGN => Round16(n) >= n
<1> SUFFICES ASSUME NEW n \in Nat
             PROVE  /\ Round16(n) \in Nat
                    /\ n <= U64 - ALIGN => Round16(n) >= n
  OBVIOUS
<1> DEFINE m == (n + 15) % U64
<1>1. m \in Nat
  BY ModRange, HeapAssumption
<1>2. n <= U64 - ALIGN => m = n + 15
  BY ModSmall, HeapAssumption DEF ALIGN
<1>3. Round16(n) = (m \div 16) * 16
  BY DEF Round16, ALIGN
<1> HIDE DEF m
<1>4. (m \div 16) * 16 \in Nat /\ (m \div 16) * 16 >= m - 15
  BY <1>1
<1> QED BY <1>1, <1>2, <1>3, <1>4

-----------------------------------------------------------------------------
(* The three ways in which the list changes: a header's used flag flips, a  *)
(* block is split in two, a block absorbs its successor.                    *)

BlkType == Blocks \subseteq Nat /\ blk \in [Blocks -> Header]

Tiled == BlkType /\ ListInv /\ Disjoint

EndOf(f, a) == a + HDR + f[a].size

(* Flipping the used flag of one header leaves the tiling alone. *)
LEMMA FlipTiled ==
  ASSUME Tiled, NEW b \in Blocks, NEW u \in BOOLEAN, blk' = [blk EXCEPT ![b].used = u]
  PROVE  /\ Tiled'
         /\ Blocks' = Blocks
         /\ \A a \in Blocks : End(a)' = End(a) /\ blk'[a].size = blk[a].size
                              /\ blk'[a].next = blk[a].next /\ blk'[a].prev = blk[a].prev
                              /\ blk'[a].used = IF a = b THEN u ELSE blk[a].used
<1>1. Blocks' = Blocks /\ BlkType'
  BY DEF Tiled, BlkType, Blocks, Header
<1>2. \A a \in Blocks : /\ blk'[a].size = blk[a].size
                        /\ blk'[a].next = blk[a].next /\ blk'[a].prev = blk[a].prev
                        /\ blk'[a].used = IF a = b THEN u ELSE blk[a].used
  BY DEF Tiled, BlkType, Blocks, Header
<1>3. \A a \in Blocks : End(a)' = End(a)
  BY <1>2 DEF End
<1>4. ListInv'
  BY <1>1, <1>2, <1>3 DEF Tiled, ListInv, BlkType, Header
<1>5. Disjoint'
  BY <1>1, <1>3 DEF Tiled, Disjoint
<1> QED BY <1>1, <1>2, <1>3, <1>4, <1>5 DEF Tiled

(* Splitting b after `size' bytes puts one new block between b and its old  *)
(* successor.                                                               *)
LEMMA SplitTiled ==
  ASSUME Tiled, NEW b \in Blocks, NEW size \in Nat, Splits(b, size),
         blk' = SplitBlock(b, size)
  PROVE  LET n == b + HDR + size IN
         /\ Tiled'
         /\ n \notin Blocks /\ n \in Nat /\ Blocks' = Blocks \cup {n}
         /\ End(n)' = End(b) /\ End(b)' = n
         /\ ~blk'[n].used /\ blk'[b].used /\ blk'[b].size = size
         /\ blk'[n].next = blk[b].next /\ blk'[b].next = n
         /\ \A a \in Blocks \ {b} : /\ End(a)' = End(a) /\ blk'[a].size = blk[a].size
                                    /\ blk'[a].next = blk[a].next /\ blk'[a].used = blk[a].used
<1> DEFINE n == b + HDR + size
           nx == blk[b].next
<1> USE DEF HDR, ALIGN, NULL
<1>0. /\ Blocks \subseteq Nat /\ \A a \in Blocks : blk[a] \in Header
      /\ blk[b].size \in Nat /\ blk[b].size >= size + 56
  BY DEF Tiled, BlkType, Splits, Header
<1>1. n \in Nat /\ b < n /\ n < EndOf(blk, b)
  BY <1>0 DEF EndOf
<1>2. n \notin Blocks
  BY <1>0, <1>1 DEF Tiled, Disjoint, End, EndOf
<1>3. nx # b /\ nx # n
  BY <1>0, <1>1 DEF Tiled, ListInv, End, EndOf
<1>4. Blocks' = Blocks \cup {n}
  BY DEF SplitBlock, Blocks
<1>5. blk'[n] = [size |-> blk[b].size - size - HDR, used |-> FALSE, next |-> nx, prev |-> b]
  BY <1>2 DEF SplitBlock
<1>6. blk'[b] = [size |-> size, used |-> TRUE, next |-> n, prev |-> blk[b].prev]
  BY <1>1, <1>2 DEF SplitBlock
<1>7. \A a \in Blocks \ {b} : blk'[a] = IF a = nx THEN [blk[a] EXCEPT !.prev = n] ELSE blk[a]
  BY <1>2 DEF SplitBlock
<1>8. \A a \in Blocks \ {b} :
         /\ blk'[a].size = blk[a].size /\ blk'[a].next = blk[a].next /\ blk'[a].used = blk[a].used
         /\ blk'[a].prev = IF a = nx THEN n ELSE blk[a].prev
         /\ blk'[a] \in Header
  <2>1. \A a \in Blocks \ {b} : blk[a] \in Header /\ blk'[a] = IF a = nx THEN [blk[a] EXCEPT !.prev = n] ELSE blk[a]
    BY <1>0, <1>7
  <2>2. \A h \in Header : [h EXCEPT !.prev = n] \in Header
    BY <1>1 DEF Header
  <2>3. \A h \in Header : LET g == [h EXCEPT !.prev = n]
                          IN  g.size = h.size /\ g.next = h.next /\ g.used = h.used /\ g.prev = n
    BY DEF Header
  <2> SUFFICES ASSUME NEW a \in Blocks \ {b}
               PROVE  /\ blk'[a].size = blk[a].size /\ blk'[a].next = blk[a].next /\ blk'[a].used = blk[a].used
                      /\ blk'[a].prev = IF a = nx THEN n ELSE blk[a].prev
                      /\ blk'[a] \in Header
    OBVIOUS
  <2>4. CASE a = nx
    <3>1. blk'[a] = [blk[a] EXCEPT !.prev = n] /\ blk[a] \in Header
      BY <2>1, <2>4
    <3> QED BY <3>1, <2>2, <2>3, <2>4
  <2>5. CASE a # nx
    BY <2>1, <2>5
  <2> QED BY <2>4, <2>5
<1>9. BlkType'
  <2>1. blk'[n] \in Header /\ blk'[b] \in Header
    BY <1>0, <1>1, <1>5, <1>6 DEF Header
  <2>2. \A a \in Blocks' : blk'[a] \in Header
    BY <1>4, <1>8, <2>1
  <2>3. blk' = [a \in Blocks' |-> blk'[a]]
    BY DEF SplitBlock, Blocks
  <2> QED BY <1>0, <1>1, <1>4, <2>2, <2>3 DEF BlkType
<1>10. EndOf(blk', n) = EndOf(blk, b) /\ EndOf(blk', b) = n
  <2>1. b \in Nat /\ blk'[n].size = blk[b].size - size - 40 /\ blk'[b].size = size
    BY <1>0, <1>5, <1>6
  <2> QED BY <1>0, <2>1 DEF EndOf
<1>11. \A a \in Blocks \ {b} : EndOf(blk', a) = EndOf(blk, a)
  BY <1>8 DEF EndOf
<1>12. Disjoint'
  <2>1. \A a \in Blocks \ {b} : /\ a < n => EndOf(blk, a) <= b
                                /\ n < a => EndOf(blk, b) <= a
    BY <1>0, <1>1 DEF Tiled, Disjoint, End, EndOf
  <2>2. \A a \in Blocks : EndOf(blk, a) \in Nat /\ a < EndOf(blk, a)
    BY <1>0 DEF EndOf, Header
  <2> QED BY <1>0, <1>1, <1>4, <1>10, <1>11, <2>1, <2>2 DEF Tiled, Disjoint, End, EndOf
<1>13. ListInv'
  <2>1. 0 \in Blocks' /\ blk'[0].prev = NULL
    BY <1>0, <1>4, <1>6, <1>8, <1>1 DEF Tiled, ListInv, End, EndOf, Header
  <2>2. ASSUME NEW a \in Blocks \ {b}
        PROVE  /\ EndOf(blk', a) <= Arena
               /\ blk'[a].next = IF EndOf(blk', a) = Arena THEN NULL ELSE EndOf(blk', a)
               /\ EndOf(blk', a) # Arena => EndOf(blk', a) \in Blocks' /\ blk'[EndOf(blk', a)].prev = a
               /\ a # 0 => blk'[a].prev \in Blocks' /\ EndOf(blk', blk'[a].prev) = a
    <3>1. /\ EndOf(blk, a) <= Arena
          /\ blk[a].next = IF EndOf(blk, a) = Arena THEN NULL ELSE EndOf(blk, a)
          /\ EndOf(blk, a) # Arena => EndOf(blk, a) \in Blocks /\ blk[EndOf(blk, a)].prev = a
          /\ a # 0 => blk[a].prev \in Blocks /\ EndOf(blk, blk[a].prev) = a
      BY DEF Tiled, ListInv, End, EndOf
    <3>2. EndOf(blk, a) # Arena => EndOf(blk, a) # nx
      BY <3>1, <1>0 DEF Tiled, ListInv, End, EndOf
    <3>3. EndOf(blk, a) # Arena => EndOf(blk', a) \in Blocks' /\ blk'[EndOf(blk', a)].prev = a
      BY <3>1, <3>2, <1>4, <1>6, <1>8, <1>11
    <3>4. CASE a = nx
      <4>1. blk'[a].prev = n /\ EndOf(blk', n) = a
        <5>1. nx = IF EndOf(blk, b) = Arena THEN NULL ELSE EndOf(blk, b)
          BY DEF Tiled, ListInv, End, EndOf
        <5> QED BY <5>1, <3>4, <1>8, <1>10, <1>0
      <4> QED BY <4>1, <3>1, <3>3, <1>4, <1>8, <1>11
    <3>5. CASE a # nx
      <4>1. a # 0 => blk[a].prev # b
        <5>1. nx = IF EndOf(blk, b) = Arena THEN NULL ELSE EndOf(blk, b)
          BY DEF Tiled, ListInv, End, EndOf
        <5>2. a < EndOf(blk, a) /\ EndOf(blk, a) \in Nat
          BY <1>0 DEF EndOf, Header
        <5>3. a # Arena
          BY <5>2, <3>1, <1>0, HeapAssumption
        <5> QED BY <5>1, <5>3, <3>5, <3>1
      <4>2. a # 0 => blk'[a].prev \in Blocks' /\ EndOf(blk', blk'[a].prev) = a
        BY <4>1, <3>1, <3>5, <1>4, <1>8, <1>11
      <4> QED BY <4>2, <3>1, <3>3, <1>8, <1>11
    <3> QED BY <3>4, <3>5
  <2>3. /\ EndOf(blk', b) <= Arena /\ EndOf(blk', b) # Arena
        /\ blk'[b].next = EndOf(blk', b) /\ EndOf(blk', b) \in Blocks' /\ blk'[EndOf(blk', b)].prev = b
        /\ b # 0 => blk'[b].prev \in Blocks' /\ EndOf(blk', blk'[b].prev) = b
    <3>1. EndOf(blk, b) <= Arena /\ EndOf(blk, b) \in Nat
      BY <1>0 DEF Tiled, ListInv, End, EndOf
    <3>2. b # 0 => blk[b].prev \in Blocks /\ blk[b].prev # b /\ EndOf(blk, blk[b].prev) = b
      BY <1>0, <1>1 DEF Tiled, ListInv, End, EndOf
    <3> QED BY <3>1, <3>2, <1>1, <1>4, <1>5, <1>6, <1>10, <1>11, HeapAssumption
  <2>4. /\ EndOf(blk', n) <= Arena
        /\ blk'[n].next = IF EndOf(blk', n) = Arena THEN NULL ELSE EndOf(blk', n)
        /\ EndOf(blk', n) # Arena => EndOf(blk', n) \in Blocks' /\ blk'[EndOf(blk', n)].prev = n
        /\ blk'[n].prev \in Blocks' /\ EndOf(blk', blk'[n].prev) = n
    <3>1. /\ EndOf(blk, b) <= Arena
          /\ nx = IF EndOf(blk, b) = Arena THEN NULL ELSE EndOf(blk, b)
          /\ EndOf(blk, b) # Arena => EndOf(blk, b) \in Blocks
      BY DEF Tiled, ListInv, End, EndOf
    <3> QED BY <3>1, <1>3, <1>4, <1>5, <1>8, <1>10
  <2> QED BY <2>1, <2>2, <2>3, <2>4, <1>4, <1>1 DEF ListInv, End, EndOf
<1> QED BY <1>1, <1>2, <1>4, <1>5, <1>6, <1>8, <1>9, <1>10, <1>11, <1>12, <1>13 DEF Tiled, End, EndOf

(* When `low' absorbs its successor `high', the bytes of both become one     *)
(* block and nothing else moves.                                            *)
LEMMA JoinTiled ==
  ASSUME Tiled, NEW low \in Blocks, NEW high \in Blocks, blk[low].next = high,
         blk' = JoinBlocks(low, high)
  PROVE  /\ Tiled'
         /\ low < high /\ End(low) = high /\ Blocks' = Blocks \ {high}
         /\ End(low)' = End(high)
         /\ blk'[low].used = blk[low].used /\ blk'[low].next = blk[high].next
         /\ blk'[low].prev = blk[low].prev
         /\ \A a \in Blocks' \ {low} : /\ End(a)' = End(a) /\ blk'[a].size = blk[a].size
                                       /\ blk'[a].next = blk[a].next /\ blk'[a].used = blk[a].used
<1> DEFINE hn == blk[high].next
<1> USE DEF HDR, NULL
<1>0. /\ Blocks \subseteq Nat /\ \A a \in Blocks : blk[a] \in Header
      /\ blk[low].size \in Nat /\ blk[high].size \in Nat /\ low \in Nat /\ high \in Nat
      /\ hn \in Nat \cup {-1}
  BY DEF Tiled, BlkType, Header
<1>1. \A a \in Blocks :
        /\ EndOf(blk, a) <= Arena
        /\ blk[a].next = IF EndOf(blk, a) = Arena THEN -1 ELSE EndOf(blk, a)
        /\ EndOf(blk, a) # Arena => EndOf(blk, a) \in Blocks /\ blk[EndOf(blk, a)].prev = a
        /\ a # 0 => blk[a].prev \in Blocks /\ EndOf(blk, blk[a].prev) = a
  BY DEF Tiled, ListInv, End, EndOf
<1>2. \A a \in Blocks : EndOf(blk, a) \in Nat /\ a < EndOf(blk, a)
  BY <1>0 DEF EndOf, Header
<1>3. /\ EndOf(blk, low) = high /\ low < high /\ high < EndOf(blk, high)
      /\ high # 0 /\ blk[high].prev = low /\ hn # low /\ hn # high
  BY <1>0, <1>1, <1>2, HeapAssumption
<1>4. Blocks' = Blocks \ {high}
  BY DEF JoinBlocks, Blocks
<1>5. blk'[low] = [blk[low] EXCEPT !.size = blk[low].size + 40 + blk[high].size, !.next = hn]
  BY <1>3, <1>0 DEF JoinBlocks
<1>6. \A a \in Blocks' \ {low} : blk'[a] = IF a = hn THEN [blk[a] EXCEPT !.prev = low] ELSE blk[a]
  BY <1>4 DEF JoinBlocks
<1>7. /\ blk'[low].size = blk[low].size + 40 + blk[high].size /\ blk'[low].next = hn
      /\ blk'[low].used = blk[low].used /\ blk'[low].prev = blk[low].prev
      /\ blk'[low] \in Header
  <2>1. blk[low] \in Header /\ blk[low].size + 40 + blk[high].size \in Nat
    BY <1>0
  <2> QED BY <1>0, <1>5, <2>1 DEF Header
<1>8. \A a \in Blocks' \ {low} :
        /\ blk'[a].size = blk[a].size /\ blk'[a].next = blk[a].next /\ blk'[a].used = blk[a].used
        /\ blk'[a].prev = IF a = hn THEN low ELSE blk[a].prev
        /\ blk'[a] \in Header
  <2>1. \A h \in Header : LET g == [h EXCEPT !.prev = low]
                          IN  g \in Header /\ g.size = h.size /\ g.next = h.next
                              /\ g.used = h.used /\ g.prev = low
    BY <1>0 DEF Header
  <2> SUFFICES ASSUME NEW a \in Blocks' \ {low}
               PROVE  /\ blk'[a].size = blk[a].size /\ blk'[a].next = blk[a].next /\ blk'[a].used = blk[a].used
                      /\ blk'[a].prev = IF a = hn THEN low ELSE blk[a].prev
                      /\ blk'[a] \in Header
    OBVIOUS
  <2>2. blk[a] \in Header
    BY <1>0, <1>4
  <2>3. CASE a = hn
    <3>1. blk'[a] = [blk[a] EXCEPT !.prev = low]
      BY <1>6, <2>3
    <3> QED BY <3>1, <2>1, <2>2, <2>3
  <2>4. CASE a # hn
    BY <1>6, <2>2, <2>4
  <2> QED BY <2>3, <2>4
<1>9. BlkType'
  <2>1. \A a \in Blocks' : blk'[a] \in Header
    BY <1>7, <1>8
  <2>2. blk' = [a \in Blocks' |-> blk'[a]]
    BY DEF JoinBlocks, Blocks
  <2> QED BY <1>0, <1>4, <2>1, <2>2 DEF BlkType
<1>10. EndOf(blk', low) = EndOf(blk, high)
  BY <1>0, <1>3, <1>7 DEF EndOf
<1>11. \A a \in Blocks' \ {low} : EndOf(blk', a) = EndOf(blk, a)
  BY <1>8 DEF EndOf
<1>12. Disjoint'
  <2>1. \A a, c \in Blocks : a < c => EndOf(blk, a) <= c
    BY DEF Tiled, Disjoint, End, EndOf
  <2>2. \A a \in Blocks' : low < a => high < a
    BY <2>1, <1>0, <1>3, <1>4
  <2>3. \A a, c \in Blocks' : a < c => EndOf(blk', a) <= c
    BY <2>1, <2>2, <1>0, <1>4, <1>10, <1>11
  <2> QED BY <2>3 DEF Disjoint, End, EndOf
<1>13. ListInv'
  <2>1. 0 \in Blocks' /\ blk'[0].prev = -1
    <3>1. 0 \in Blocks /\ blk[0].prev = -1
      BY DEF Tiled, ListInv
    <3>2. hn # 0
      BY <1>1, <1>3, <1>2, <1>0
    <3> QED BY <3>1, <3>2, <1>3, <1>4, <1>7, <1>8
  <2>2. ASSUME NEW a \in Blocks'
        PROVE  /\ EndOf(blk', a) <= Arena
               /\ blk'[a].next = IF EndOf(blk', a) = Arena THEN -1 ELSE EndOf(blk', a)
               /\ EndOf(blk', a) # Arena => EndOf(blk', a) \in Blocks' /\ blk'[EndOf(blk', a)].prev = a
               /\ a # 0 => blk'[a].prev \in Blocks' /\ EndOf(blk', blk'[a].prev) = a
    <3>1. CASE a = low
      <4>1. EndOf(blk', a) <= Arena /\ blk'[a].next = IF EndOf(blk', a) = Arena THEN -1 ELSE EndOf(blk', a)
        BY <3>1, <1>1, <1>7, <1>10
      <4>2. EndOf(blk', a) # Arena => EndOf(blk', a) \in Blocks' /\ blk'[EndOf(blk', a)].prev = a
        BY <3>1, <1>1, <1>3, <1>4, <1>8, <1>10
      <4>3. a # 0 => blk[a].prev \in Blocks /\ EndOf(blk, blk[a].prev) = a /\ blk[a].prev < a
        BY <3>1, <1>1, <1>2
      <4>4. a # 0 => blk'[a].prev \in Blocks' /\ EndOf(blk', blk'[a].prev) = a
        BY <4>3, <3>1, <1>0, <1>3, <1>4, <1>7, <1>11
      <4> QED BY <4>1, <4>2, <4>4
    <3>2. CASE a # low
      <4>1. EndOf(blk', a) = EndOf(blk, a) /\ a \in Blocks /\ a # high
        BY <3>2, <1>4, <1>11
      <4>2. EndOf(blk, a) # Arena => EndOf(blk, a) # high /\ EndOf(blk, a) # hn
        BY <4>1, <3>2, <1>1, <1>2, <1>3
      <4>3. EndOf(blk, a) # Arena => EndOf(blk', a) \in Blocks' /\ blk'[EndOf(blk', a)].prev = a
        BY <4>1, <4>2, <1>1, <1>4, <1>7, <1>8
      <4>4. a # 0 => blk'[a].prev \in Blocks' /\ EndOf(blk', blk'[a].prev) = a
        <5>1. CASE a = hn
          BY <5>1, <3>2, <1>1, <1>3, <1>4, <1>8, <1>10, <1>0
        <5>2. CASE a # hn
          <6>1. a # Arena
            BY <4>1, <1>1, <1>2, HeapAssumption
          <6>2. a # 0 => blk[a].prev # high
            BY <5>2, <4>1, <1>1, <6>1
          <6> QED BY <5>2, <6>2, <4>1, <3>2, <1>1, <1>3, <1>4, <1>8, <1>10, <1>11
        <5> QED BY <5>1, <5>2
      <4> QED BY <4>1, <4>3, <4>4, <1>1, <1>8, <3>2
    <3> QED BY <3>1, <3>2
  <2> QED BY <2>1, <2>2 DEF ListInv, End, EndOf
<1> QED BY <1>3, <1>4, <1>7, <1>8, <1>9, <1>10, <1>11, <1>12, <1>13 DEF Tiled, End, EndOf

-----------------------------------------------------------------------------
(* The inductive invariant. *)

IndInv == TypeOK /\ HeapInv

(* The inductive invariant contains the tiling of the arena.                *)
LEMMA IndInvTiled == IndInv => Tiled
  BY DEF IndInv, TypeOK, HeapInv, Tiled, BlkType

(* The headers have their types. *)
LEMMA HeaderFacts ==
  ASSUME Tiled
  PROVE  \A a \in Blocks :
           /\ a \in Nat /\ blk[a].size \in Nat /\ blk[a].used \in BOOLEAN
           /\ End(a) \in Nat /\ End(a) = a + 40 + blk[a].size
           /\ blk[a].next \in Blocks \cup {-1} /\ blk[a].prev \in Blocks \cup {-1}
           /\ blk[a].next \in Blocks => blk[a].next = End(a) /\ blk[blk[a].next].prev = a
           /\ blk[a].prev \in Blocks => blk[blk[a].prev].next = a /\ blk[a].prev < a
<1> USE DEF HDR, NULL
<1>1. \A a \in Blocks : a \in Nat /\ blk[a].size \in Nat /\ blk[a].used \in BOOLEAN
  BY DEF Tiled, BlkType, Header
<1>2. \A a \in Blocks : End(a) \in Nat /\ End(a) = a + 40 + blk[a].size
  BY <1>1 DEF End
<1>3. \A a \in Blocks :
        /\ blk[a].next = IF End(a) = Arena THEN NULL ELSE End(a)
        /\ End(a) # Arena => End(a) \in Blocks /\ blk[End(a)].prev = a
        /\ a # 0 => blk[a].prev \in Blocks /\ End(blk[a].prev) = a
        /\ End(a) <= Arena
  BY DEF Tiled, ListInv
<1>4. blk[0].prev = NULL
  BY DEF Tiled, ListInv
<1>5. \A a \in Blocks : a # Arena /\ a < End(a)
  BY <1>1, <1>2, <1>3, HeapAssumption
<1>6. \A a \in Blocks : blk[a].prev \in Blocks => a # 0
  BY <1>1, <1>4
<1>7. \A a \in Blocks : /\ blk[a].next \in Blocks \cup {-1} /\ blk[a].prev \in Blocks \cup {-1}
                        /\ blk[a].next \in Blocks => blk[a].next = End(a) /\ blk[blk[a].next].prev = a
  BY <1>1, <1>3, <1>4
<1>8. \A a \in Blocks : blk[a].prev \in Blocks => blk[blk[a].prev].next = a /\ blk[a].prev < a
  BY <1>1, <1>3, <1>5, <1>6
<1> QED BY <1>1, <1>2, <1>7, <1>8

(* At most one free block per hole when no free is under way. *)
LEMMA IdleCoalesced ==
  ASSUME Coalesced, pc \in {"idle", "panic"}
  PROVE  \A a \in Free : blk[a].next \notin Free
  BY DEF Coalesced

(* malloc preserves the invariant: it takes or splits a free block that is  *)
(* large enough, or changes nothing.                                        *)
LEMMA MallocInv ==
  ASSUME IndInv, pc = "idle", NEW want \in Nat, Malloc(want), pc' \in {"idle", "panic"}
  PROVE  IndInv'
<1> USE DEF HDR, NULL
<1> DEFINE size == Round16(want)
<1>1. size \in Nat /\ (want <= U64 - ALIGN => size >= want)
  BY RoundSound
<1> HIDE DEF size
<1>2. PICK b \in Free :
        /\ BestFit(b, size)
        /\ blk' = Granted(b, size)
        /\ stale' = Intact(b, size)
        /\ req' = [a \in DOMAIN req \cup {b} |-> IF a = b THEN want ELSE req[a]]
        /\ used_heap' = (used_heap + GrantedSize(b, size) + HDR) % U64
        /\ UNCHANGED <<cur, merged>>
  BY DEF Malloc, size
<1>3. Tiled /\ b \in Blocks /\ ~blk[b].used /\ blk[b].size >= size /\ b \notin Used
  BY <1>2, IndInvTiled DEF Free, Used, BestFit
<1>4. \A a \in Free : blk[a].next \notin Free
  BY IdleCoalesced DEF IndInv, HeapInv
<1>5. /\ DOMAIN stale \subseteq Nat /\ stale \in [DOMAIN stale -> Nat]
      /\ DOMAIN req = Used /\ req \in [Used -> Nat]
      /\ used_heap \in Nat /\ cur = NULL /\ merged \in Nat
      /\ DOMAIN req' = Used \cup {b} /\ req' \in [Used \cup {b} -> Nat]
      /\ \A a \in Used : req'[a] = req[a]
      /\ req'[b] = want
  BY <1>2, <1>3, HeapAssumption DEF IndInv, TypeOK
<1>6. GrantedSize(b, size) \in Nat
  BY <1>1, <1>3, HeaderFacts DEF GrantedSize
<1>7. used_heap' \in 0 .. U64 - 1
  BY <1>2, <1>5, <1>6, ModRange
<1>8. DOMAIN stale' \subseteq Nat /\ stale' \in [DOMAIN stale' -> Nat]
  BY <1>2, <1>5 DEF Intact
<1>9. /\ \A s \in DOMAIN stale : s \in Nat /\ \E a \in Free : a + 40 <= s /\ s + 40 <= End(a)
      /\ \A a \in Used : blk[a].size >= req[a] \/ req[a] > U64 - ALIGN
  BY <1>5 DEF IndInv, HeapInv, StaleInFree, RequestHonoured
<1>10. CASE Splits(b, size)
  <2> DEFINE n == b + HDR + size
  <2>1. /\ Tiled'
        /\ n \notin Blocks /\ n \in Nat /\ Blocks' = Blocks \cup {n}
        /\ End(n)' = End(b) /\ End(b)' = n
        /\ ~blk'[n].used /\ blk'[b].used /\ blk'[b].size = size
        /\ blk'[n].next = blk[b].next /\ blk'[b].next = n
        /\ \A a \in Blocks \ {b} : /\ End(a)' = End(a) /\ blk'[a].size = blk[a].size
                                   /\ blk'[a].next = blk[a].next /\ blk'[a].used = blk[a].used
    <3>1. blk' = SplitBlock(b, size)
      BY <1>2, <1>10 DEF Granted
    <3> QED BY <3>1, <1>1, <1>3, <1>10, SplitTiled
  <2> HIDE DEF n
  <2>2. Used' = Used \cup {b} /\ Free' = (Free \ {b}) \cup {n}
    BY <2>1, <1>3 DEF Used, Free
  <2>3. TypeOK'
    BY <2>1, <2>2, <1>2, <1>5, <1>7, <1>8 DEF TypeOK, Tiled, BlkType
  <2>4. Coalesced'
    <3>1. \A a \in Free : blk[a].next # n
      BY <2>1, <1>3, HeaderFacts DEF Free
    <3>2. \A a \in Free' : blk'[a].next \notin Free'
      BY <2>1, <2>2, <3>1, <1>4, <1>2 DEF Free
    <3> QED BY <3>2 DEF Coalesced
  <2>5. StaleInFree'
    <3> SUFFICES ASSUME NEW s \in DOMAIN stale'
                 PROVE  \E a \in Free' : a + 40 <= s /\ s + 40 <= End(a)'
      BY DEF StaleInFree
    <3>1. s \in DOMAIN stale /\ (s + 40 <= b \/ n + 40 <= s)
      BY <1>2, <1>10, <1>1, <1>3, HeaderFacts DEF Intact, n
    <3>2. PICK a \in Free : a + 40 <= s /\ s + 40 <= End(a)
      BY <3>1, <1>9
    <3>3. CASE a = b
      <4>1. n + 40 <= s /\ s + 40 <= End(n)'
        BY <3>1, <3>2, <3>3, <2>1, <1>3, <1>9, HeaderFacts
      <4> QED BY <4>1, <2>2
    <3>4. CASE a # b
      BY <3>2, <3>4, <2>1, <2>2 DEF Free
    <3> QED BY <3>3, <3>4
  <2>6. RequestHonoured'
    <3>1. \A a \in Used : a # b /\ a \in Blocks
      BY <1>3 DEF Used
    <3>2. blk'[b].size >= want \/ want > U64 - ALIGN
      BY <2>1, <1>1, HeapAssumption DEF ALIGN
    <3> QED BY <2>1, <2>2, <3>1, <3>2, <1>5, <1>9 DEF RequestHonoured
  <2> QED BY <2>1, <2>3, <2>4, <2>5, <2>6 DEF IndInv, HeapInv, Tiled
<1>11. CASE ~Splits(b, size)
  <2>1. /\ Tiled' /\ Blocks' = Blocks
        /\ \A a \in Blocks : /\ End(a)' = End(a) /\ blk'[a].size = blk[a].size
                             /\ blk'[a].next = blk[a].next
                             /\ blk'[a].used = IF a = b THEN TRUE ELSE blk[a].used
    <3>1. blk' = [blk EXCEPT ![b].used = TRUE]
      BY <1>2, <1>11 DEF Granted, WholeBlock
    <3> QED BY <3>1, <1>3, FlipTiled
  <2>2. Used' = Used \cup {b} /\ Free' = Free \ {b}
    BY <2>1, <1>3 DEF Used, Free
  <2>3. TypeOK'
    BY <2>1, <2>2, <1>2, <1>5, <1>7, <1>8 DEF TypeOK, Tiled, BlkType
  <2>4. Coalesced'
    <3>1. \A a \in Free' : blk'[a].next \notin Free'
      BY <2>1, <2>2, <1>4 DEF Free
    <3> QED BY <3>1 DEF Coalesced
  <2>5. StaleInFree'
    <3> SUFFICES ASSUME NEW s \in DOMAIN stale'
                 PROVE  \E a \in Free' : a + 40 <= s /\ s + 40 <= End(a)'
      BY DEF StaleInFree
    <3>1. s \in DOMAIN stale /\ (s + 40 <= b \/ End(b) <= s)
      BY <1>2, <1>11 DEF Intact
    <3>2. PICK a \in Free : a + 40 <= s /\ s + 40 <= End(a)
      BY <3>1, <1>9
    <3>3. a # b
      BY <3>1, <3>2, <1>3, <1>9, HeaderFacts
    <3> QED BY <3>2, <3>3, <2>1, <2>2 DEF Free
  <2>6. RequestHonoured'
    <3>1. \A a \in Used : a # b /\ a \in Blocks
      BY <1>3 DEF Used
    <3>2. blk'[b].size >= want \/ want > U64 - ALIGN
      <4>1. blk'[b].size = blk[b].size /\ blk[b].size \in Nat
        BY <2>1, <1>3, HeaderFacts
      <4> QED BY <4>1, <1>1, <1>3, HeapAssumption DEF ALIGN
    <3> QED BY <2>1, <2>2, <3>1, <3>2, <1>5, <1>9 DEF RequestHonoured
  <2> QED BY <2>1, <2>3, <2>4, <2>5, <2>6 DEF IndInv, HeapInv, Tiled
<1> QED BY <1>10, <1>11

(* The first steps of free, up to its merge loops, preserve the invariant.  *)
LEMMA FreeInv ==
  ASSUME IndInv, NEW b \in Blocks, kernel_memory_free(b)
  PROVE  IndInv'
<1> USE DEF HDR, NULL
<1>1. Tiled /\ b \in Used /\ b \in Blocks /\ pc = "idle"
  BY IndInvTiled DEF kernel_memory_free
<1>2. /\ Tiled' /\ Blocks' = Blocks
      /\ \A a \in Blocks : /\ End(a)' = End(a) /\ blk'[a].size = blk[a].size
                           /\ blk'[a].next = blk[a].next
                           /\ blk'[a].used = IF a = b THEN FALSE ELSE blk[a].used
  <2>1. blk' = [blk EXCEPT ![b].used = FALSE]
    BY DEF kernel_memory_free
  <2> QED BY <2>1, <1>1, FlipTiled
<1>3. Used' = Used \ {b} /\ Free' = Free \cup {b}
  BY <1>1, <1>2 DEF Used, Free
<1>4. TypeOK'
  <2>1. /\ DOMAIN req' = Used' /\ req' \in [Used' -> Nat]
        /\ pc' = "forward" /\ cur' = b /\ merged' = 0 /\ stale' = stale
    BY <1>3 DEF kernel_memory_free, IndInv, TypeOK
  <2>2. used_heap' \in 0 .. U64 - 1
    BY <1>1, HeaderFacts, ModRange, HeapAssumption DEF kernel_memory_free, IndInv, TypeOK
  <2> QED BY <1>2, <1>3, <2>1, <2>2 DEF TypeOK, IndInv, Tiled, BlkType
<1>5. Coalesced'
  <2>1. \A a \in Free : blk[a].next \notin Free
    BY <1>1, IdleCoalesced DEF IndInv, HeapInv
  <2>2. pc' = "forward" /\ cur' = b
    BY DEF kernel_memory_free
  <2>3. \A a \in Free' : blk'[a].next \in Free' => blk'[a].next = b \/ a = b
    BY <2>1, <1>2, <1>3 DEF Free
  <2> QED BY <2>2, <2>3 DEF Coalesced
<1>6. StaleInFree'
  <2>1. stale' = stale
    BY DEF kernel_memory_free
  <2>2. \A a \in Free : a \in Free' /\ End(a)' = End(a)
    BY <1>2, <1>3 DEF Free
  <2>3. \A s \in DOMAIN stale : \E a \in Free : a + 40 <= s /\ s + 40 <= End(a)
    BY DEF IndInv, HeapInv, StaleInFree
  <2>4. \A s \in DOMAIN stale' : \E a \in Free' : a + 40 <= s /\ s + 40 <= End(a)'
    BY <2>1, <2>2, <2>3
  <2> QED BY <2>4 DEF StaleInFree
<1>7. RequestHonoured'
  <2>1. \A a \in Used' : a \in Used /\ req'[a] = req[a] /\ blk'[a].size = blk[a].size
    BY <1>2, <1>3 DEF kernel_memory_free, IndInv, TypeOK, Used
  <2> QED BY <2>1 DEF IndInv, HeapInv, RequestHonoured
<1> QED BY <1>2, <1>4, <1>5, <1>6, <1>7 DEF IndInv, HeapInv, Tiled

(* What an iteration of either merge loop does to the list. *)
LEMMA AbsorbFacts ==
  ASSUME IndInv, NEW low \in Free, NEW high \in Free, blk[low].next = high, Absorb(low, high),
         cur' = low, pc \in {"forward", "backward"}
  PROVE  /\ TypeOK' /\ Tiled' /\ StaleInFree' /\ RequestHonoured'
         /\ Used' = Used /\ Free' = Free \ {high} /\ blk'[low].next = blk[high].next
         /\ \A a \in Free' \ {low} : blk'[a].next = blk[a].next
         /\ \A a \in Used : blk'[a].size = blk[a].size
<1> USE DEF HDR, NULL
<1>1. Tiled /\ low \in Blocks /\ high \in Blocks /\ ~blk[low].used /\ ~blk[high].used
  BY IndInvTiled DEF Free, Used
<1>2. /\ Tiled'
      /\ low < high /\ End(low) = high /\ Blocks' = Blocks \ {high}
      /\ End(low)' = End(high)
      /\ blk'[low].used = blk[low].used /\ blk'[low].next = blk[high].next
      /\ \A a \in Blocks' \ {low} : /\ End(a)' = End(a) /\ blk'[a].size = blk[a].size
                                    /\ blk'[a].next = blk[a].next /\ blk'[a].used = blk[a].used
  BY <1>1, JoinTiled DEF Absorb
<1>3. /\ stale' = [a \in DOMAIN stale \cup {high} |-> IF a = high THEN blk[high].size ELSE stale[a]]
      /\ merged' = merged + 1 /\ req' = req /\ used_heap' = used_heap /\ pc' = pc
  BY DEF Absorb
<1>4. Used' = Used /\ Free' = Free \ {high}
  BY <1>1, <1>2, HeaderFacts DEF Used, Free
<1>5. high \in Nat /\ low \in Nat /\ blk[high].size \in Nat /\ End(high) = high + 40 + blk[high].size
      /\ low + 40 <= high /\ low # high
  BY <1>1, <1>2, HeaderFacts
<1>6. TypeOK'
  <2>1. DOMAIN stale' \subseteq Nat /\ stale' \in [DOMAIN stale' -> Nat]
    BY <1>3, <1>5 DEF IndInv, TypeOK
  <2>2. low \in Free'
    BY <1>4, <1>5
  <2> QED BY <1>2, <1>3, <1>4, <2>1, <2>2 DEF IndInv, TypeOK, Tiled, BlkType
<1>7. StaleInFree'
  <2> SUFFICES ASSUME NEW s \in DOMAIN stale'
               PROVE  \E a \in Free' : a + 40 <= s /\ s + 40 <= End(a)'
    BY DEF StaleInFree
  <2>1. CASE s = high
    BY <2>1, <1>2, <1>4, <1>5
  <2>2. CASE s # high
    <3>1. s \in DOMAIN stale /\ s \in Nat
      BY <2>2, <1>3 DEF IndInv, TypeOK
    <3>2. PICK a \in Free : a + 40 <= s /\ s + 40 <= End(a)
      BY <3>1 DEF IndInv, HeapInv, StaleInFree
    <3>3. CASE a = high
      BY <3>1, <3>2, <3>3, <1>2, <1>4, <1>5
    <3>4. CASE a = low
      <4>1. s + 40 <= End(low)'
        BY <3>1, <3>2, <3>4, <1>2, <1>5
      <4> QED BY <4>1, <3>2, <3>4, <1>4, <1>5
    <3>5. CASE a # high /\ a # low
      BY <3>2, <3>5, <1>2, <1>4 DEF Free
    <3> QED BY <3>3, <3>4, <3>5
  <2> QED BY <2>1, <2>2
<1>8. \A a \in Used : a \in Blocks' \ {low}
  BY <1>1, <1>2 DEF Used
<1>9. RequestHonoured'
  BY <1>2, <1>3, <1>4, <1>8 DEF IndInv, HeapInv, RequestHonoured
<1> QED BY <1>2, <1>4, <1>6, <1>7, <1>8, <1>9 DEF Free

(* An iteration of the loop that absorbs the next block preserves it.       *)
LEMMA MergeForwardInv == IndInv /\ MergeForward => IndInv'
<1> SUFFICES ASSUME IndInv, MergeForward PROVE IndInv'
  OBVIOUS
<1> DEFINE high == blk[cur].next
<1>1. pc = "forward" /\ cur \in Free /\ Tiled /\ high \in Free /\ Absorb(cur, high) /\ cur' = cur /\ pc' = pc
  <2>1. pc = "forward" /\ cur \in Free /\ Tiled /\ Absorb(cur, high) /\ cur' = cur /\ pc' = pc
    BY IndInvTiled DEF MergeForward, IndInv, TypeOK, Absorb
  <2>2. high \in Blocks
    BY <2>1, HeaderFacts DEF MergeForward, IsFree, NULL, Free
  <2> QED BY <2>1, <2>2 DEF MergeForward, IsFree, Free, Used
<1>2. /\ TypeOK' /\ Tiled' /\ StaleInFree' /\ RequestHonoured'
      /\ Used' = Used /\ Free' = Free \ {high} /\ blk'[cur].next = blk[high].next
      /\ \A a \in Free' \ {cur} : blk'[a].next = blk[a].next
  BY <1>1, AbsorbFacts
<1> HIDE DEF high
<1>3. Coalesced'
  <2>1. \A a \in Free : blk[a].next \in Free => blk[a].next = cur \/ a = cur
    BY <1>1 DEF IndInv, HeapInv, Coalesced
  <2>2. \A a \in Free' : blk'[a].next \in Free' => blk'[a].next = cur \/ a = cur
    BY <2>1, <1>2
  <2> QED BY <2>2, <1>1 DEF Coalesced
<1> QED BY <1>2, <1>3 DEF IndInv, HeapInv, Tiled

(* An iteration of the loop that joins a block to the previous one does too. *)
LEMMA MergeBackwardInv == IndInv /\ MergeBackward => IndInv'
<1> SUFFICES ASSUME IndInv, MergeBackward PROVE IndInv'
  OBVIOUS
<1> DEFINE low == blk[cur].prev
<1>1. pc = "backward" /\ cur \in Free /\ cur \in Blocks /\ Tiled /\ Absorb(low, cur) /\ cur' = low /\ pc' = pc
  BY IndInvTiled DEF MergeBackward, IndInv, TypeOK, Absorb, Free
<1>2. low \in Blocks /\ low \in Free /\ blk[low].next = cur
  <2>1. low \in Blocks
    BY <1>1, HeaderFacts DEF MergeBackward, IsFree, NULL
  <2> QED BY <1>1, <2>1, HeaderFacts DEF MergeBackward, IsFree, Free, Used
<1> HIDE DEF low
<1>3. /\ TypeOK' /\ Tiled' /\ StaleInFree' /\ RequestHonoured'
      /\ Used' = Used /\ Free' = Free \ {cur} /\ blk'[low].next = blk[cur].next
      /\ \A a \in Free' \ {low} : blk'[a].next = blk[a].next
  BY <1>1, <1>2, AbsorbFacts
<1>4. Coalesced'
  <2>1. \A a \in Free : blk[a].next \in Free => blk[a].next = cur
    BY <1>1 DEF IndInv, HeapInv, Coalesced
  <2>2. blk[cur].next # cur
    BY <1>1, HeaderFacts
  <2>3. \A a \in Free' : blk'[a].next \in Free' => blk'[a].next = low
    BY <2>1, <2>2, <1>1, <1>3
  <2> QED BY <2>3, <1>1 DEF Coalesced
<1> QED BY <1>3, <1>4 DEF IndInv, HeapInv, Tiled

(* Going from the first merge loop to the second preserves it.              *)
LEMMA ForwardDoneInv == IndInv /\ ForwardDone => IndInv'
<1> SUFFICES ASSUME IndInv, ForwardDone PROVE IndInv'
  OBVIOUS
<1>1. /\ pc = "forward" /\ pc' = "backward" /\ blk' = blk /\ stale' = stale /\ req' = req
      /\ used_heap' = used_heap /\ cur' = cur /\ merged' = merged /\ cur \in Free
  BY DEF ForwardDone, IndInv, TypeOK
<1>2. blk[cur].next \notin Free
  BY <1>1, IndInvTiled, HeaderFacts DEF ForwardDone, IsFree, Free, Used, NULL
<1>3. TypeOK'
  BY <1>1 DEF IndInv, TypeOK, Free, Used, Blocks
<1>4. Coalesced'
  BY <1>1, <1>2 DEF IndInv, HeapInv, Coalesced, Free, Used, Blocks
<1>5. ListInv' /\ Disjoint' /\ StaleInFree' /\ RequestHonoured'
  BY <1>1 DEF IndInv, HeapInv, ListInv, Disjoint, StaleInFree, RequestHonoured, Free, Used, Blocks, End
<1> QED BY <1>3, <1>4, <1>5 DEF IndInv, HeapInv

(* When the merge loops are done no free neighbours are left, so the return *)
(* of free preserves it.                                                    *)
LEMMA FreeReturnsInv == IndInv /\ FreeReturns => IndInv'
<1> SUFFICES ASSUME IndInv, FreeReturns PROVE IndInv'
  OBVIOUS
<1>1. /\ pc = "backward" /\ pc' = "idle" /\ blk' = blk /\ stale' = stale /\ req' = req
      /\ cur' = NULL /\ merged' = 0 /\ cur \in Free
  BY DEF FreeReturns, IndInv, TypeOK
<1>2. used_heap' \in 0 .. U64 - 1
  BY ModRange, HeapAssumption DEF FreeReturns, IndInv, TypeOK, HDR
<1>3. \A a \in Free : blk[a].next # cur
  <2>1. Tiled /\ cur \in Blocks
    BY <1>1, IndInvTiled DEF Free
  <2>2. ASSUME NEW a \in Free, blk[a].next = cur PROVE FALSE
    <3>1. blk[cur].prev = a /\ a \in Nat
      BY <2>1, <2>2, HeaderFacts DEF Free
    <3> QED BY <3>1 DEF FreeReturns, IsFree, Free, Used, NULL
  <2> QED BY <2>2
<1>4. TypeOK'
  BY <1>1, <1>2 DEF IndInv, TypeOK, Free, Used, Blocks
<1>5. Coalesced'
  BY <1>1, <1>3 DEF IndInv, HeapInv, Coalesced, Free, Used, Blocks
<1>6. ListInv' /\ Disjoint' /\ StaleInFree' /\ RequestHonoured'
  BY <1>1 DEF IndInv, HeapInv, ListInv, Disjoint, StaleInFree, RequestHonoured, Free, Used, Blocks, End
<1> QED BY <1>4, <1>5, <1>6 DEF IndInv, HeapInv

(* A step that leaves the list, the stale headers and the merge alone. *)
LEMMA QuietInv ==
  ASSUME IndInv, UNCHANGED <<blk, stale, req, pc, cur, merged>>, used_heap' \in 0 .. U64 - 1
  PROVE  IndInv'
<1>1. TypeOK'
  BY DEF IndInv, TypeOK, Free, Used, Blocks
<1>2. HeapInv'
  BY DEF IndInv, HeapInv, ListInv, Disjoint, Coalesced, StaleInFree, RequestHonoured,
         Free, Used, Blocks, End
<1> QED BY <1>1, <1>2 DEF IndInv

(* A free that is turned down because the header says free preserves it.    *)
LEMMA FreeAgainInv ==
  ASSUME IndInv, NEW a, FreeAgain(a)
  PROVE  IndInv'
<1>1. Tiled
  BY IndInvTiled
<1>2. (IF a \in Free THEN blk[a].size ELSE stale[a]) \in Nat
  <2>1. CASE a \in Free
    BY <2>1, <1>1, HeaderFacts DEF Free
  <2>2. CASE a \notin Free
    BY <2>2 DEF FreeAgain, IndInv, TypeOK
  <2> QED BY <2>1, <2>2
<1>3. used_heap' \in 0 .. U64 - 1
  BY <1>2, ModRange, HeapAssumption DEF FreeAgain, IndInv, TypeOK
<1> QED BY <1>3, QuietInv DEF FreeAgain

(* So does a step that changes nothing.                                     *)
LEMMA StutterInv == IndInv /\ UNCHANGED vars => IndInv'
<1> SUFFICES ASSUME IndInv, UNCHANGED vars PROVE IndInv'
  OBVIOUS
<1>1. used_heap' \in 0 .. U64 - 1
  BY DEF vars, IndInv, TypeOK
<1> QED BY <1>1, QuietInv DEF vars

(* The heap starts as one free block, which satisfies the invariant.        *)
LEMMA InitInv == Init => IndInv
<1> SUFFICES ASSUME Init PROVE IndInv
  OBVIOUS
<1> USE DEF HDR, NULL, ALIGN
<1>1. /\ Blocks = {0} /\ blk[0].size = Arena - 40 /\ ~blk[0].used /\ blk[0].next = -1 /\ blk[0].prev = -1
      /\ Used = {} /\ Free = {0} /\ Arena - 40 \in Nat
  BY HeapAssumption DEF Init, Blocks, Used, Free
<1>2. blk \in [Blocks -> Header]
  BY <1>1 DEF Init, Header
<1>3. TypeOK
  BY <1>1, <1>2, HeapAssumption DEF Init, TypeOK
<1>4. ListInv /\ Disjoint /\ Coalesced
  BY <1>1, HeapAssumption DEF ListInv, Disjoint, Coalesced, End
<1>5. StaleInFree /\ RequestHonoured
  BY <1>1 DEF Init, StaleInFree, RequestHonoured
<1> QED BY <1>3, <1>4, <1>5 DEF IndInv, HeapInv

(* kernel_memory_create preserves it.                                       *)
LEMMA CreateInv ==
  ASSUME IndInv, NEW want \in Requests, kernel_memory_create(want)
  PROVE  IndInv'
<1>1. CASE want # 0 /\ Malloc(want) /\ UNCHANGED pc
  BY <1>1, MallocInv, HeapAssumption DEF kernel_memory_create
<1>2. CASE MallocFails(want)
  BY <1>2, StutterInv DEF MallocFails
<1> QED BY <1>1, <1>2 DEF kernel_memory_create

(* kernel_memory_alloc preserves it, whether malloc finds a block or not.   *)
LEMMA AllocInv ==
  ASSUME IndInv, NEW p \in Counted, kernel_memory_alloc(p[1], p[2])
  PROVE  IndInv'
<1> DEFINE total == (p[1] * p[2]) % U64
<1>1. total \in Nat
  <2>1. p[1] * p[2] \in Nat
    BY HeapAssumption
  <2> QED BY <2>1, ModRange, HeapAssumption
<1>2. /\ pc = "idle"
      /\ \/ p[1] # 0 /\ total # 0 /\ Malloc(total)
            /\ pc' = IF Round16(total) < total THEN "panic" ELSE "idle"
         \/ p[1] = 0 /\ UNCHANGED vars
         \/ MallocFails(total)
  BY DEF kernel_memory_alloc
<1> HIDE DEF total
<1>3. CASE Malloc(total) /\ pc' = IF Round16(total) < total THEN "panic" ELSE "idle"
  BY <1>1, <1>2, <1>3, MallocInv
<1>4. CASE UNCHANGED vars
  BY <1>4, StutterInv
<1> QED BY <1>2, <1>3, <1>4 DEF MallocFails

(* Every step preserves the invariant.                                      *)
LEMMA NextInv == IndInv /\ [Next]_vars => IndInv'
<1> SUFFICES ASSUME IndInv, [Next]_vars PROVE IndInv'
  OBVIOUS
<1>1. ASSUME NEW want \in Requests, kernel_memory_create(want) PROVE IndInv'
  BY <1>1, CreateInv
<1>2. ASSUME NEW p \in Counted, kernel_memory_alloc(p[1], p[2]) PROVE IndInv'
  BY <1>2, AllocInv
<1>3. ASSUME NEW a \in Blocks, kernel_memory_free(a) PROVE IndInv'
  BY <1>3, FreeInv
<1>4. ASSUME NEW a \in Blocks \cup DOMAIN stale, FreeAgain(a) PROVE IndInv'
  BY <1>4, FreeAgainInv
<1>5. CASE Merging
  BY <1>5, MergeForwardInv, ForwardDoneInv, MergeBackwardInv, FreeReturnsInv DEF Merging
<1>6. CASE Panicked \/ UNCHANGED vars
  BY <1>6, StutterInv DEF Panicked
<1> QED BY <1>1, <1>2, <1>3, <1>4, <1>5, <1>6 DEF Next

-----------------------------------------------------------------------------
(* The heap's variables keep their types, for every sequence of calls. *)
THEOREM TypeCorrect == Spec => []TypeOK
<1>1. IndInv => TypeOK
  BY DEF IndInv
<1> QED BY <1>1, InitInv, NextInv, PTL DEF Spec

(* Whatever is allocated and freed, in whatever order, double frees        *)
(* included: the list of heap.c tiles the arena, no two blocks overlap,    *)
(* neighbours are coalesced, absorbed headers lie in free memory and every *)
(* owner has the bytes it asked for.                                       *)
THEOREM HeapCorrect == Spec => []HeapInv
<1>1. IndInv => HeapInv
  BY DEF IndInv
<1> QED BY <1>1, InitInv, NextInv, PTL DEF Spec

(* No two blocks of the heap ever overlap. *)
THEOREM BlocksDisjoint == Spec => []Disjoint
<1>1. IndInv => Disjoint
  BY DEF IndInv, HeapInv
<1> QED BY <1>1, InitInv, NextInv, PTL DEF Spec

(* malloc leaves every used block where it is and as large as it was.       *)
LEMMA MallocStays ==
  ASSUME IndInv, NEW want \in Nat, Malloc(want)
  PROVE  UsedBlocksStep
<1> DEFINE size == Round16(want)
<1>1. size \in Nat
  BY RoundSound
<1> HIDE DEF size
<1>2. PICK b \in Free : blk' = Granted(b, size)
  BY DEF Malloc, size
<1>3. Tiled /\ b \in Blocks /\ \A a \in Used : a \in Blocks \ {b}
  BY <1>2, IndInvTiled DEF Free, Used
<1>4. \A a \in Blocks \ {b} : a \in Blocks' /\ blk'[a].size = blk[a].size /\ blk'[a].used = blk[a].used
  <2>1. CASE Splits(b, size)
    BY <1>1, <1>2, <1>3, <2>1, SplitTiled DEF Granted
  <2>2. CASE ~Splits(b, size)
    <3>1. blk' = [blk EXCEPT ![b].used = TRUE]
      BY <1>2, <2>2 DEF Granted, WholeBlock
    <3>2. Blocks' = Blocks /\ \A a \in Blocks : /\ blk'[a].size = blk[a].size
                                               /\ blk'[a].used = IF a = b THEN TRUE ELSE blk[a].used
      BY <1>3, <3>1, FlipTiled
    <3> QED BY <3>2
  <2> QED BY <2>1, <2>2
<1> QED BY <1>3, <1>4 DEF UsedBlocksStep, Used

(* A step that leaves the blocks alone keeps the used ones.                 *)
LEMMA StutterStays == UNCHANGED blk => UsedBlocksStep
  BY DEF UsedBlocksStep, Used, Blocks

(* No allocation, merge or rejected free ever moves, shrinks or releases a *)
(* block that a caller still holds.                                        *)
THEOREM UsedBlocksKept == Spec => UsedBlocksStay
<1>1. IndInv /\ [Next]_vars => [UsedBlocksStep]_vars
  <2> SUFFICES ASSUME IndInv, Next PROVE UsedBlocksStep
    BY DEF vars
  <2>1. ASSUME NEW want \in Requests, kernel_memory_create(want) PROVE UsedBlocksStep
    <3>1. CASE Malloc(want)
      BY <3>1, MallocStays, HeapAssumption
    <3>2. CASE MallocFails(want)
      BY <3>2, StutterStays DEF MallocFails, vars
    <3> QED BY <2>1, <3>1, <3>2 DEF kernel_memory_create
  <2>2. ASSUME NEW p \in Counted, kernel_memory_alloc(p[1], p[2]) PROVE UsedBlocksStep
    <3> DEFINE total == (p[1] * p[2]) % U64
    <3>1. total \in Nat
      <4>1. p[1] * p[2] \in Nat
        BY HeapAssumption
      <4> QED BY <4>1, ModRange, HeapAssumption
    <3>2. Malloc(total) \/ UNCHANGED vars
      BY <2>2 DEF kernel_memory_alloc, MallocFails
    <3> HIDE DEF total
    <3> QED BY <3>1, <3>2, MallocStays, StutterStays DEF vars
  <2>3. ASSUME NEW b \in Blocks, kernel_memory_free(b) PROVE UsedBlocksStep
    <3>1. Tiled /\ blk' = [blk EXCEPT ![b].used = FALSE] /\ pc = "idle" /\ cur' = b
      BY <2>3, IndInvTiled DEF kernel_memory_free
    <3>2. \A a \in Blocks \ {b} : a \in Blocks' /\ blk'[a].size = blk[a].size /\ blk'[a].used = blk[a].used
      <4>1. Blocks' = Blocks /\ \A a \in Blocks : /\ blk'[a].size = blk[a].size
                                                 /\ blk'[a].used = IF a = b THEN FALSE ELSE blk[a].used
        BY <3>1, FlipTiled
      <4> QED BY <4>1
    <3> QED BY <3>1, <3>2 DEF UsedBlocksStep, Used
  <2>4. ASSUME NEW a \in Blocks \cup DOMAIN stale, FreeAgain(a) PROVE UsedBlocksStep
    BY <2>4, StutterStays DEF FreeAgain
  <2>5. CASE MergeForward
    <3>1. /\ pc = "forward" /\ cur \in Free /\ Tiled /\ cur' = cur
          /\ Absorb(cur, blk[cur].next)
      BY <2>5, IndInvTiled DEF MergeForward, IndInv, TypeOK
    <3>2. blk[cur].next \in Free
      BY <2>5, <3>1, HeaderFacts DEF MergeForward, IsFree, NULL, Free, Used
    <3>3. Used' = Used /\ \A a \in Used : blk'[a].size = blk[a].size
      BY <3>1, <3>2, AbsorbFacts
    <3> QED BY <3>3 DEF UsedBlocksStep
  <2>6. CASE MergeBackward
    <3>1. /\ pc = "backward" /\ cur \in Free /\ cur \in Blocks /\ Tiled
          /\ Absorb(blk[cur].prev, cur) /\ cur' = blk[cur].prev
      BY <2>6, IndInvTiled DEF MergeBackward, IndInv, TypeOK, Free
    <3>2. blk[cur].prev \in Blocks
      BY <2>6, <3>1, HeaderFacts DEF MergeBackward, IsFree, NULL
    <3>3. blk[cur].prev \in Free /\ blk[blk[cur].prev].next = cur
      BY <2>6, <3>1, <3>2, HeaderFacts DEF MergeBackward, IsFree, Free, Used
    <3>4. Used' = Used /\ \A a \in Used : blk'[a].size = blk[a].size
      BY <3>1, <3>3, AbsorbFacts
    <3> QED BY <3>4 DEF UsedBlocksStep
  <2>7. CASE ForwardDone \/ FreeReturns \/ Panicked
    BY <2>7, StutterStays DEF ForwardDone, FreeReturns, Panicked, vars
  <2> QED BY <2>1, <2>2, <2>3, <2>4, <2>5, <2>6, <2>7 DEF Next, Merging
<1> QED BY <1>1, InitInv, NextInv, PTL DEF Spec, UsedBlocksStay

-----------------------------------------------------------------------------
(* The sum of the bytes in use, and the counter that must cover it. *)

Sizes == [0 .. Slots - 1 -> Nat]

(* The number of slots is a number. *)
LEMMA SlotsNat == Slots \in Nat
  BY HeapAssumption DEF Slots, HDR

(* The sums of a function start at 0 and grow by one value at a time. *)
LEMMA SumsIs ==
  ASSUME NEW g \in Sizes
  PROVE  /\ Sums(g)[0] = 0
         /\ \A n \in 1 .. Slots : Sums(g)[n] = Sums(g)[n - 1] + g[n - 1]
         /\ \A n \in 0 .. Slots : Sums(g)[n] \in Nat
<1> DEFINE N == Slots
           P(h) == h = [k \in 0 .. N |-> IF k = 0 THEN 0 ELSE h[k - 1] + g[k - 1]]
           F == [x \in Nat \X (1 .. N) |-> x[1] + g[x[2] - 1]]
<1>1. N \in Nat
  BY SlotsNat
<1>2. \A k \in 1 .. N : k - 1 \in 0 .. Slots - 1 /\ g[k - 1] \in Nat
  BY <1>1 DEF Sizes
<1>3. F \in [Nat \X (1 .. N) -> Nat]
  BY <1>2
<1>4. \A m \in Nat, k \in 1 .. N : F[<<m, k>>] = m + g[k - 1]
  OBVIOUS
<1>5. Sums(g) = CHOOSE h : P(h)
  BY DEF Sums
<1> HIDE DEF N, F
<1>6. PICK f \in [0 .. N -> Nat] : IsRun(f, N, 0, F)
  BY <1>1, <1>3, LoopRuns
<1>7. P(f)
  <2>1. \A k \in 0 .. N : k # 0 => k \in 1 .. N /\ f[k - 1] \in Nat
    BY <1>1
  <2>2. \A k \in 0 .. N : f[k] = IF k = 0 THEN 0 ELSE f[k - 1] + g[k - 1]
    BY <1>4, <1>6, <2>1 DEF IsRun
  <2> QED BY <2>2
<1> DEFINE s == Sums(g)
<1>8. P(s)
  <2> HIDE DEF P
  <2> QED BY <1>5, <1>7
<1> HIDE DEF s
<1>9. \A k \in 0 .. N : s[k] = IF k = 0 THEN 0 ELSE s[k - 1] + g[k - 1]
  BY <1>8
<1>10. s[0] = 0 /\ \A k \in 1 .. N : s[k] = s[k - 1] + g[k - 1]
  BY <1>1, <1>9
<1>11. ASSUME NEW k \in 1 .. N, s[k - 1] \in Nat PROVE s[k] \in Nat
  BY <1>2, <1>10, <1>11
<1>12. \A k \in 0 .. N : s[k] \in Nat
  <2>1. s[0] \in Nat
    BY <1>10
  <2>2. \A k \in 1 .. N : s[k - 1] \in Nat => s[k] \in Nat
    BY <1>11
  <2> QED BY <1>1, <2>1, <2>2, LoopStays
<1> QED BY <1>10, <1>12 DEF N, s

(* Two functions that differ at one place have sums that differ by as much. *)
LEMMA SumsChange ==
  ASSUME NEW g \in Sizes, NEW h \in Sizes, NEW c \in 0 .. Slots - 1,
         \A n \in (0 .. Slots - 1) \ {c} : h[n] = g[n]
  PROVE  Sums(h)[Slots] = Sums(g)[Slots] + h[c] - g[c]
<1> DEFINE s == Sums(g)
           t == Sums(h)
           S == {n \in 0 .. Slots : t[n] = s[n] + (IF n <= c THEN 0 ELSE h[c] - g[c])}
<1>1. /\ s[0] = 0 /\ \A n \in 1 .. Slots : s[n] = s[n - 1] + g[n - 1]
      /\ \A n \in 0 .. Slots : s[n] \in Nat
  BY SumsIs
<1>2. /\ t[0] = 0 /\ \A n \in 1 .. Slots : t[n] = t[n - 1] + h[n - 1]
      /\ \A n \in 0 .. Slots : t[n] \in Nat
  BY SumsIs
<1>3. Slots \in Nat /\ c \in Nat /\ \A n \in 0 .. Slots - 1 : g[n] \in Nat /\ h[n] \in Nat
  BY SlotsNat DEF Sizes
<1> HIDE DEF s, t
<1>4. 0 \in S
  BY <1>1, <1>2, <1>3
<1>5. ASSUME NEW n \in 0 .. Slots - 1, n \in S PROVE n + 1 \in S
  <2>1. n + 1 \in 1 .. Slots /\ (n + 1) - 1 = n /\ n \in 0 .. Slots /\ n + 1 \in 0 .. Slots
    BY <1>3
  <2>2. t[n + 1] = t[n] + h[n] /\ s[n + 1] = s[n] + g[n]
    BY <1>1, <1>2, <2>1
  <2>3. t[n] = s[n] + (IF n <= c THEN 0 ELSE h[c] - g[c])
    BY <1>5
  <2>4. t[n] \in Nat /\ s[n] \in Nat /\ h[n] \in Nat /\ g[n] \in Nat /\ h[c] \in Nat /\ g[c] \in Nat
    BY <1>1, <1>2, <1>3, <2>1
  <2>5. CASE n = c
    BY <1>3, <2>1, <2>2, <2>3, <2>4, <2>5
  <2>6. CASE n # c
    <3>1. h[n] = g[n] /\ (n + 1 <= c <=> n <= c)
      BY <1>3, <2>6
    <3> QED BY <1>3, <2>1, <2>2, <2>3, <2>4, <3>1
  <2> QED BY <2>5, <2>6
<1>6. 0 .. Slots \subseteq S
  <2> HIDE DEF S
  <2> QED BY <1>3, <1>4, <1>5, InductionOnSet
<1>7. Slots \in S /\ ~(Slots <= c)
  BY <1>3, <1>6
<1> QED BY <1>3, <1>7 DEF s, t

(* The slot of a block is one of the slots, and no other block has it. *)
LEMMA SlotOfBlock ==
  ASSUME Tiled
  PROVE  /\ \A a \in Blocks : a \div HDR \in 0 .. Slots - 1
         /\ \A a, b \in Blocks : a \div HDR = b \div HDR => a = b
<1>1. \A a \in Blocks : a \in Nat /\ End(a) \in Nat /\ a + 40 <= End(a) /\ End(a) <= Arena
  BY HeaderFacts DEF Tiled, ListInv
<1>2. \A a \in Blocks : a \div 40 \in 0 .. Slots - 1
  <2> TAKE a \in Blocks
  <2>1. a \in Nat /\ Arena \in Nat /\ a + 40 <= Arena
    BY <1>1, HeapAssumption
  <2>2. a \div 40 \in Nat /\ a \div 40 < Arena \div 40
    BY <2>1
  <2> QED BY <2>2, SlotsNat DEF Slots, HDR
<1>3. \A a, b \in Blocks : a < b => a \div 40 < b \div 40
  <2> SUFFICES ASSUME NEW a \in Blocks, NEW b \in Blocks, a < b PROVE a \div 40 < b \div 40
    OBVIOUS
  <2>1. a \in Nat /\ b \in Nat /\ a + 40 <= b
    BY <1>1 DEF Tiled, Disjoint
  <2> QED BY <2>1
<1>4. \A a, b \in Blocks : a \div 40 = b \div 40 => a = b
  <2> SUFFICES ASSUME NEW a \in Blocks, NEW b \in Blocks, a \div 40 = b \div 40, a # b PROVE FALSE
    OBVIOUS
  <2>1. a \in Nat /\ b \in Nat /\ (a < b \/ b < a) /\ a \div 40 \in Int
    BY <1>1
  <2> QED BY <1>3, <2>1
<1> QED BY <1>2, <1>4 DEF HDR

(* The size by slot is the size of the used block there, or 0. *)
LEMMA UsedSizesIs ==
  ASSUME Tiled
  PROVE  /\ UsedSizes \in Sizes
         /\ \A a \in Used : UsedSizes[a \div HDR] = blk[a].size
         /\ \A n \in 0 .. Slots - 1 : (\A a \in Used : a \div HDR # n) => UsedSizes[n] = 0
<1>1. \A n \in 0 .. Slots - 1 : \A a \in UsedIn(n) : a \in Used /\ a \in Blocks /\ a \div HDR = n /\ blk[a].size \in Nat
  BY HeaderFacts DEF UsedIn, Used
<1>2. \A n \in 0 .. Slots - 1 : UsedIn(n) # {} => (CHOOSE a \in UsedIn(n) : TRUE) \in UsedIn(n)
  OBVIOUS
<1>3. UsedSizes \in Sizes
  BY <1>1, <1>2 DEF UsedSizes, Sizes
<1>4. ASSUME NEW a \in Used PROVE UsedSizes[a \div HDR] = blk[a].size
  <2> DEFINE n == a \div HDR
             c == CHOOSE x \in UsedIn(n) : TRUE
  <2>1. a \in Blocks /\ n \in 0 .. Slots - 1 /\ a \in UsedIn(n)
    BY SlotOfBlock DEF Used, UsedIn
  <2>2. UsedSizes[n] = blk[c].size
    BY <2>1 DEF UsedSizes
  <2>3. c \in UsedIn(n)
    BY <1>2, <2>1
  <2> HIDE DEF c
  <2>4. c \in Blocks /\ c \div HDR = a \div HDR
    BY <1>1, <2>1, <2>3
  <2>5. c = a
    BY <2>1, <2>4, SlotOfBlock
  <2> QED BY <2>2, <2>5
<1>5. ASSUME NEW n \in 0 .. Slots - 1, \A a \in Used : a \div HDR # n PROVE UsedSizes[n] = 0
  <2>1. UsedIn(n) = {}
    BY <1>5 DEF UsedIn
  <2> QED BY <2>1 DEF UsedSizes
<1> QED BY <1>3, <1>4, <1>5

(* The blocks are finitely many, and one at least. *)
LEMMA BlocksCount ==
  ASSUME Tiled
  PROVE  IsFiniteSet(Blocks) /\ Cardinality(Blocks) \in Nat /\ Cardinality(Blocks) >= 1
<1>1. \A a \in Blocks : a \in 0 .. Arena
  <2> TAKE a \in Blocks
  <2>1. a \in Nat /\ End(a) \in Nat /\ End(a) = a + 40 + blk[a].size /\ blk[a].size \in Nat /\ End(a) <= Arena
    BY HeaderFacts DEF Tiled, ListInv
  <2> QED BY <2>1, HeapAssumption
<1>2. IsFiniteSet(0 .. Arena)
  BY FS_Interval, HeapAssumption
<1>3. IsFiniteSet(Blocks)
  BY <1>1, <1>2, FS_Subset
<1>4. Cardinality(Blocks) \in Nat /\ Cardinality(Blocks) # 0
  BY <1>3, FS_CardinalityType, FS_EmptySet DEF Tiled, ListInv
<1> QED BY <1>3, <1>4

SizesSound == /\ UsedSizes \in Sizes
              /\ \A a \in Used : UsedSizes[a \div HDR] = blk[a].size
              /\ \A n \in 0 .. Slots - 1 : (\A a \in Used : a \div HDR # n) => UsedSizes[n] = 0

CountSound == IsFiniteSet(Blocks) /\ Cardinality(Blocks) \in Nat /\ Cardinality(Blocks) >= 1

SlotsSound == /\ \A a \in Blocks : a \div HDR \in 0 .. Slots - 1
              /\ \A a, b \in Blocks : a \div HDR = b \div HDR => a = b

(* The facts above in a form that also speaks of the next state. *)
LEMMA SumFacts == Tiled => SizesSound /\ CountSound /\ SlotsSound
<1> SUFFICES ASSUME Tiled PROVE SizesSound /\ CountSound /\ SlotsSound
  OBVIOUS
<1>1. SizesSound
  BY UsedSizesIs DEF SizesSound
<1>2. CountSound
  BY BlocksCount DEF CountSound
<1>3. SlotsSound
  BY SlotOfBlock DEF SlotsSound
<1> QED BY <1>1, <1>2, <1>3

(* They hold before and after a step between two tilings. *)
LEMMA SumFactsNext ==
  Tiled /\ Tiled' => /\ SizesSound /\ CountSound /\ SlotsSound
                     /\ SizesSound' /\ CountSound' /\ SlotsSound'
  BY SumFacts, PTL

(* What a block contributes to the sum, in each of two states. *)
ShareOf(f, a) == IF a \in DOMAIN f /\ f[a].used THEN f[a].size ELSE 0

(* A step in which only the share of block b changes changes the sum by as  *)
(* much.                                                                    *)
LEMMA BytesChange ==
  ASSUME Tiled, Tiled', NEW b \in Blocks, b \in Blocks',
         \A a \in Used : a # b => a \in Used' /\ blk'[a].size = blk[a].size,
         \A a \in Used' : a # b => a \in Used
  PROVE  /\ UsedBytes \in Nat /\ UsedBytes' \in Nat
         /\ ShareOf(blk, b) \in Nat /\ ShareOf(blk', b) \in Nat
         /\ ShareOf(blk, b) <= UsedBytes
         /\ UsedBytes' = UsedBytes + ShareOf(blk', b) - ShareOf(blk, b)
<1> DEFINE g == UsedSizes
           h == UsedSizes'
           c == b \div HDR
<1>1. SizesSound /\ SlotsSound /\ SizesSound' /\ SlotsSound'
  BY SumFactsNext
<1>2. c \in 0 .. Slots - 1
  BY <1>1 DEF SlotsSound
<1>3. g \in Sizes /\ h \in Sizes
  BY <1>1 DEF SizesSound
<1>4. g[c] = ShareOf(blk, b)
  <2>1. CASE b \in Used
    BY <1>1, <2>1 DEF SizesSound, ShareOf, Used, Blocks
  <2>2. CASE b \notin Used
    <3>1. \A a \in Used : a \div HDR # c
      BY <1>1, <2>2 DEF SlotsSound, Used
    <3> QED BY <1>1, <1>2, <2>2, <3>1 DEF SizesSound, ShareOf, Used, Blocks
  <2> QED BY <2>1, <2>2
<1>5. h[c] = ShareOf(blk', b)
  <2>1. CASE b \in Used'
    BY <1>1, <2>1 DEF SizesSound, ShareOf, Used, Blocks
  <2>2. CASE b \notin Used'
    <3>1. \A a \in Used' : a \div HDR # c
      BY <1>1, <2>2 DEF SlotsSound, Used
    <3> QED BY <1>1, <1>2, <2>2, <3>1 DEF SizesSound, ShareOf, Used, Blocks
  <2> QED BY <2>1, <2>2
<1>6. ASSUME NEW n \in (0 .. Slots - 1) \ {c} PROVE h[n] = g[n]
  <2>1. CASE \E a \in Used : a \div HDR = n
    <3>1. PICK a \in Used : a \div HDR = n
      BY <2>1
    <3>2. a # b /\ a \in Used' /\ blk'[a].size = blk[a].size
      BY <1>6, <3>1
    <3> QED BY <1>1, <3>1, <3>2 DEF SizesSound
  <2>2. CASE \A a \in Used : a \div HDR # n
    <3>1. \A a \in Used' : a \div HDR # n
      BY <1>6, <2>2
    <3>2. g[n] = 0
      BY <1>1, <1>6, <2>2 DEF SizesSound
    <3>3. h[n] = 0
      BY <1>1, <1>6, <3>1 DEF SizesSound
    <3> QED BY <3>2, <3>3
  <2> QED BY <2>1, <2>2
<1>7. UsedBytes = Sums(g)[Slots] /\ UsedBytes' = Sums(h)[Slots]
  BY DEF UsedBytes
<1> HIDE DEF g, h, c
<1>8. Sums(h)[Slots] = Sums(g)[Slots] + h[c] - g[c]
  BY <1>2, <1>3, <1>6, SumsChange
<1>9. /\ Sums(g)[Slots] \in Nat /\ Sums(h)[Slots] \in Nat
  BY <1>3, SumsIs, SlotsNat
<1>10. g[c] \in Nat /\ h[c] \in Nat
  BY <1>2, <1>3 DEF Sizes
<1>11. g[c] <= Sums(g)[Slots]
  <2> DEFINE z == [g EXCEPT ![c] = 0]
  <2>1. z \in Sizes /\ z[c] = 0 /\ \A n \in (0 .. Slots - 1) \ {c} : z[n] = g[n]
    BY <1>2, <1>3 DEF Sizes
  <2> HIDE DEF z
  <2>2. Sums(z)[Slots] = Sums(g)[Slots] + z[c] - g[c]
    BY <1>2, <1>3, <2>1, SumsChange
  <2>3. Sums(z)[Slots] \in Nat
    BY <2>1, SumsIs, SlotsNat
  <2> QED BY <1>9, <1>10, <2>1, <2>2, <2>3
<1> QED BY <1>4, <1>5, <1>7, <1>8, <1>9, <1>10, <1>11

(* A step that leaves the list alone leaves the sum alone. *)
LEMMA BytesKept == blk' = blk => UsedBytes' = UsedBytes /\ Cardinality(Blocks)' = Cardinality(Blocks)
  BY DEF UsedBytes, UsedSizes, UsedIn, Used, Blocks

(* malloc adds to the counter what it takes from a free block and, when it  *)
(* splits the block, the header of the rest.                                *)
LEMMA MallocCovers ==
  ASSUME IndInv, IndInv', NEW want \in Nat, Malloc(want), used_heap <= MaxUsed, Covers
  PROVE  Covers'
<1> DEFINE size == Round16(want)
<1>1. size \in Nat
  BY RoundSound
<1> HIDE DEF size
<1>2. PICK b \in Free : /\ BestFit(b, size) /\ blk' = Granted(b, size)
                        /\ used_heap' = (used_heap + GrantedSize(b, size) + HDR) % U64
                        /\ merged' = merged
  BY DEF Malloc, size
<1>3. Tiled /\ Tiled' /\ b \in Blocks /\ b \notin Used /\ ~blk[b].used
  BY <1>2, IndInvTiled DEF Free, Used, IndInv, HeapInv, Tiled, TypeOK, BlkType
<1>4. /\ b \in Nat /\ blk[b].size \in Nat /\ End(b) = b + 40 + blk[b].size /\ End(b) <= Arena
      /\ blk[b].size >= size
  BY <1>2, <1>3, HeaderFacts DEF Tiled, ListInv, BestFit
<1>5. used_heap \in Nat /\ merged \in Nat /\ MaxUsed \in Nat /\ Arena \in Nat /\ U64 \in Nat /\ MaxUsed + Arena < U64
  BY HeapAssumption, CounterAssumption DEF IndInv, TypeOK
<1>6. CountSound /\ CountSound'
  BY <1>3, SumFactsNext
<1>7. ShareOf(blk, b) = 0
  BY <1>3 DEF ShareOf, Blocks
<1>8. CASE Splits(b, size)
  <2> DEFINE n == b + HDR + size
  <2>1. blk' = SplitBlock(b, size) /\ GrantedSize(b, size) = size
    BY <1>2, <1>8 DEF Granted, GrantedSize
  <2>2. /\ n \notin Blocks /\ Blocks' = Blocks \cup {n}
        /\ ~blk'[n].used /\ blk'[b].used /\ blk'[b].size = size
        /\ \A a \in Blocks \ {b} : blk'[a].size = blk[a].size /\ blk'[a].used = blk[a].used
    BY <1>1, <1>3, <1>8, <2>1, SplitTiled
  <2> HIDE DEF n
  <2>3. b \in Blocks' /\ ShareOf(blk', b) = size
    BY <1>3, <2>2 DEF ShareOf, Blocks
  <2>4. /\ \A a \in Used : a # b => a \in Used' /\ blk'[a].size = blk[a].size
        /\ \A a \in Used' : a # b => a \in Used
    BY <2>2 DEF Used
  <2>5. UsedBytes \in Nat /\ UsedBytes' = UsedBytes + ShareOf(blk', b) - ShareOf(blk, b)
    BY <1>3, <2>3, <2>4, BytesChange
  <2>6. UsedBytes' = UsedBytes + size
    BY <1>1, <1>7, <2>3, <2>5
  <2>7. Cardinality(Blocks') = Cardinality(Blocks) + 1
    BY <1>6, <2>2, FS_AddElement DEF CountSound
  <2>8. used_heap + size + 40 \in 0 .. U64 - 1
    BY <1>1, <1>4, <1>5
  <2>9. used_heap' = used_heap + size + 40
    BY <1>2, <2>1, <2>8, ModSmall DEF HDR
  <2>10. used_heap >= UsedBytes + 40 * (Cardinality(Blocks) - 1 + merged)
    BY DEF Covers, HDR
  <2>11. used_heap' >= UsedBytes' + 40 * (Cardinality(Blocks') - 1 + merged')
    BY <1>1, <1>2, <1>5, <1>6, <2>5, <2>6, <2>7, <2>9, <2>10 DEF CountSound
  <2> QED BY <2>11 DEF Covers, HDR
<1>9. CASE ~Splits(b, size)
  <2>1. blk' = [blk EXCEPT ![b].used = TRUE] /\ GrantedSize(b, size) = blk[b].size
    BY <1>2, <1>9 DEF Granted, WholeBlock, GrantedSize
  <2>2. Blocks' = Blocks /\ \A a \in Blocks : /\ blk'[a].size = blk[a].size
                                              /\ blk'[a].used = IF a = b THEN TRUE ELSE blk[a].used
    BY <1>3, <2>1, FlipTiled
  <2>3. b \in Blocks' /\ ShareOf(blk', b) = blk[b].size
    BY <1>3, <2>2 DEF ShareOf, Blocks
  <2>4. /\ \A a \in Used : a # b => a \in Used' /\ blk'[a].size = blk[a].size
        /\ \A a \in Used' : a # b => a \in Used
    BY <2>2 DEF Used
  <2>5. UsedBytes \in Nat /\ UsedBytes' = UsedBytes + ShareOf(blk', b) - ShareOf(blk, b)
    BY <1>3, <2>3, <2>4, BytesChange
  <2>6. UsedBytes' = UsedBytes + blk[b].size
    BY <1>4, <1>7, <2>3, <2>5
  <2>8. used_heap + blk[b].size + 40 \in 0 .. U64 - 1
    BY <1>4, <1>5
  <2>9. used_heap' = used_heap + blk[b].size + 40
    BY <1>2, <2>1, <2>8, ModSmall DEF HDR
  <2>10. used_heap >= UsedBytes + 40 * (Cardinality(Blocks) - 1 + merged)
    BY DEF Covers, HDR
  <2>11. used_heap' >= UsedBytes' + 40 * (Cardinality(Blocks') - 1 + merged')
    BY <1>2, <1>4, <1>5, <1>6, <2>2, <2>5, <2>6, <2>9, <2>10 DEF CountSound
  <2> QED BY <2>11 DEF Covers, HDR
<1> QED BY <1>8, <1>9

(* The first steps of free take off the size of the block, which the counter *)
(* covers.                                                                  *)
LEMMA FreeCovers ==
  ASSUME IndInv, IndInv', NEW b \in Blocks, kernel_memory_free(b), Covers
  PROVE  Covers'
<1>1. /\ Tiled /\ Tiled' /\ b \in Used /\ blk[b].used /\ blk' = [blk EXCEPT ![b].used = FALSE]
      /\ used_heap' = (used_heap - blk[b].size) % U64 /\ merged' = 0
  BY IndInvTiled DEF kernel_memory_free, Used, IndInv, HeapInv, Tiled, TypeOK, BlkType
<1>2. Blocks' = Blocks /\ \A a \in Blocks : /\ blk'[a].size = blk[a].size
                                            /\ blk'[a].used = IF a = b THEN FALSE ELSE blk[a].used
  BY <1>1, FlipTiled
<1>3. b \in Blocks' /\ ShareOf(blk', b) = 0 /\ ShareOf(blk, b) = blk[b].size
  BY <1>1, <1>2 DEF ShareOf, Blocks
<1>4. /\ \A a \in Used : a # b => a \in Used' /\ blk'[a].size = blk[a].size
      /\ \A a \in Used' : a # b => a \in Used
  BY <1>2 DEF Used
<1>5. UsedBytes \in Nat /\ ShareOf(blk, b) <= UsedBytes /\ UsedBytes' = UsedBytes + ShareOf(blk', b) - ShareOf(blk, b)
  BY <1>1, <1>3, <1>4, BytesChange
<1>6. blk[b].size \in Nat /\ blk[b].size <= UsedBytes /\ UsedBytes' = UsedBytes - blk[b].size
  BY <1>1, <1>3, <1>5, HeaderFacts
<1>7. used_heap \in 0 .. U64 - 1 /\ U64 \in Nat /\ merged \in Nat /\ CountSound
  BY <1>1, SumFacts, HeapAssumption DEF IndInv, TypeOK
<1>8. used_heap >= UsedBytes + 40 * (Cardinality(Blocks) - 1 + merged)
  BY DEF Covers, HDR
<1>9. used_heap - blk[b].size \in 0 .. U64 - 1
  BY <1>5, <1>6, <1>7, <1>8 DEF CountSound
<1>10. used_heap' = used_heap - blk[b].size
  BY <1>1, <1>9, ModSmall
<1>11. used_heap' >= UsedBytes' + 40 * (Cardinality(Blocks') - 1 + merged')
  <2>1. Cardinality(Blocks') = Cardinality(Blocks) /\ Cardinality(Blocks) \in Nat /\ merged' = 0
    BY <1>1, <1>2, <1>7 DEF CountSound
  <2> QED BY <1>5, <1>6, <1>7, <1>8, <1>10, <2>1
<1> QED BY <1>11 DEF Covers, HDR

(* A merge takes one header off the list and counts it in merged. *)
LEMMA AbsorbCovers ==
  ASSUME IndInv, NEW low \in Free, NEW high \in Free, blk[low].next = high, Absorb(low, high),
         cur' = low, pc \in {"forward", "backward"}, Covers
  PROVE  Covers'
<1>1. Tiled /\ low \in Blocks /\ high \in Blocks /\ ~blk[low].used /\ ~blk[high].used
  BY IndInvTiled DEF Free, Used
<1>2. Tiled' /\ Used' = Used /\ \A a \in Used : blk'[a].size = blk[a].size
  BY AbsorbFacts
<1>3. low < high /\ Blocks' = Blocks \ {high} /\ blk'[low].used = blk[low].used /\ low \in Nat
  BY <1>1, JoinTiled, HeaderFacts DEF Absorb
<1>4. low \in Blocks'
  BY <1>1, <1>3
<1>5. ShareOf(blk, low) = 0 /\ ShareOf(blk', low) = 0
  BY <1>1, <1>3, <1>4 DEF ShareOf, Blocks
<1>6. UsedBytes \in Nat /\ UsedBytes' = UsedBytes + ShareOf(blk', low) - ShareOf(blk, low)
  BY <1>1, <1>2, <1>4, BytesChange
<1>7. UsedBytes' = UsedBytes
  BY <1>5, <1>6
<1>8. CountSound
  BY <1>1, SumFacts
<1>9. Cardinality(Blocks') = Cardinality(Blocks) - 1
  BY <1>1, <1>3, <1>8, FS_RemoveElement DEF CountSound
<1>10. used_heap' = used_heap /\ merged' = merged + 1 /\ merged \in Nat
  BY DEF Absorb, IndInv, TypeOK
<1>11. used_heap >= UsedBytes + 40 * (Cardinality(Blocks) - 1 + merged)
  BY DEF Covers, HDR
<1>12. used_heap' >= UsedBytes' + 40 * (Cardinality(Blocks') - 1 + merged')
  BY <1>6, <1>7, <1>8, <1>9, <1>10, <1>11 DEF CountSound
<1> QED BY <1>12 DEF Covers, HDR

(* free returns after taking off the headers that it merged away. *)
LEMMA ReturnCovers ==
  ASSUME IndInv, FreeReturns, Covers
  PROVE  Covers'
<1>1. blk' = blk /\ used_heap' = (used_heap - 40 * merged) % U64 /\ merged' = 0
  BY DEF FreeReturns, HDR
<1>2. Tiled /\ UsedBytes' = UsedBytes /\ Cardinality(Blocks)' = Cardinality(Blocks)
  BY <1>1, BytesKept, IndInvTiled
<1>3. used_heap \in 0 .. U64 - 1 /\ U64 \in Nat /\ merged \in Nat /\ CountSound
  BY <1>2, SumFacts, HeapAssumption DEF IndInv, TypeOK
<1>4. UsedBytes \in Nat
  <2>1. UsedSizes \in Sizes
    BY <1>2, SumFacts DEF SizesSound
  <2> QED BY <2>1, SumsIs, SlotsNat DEF UsedBytes
<1>5. used_heap >= UsedBytes + 40 * (Cardinality(Blocks) - 1 + merged)
  BY DEF Covers, HDR
<1>6. used_heap - 40 * merged \in 0 .. U64 - 1
  BY <1>3, <1>4, <1>5 DEF CountSound
<1>7. used_heap' = used_heap - 40 * merged
  BY <1>1, <1>6, ModSmall
<1>8. used_heap' >= UsedBytes' + 40 * (Cardinality(Blocks)' - 1 + merged')
  BY <1>1, <1>2, <1>3, <1>4, <1>5, <1>7 DEF CountSound
<1> QED BY <1>8 DEF Covers, HDR

(* So does a step that leaves the list, the counter and the merge alone. *)
LEMMA StutterCovers == Covers /\ UNCHANGED <<blk, used_heap, merged>> => Covers'
<1> SUFFICES ASSUME Covers, UNCHANGED <<blk, used_heap, merged>> PROVE Covers'
  OBVIOUS
<1>1. UsedBytes' = UsedBytes /\ Cardinality(Blocks)' = Cardinality(Blocks)
  BY BytesKept
<1> QED BY <1>1 DEF Covers

(* While callers free each pointer once, used_heap covers the bytes in use  *)
(* and the headers that splits added, through every malloc, free and merge: *)
(* it never wraps below zero.                                               *)
THEOREM CounterCorrect == Spec => CounterCovers
<1>1. IndInv /\ IndInv' /\ [Next]_vars => [CoversStep]_vars
  <2> SUFFICES ASSUME IndInv, IndInv', Next, Covers,
                      \A a \in Blocks \cup DOMAIN stale : ~FreeAgain(a)
               PROVE  Covers'
    BY DEF vars, CoversStep
  <2>1. ASSUME NEW want \in Requests, kernel_memory_create(want) PROVE Covers'
    <3>1. CASE Malloc(want)
      <4>1. used_heap <= MaxUsed /\ want \in Nat
        BY <2>1, HeapAssumption DEF kernel_memory_create
      <4> QED BY <3>1, <4>1, MallocCovers
    <3>2. CASE MallocFails(want)
      BY <3>2, StutterCovers DEF MallocFails, vars
    <3> QED BY <2>1, <3>1, <3>2 DEF kernel_memory_create
  <2>2. ASSUME NEW p \in Counted, kernel_memory_alloc(p[1], p[2]) PROVE Covers'
    <3> DEFINE total == (p[1] * p[2]) % U64
    <3>1. total \in Nat
      <4>1. p[1] * p[2] \in Nat
        BY HeapAssumption
      <4> QED BY <4>1, ModRange, HeapAssumption
    <3>2. used_heap <= MaxUsed /\ (Malloc(total) \/ UNCHANGED vars)
      BY <2>2 DEF kernel_memory_alloc, MallocFails
    <3> HIDE DEF total
    <3>3. CASE Malloc(total)
      BY <3>1, <3>2, <3>3, MallocCovers
    <3>4. CASE UNCHANGED vars
      BY <3>4, StutterCovers DEF vars
    <3> QED BY <3>2, <3>3, <3>4
  <2>3. ASSUME NEW b \in Blocks, kernel_memory_free(b) PROVE Covers'
    BY <2>3, FreeCovers
  <2>4. CASE MergeForward
    <3>1. pc = "forward" /\ cur \in Free /\ Tiled /\ cur' = cur /\ Absorb(cur, blk[cur].next)
      BY <2>4, IndInvTiled DEF MergeForward, IndInv, TypeOK
    <3>2. blk[cur].next \in Free
      BY <2>4, <3>1, HeaderFacts DEF MergeForward, IsFree, NULL, Free, Used
    <3> QED BY <3>1, <3>2, AbsorbCovers
  <2>5. CASE MergeBackward
    <3>1. /\ pc = "backward" /\ cur \in Free /\ cur \in Blocks /\ Tiled
          /\ Absorb(blk[cur].prev, cur) /\ cur' = blk[cur].prev
      BY <2>5, IndInvTiled DEF MergeBackward, IndInv, TypeOK, Free
    <3>2. blk[cur].prev \in Blocks
      BY <2>5, <3>1, HeaderFacts DEF MergeBackward, IsFree, NULL
    <3>3. blk[cur].prev \in Free /\ blk[blk[cur].prev].next = cur
      BY <2>5, <3>1, <3>2, HeaderFacts DEF MergeBackward, IsFree, Free, Used
    <3> QED BY <3>1, <3>3, AbsorbCovers
  <2>6. CASE FreeReturns
    BY <2>6, ReturnCovers
  <2>7. CASE ForwardDone \/ Panicked
    BY <2>7, StutterCovers DEF ForwardDone, Panicked, vars
  <2> QED BY <2>1, <2>2, <2>3, <2>4, <2>5, <2>6, <2>7 DEF Next, Merging
<1> QED BY <1>1, InitInv, NextInv, PTL DEF Spec, CounterCovers
=============================================================================
