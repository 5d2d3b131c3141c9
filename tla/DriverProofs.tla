---------------------------- MODULE DriverProofs ----------------------------
(***************************************************************************)
(* Proofs about the device drivers: the event ring of xHCI (Xhci), the     *)
(* rings and the address table of the network (Network), for rings and     *)
(* tables of every size, and the sectors of disks and partitions (Disk).   *)
(***************************************************************************)
EXTENDS Xhci, Network, Disk, FiniteSetTheorems, TLAPS

-----------------------------------------------------------------------------
(* Going round a ring *)

LEMMA ModSmall ==
  ASSUME NEW n \in Nat \ {0}, NEW a \in 0..n - 1
  PROVE  a % n = a /\ a \div n = 0
OBVIOUS

LEMMA ModAdd ==
  ASSUME NEW n \in Nat \ {0}, NEW a \in 0..n - 1, NEW b \in 0..n
  PROVE  (a + b) % n = (IF a + b < n THEN a + b ELSE a + b - n) /\ (a + b) % n \in 0..n - 1
<1>1. CASE a + b < n
  BY <1>1
<1>2. CASE a + b >= n
  BY <1>2
<1> QED BY <1>1, <1>2

LEMMA ModNext ==
  ASSUME NEW n \in Nat \ {0}, NEW a \in 0..n - 1
  PROVE  (a + 1) % n = (IF a + 1 < n THEN a + 1 ELSE 0) /\ (a + 1) % n \in 0..n - 1
<1>1. 1 \in 0..n
  OBVIOUS
<1>2. (a + 1) % n = (IF a + 1 < n THEN a + 1 ELSE a + 1 - n) /\ (a + 1) % n \in 0..n - 1
  BY <1>1, ModAdd
<1> QED BY <1>2

-----------------------------------------------------------------------------
(* The xHCI event ring *)

LEMMA XhciInitInv == XhciInit => XhciInv
<1> SUFFICES ASSUME XhciInit PROVE XhciInv
  OBVIOUS
<1> USE XhciAssumption DEF XhciInit
<1>1. event_ring \in [0..RingSize - 1 -> [n : Nat, cycle : {0, 1}]] /\ event_ring_index \in 0..RingSize - 1
  OBVIOUS
<1>2. xhandled \in Seq(Nat) /\ Len(xhandled) = 0 /\ DOMAIN xhandled = {}
  OBVIOUS
<1> QED BY <1>1, <1>2 DEF XhciInv, EventsInOrder

LEMMA PostEventInv == XhciInv /\ PostEvent => XhciInv'
<1> SUFFICES ASSUME XhciInv, PostEvent PROVE XhciInv'
  OBVIOUS
<1> USE XhciAssumption
<1> DEFINE event == [n |-> posted + 1, cycle |-> IF (posted \div RingSize) % 2 = 0 THEN 1 ELSE 0]
<1>1. posted \in Nat /\ posted' = posted + 1 /\ posted' \in Nat /\ posted % RingSize \in 0..RingSize - 1
  BY DEF XhciInv, PostEvent
<1>2. event \in [n : Nat, cycle : {0, 1}]
  BY <1>1
<1>3. event_ring' = [event_ring EXCEPT ![posted % RingSize] = event]
  BY DEF PostEvent
<1>4. event_ring' \in [0..RingSize - 1 -> [n : Nat, cycle : {0, 1}]]
  BY <1>1, <1>2, <1>3 DEF XhciInv
<1>5. UNCHANGED <<event_ring_index, xhandled>>
  BY DEF PostEvent
<1>6. ASSUME posted' < RingSize
      PROVE  /\ event_ring_index' = Len(xhandled')
             /\ \A i \in 0..RingSize - 1 : event_ring'[i] = IF i < posted' THEN [n |-> i + 1, cycle |-> 1]
                                                            ELSE [n |-> 0, cycle |-> 0]
             /\ Len(xhandled') <= posted' /\ \A i \in DOMAIN xhandled' : xhandled'[i] = i
  <2>1. posted < RingSize /\ posted \in 0..RingSize - 1
    BY <1>1, <1>6
  <2>2. posted % RingSize = posted /\ posted \div RingSize = 0
    BY <2>1, ModSmall
  <2>3. event = [n |-> posted + 1, cycle |-> 1]
    BY <2>2
  <2> HIDE DEF event
  <2>4. \A i \in 0..RingSize - 1 : event_ring'[i] = IF i = posted THEN event ELSE event_ring[i]
    BY <1>3, <2>1, <2>2 DEF XhciInv
  <2>5. \A i \in 0..RingSize - 1 : event_ring[i] = IF i < posted THEN [n |-> i + 1, cycle |-> 1] ELSE [n |-> 0, cycle |-> 0]
    BY <2>1 DEF XhciInv
  <2>6. ASSUME NEW i \in 0..RingSize - 1
        PROVE  event_ring'[i] = IF i < posted' THEN [n |-> i + 1, cycle |-> 1] ELSE [n |-> 0, cycle |-> 0]
    <3>1. CASE i = posted
      BY <3>1, <2>3, <2>4, <1>1
    <3>2. CASE i # posted
      <4>1. i < posted' <=> i < posted
        BY <3>2, <1>1
      <4> QED BY <3>2, <4>1, <2>4, <2>5
    <3> QED BY <3>1, <3>2
  <2>7. Len(xhandled) <= posted /\ \A i \in DOMAIN xhandled : xhandled[i] = i
    BY <2>1 DEF XhciInv, EventsInOrder
  <2>8. Len(xhandled) <= posted'
    BY <2>7, <1>1 DEF XhciInv
  <2> QED BY <1>5, <2>1, <2>6, <2>7, <2>8 DEF XhciInv
<1> QED BY <1>1, <1>4, <1>5, <1>6 DEF XhciInv, EventsInOrder

LEMMA HandleEventInv == XhciInv /\ xhci_handle_event => XhciInv'
<1> SUFFICES ASSUME XhciInv, xhci_handle_event PROVE XhciInv'
  OBVIOUS
<1> USE XhciAssumption
<1>1. /\ event_ring_index \in 0..RingSize - 1 /\ event_ring[event_ring_index].n \in Nat /\ xhandled \in Seq(Nat)
      /\ xhandled' = Append(xhandled, event_ring[event_ring_index].n) /\ UNCHANGED <<event_ring, posted>>
      /\ event_ring[event_ring_index].cycle = 1 /\ posted \in Nat
  BY DEF XhciInv, xhci_handle_event
<1>2. xhandled' \in Seq(Nat) /\ Len(xhandled') = Len(xhandled) + 1 /\ Len(xhandled) \in Nat
  BY <1>1
<1>3. event_ring_index' = (event_ring_index + 1) % RingSize /\ event_ring_index' \in 0..RingSize - 1
  BY <1>1, ModNext DEF xhci_handle_event, xhci_get_next_trb
<1>4. ASSUME posted < RingSize
      PROVE  /\ event_ring_index' = Len(xhandled')
             /\ Len(xhandled') <= posted /\ \A i \in DOMAIN xhandled' : xhandled'[i] = i
  <2>1. /\ event_ring_index = Len(xhandled)
        /\ event_ring[event_ring_index] = IF event_ring_index < posted THEN [n |-> event_ring_index + 1, cycle |-> 1]
                                          ELSE [n |-> 0, cycle |-> 0]
    BY <1>1, <1>4 DEF XhciInv
  <2>2. event_ring_index < posted /\ event_ring[event_ring_index].n = Len(xhandled) + 1
    BY <1>1, <2>1
  <2>3. event_ring_index' = Len(xhandled) + 1
    <3>1. event_ring_index' = IF event_ring_index + 1 < RingSize THEN event_ring_index + 1 ELSE 0
      BY <1>1, <1>3, ModNext
    <3> QED BY <1>1, <1>2, <1>4, <2>1, <2>2, <3>1
  <2>4. \A i \in DOMAIN xhandled : xhandled[i] = i
    BY <1>4 DEF XhciInv, EventsInOrder
  <2>5. \A i \in DOMAIN xhandled' : xhandled'[i] = i
    BY <1>1, <1>2, <2>2, <2>4
  <2> QED BY <1>1, <1>2, <2>1, <2>2, <2>3, <2>5
<1> QED BY <1>1, <1>2, <1>3, <1>4 DEF XhciInv, EventsInOrder

(* xhci_handle_event: for rings of every size and any number of ports and   *)
(* slots, the events of the first round are handled once each, in order.    *)
THEOREM EventsCorrect == XhciSpec => []EventsInOrder
<1>1. XhciInv /\ [XhciNext]_xhciVars => XhciInv'
  <2> SUFFICES ASSUME XhciInv, [XhciNext]_xhciVars PROVE XhciInv'
    OBVIOUS
  <2>1. CASE UNCHANGED <<event_ring, event_ring_index, posted, xhandled>>
    BY <2>1 DEF XhciInv, EventsInOrder
  <2> QED BY <2>1, PostEventInv, HandleEventInv
          DEF XhciNext, xhciVars, xhci_init, SkipXPort, xhci_address_device, xhci_enumerate_device
<1> QED BY <1>1, XhciInitInv, PTL DEF XhciSpec, XhciInv

-----------------------------------------------------------------------------
(* The network card's rings *)

LEMMA RingAt ==
  ASSUME NEW c \in RingSlot, NEW i \in 1..Ring + 1
  PROVE  (c + i - 1) % Ring = (IF c + i - 1 < Ring THEN c + i - 1 ELSE c + i - 1 - Ring) /\ (c + i - 1) % Ring \in RingSlot
<1>1. i - 1 \in 0..Ring /\ c \in 0..Ring - 1 /\ c + (i - 1) = c + i - 1 /\ Ring \in Nat \ {0}
  BY NetworkAssumption DEF RingSlot
<1>2. (c + (i - 1)) % Ring = (IF c + (i - 1) < Ring THEN c + (i - 1) ELSE c + (i - 1) - Ring) /\ (c + (i - 1)) % Ring \in 0..Ring - 1
  BY <1>1, ModAdd
<1> QED BY <1>1, <1>2 DEF RingSlot

LEMMA RingPlus ==
  ASSUME NEW c \in RingSlot, NEW n \in 0..Ring
  PROVE  (c + n) % Ring = (IF c + n < Ring THEN c + n ELSE c + n - Ring) /\ (c + n) % Ring \in RingSlot
BY NetworkAssumption, ModAdd DEF RingSlot

LEMMA RingNext ==
  ASSUME NEW c \in RingSlot
  PROVE  NextSlot(c) = (IF c + 1 < Ring THEN c + 1 ELSE 0) /\ NextSlot(c) \in RingSlot
BY NetworkAssumption, ModNext DEF RingSlot, NextSlot

LEMMA RingStep ==
  ASSUME NEW c \in RingSlot, NEW m \in 0..Ring - 1
  PROVE  NextSlot((c + m) % Ring) = (c + (m + 1)) % Ring
<1> DEFINE x == (c + m) % Ring
           y == (c + (m + 1)) % Ring
           z == NextSlot(x)
<1>1. m \in 0..Ring /\ m + 1 \in 0..Ring /\ Ring \in Nat /\ c \in 0..Ring - 1
  BY NetworkAssumption DEF RingSlot
<1>2. x = (IF c + m < Ring THEN c + m ELSE c + m - Ring) /\ x \in RingSlot
  BY <1>1, RingPlus
<1>3. y = (IF c + (m + 1) < Ring THEN c + (m + 1) ELSE c + (m + 1) - Ring)
  BY <1>1, RingPlus
<1> HIDE DEF x, y
<1>4. z = (IF x + 1 < Ring THEN x + 1 ELSE 0)
  BY <1>2, RingNext
<1> HIDE DEF z
<1>5. z = y
  BY <1>1, <1>2, <1>3, <1>4
<1> QED BY <1>5 DEF x, y, z

LEMMA RingShift ==
  ASSUME NEW c \in RingSlot, NEW m \in 0..Ring - 1
  PROVE  (NextSlot(c) + m) % Ring = (c + (m + 1)) % Ring
<1> DEFINE x == NextSlot(c)
           y == (c + (m + 1)) % Ring
           z == (x + m) % Ring
<1>1. m \in 0..Ring /\ m + 1 \in 0..Ring /\ Ring \in Nat /\ c \in 0..Ring - 1
  BY NetworkAssumption DEF RingSlot
<1>2. x = (IF c + 1 < Ring THEN c + 1 ELSE 0) /\ x \in RingSlot
  BY RingNext
<1>3. y = (IF c + (m + 1) < Ring THEN c + (m + 1) ELSE c + (m + 1) - Ring)
  BY <1>1, RingPlus
<1> HIDE DEF x, y
<1>4. z = (IF x + m < Ring THEN x + m ELSE x + m - Ring)
  BY <1>1, <1>2, RingPlus
<1> HIDE DEF z
<1>5. z = y
  BY <1>1, <1>2, <1>3, <1>4
<1> QED BY <1>5 DEF x, y, z

LEMMA RingApart ==
  ASSUME NEW c \in RingSlot, NEW a \in 0..Ring - 1, NEW b \in 0..Ring - 1, a # b
  PROVE  (c + a) % Ring # (c + b) % Ring
<1> DEFINE x == (c + a) % Ring
           y == (c + b) % Ring
<1>1. a \in 0..Ring /\ b \in 0..Ring /\ Ring \in Nat /\ c \in 0..Ring - 1
  BY NetworkAssumption DEF RingSlot
<1>2. x = (IF c + a < Ring THEN c + a ELSE c + a - Ring)
  BY <1>1, RingPlus
<1>3. y = (IF c + b < Ring THEN c + b ELSE c + b - Ring)
  BY <1>1, RingPlus
<1> HIDE DEF x, y
<1>4. x # y
  BY <1>1, <1>2, <1>3
<1> QED BY <1>4 DEF x, y

LEMMA RingZero ==
  ASSUME NEW c \in RingSlot
  PROVE  (c + 0) % Ring = c /\ (c + 1 - 1) % Ring = c
<1>1. c \in 0..Ring - 1 /\ Ring \in Nat \ {0} /\ c + 0 = c /\ c + 1 - 1 = c
  BY NetworkAssumption DEF RingSlot
<1>2. c % Ring = c
  BY <1>1, ModSmall
<1> QED BY <1>1, <1>2

LEMMA RingBehind ==
  ASSUME NEW c \in RingSlot, NEW n \in 0..Ring - 1, NEW i \in 1..n
  PROVE  (c + i - 1) % Ring # (c + n) % Ring /\ (c + i - 1) % Ring \in RingSlot
<1>1. /\ i \in 1..Ring + 1 /\ i - 1 \in 0..Ring - 1 /\ i - 1 # n /\ c + i - 1 = c + (i - 1)
  BY NetworkAssumption DEF RingSlot
<1>2. (c + (i - 1)) % Ring # (c + n) % Ring
  BY <1>1, RingApart
<1>3. (c + i - 1) % Ring \in RingSlot
  BY <1>1, RingAt
<1> QED BY <1>1, <1>2, <1>3

LEMMA RingAhead ==
  ASSUME NEW c \in RingSlot, NEW n \in 0..Ring - 1, NEW i \in 1..n - 1
  PROVE  /\ (NextSlot(c) + i - 1) % Ring = (c + (i + 1) - 1) % Ring
         /\ (NextSlot(c) + i - 1) % Ring # c /\ (NextSlot(c) + i - 1) % Ring \in RingSlot
<1>1. NextSlot(c) \in RingSlot /\ (c + 0) % Ring = c
  BY RingNext, RingZero
<1>2. /\ i \in 1..Ring + 1 /\ i - 1 \in 0..Ring - 1 /\ i \in 0..Ring - 1 /\ 0 \in 0..Ring - 1 /\ i # 0
      /\ (i - 1) + 1 = i /\ NextSlot(c) + i - 1 = NextSlot(c) + (i - 1) /\ c + (i + 1) - 1 = c + i
  BY <1>1, NetworkAssumption DEF RingSlot
<1>3. (NextSlot(c) + (i - 1)) % Ring = (c + ((i - 1) + 1)) % Ring
  BY <1>2, RingShift
<1>4. (c + i) % Ring # (c + 0) % Ring
  BY <1>2, RingApart
<1>5. (NextSlot(c) + i - 1) % Ring \in RingSlot
  BY <1>1, <1>2, RingAt
<1> QED BY <1>1, <1>2, <1>3, <1>4, <1>5

LEMMA RingRoom ==
  ASSUME NEW c \in RingSlot, NEW n \in 0..Ring - 1, NextSlot((c + n) % Ring) # c
  PROVE  n + 1 < Ring
<1>1. NextSlot((c + n) % Ring) = (c + (n + 1)) % Ring
  BY RingStep
<1>2. Ring \in 0..Ring /\ (c + Ring) % Ring = c
  <2>1. Ring \in 0..Ring
    BY NetworkAssumption
  <2>2. (c + Ring) % Ring = (IF c + Ring < Ring THEN c + Ring ELSE c + Ring - Ring)
    BY <2>1, RingPlus
  <2> QED BY <2>1, <2>2, NetworkAssumption DEF RingSlot
<1>3. n + 1 # Ring
  BY <1>1, <1>2
<1> QED BY <1>3, NetworkAssumption

LEMMA SeqElements ==
  ASSUME NEW S, NEW seq \in Seq(S)
  PROVE  seq \in Seq(Elements(seq))
BY DEF Elements

LEMMA CardReceivesInv == RxInv /\ CardReceives => RxInv'
<1> SUFFICES ASSUME RxInv, CardReceives PROVE RxInv'
  OBVIOUS
<1> DEFINE n == Len(incoming)
<1>1. PICK p \in Packets : rx' = [rx EXCEPT ![rdh] = p] /\ incoming' = Append(incoming, p)
  BY DEF CardReceives
<1>2. /\ rx_cur \in RingSlot /\ rdh \in RingSlot /\ rdt \in RingSlot /\ n \in Nat /\ n < Ring /\ Ring \in Nat
      /\ rdh # rdt /\ rdh' = NextSlot(rdh) /\ UNCHANGED <<rx_cur, rdt>> /\ incoming \in Seq(Packets) /\ p # NoPacket
      /\ rdh = (rx_cur + n) % Ring /\ rdt = (rx_cur + Ring - 1) % Ring
      /\ rx \in [RingSlot -> Packets \cup {NoPacket}]
  BY NetworkAssumption DEF RxInv, CardReceives
<1>3. incoming' \in Seq(Packets) /\ Len(incoming') = n + 1 /\ incoming'[n + 1] = p /\ \A i \in 1..n : incoming'[i] = incoming[i]
  BY <1>1, <1>2
<1>4. n + 1 < Ring
  <2>1. n = Ring - 1 => rx_cur + n = rx_cur + Ring - 1
    BY <1>2 DEF RingSlot
  <2> QED BY <1>2, <2>1
<1>5. \A i \in 1..n : (rx_cur + i - 1) % Ring # rdh /\ (rx_cur + i - 1) % Ring \in RingSlot
  <2> SUFFICES ASSUME NEW i \in 1..n PROVE (rx_cur + i - 1) % Ring # rdh /\ (rx_cur + i - 1) % Ring \in RingSlot
    OBVIOUS
  <2>1. n \in 0..Ring - 1
    BY <1>2
  <2> QED BY <1>2, <2>1, RingBehind
<1>6. (rx_cur + (n + 1)) % Ring = rdh' /\ rdh' \in RingSlot
  <2>1. n \in 0..Ring - 1
    BY <1>2
  <2> QED BY <1>2, <2>1, RingStep, RingNext
<1>7. (rx_cur + (n + 1) - 1) % Ring = rdh
  <2>1. rx_cur + (n + 1) - 1 = rx_cur + n
    BY <1>2 DEF RingSlot
  <2> QED BY <1>2, <2>1
<1>8. rx' \in [RingSlot -> Packets \cup {NoPacket}] /\ rx'[rdh] = p /\ \A s \in RingSlot : s # rdh => rx'[s] = rx[s]
  BY <1>1, <1>2
<1>9. RingFrom(rx', rx_cur, n + 1) = incoming'
  <2>1. \A i \in 1..n : rx[(rx_cur + i - 1) % Ring] = incoming[i]
    BY DEF RxInv, RingFrom
  <2>2. \A i \in 1..n : rx'[(rx_cur + i - 1) % Ring] = incoming'[i]
    BY <1>3, <1>5, <1>8, <2>1
  <2>3. \A i \in 1..n + 1 : i \in 1..n \/ i = n + 1
    BY <1>2
  <2>4. \A i \in 1..n + 1 : rx'[(rx_cur + i - 1) % Ring] = incoming'[i]
    BY <1>3, <1>7, <1>8, <2>2, <2>3
  <2>5. incoming' = [i \in 1..n + 1 |-> incoming'[i]]
    BY <1>3
  <2> QED BY <2>4, <2>5 DEF RingFrom
<1>10. {i \in RingSlot : rx'[i] # NoPacket} = SlotsFrom(rx_cur, n + 1)
  <2>1. {i \in RingSlot : rx[i] # NoPacket} = SlotsFrom(rx_cur, n)
    BY DEF RxInv
  <2>2. SlotsFrom(rx_cur, n + 1) = SlotsFrom(rx_cur, n) \cup {rdh}
    <3>1. \A i \in 1..n + 1 : i \in 1..n \/ i = n + 1
      BY <1>2
    <3>2. n + 1 \in 1..n + 1 /\ \A i \in 1..n : i \in 1..n + 1
      BY <1>2
    <3> QED BY <1>7, <3>1, <3>2 DEF SlotsFrom
  <2>3. {i \in RingSlot : rx'[i] # NoPacket} = {i \in RingSlot : rx[i] # NoPacket} \cup {rdh}
    BY <1>2, <1>8
  <2> QED BY <2>1, <2>2, <2>3
<1> QED BY <1>2, <1>3, <1>4, <1>6, <1>8, <1>9, <1>10 DEF RxInv

LEMMA ReceiveInv == RxInv /\ e1000_receive_packet => RxInv'
<1> SUFFICES ASSUME RxInv, e1000_receive_packet PROVE RxInv'
  OBVIOUS
<1> DEFINE n == Len(incoming)
<1>1. /\ rx_cur \in RingSlot /\ rdh \in RingSlot /\ n \in Nat /\ n < Ring /\ Ring \in Nat
      /\ rx_cur' = NextSlot(rx_cur) /\ rdt' = (rx_cur' + Ring - 1) % Ring /\ UNCHANGED rdh
      /\ incoming \in Seq(Packets) /\ rx \in [RingSlot -> Packets \cup {NoPacket}]
      /\ rdh = (rx_cur + n) % Ring /\ rx' = [rx EXCEPT ![rx_cur] = NoPacket] /\ rx[rx_cur] # NoPacket
      /\ \A i \in 1..n : rx[(rx_cur + i - 1) % Ring] = incoming[i]
      /\ {i \in RingSlot : rx[i] # NoPacket} = SlotsFrom(rx_cur, n)
  BY NetworkAssumption DEF RxInv, RingFrom, e1000_receive_packet
<1>2. n >= 1
  BY <1>1 DEF SlotsFrom
<1>3. incoming' \in Seq(Packets) /\ Len(incoming') = n - 1 /\ n - 1 \in Nat /\ \A i \in 1..n - 1 : incoming'[i] = incoming[i + 1]
  <2>1. incoming # <<>> /\ incoming' = Tail(incoming)
    BY <1>1, <1>2 DEF e1000_receive_packet
  <2> QED BY <1>1, <1>2, <2>1
<1>4. rx_cur' = (IF rx_cur + 1 < Ring THEN rx_cur + 1 ELSE 0) /\ rx_cur' \in RingSlot
  BY <1>1, RingNext
<1>5. rdt' \in RingSlot
  <2>1. Ring \in 1..Ring + 1
    BY NetworkAssumption
  <2> QED BY <1>1, <1>4, <2>1, RingAt
<1>6. (rx_cur' + (n - 1)) % Ring = rdh
  <2>1. n - 1 \in 0..Ring - 1 /\ (n - 1) + 1 = n
    BY <1>1, <1>2
  <2>2. (NextSlot(rx_cur) + (n - 1)) % Ring = (rx_cur + ((n - 1) + 1)) % Ring
    BY <1>1, <2>1, RingShift
  <2> QED BY <1>1, <2>1, <2>2
<1>7. \A i \in 1..n - 1 : /\ (rx_cur' + i - 1) % Ring = (rx_cur + (i + 1) - 1) % Ring
                          /\ (rx_cur' + i - 1) % Ring # rx_cur /\ (rx_cur' + i - 1) % Ring \in RingSlot
  <2> SUFFICES ASSUME NEW i \in 1..n - 1
               PROVE  /\ (rx_cur' + i - 1) % Ring = (rx_cur + (i + 1) - 1) % Ring
                      /\ (rx_cur' + i - 1) % Ring # rx_cur /\ (rx_cur' + i - 1) % Ring \in RingSlot
    OBVIOUS
  <2>1. n \in 0..Ring - 1
    BY <1>1
  <2> QED BY <1>1, <2>1, RingAhead
<1>8. rx' \in [RingSlot -> Packets \cup {NoPacket}] /\ rx'[rx_cur] = NoPacket /\ \A s \in RingSlot : s # rx_cur => rx'[s] = rx[s]
  BY <1>1
<1>9. RingFrom(rx', rx_cur', n - 1) = incoming'
  <2>1. \A i \in 1..n - 1 : i + 1 \in 1..n
    BY <1>1
  <2>2. \A i \in 1..n - 1 : rx'[(rx_cur' + i - 1) % Ring] = incoming'[i]
    BY <1>1, <1>3, <1>7, <1>8, <2>1
  <2>3. incoming' = [i \in 1..n - 1 |-> incoming'[i]]
    BY <1>3
  <2> QED BY <2>2, <2>3 DEF RingFrom
<1>10. {i \in RingSlot : rx'[i] # NoPacket} = SlotsFrom(rx_cur', n - 1)
  <2>1. SlotsFrom(rx_cur, n) = SlotsFrom(rx_cur', n - 1) \cup {rx_cur}
    <3>1. (rx_cur + 1 - 1) % Ring = rx_cur
      BY <1>1, RingZero
    <3>2. \A i \in 1..n : i = 1 \/ (i - 1 \in 1..n - 1 /\ (i - 1) + 1 = i)
      BY <1>1
    <3>3. 1 \in 1..n /\ \A i \in 1..n - 1 : i + 1 \in 1..n
      BY <1>1, <1>2
    <3>4. SlotsFrom(rx_cur, n) \subseteq SlotsFrom(rx_cur', n - 1) \cup {rx_cur}
      <4> SUFFICES ASSUME NEW i \in 1..n, i # 1 PROVE (rx_cur + i - 1) % Ring \in SlotsFrom(rx_cur', n - 1)
        BY <3>1 DEF SlotsFrom
      <4>1. (rx_cur' + (i - 1) - 1) % Ring = (rx_cur + ((i - 1) + 1) - 1) % Ring
        BY <1>7, <3>2
      <4> QED BY <3>2, <4>1 DEF SlotsFrom
    <3>5. SlotsFrom(rx_cur', n - 1) \cup {rx_cur} \subseteq SlotsFrom(rx_cur, n)
      BY <1>7, <3>1, <3>3 DEF SlotsFrom
    <3> QED BY <3>4, <3>5
  <2>2. rx_cur \notin SlotsFrom(rx_cur', n - 1)
    BY <1>7 DEF SlotsFrom
  <2>3. {i \in RingSlot : rx'[i] # NoPacket} = {i \in RingSlot : rx[i] # NoPacket} \ {rx_cur}
    BY <1>1, <1>8
  <2> QED BY <1>1, <2>1, <2>2, <2>3
<1>11. n - 1 < Ring
  BY <1>1
<1> QED BY <1>1, <1>3, <1>4, <1>5, <1>6, <1>8, <1>9, <1>10, <1>11 DEF RxInv

LEMMA MainStep == NetInv /\ [NetNext]_netVars => MainInv'
<1> SUFFICES ASSUME RxInv, MainInv, [NetNext]_netVars PROVE MainInv'
  BY DEF NetInv
<1>1. CASE UNCHANGED main \/ main' = AtPoll
  BY <1>1 DEF MainInv, AtPoll
<1>2. CASE e1000_send_packet
  BY <1>2 DEF e1000_send_packet, MainInv, AtPoll
<1>3. CASE e1000_receive_packet
  <2>1. rx[rx_cur] \in Packets
    BY <1>3 DEF RxInv, e1000_receive_packet
  <2> QED BY <1>3, <2>1 DEF e1000_receive_packet, MainInv
<1>4. CASE network_handle_packet
  <2>1. main.packet \in Packets
    BY <1>4 DEF network_handle_packet, MainInv
  <2>2. ASSUME NEW p, TakeSlot(p) PROVE MainInv'
    BY <2>2 DEF TakeSlot, MainInv
  <2>3. ASSUME ArpStore(main.packet) PROVE MainInv'
    <3>1. CASE main' = AtPoll
      BY <1>1, <3>1
    <3>2. ASSUME NEW i, main' = [at |-> "store", packet |-> main.packet, slot |-> i] PROVE MainInv'
      BY <2>1, <3>2 DEF MainInv
    <3> QED BY <2>3, <3>1, <3>2 DEF ArpStore
  <2> QED BY <1>1, <1>4, <2>2, <2>3 DEF network_handle_packet
<1> QED BY <1>1, <1>2, <1>3, <1>4
        DEF NetNext, netVars, network_init, CardReceives, CardSends, ArpStored, cmd_ping, PingAfterWait

-----------------------------------------------------------------------------
(* The send ring.  In each lemma the step is one on which the ring depends. *)

LEMMA OutAppend ==
  ASSUME NEW p, outgoing \in Seq(Elements(outgoing)), outgoing' = Append(outgoing, p)
  PROVE  /\ outgoing' \in Seq(Elements(outgoing')) /\ Len(outgoing) \in Nat /\ Len(outgoing') = Len(outgoing) + 1
         /\ outgoing'[Len(outgoing) + 1] = p /\ \A i \in 1..Len(outgoing) : outgoing'[i] = outgoing[i]
<1>1. outgoing \in Seq(Elements(outgoing) \cup {p})
  BY DEF Elements
<1>2. outgoing' \in Seq(Elements(outgoing) \cup {p})
  BY <1>1
<1>3. outgoing' \in Seq(Elements(outgoing'))
  BY <1>2, SeqElements
<1> QED BY <1>1, <1>2, <1>3

LEMMA TxQuiet ==
  ASSUME TxInv, UNCHANGED txVars, UNCHANGED main \/ (~Sending /\ ~Sending')
  PROVE  TxInv'
<1>1. CASE UNCHANGED main
  BY <1>1 DEF TxInv, txVars, Pending, Sending, Elements
<1>2. CASE ~Sending /\ ~Sending'
  BY <1>2, ZenonT(60) DEF TxInv, txVars, Pending, Sending, Elements
<1> QED BY <1>1, <1>2

LEMMA TakeSlotInv ==
  ASSUME NEW p, TxInv, ~Sending, TakeSlot(p)
  PROVE  TxInv'
<1> DEFINE n == Len(outgoing)
<1>1. /\ {tx_cur, tdh, tdt} \subseteq RingSlot /\ outgoing \in Seq(Elements(outgoing))
      /\ tx = [i \in RingSlot |-> [data |-> tx[i].data, length |-> tx[i].length]]
      /\ {torn, overrun} \subseteq BOOLEAN
  BY DEF TxInv
<1>2. /\ main' = [at |-> "describe", packet |-> p, slot |-> tx_cur] /\ UNCHANGED <<tx_cur, tdh, tdt, torn>>
      /\ tx' = [tx EXCEPT ![tx_cur].data = p] /\ outgoing' = Append(outgoing, p)
  BY DEF TakeSlot
<1>3. /\ outgoing' \in Seq(Elements(outgoing')) /\ n \in Nat /\ Len(outgoing') = n + 1
      /\ outgoing'[n + 1] = p /\ \A i \in 1..n : outgoing'[i] = outgoing[i]
  BY <1>1, <1>2, OutAppend
<1>4. overrun' = (overrun \/ NextSlot(tx_cur) = tdh)
  BY DEF TakeSlot
<1>5. overrun' \in BOOLEAN
  BY <1>4
<1>6. \A s \in RingSlot : tx'[s] = IF s = tx_cur THEN [data |-> p, length |-> tx[s].length] ELSE tx[s]
  BY <1>1, <1>2
<1>7. tx' = [i \in RingSlot |-> [data |-> tx'[i].data, length |-> tx'[i].length]]
  BY <1>1, <1>2, <1>6
<1>8. Sending' /\ main'.at = "describe" /\ main'.slot = tx_cur /\ main'.packet = p
  BY <1>2 DEF Sending
<1>9. ASSUME ~torn', ~overrun'
      PROVE  /\ Pending' \in Nat /\ Len(outgoing') < Ring /\ (tdh' + Pending') % Ring = tdt'
             /\ \A i \in 1..Pending' : tx'[(tdh' + i - 1) % Ring] = Whole(outgoing'[i])
             /\ tx_cur' = tdt' /\ tx'[tdt'].data = p
  <2>1. ~torn /\ ~overrun /\ NextSlot(tx_cur) # tdh
    BY <1>2, <1>4, <1>9
  <2>2. /\ Pending = n /\ n < Ring /\ (tdh + n) % Ring = tdt /\ tx_cur = tdt
        /\ \A i \in 1..n : tx[(tdh + i - 1) % Ring] = Whole(outgoing[i])
    BY <2>1 DEF TxInv, Pending, Sending
  <2>3. n \in 0..Ring - 1
    BY <1>3, <2>2, NetworkAssumption
  <2>4. n + 1 < Ring
    BY <1>1, <2>1, <2>2, <2>3, RingRoom
  <2>5. Pending' = n
    BY <1>3, <1>8 DEF Pending
  <2>6. \A i \in 1..n : tx'[(tdh + i - 1) % Ring] = tx[(tdh + i - 1) % Ring]
    BY <1>1, <1>6, <2>2, <2>3, RingBehind
  <2>7. tx'[tdt].data = p
    <3>1. tx'[tdt] = [data |-> p, length |-> tx[tdt].length]
      BY <1>1, <1>6, <2>2
    <3> QED BY <3>1
  <2>8. \A i \in 1..n : tx'[(tdh + i - 1) % Ring] = Whole(outgoing'[i])
    BY <1>3, <2>2, <2>6
  <2> QED BY <1>2, <1>3, <2>2, <2>4, <2>5, <2>7, <2>8
<1> QED BY <1>1, <1>2, <1>3, <1>5, <1>7, <1>8, <1>9, ZenonT(60) DEF TxInv

LEMMA SendAtOnceInv ==
  ASSUME NEW p, TxInv, SendAtOnce(p), UNCHANGED main
  PROVE  TxInv'
<1> DEFINE n == Len(outgoing)
<1>1. /\ {tx_cur, tdh, tdt} \subseteq RingSlot /\ outgoing \in Seq(Elements(outgoing))
      /\ tx = [i \in RingSlot |-> [data |-> tx[i].data, length |-> tx[i].length]]
      /\ {torn, overrun} \subseteq BOOLEAN
  BY DEF TxInv
<1>2. /\ tdt' = tx_cur' /\ tx_cur' = NextSlot(tx_cur) /\ UNCHANGED tdh
      /\ tx' = [tx EXCEPT ![tx_cur] = Whole(p)] /\ outgoing' = Append(outgoing, p)
  BY DEF SendAtOnce
<1>3. /\ outgoing' \in Seq(Elements(outgoing')) /\ n \in Nat /\ Len(outgoing') = n + 1
      /\ outgoing'[n + 1] = p /\ \A i \in 1..n : outgoing'[i] = outgoing[i]
  BY <1>1, <1>2, OutAppend
<1>4. overrun' = (overrun \/ NextSlot(tx_cur) = tdh) /\ torn' = (torn \/ Sending)
  BY DEF SendAtOnce, Sending
<1>5. overrun' \in BOOLEAN /\ torn' \in BOOLEAN
  BY <1>4
<1>6. \A s \in RingSlot : tx'[s] = IF s = tx_cur THEN Whole(p) ELSE tx[s]
  BY <1>1, <1>2
<1>7. tx' = [i \in RingSlot |-> [data |-> tx'[i].data, length |-> tx'[i].length]]
  BY <1>1, <1>2, <1>6 DEF Whole
<1>8. tx_cur' \in RingSlot
  BY <1>1, <1>2, RingNext
<1>9. ASSUME ~torn', ~overrun'
      PROVE  /\ Pending' \in Nat /\ Len(outgoing') < Ring /\ (tdh' + Pending') % Ring = tdt'
             /\ \A i \in 1..Pending' : tx'[(tdh' + i - 1) % Ring] = Whole(outgoing'[i])
             /\ ~Sending' /\ main'.at # "tail" /\ main'.at # "advance"
  <2>1. ~torn /\ ~overrun /\ NextSlot(tx_cur) # tdh /\ ~Sending
    BY <1>4, <1>9
  <2>2. /\ Pending = n /\ n < Ring /\ (tdh + n) % Ring = tdt /\ tx_cur = tdt
        /\ \A i \in 1..n : tx[(tdh + i - 1) % Ring] = Whole(outgoing[i])
    BY <2>1 DEF TxInv, Pending, Sending
  <2>3. n \in 0..Ring - 1
    BY <1>3, <2>2, NetworkAssumption
  <2>4. n + 1 < Ring
    BY <1>1, <2>1, <2>2, <2>3, RingRoom
  <2>5. Pending' = n + 1 /\ ~Sending' /\ main'.at # "tail" /\ main'.at # "advance"
    BY <1>3, <2>1 DEF Pending, Sending
  <2>6. \A i \in 1..n : tx'[(tdh + i - 1) % Ring] = tx[(tdh + i - 1) % Ring]
    BY <1>1, <1>6, <2>2, <2>3, RingBehind
  <2>7. (tdh + (n + 1)) % Ring = tdt'
    BY <1>1, <1>2, <2>2, <2>3, RingStep
  <2>8. tdh + (n + 1) - 1 = tdh + n
    BY <1>1, <1>3 DEF RingSlot
  <2>9. tx'[(tdh + (n + 1) - 1) % Ring] = Whole(outgoing'[n + 1])
    BY <1>1, <1>3, <1>6, <2>2, <2>8
  <2>10. \A i \in 1..n + 1 : i \in 1..n \/ i = n + 1
    BY <1>3
  <2>11. \A i \in 1..n + 1 : tx'[(tdh + i - 1) % Ring] = Whole(outgoing'[i])
    BY <1>3, <2>2, <2>6, <2>9, <2>10
  <2> QED BY <1>2, <1>3, <2>4, <2>5, <2>7, <2>11
<1> QED BY <1>1, <1>2, <1>3, <1>5, <1>7, <1>8, <1>9, ZenonT(60) DEF TxInv

LEMMA SendPacketInv == TxInv /\ MainInv /\ e1000_send_packet => TxInv'
<1> SUFFICES ASSUME TxInv, MainInv, e1000_send_packet PROVE TxInv'
  OBVIOUS
<1> DEFINE n == Len(outgoing)
<1>1. /\ {tx_cur, tdh, tdt} \subseteq RingSlot /\ outgoing \in Seq(Elements(outgoing)) /\ n \in Nat
      /\ tx = [i \in RingSlot |-> [data |-> tx[i].data, length |-> tx[i].length]]
      /\ {torn, overrun} \subseteq BOOLEAN
      /\ main = [at |-> main.at, packet |-> main.packet, slot |-> main.slot]
  BY DEF TxInv, MainInv
<1>2. UNCHANGED <<tdh, outgoing, torn, overrun>> /\ Sending
  BY DEF e1000_send_packet, Sending
<1>3. outgoing' \in Seq(Elements(outgoing')) /\ n = Len(outgoing')
  BY <1>1, <1>2 DEF Elements
<1>4. ASSUME ~torn, ~overrun
      PROVE  /\ Pending = n - 1 /\ n - 1 \in Nat /\ n < Ring /\ (tdh + (n - 1)) % Ring = tdt
             /\ \A i \in 1..n - 1 : tx[(tdh + i - 1) % Ring] = Whole(outgoing[i])
             /\ main.slot = tdt /\ main.packet = outgoing[n] /\ tx[tdt].data = outgoing[n] /\ n - 1 \in 0..Ring - 1
  <2>1. Pending = n - 1
    BY <1>2 DEF Pending
  <2>2. n - 1 \in Nat /\ n < Ring
    BY <1>4, <2>1 DEF TxInv
  <2>3. n - 1 \in 0..Ring - 1
    BY <1>1, <2>2, NetworkAssumption
  <2> QED BY <1>2, <1>4, <2>1, <2>2, <2>3 DEF TxInv
<1>5. CASE main.at = "describe"
  <2>1. /\ main' = [main EXCEPT !.at = "advance"] /\ UNCHANGED <<tx_cur, tdt>>
        /\ tx' = [tx EXCEPT ![main.slot].length = main.packet]
    BY <1>5 DEF e1000_send_packet
  <2>2. \A s \in RingSlot : tx'[s] = IF s = main.slot THEN [data |-> tx[s].data, length |-> main.packet] ELSE tx[s]
    <3>1. DOMAIN tx = RingSlot /\ \A s \in RingSlot : tx[s] = [data |-> tx[s].data, length |-> tx[s].length]
      BY <1>1
    <3>2. \A s \in RingSlot : tx'[s] = IF s = main.slot THEN [tx[s] EXCEPT !.length = main.packet] ELSE tx[s]
      BY <2>1, <3>1
    <3>3. \A s \in RingSlot : [tx[s] EXCEPT !.length = main.packet] = [data |-> tx[s].data, length |-> main.packet]
      BY <3>1
    <3> QED BY <3>2, <3>3
  <2>3. tx' = [i \in RingSlot |-> [data |-> tx'[i].data, length |-> tx'[i].length]]
    BY <1>1, <2>1, <2>2, ZenonT(60)
  <2>4. Sending' /\ main'.at = "advance" /\ main'.slot = main.slot /\ main'.packet = main.packet
    BY <1>1, <2>1 DEF Sending
  <2>5. ASSUME ~torn, ~overrun
        PROVE  /\ \A i \in 1..n - 1 : tx'[(tdh + i - 1) % Ring] = Whole(outgoing[i])
               /\ tx_cur = tdt /\ tx'[tdt].data = outgoing[n] /\ tx'[tdt].length = outgoing[n]
    <3>1. \A i \in 1..n - 1 : (tdh + i - 1) % Ring # tdt /\ (tdh + i - 1) % Ring \in RingSlot
      BY <1>1, <1>4, <2>5, RingBehind
    <3>2. tx_cur = tdt
      BY <1>5, <2>5 DEF TxInv
    <3>3. tx'[tdt].data = outgoing[n] /\ tx'[tdt].length = outgoing[n]
      <4>1. tdt \in RingSlot /\ tdt = main.slot /\ tx[tdt].data = outgoing[n] /\ main.packet = outgoing[n]
        BY <1>1, <1>4, <2>5
      <4>2. tx'[tdt] = [data |-> tx[tdt].data, length |-> main.packet]
        BY <2>2, <4>1
      <4> QED BY <4>1, <4>2
    <3>4. \A i \in 1..n - 1 : tx'[(tdh + i - 1) % Ring] = tx[(tdh + i - 1) % Ring]
      BY <1>4, <2>2, <2>5, <3>1
    <3> QED BY <1>4, <2>5, <3>2, <3>3, <3>4
  <2>6. Pending' = n - 1
    BY <1>3, <2>4 DEF Pending
  <2> QED BY <1>1, <1>2, <1>3, <1>4, <2>1, <2>3, <2>4, <2>5, <2>6, ZenonT(60) DEF TxInv
<1>6. CASE main.at = "advance"
  <2>1. main' = [main EXCEPT !.at = "tail"] /\ UNCHANGED <<tx, tdt>> /\ tx_cur' = NextSlot(tx_cur)
    BY <1>6 DEF e1000_send_packet
  <2>2. Sending' /\ main'.at = "tail" /\ main'.slot = main.slot /\ main'.packet = main.packet
    BY <1>1, <2>1 DEF Sending
  <2>3. Pending' = n - 1 /\ tx_cur' \in RingSlot
    BY <1>1, <1>3, <2>1, <2>2, RingNext DEF Pending
  <2>4. ASSUME ~torn, ~overrun PROVE tx_cur = tdt /\ tx[tdt].length = outgoing[n]
    BY <1>4, <1>6, <2>4 DEF TxInv
  <2> QED BY <1>1, <1>2, <1>3, <1>4, <2>1, <2>2, <2>3, <2>4 DEF TxInv
<1>7. CASE main.at = "tail"
  <2>1. main' = AtPoll /\ UNCHANGED <<tx, tx_cur>> /\ tdt' = tx_cur
    BY <1>7 DEF e1000_send_packet
  <2>2. ~Sending' /\ main'.at = "poll"
    BY <2>1 DEF Sending, AtPoll
  <2>3. Pending' = n
    BY <1>3, <2>2 DEF Pending
  <2>4. ASSUME ~torn, ~overrun
        PROVE  (tdh + n) % Ring = tx_cur /\ \A i \in 1..n : tx[(tdh + i - 1) % Ring] = Whole(outgoing[i])
    <3>1. tx_cur = NextSlot(tdt) /\ tx[tdt].length = outgoing[n]
      BY <1>4, <1>7, <2>4 DEF TxInv
    <3>2. (n - 1) + 1 = n /\ tdh + n - 1 = tdh + (n - 1)
      BY <1>1 DEF RingSlot
    <3>3. (tdh + n) % Ring = tx_cur
      BY <1>1, <1>4, <2>4, <3>1, <3>2, RingStep
    <3>4. tx[(tdh + n - 1) % Ring] = Whole(outgoing[n])
      <4>1. tx[tdt] = [data |-> tx[tdt].data, length |-> tx[tdt].length]
        BY <1>1
      <4> QED BY <1>4, <2>4, <3>1, <3>2, <4>1 DEF Whole
    <3>5. \A i \in 1..n : i \in 1..n - 1 \/ i = n
      BY <1>1, SMTT(40)
    <3> QED BY <1>4, <2>4, <3>3, <3>4, <3>5
  <2> QED BY <1>1, <1>2, <1>3, <1>4, <2>1, <2>2, <2>3, <2>4 DEF TxInv
<1> QED BY <1>5, <1>6, <1>7 DEF e1000_send_packet

LEMMA CardSendsInv == TxInv /\ CardSends => TxInv'
<1> SUFFICES ASSUME TxInv, CardSends PROVE TxInv'
  OBVIOUS
<1> DEFINE n == Len(outgoing)
           m == Pending
<1>1. /\ {tx_cur, tdh, tdt} \subseteq RingSlot /\ outgoing \in Seq(Elements(outgoing)) /\ n \in Nat
      /\ tx = [i \in RingSlot |-> [data |-> tx[i].data, length |-> tx[i].length]]
      /\ {torn, overrun} \subseteq BOOLEAN
  BY DEF TxInv
<1>2. /\ tdh # tdt /\ tx' = [tx EXCEPT ![tdh] = Whole(NoPacket)] /\ tdh' = NextSlot(tdh)
      /\ UNCHANGED <<tx_cur, tdt, torn, overrun, main>>
      /\ outgoing' = IF outgoing = <<>> THEN <<>> ELSE Tail(outgoing)
  BY DEF CardSends
<1>3. outgoing' \in Seq(Elements(outgoing'))
  <2>1. outgoing' \in Seq(Elements(outgoing))
    BY <1>1, <1>2
  <2> QED BY <2>1, SeqElements
<1>4. \A s \in RingSlot : tx'[s] = IF s = tdh THEN Whole(NoPacket) ELSE tx[s]
  BY <1>1, <1>2
<1>5. tx' = [i \in RingSlot |-> [data |-> tx'[i].data, length |-> tx'[i].length]]
  BY <1>1, <1>2, <1>4 DEF Whole
<1>6. tdh' \in RingSlot
  BY <1>1, <1>2, RingNext
<1>7. ASSUME ~torn, ~overrun
      PROVE  /\ Pending' \in Nat /\ Len(outgoing') < Ring /\ (tdh' + Pending') % Ring = tdt'
             /\ \A i \in 1..Pending' : tx'[(tdh' + i - 1) % Ring] = Whole(outgoing'[i])
             /\ tx'[tdt] = tx[tdt] /\ (Sending => outgoing'[Len(outgoing')] = outgoing[n])
  <2>1. /\ m \in Nat /\ n < Ring /\ (tdh + m) % Ring = tdt /\ m <= n /\ (Sending => m = n - 1) /\ (~Sending => m = n)
        /\ \A i \in 1..m : tx[(tdh + i - 1) % Ring] = Whole(outgoing[i])
    <3>1. (Sending => m = n - 1) /\ (~Sending => m = n)
      BY DEF Pending
    <3>2. m <= n
      BY <1>1, <3>1
    <3> QED BY <1>7, <3>1, <3>2 DEF TxInv
  <2>2. m # 0
    BY <1>1, <1>2, <2>1, RingZero
  <2> HIDE DEF m
  <2>3. m \in 0..Ring - 1 /\ m - 1 \in 0..Ring - 1 /\ (m - 1) + 1 = m /\ n >= 1 /\ m - 1 \in Nat
    BY <1>1, <2>1, <2>2, NetworkAssumption
  <2>4. outgoing' = Tail(outgoing) /\ Len(outgoing') = n - 1 /\ \A i \in 1..n - 1 : outgoing'[i] = outgoing[i + 1]
    <3>1. outgoing # <<>>
      BY <1>1, <2>3
    <3> QED BY <1>1, <1>2, <2>3, <3>1
  <2>5. Pending' = m - 1
    <3>1. CASE Sending
      BY <1>1, <1>2, <2>1, <2>4, <3>1 DEF Pending, Sending
    <3>2. CASE ~Sending
      BY <1>1, <1>2, <2>1, <2>4, <3>2 DEF Pending, Sending
    <3> QED BY <3>1, <3>2
  <2>6. (tdh' + (m - 1)) % Ring = tdt
    BY <1>1, <1>2, <2>1, <2>3, RingShift
  <2>7. \A i \in 1..m - 1 : tx'[(tdh' + i - 1) % Ring] = tx[(tdh + (i + 1) - 1) % Ring]
    BY <1>1, <1>2, <1>4, <2>3, RingAhead
  <2>8. \A i \in 1..m - 1 : i + 1 \in 1..m /\ i \in 1..n - 1
    BY <1>1, <2>1
  <2>9. \A i \in 1..m - 1 : tx'[(tdh' + i - 1) % Ring] = Whole(outgoing'[i])
    BY <2>1, <2>4, <2>7, <2>8
  <2>10. Sending => n - 1 \in 1..n - 1 /\ (n - 1) + 1 = n
    <3> SUFFICES ASSUME Sending PROVE n - 1 \in 1..n - 1 /\ (n - 1) + 1 = n
      OBVIOUS
    <3>1. m = n - 1 /\ m \in Nat /\ m # 0 /\ n \in Nat
      BY <1>1, <2>1, <2>2
    <3> QED BY <3>1
  <2>11. Sending => outgoing'[Len(outgoing')] = outgoing[n]
    BY <2>4, <2>10
  <2>12. tx'[tdt] = tx[tdt]
    BY <1>1, <1>2, <1>4
  <2>13. n - 1 < Ring
    BY <1>1, <2>1, NetworkAssumption
  <2> QED BY <1>2, <2>3, <2>4, <2>5, <2>6, <2>9, <2>11, <2>12, <2>13
<1>8. Sending' <=> Sending
  BY <1>2 DEF Sending
<1> QED BY <1>1, <1>2, <1>3, <1>5, <1>6, <1>7, <1>8, ZenonT(60) DEF TxInv

-----------------------------------------------------------------------------
(* The table of addresses *)

LEMMA ArpQuiet ==
  ASSUME ArpInv, UNCHANGED <<arp_table, told>>, UNCHANGED main \/ (main.at # "store" /\ main'.at # "store")
  PROVE  ArpInv'
<1>1. \A ip : Mine(ip)' = Mine(ip) /\ ArpFirst(ip)' = ArpFirst(ip)
  BY DEF Mine, ArpFirst, ArpEntries
<1>2. \A ip : Storing(ip)' <=> Storing(ip)
  BY DEF Storing
<1>3. main'.at = "store" => UNCHANGED main
  OBVIOUS
<1>4. ASSUME NEW ip \in DOMAIN told
      PROVE  \/ \E i \in Mine(ip)' : Mine(ip)' = {i} /\ (Storing(ip)' \/ arp_table'[i].mac = told'[ip])
             \/ Mine(ip)' = {} /\ (Storing(ip)' \/ told'[ip] = "none" \/ \A i \in 1..ArpSize : arp_table'[i].valid)
  BY <1>1, <1>2 DEF ArpInv
<1>5. main'.at = "store" =>
          /\ main'.slot \in ArpFirst(main.packet.ip)' /\ arp_table'[main'.slot].ip = main'.packet.ip
          /\ told'[main'.packet.ip] = main'.packet.src
  <2> SUFFICES ASSUME main'.at = "store"
               PROVE  /\ main'.slot \in ArpFirst(main.packet.ip)' /\ arp_table'[main'.slot].ip = main'.packet.ip
                      /\ told'[main'.packet.ip] = main'.packet.src
    OBVIOUS
  <2>1. main' = main
    BY <1>3
  <2> QED BY <1>1, <2>1 DEF ArpInv
<1> QED BY <1>4, <1>5 DEF ArpInv

LEMMA ArpStoreInv ==
  ASSUME NEW p \in Packets, ArpInv, main.at = "handle", main.packet = p, ArpStore(p)
  PROVE  ArpInv'
<1> DEFINE q == p.ip
<1>1. /\ arp_table = [i \in 1..ArpSize |-> [valid |-> arp_table[i].valid, ip |-> arp_table[i].ip, mac |-> arp_table[i].mac]]
      /\ \A i \in 1..ArpSize : arp_table[i].valid \in BOOLEAN
      /\ \A i \in 1..ArpSize : arp_table[i].valid => \A j \in 1..i : arp_table[j].valid
      /\ DOMAIN arp_table = 1..ArpSize
  BY DEF ArpInv
<1>2. q \in DOMAIN told /\ DOMAIN told = {x.ip : x \in Packets}
  BY DEF ArpInv
<1>3. /\ DOMAIN told' = DOMAIN told /\ told'[q] = p.src
      /\ \A ip \in DOMAIN told : ip # q => told'[ip] = told[ip]
  BY <1>2 DEF ArpStore
<1>4. \A ip \in DOMAIN told :
          \/ \E i \in Mine(ip) : Mine(ip) = {i} /\ arp_table[i].mac = told[ip]
          \/ Mine(ip) = {} /\ (told[ip] = "none" \/ \A i \in 1..ArpSize : arp_table[i].valid)
  BY SMTT(40) DEF ArpInv, Storing
<1>5. CASE ArpEntries(q) = {}
  <2>1. main' = AtPoll /\ UNCHANGED arp_table
    BY <1>5 DEF ArpStore
  <2>2. main'.at # "store"
    BY <2>1 DEF AtPoll
  <2>3. Mine(q) = {} /\ \A i \in 1..ArpSize : arp_table[i].valid
    BY <1>1, <1>5 DEF ArpEntries, Mine
  <2>4. \A ip : Mine(ip)' = Mine(ip)
    BY <2>1 DEF Mine
  <2>5. ASSUME NEW ip \in DOMAIN told
        PROVE  \/ \E i \in Mine(ip)' : Mine(ip)' = {i} /\ arp_table'[i].mac = told'[ip]
               \/ Mine(ip)' = {} /\ (told'[ip] = "none" \/ \A i \in 1..ArpSize : arp_table'[i].valid)
    <3>1. CASE ip = q
      BY <2>1, <2>3, <2>4, <3>1
    <3>2. CASE ip # q
      BY <1>3, <1>4, <2>1, <2>4, <3>2
    <3> QED BY <3>1, <3>2
  <2> QED BY <1>1, <1>2, <1>3, <2>1, <2>2, <2>5 DEF ArpInv
<1>6. CASE ArpEntries(q) # {}
  <2>1. PICK i \in ArpFirst(q) : /\ arp_table' = [arp_table EXCEPT ![i] = [valid |-> @.valid, ip |-> q, mac |-> "torn"]]
                                 /\ main' = [at |-> "store", packet |-> p, slot |-> i]
    BY <1>6 DEF ArpStore
  <2>2. i \in 1..ArpSize /\ (~arp_table[i].valid \/ arp_table[i].ip = q)
    BY <1>1 DEF ArpFirst, ArpEntries
  <2>3. main'.at = "store" /\ main'.packet = p /\ main'.slot = i
    BY <2>1
  <2>4. \A j \in 1..ArpSize : arp_table'[j] = IF j = i THEN [valid |-> arp_table[i].valid, ip |-> q, mac |-> "torn"]
                                              ELSE arp_table[j]
    BY <1>1, <2>1, <2>2
  <2>5. arp_table'[i].valid = arp_table[i].valid /\ arp_table'[i].ip = q /\ arp_table'[i].mac = "torn"
    <3>1. arp_table'[i] = [valid |-> arp_table[i].valid, ip |-> q, mac |-> "torn"]
      BY <2>2, <2>4
    <3> QED BY <3>1
  <2>6. \A j \in 1..ArpSize : arp_table'[j].valid = arp_table[j].valid /\ (j # i => arp_table'[j] = arp_table[j])
    BY <2>4, <2>5
  <2>7. /\ DOMAIN arp_table' = 1..ArpSize
        /\ arp_table' = [k \in 1..ArpSize |-> [valid |-> arp_table'[k].valid, ip |-> arp_table'[k].ip, mac |-> arp_table'[k].mac]]
    BY <1>1, <2>1, <2>4, <2>5
  <2>8. \A ip : Mine(ip)' = Mine(ip)
    BY <2>2, <2>5, <2>6 DEF Mine
  <2>9. i \in ArpFirst(q)'
    <3>1. ArpEntries(q)' = ArpEntries(q)
      BY <1>1, <2>2, <2>5, <2>6, <2>7 DEF ArpEntries
    <3> QED BY <3>1 DEF ArpFirst
  <2>10. Storing(q)'
    BY <2>3 DEF Storing
  <2>11. ASSUME NEW ip \in DOMAIN told
         PROVE  \/ \E k \in Mine(ip)' : Mine(ip)' = {k} /\ (Storing(ip)' \/ arp_table'[k].mac = told'[ip])
                \/ Mine(ip)' = {} /\ (Storing(ip)' \/ told'[ip] = "none" \/ \A k \in 1..ArpSize : arp_table'[k].valid)
    <3>1. CASE ip = q
      BY <1>4, <2>8, <2>10, <3>1
    <3>2. CASE ip # q
      <4>1. i \notin Mine(ip)
        BY <2>2, <3>2 DEF Mine
      <4>2. \A k \in Mine(ip) : arp_table'[k] = arp_table[k]
        BY <2>6, <4>1 DEF Mine
      <4>3. told'[ip] = told[ip]
        BY <1>3, <3>2
      <4> QED BY <1>4, <2>6, <2>8, <4>2, <4>3
    <3> QED BY <3>1, <3>2
  <2>12. \A k \in 1..ArpSize : arp_table'[k].valid \in BOOLEAN
    BY <1>1, <2>6
  <2>13. \A k \in 1..ArpSize : arp_table'[k].valid => \A j \in 1..k : arp_table'[j].valid
    <3> SUFFICES ASSUME NEW k \in 1..ArpSize, arp_table'[k].valid, NEW j \in 1..k PROVE arp_table'[j].valid
      OBVIOUS
    <3>1. j \in 1..ArpSize
      BY NetworkAssumption
    <3> QED BY <1>1, <2>6, <3>1, SMTT(40)
  <2> QED BY <1>2, <1>3, <2>3, <2>5, <2>7, <2>9, <2>11, <2>12, <2>13 DEF ArpInv
<1> QED BY <1>5, <1>6

LEMMA ArpStoredInv ==
  ASSUME NEW p \in Packets, NEW i, ArpInv, ArpStored, main.packet = p, main.slot = i
  PROVE  ArpInv'
<1> DEFINE q == p.ip
<1>1. /\ arp_table = [k \in 1..ArpSize |-> [valid |-> arp_table[k].valid, ip |-> arp_table[k].ip, mac |-> arp_table[k].mac]]
      /\ \A k \in 1..ArpSize : arp_table[k].valid \in BOOLEAN
      /\ \A k \in 1..ArpSize : arp_table[k].valid => \A j \in 1..k : arp_table[j].valid
      /\ DOMAIN arp_table = 1..ArpSize
  BY DEF ArpInv
<1>2. q \in DOMAIN told /\ DOMAIN told = {x.ip : x \in Packets}
  BY DEF ArpInv
<1>3. /\ main.at = "store" /\ main' = AtPoll /\ UNCHANGED told
      /\ arp_table' = [arp_table EXCEPT ![i] = [valid |-> TRUE, ip |-> @.ip, mac |-> p.src]]
  BY DEF ArpStored
<1>4. i \in ArpFirst(q) /\ arp_table[i].ip = q /\ told[q] = p.src
  BY <1>3 DEF ArpInv
<1>5. i \in 1..ArpSize
  BY <1>1, <1>4 DEF ArpFirst, ArpEntries
<1>6. arp_table'[i] = [valid |-> TRUE, ip |-> q, mac |-> p.src]
  BY <1>1, <1>3, <1>4, <1>5
<1>7. \A k \in 1..ArpSize : k # i => arp_table'[k] = arp_table[k]
  BY <1>1, <1>3
<1>8. arp_table'[i].valid /\ arp_table'[i].ip = q /\ arp_table'[i].mac = p.src
  BY <1>6
<1>9. arp_table' = [k \in 1..ArpSize |-> [valid |-> arp_table'[k].valid, ip |-> arp_table'[k].ip, mac |-> arp_table'[k].mac]]
  BY <1>1, <1>3, <1>6, <1>7, ZenonT(60)
<1>10. main'.at # "store"
  BY <1>3 DEF AtPoll
<1>11. \A k \in 1..i : k # i => arp_table[k].valid
  <2> SUFFICES ASSUME NEW k \in 1..i, k # i PROVE arp_table[k].valid
    OBVIOUS
  <2>1. k \in 1..ArpSize /\ ~(i <= k)
    BY <1>5, NetworkAssumption
  <2>2. k \notin ArpEntries(q)
    BY <1>4, <2>1 DEF ArpFirst
  <2> QED BY <1>1, <2>1, <2>2 DEF ArpEntries
<1>12. \A k \in 1..ArpSize : arp_table'[k].valid => \A j \in 1..k : arp_table'[j].valid
  <2> SUFFICES ASSUME NEW k \in 1..ArpSize, arp_table'[k].valid, NEW j \in 1..k PROVE arp_table'[j].valid
    OBVIOUS
  <2>1. j \in 1..ArpSize
    BY NetworkAssumption
  <2>2. CASE j = i
    BY <1>8, <2>2
  <2>3. CASE j # i
    <3>1. arp_table[j].valid
      <4>1. CASE k = i
        BY <1>11, <2>3, <4>1
      <4>2. CASE k # i
        BY <1>1, <1>7, <4>2
      <4> QED BY <4>1, <4>2
    <3> QED BY <1>7, <2>1, <2>3, <3>1
  <2> QED BY <2>2, <2>3
<1>13. Mine(q)' = {i}
  <2>1. Mine(q) \subseteq {i}
    <3>1. CASE arp_table[i].valid
      <4>1. i \in Mine(q)
        BY <1>4, <1>5, <3>1 DEF Mine
      <4>2. Mine(q) = {} \/ \E k \in Mine(q) : Mine(q) = {k}
        BY <1>2 DEF ArpInv
      <4> QED BY <4>1, <4>2
    <3>2. CASE ~arp_table[i].valid
      <4> SUFFICES ASSUME NEW j \in Mine(q) PROVE FALSE
        OBVIOUS
      <4>1. j \in 1..ArpSize /\ arp_table[j].valid /\ j \in ArpEntries(q)
        BY <1>1 DEF Mine, ArpEntries
      <4>2. i \in 1..j
        BY <1>4, <1>5, <4>1, NetworkAssumption DEF ArpFirst
      <4> QED BY <1>1, <3>2, <4>1, <4>2
    <3> QED BY <3>1, <3>2
  <2> QED BY <1>5, <1>7, <1>8, <2>1 DEF Mine
<1>14. ASSUME NEW ip \in DOMAIN told
       PROVE  \/ \E k \in Mine(ip)' : Mine(ip)' = {k} /\ arp_table'[k].mac = told'[ip]
              \/ Mine(ip)' = {} /\ (told'[ip] = "none" \/ \A k \in 1..ArpSize : arp_table'[k].valid)
  <2>1. CASE ip = q
    BY <1>3, <1>4, <1>8, <1>13, <2>1
  <2>2. CASE ip # q
    <3>1. Mine(ip)' = Mine(ip) /\ i \notin Mine(ip)
      BY <1>4, <1>5, <1>7, <1>8, <2>2 DEF Mine
    <3>2. \A k \in Mine(ip) : arp_table'[k] = arp_table[k]
      BY <1>7, <3>1 DEF Mine
    <3>3. \/ \E k \in Mine(ip) : Mine(ip) = {k} /\ arp_table[k].mac = told[ip]
          \/ Mine(ip) = {} /\ (told[ip] = "none" \/ \A k \in 1..ArpSize : arp_table[k].valid)
      BY <2>2 DEF ArpInv, Storing
    <3>4. (\A k \in 1..ArpSize : arp_table[k].valid) => \A k \in 1..ArpSize : arp_table'[k].valid
      BY <1>7, <1>8
    <3> QED BY <1>3, <3>1, <3>2, <3>3, <3>4
  <2> QED BY <2>1, <2>2
<1>15. \A k \in 1..ArpSize : arp_table'[k].valid \in BOOLEAN
  <2>1. arp_table'[i].valid = TRUE
    BY <1>6
  <2> QED BY <1>1, <1>7, <2>1
<1> QED BY <1>2, <1>3, <1>9, <1>10, <1>12, <1>14, <1>15, ZenonT(60) DEF ArpInv

-----------------------------------------------------------------------------
(* Together *)

LEMMA NetInitInv == NetInit => NetInv
<1> SUFFICES ASSUME NetInit PROVE NetInv
  OBVIOUS
<1>1. 0 \in RingSlot /\ Ring - 1 \in RingSlot /\ Ring \in Nat /\ 0 < Ring
  BY NetworkAssumption DEF RingSlot
<1>2. (0 + 0) % Ring = 0
  BY <1>1, RingZero
<1>3. Len(<<>>) = 0 /\ 1..0 = {}
  OBVIOUS
<1>4. RxInv
  <2>1. (0 + Ring - 1) % Ring = Ring - 1
    <3>1. 0 + Ring - 1 = Ring - 1 /\ Ring \in Nat \ {0} /\ Ring - 1 \in 0..Ring - 1
      BY NetworkAssumption
    <3> QED BY <3>1, ModSmall
  <2>2. RingFrom(rx, rx_cur, 0) = <<>> /\ SlotsFrom(rx_cur, 0) = {}
    BY <1>3 DEF RingFrom, SlotsFrom
  <2>3. \A i \in RingSlot : rx[i] = NoPacket
    BY DEF NetInit
  <2> QED BY <1>1, <1>2, <1>3, <2>1, <2>2, <2>3 DEF NetInit, RxInv
<1>5. MainInv
  BY DEF NetInit, MainInv, AtPoll
<1>6. TxInv
  <2>1. ~Sending /\ main.at = "poll" /\ Pending = 0
    BY <1>3 DEF NetInit, Sending, AtPoll, Pending
  <2>2. tx = [i \in RingSlot |-> [data |-> tx[i].data, length |-> tx[i].length]]
    BY DEF NetInit, Whole
  <2>3. outgoing \in Seq(Elements(outgoing)) /\ {torn, overrun} \subseteq BOOLEAN
    <3>1. outgoing = <<>> /\ torn = FALSE /\ overrun = FALSE
      BY DEF NetInit
    <3>2. outgoing \in Seq(Elements(outgoing))
      BY <3>1
    <3> QED BY <3>1, <3>2
  <2>4. {tx_cur, tdh, tdt} \subseteq RingSlot /\ Len(outgoing) < Ring /\ (tdh + Pending) % Ring = tdt /\ tx_cur = tdt
    BY <1>1, <1>2, <1>3, <2>1 DEF NetInit
  <2>5. \A i \in 1..Pending : tx[(tdh + i - 1) % Ring] = Whole(outgoing[i])
    BY <1>3, <2>1
  <2> QED BY <2>1, <2>2, <2>3, <2>4, <2>5 DEF TxInv
<1>7. ArpInv
  <2>1. main.at # "store" /\ \A i \in 1..ArpSize : arp_table[i] = [valid |-> FALSE, ip |-> "none", mac |-> "none"]
    BY DEF NetInit, AtPoll, NoArp
  <2>2. \A i \in 1..ArpSize : ~arp_table[i].valid /\ arp_table[i].ip = "none" /\ arp_table[i].mac = "none"
    BY <2>1
  <2>3. \A ip : Mine(ip) = {}
    BY <2>2 DEF Mine
  <2>4. \A ip \in DOMAIN told : told[ip] = "none"
    BY DEF NetInit
  <2>5. DOMAIN told = {q.ip : q \in Packets}
    BY DEF NetInit
  <2>6. arp_table = [i \in 1..ArpSize |-> [valid |-> arp_table[i].valid, ip |-> arp_table[i].ip, mac |-> arp_table[i].mac]]
    BY <2>1 DEF NetInit, NoArp
  <2>7. \A i \in 1..ArpSize : arp_table[i].valid \in BOOLEAN
    <3> SUFFICES ASSUME NEW i \in 1..ArpSize PROVE arp_table[i].valid = FALSE
      OBVIOUS
    <3>1. arp_table[i] = [valid |-> FALSE, ip |-> "none", mac |-> "none"]
      BY <2>1
    <3> QED BY <3>1
  <2> QED BY <2>1, <2>2, <2>3, <2>4, <2>5, <2>6, <2>7 DEF ArpInv
<1> QED BY <1>4, <1>5, <1>6, <1>7 DEF NetInv

LEMMA NetStep == NetInv /\ [NetNext]_netVars => NetInv'
<1> SUFFICES ASSUME RxInv, MainInv, TxInv, ArpInv, [NetNext]_netVars PROVE NetInv'
  BY DEF NetInv
<1>1. RxInv'
  <2>1. CASE UNCHANGED rxVars
    BY <2>1 DEF RxInv, rxVars, RingFrom, SlotsFrom
  <2> QED BY <2>1, CardReceivesInv, ReceiveInv
          DEF NetNext, netVars, network_init, CardSends, ArpStored, cmd_ping, PingAfterWait,
              network_handle_packet, e1000_send_packet
<1>2. MainInv'
  BY MainStep DEF NetInv
<1>3. TxInv'
  <2>1. CASE UNCHANGED txVars /\ UNCHANGED main
    BY <2>1, TxQuiet
  <2>2. CASE e1000_receive_packet
    <3>1. UNCHANGED txVars /\ ~Sending /\ ~Sending'
      BY <2>2 DEF e1000_receive_packet, Sending, MainInv
    <3> QED BY <3>1, TxQuiet
  <2>3. CASE ArpStored
    <3>1. UNCHANGED txVars /\ ~Sending /\ ~Sending'
      BY <2>3 DEF ArpStored, Sending, AtPoll
    <3> QED BY <3>1, TxQuiet
  <2>4. CASE network_handle_packet
    <3>1. ~Sending
      BY <2>4 DEF network_handle_packet, Sending
    <3>2. ASSUME UNCHANGED txVars, main' = AtPoll \/ ArpStore(main.packet) PROVE TxInv'
      <4>1. ~Sending'
        <5>1. CASE main' = AtPoll
          BY <5>1 DEF AtPoll, Sending
        <5>2. ASSUME NEW i, NEW p, main' = [at |-> "store", packet |-> p, slot |-> i] PROVE ~Sending'
          BY <5>2 DEF Sending
        <5> QED BY <3>2, <5>1, <5>2 DEF ArpStore
      <4> QED BY <3>1, <3>2, <4>1, TxQuiet
    <3>3. ASSUME NEW p, TakeSlot(p) PROVE TxInv'
      BY <3>1, <3>3, TakeSlotInv
    <3> QED BY <2>4, <3>2, <3>3 DEF network_handle_packet
  <2>5. ASSUME NEW p, SendAtOnce(p), UNCHANGED main PROVE TxInv'
    BY <2>5, SendAtOnceInv
  <2>6. ASSUME NEW ip \in Hosts, cmd_ping(ip) PROVE TxInv'
    BY <2>5, <2>6 DEF cmd_ping, Echo, arp_request
  <2>7. CASE PingAfterWait
    BY <2>5, <2>7 DEF PingAfterWait, Echo
  <2> QED BY <2>1, <2>2, <2>3, <2>4, <2>6, <2>7, CardSendsInv, SendPacketInv
          DEF NetNext, netVars, network_init, CardReceives
<1>4. ArpInv'
  <2>1. CASE UNCHANGED <<arp_table, told, main>>
    BY <2>1, ArpQuiet
  <2>2. CASE ArpStored
    BY <2>2, ArpStoredInv DEF MainInv, ArpStored
  <2>3. CASE e1000_receive_packet
    BY <2>3, ArpQuiet DEF e1000_receive_packet, MainInv
  <2>4. CASE e1000_send_packet
    BY <2>4, ArpQuiet DEF e1000_send_packet, MainInv, AtPoll
  <2>5. CASE network_handle_packet
    <3>1. main.at = "handle" /\ main.packet \in Packets
      BY <2>5 DEF network_handle_packet, MainInv
    <3>2. ASSUME main' = AtPoll, UNCHANGED <<arp_table, told>> PROVE ArpInv'
      BY <3>1, <3>2, ArpQuiet DEF AtPoll
    <3>3. ASSUME NEW p, TakeSlot(p), UNCHANGED <<arp_table, told>> PROVE ArpInv'
      BY <3>1, <3>3, ArpQuiet DEF TakeSlot
    <3> QED BY <2>5, <3>1, <3>2, <3>3, ArpStoreInv DEF network_handle_packet
  <2> QED BY <2>1, <2>2, <2>3, <2>4, <2>5
          DEF NetNext, netVars, network_init, CardReceives, CardSends, cmd_ping, PingAfterWait
<1> QED BY <1>1, <1>2, <1>3, <1>4 DEF NetInv

LEMMA RingsRight == NetInv => PacketsInOrder
<1> SUFFICES ASSUME NetInv PROVE PacketsInOrder
  OBVIOUS
<1>1. ASSUME ~torn, ~overrun, ~Sending
      PROVE  /\ Len(outgoing) < Ring /\ (tdh + Len(outgoing)) % Ring = tdt
             /\ RingFrom(tx, tdh, Len(outgoing)) = [i \in DOMAIN outgoing |-> Whole(outgoing[i])]
  <2>1. Pending = Len(outgoing) /\ outgoing \in Seq(Elements(outgoing))
    BY <1>1 DEF Pending, NetInv, TxInv
  <2>2. /\ Len(outgoing) < Ring /\ (tdh + Len(outgoing)) % Ring = tdt
        /\ \A i \in 1..Len(outgoing) : tx[(tdh + i - 1) % Ring] = Whole(outgoing[i])
    BY <1>1, <2>1 DEF NetInv, TxInv
  <2>3. DOMAIN outgoing = 1..Len(outgoing)
    BY <2>1
  <2> QED BY <2>2, <2>3 DEF RingFrom
<1> QED BY <1>1 DEF NetInv, RxInv, PacketsInOrder

(* e1000.c: for rings of every size and any packets, the driver reads the   *)
(* packets the card took, in order, and no others; and the card has in      *)
(* front of it what was handed in, in order and whole, unless ping cut into *)
(* a send or the ring was full.                                             *)
THEOREM RingsCorrect == NetSpec => []PacketsInOrder
<1> QED BY NetInitInv, NetStep, RingsRight, PTL DEF NetSpec

LEMMA TableRight == NetInv => ArpLatest
<1> SUFFICES ASSUME NetInv, main.at # "store", NEW ip \in DOMAIN told
             PROVE  LET mine == {i \in DOMAIN arp_table : arp_table[i].valid /\ arp_table[i].ip = ip} IN
                    \/ \E i \in mine : mine = {i} /\ arp_table[i].mac = told[ip]
                    \/ mine = {} /\ (told[ip] # "none" => \A i \in DOMAIN arp_table : arp_table[i].valid)
  BY DEF ArpLatest
<1>1. DOMAIN arp_table = 1..ArpSize
  BY DEF NetInv, ArpInv
<1>2. {i \in DOMAIN arp_table : arp_table[i].valid /\ arp_table[i].ip = ip} = Mine(ip)
  BY <1>1 DEF Mine
<1>3. \/ \E i \in Mine(ip) : Mine(ip) = {i} /\ arp_table[i].mac = told[ip]
      \/ Mine(ip) = {} /\ (told[ip] = "none" \/ \A i \in 1..ArpSize : arp_table[i].valid)
  BY DEF NetInv, ArpInv, Storing
<1> QED BY <1>1, <1>2, <1>3

(* network_handle_packet: for a table of every size and any hosts, a host   *)
(* whose reply was heard has one entry with its last address, or the table  *)
(* is full of others.                                                       *)
THEOREM AddressesCorrect == NetSpec => []ArpLatest
<1> QED BY NetInitInv, NetStep, TableRight, PTL DEF NetSpec

-----------------------------------------------------------------------------
(* Disk: sectors and partitions *)

LEMMA AddressedKeeps ==
  ASSUME NEW lba \in 0 .. Lba48Limit - 1 PROVE Addressed(lba) = lba
<1>1. lba \in Nat /\ lba < Lba48Limit /\ Lba28Limit \in Nat /\ Lba48Limit \in Nat
  BY DiskAssumption
<1>2. CASE lba >= Lba28Limit
  BY <1>1, <1>2 DEF Addressed
<1>3. CASE lba < Lba28Limit
  BY <1>1, <1>3 DEF Addressed
<1> QED BY <1>1, <1>2, <1>3

LEMMA ChannelOfDrive ==
  ASSUME NEW d \in 1 .. 4 PROVE ChannelOf(d) \in {1, 2}
BY DEF ChannelOf

LEMMA ElementOf ==
  ASSUME NEW S, NEW q \in Seq(S), NEW i \in DOMAIN q PROVE q[i] \in S
OBVIOUS

LEMMA HwFacts ==
  ASSUME DiskTypeOK, call.op # "none"
  PROVE  /\ ChannelOf(call.drive) \in {1, 2} /\ call.drive \in 1 .. 4
         /\ Hw = channel[ChannelOf(call.drive)]
         /\ Hw \in [st : {"idle", "busy", "drq", "err", "writing"}, op : Ops \cup {"none"},
                    drive : 0 .. 4, lba : 0 .. Lba48Limit - 1]
BY ChannelOfDrive DEF DiskTypeOK, Hw

LEMMA TableFacts ==
  ASSUME DiskTypeOK, NEW d \in DOMAIN tables
  PROVE  /\ tables[d].entries \in Seq([start : Nat, size : Nat]) /\ tables[d].kind \in {"mbr", "gpt", "none"}
         /\ d \in 1 .. 4 /\ tables[d].array_lba + Len(tables[d].entries) <= Lba48Limit
         /\ tables[d].array_lba \in Nat /\ tables[d].entry_size \in Nat
         /\ \A i \in DOMAIN tables[d].entries : tables[d].entries[i].start + tables[d].entries[i].size <= Lba48Limit
BY DiskAssumption, HeaderAssumption, SectorsAssumption DEF DiskTypeOK

(* A quotient is no larger than what is divided. *)
LEMMA QuotientBound ==
  ASSUME NEW n \in Nat, NEW k \in Nat, k > 0 PROVE n \div k \in 0 .. n
<1>1. n \div k \in Nat /\ k * (n \div k) <= n
  OBVIOUS
<1> DEFINE q == n \div k
<1>2. q \in Nat /\ k * q <= n
  BY <1>1
<1> HIDE DEF q
<1>3. q <= k * q
  BY <1>2
<1>4. k * q \in Nat
  BY <1>2
<1> QED BY <1>2, <1>3, <1>4 DEF q

(* The sector of an entry of a GPT lies on the drive. *)
LEMMA EntrySectorOnDrive ==
  ASSUME DiskTypeOK, NEW d \in DOMAIN tables, tables[d].kind = "gpt", ~Unsized(tables[d]),
         NEW i \in DOMAIN tables[d].entries
  PROVE  EntrySector(tables[d], i) \in 0 .. Lba48Limit - 1
<1> DEFINE n == Len(tables[d].entries)
           a == tables[d].array_lba
           k == entries_per_sector(tables[d])
           q == (i - 1) \div k
<1>1. /\ tables[d].entries \in Seq([start : Nat, size : Nat]) /\ a \in Nat /\ tables[d].entry_size \in Nat
      /\ a + n <= Lba48Limit /\ n \in Nat /\ i \in 1 .. n
  BY TableFacts
<1>2. tables[d].entry_size # 0 /\ k # 0
  <2>1. tables[d].entries # <<>>
    BY <1>1
  <2> QED BY <2>1 DEF Unsized
<1>3. k \in Nat
  <2> DEFINE s == tables[d].entry_size
  <2>1. s \in Nat /\ s > 0
    BY <1>1, <1>2
  <2> HIDE DEF s
  <2>2. 512 \div s \in 0 .. 512
    BY <2>1, QuotientBound
  <2>3. k = 512 \div s
    BY DEF entries_per_sector, s, k
  <2> HIDE DEF k
  <2> QED BY <2>2, <2>3
<1> HIDE DEF k
<1>4. q \in 0 .. i - 1
  <2>1. i - 1 \in Nat /\ k > 0
    BY <1>1, <1>2, <1>3
  <2> QED BY <1>3, <2>1, QuotientBound
<1>5. EntrySector(tables[d], i) = a + q
  BY DEF EntrySector, k
<1> HIDE DEF q, a, n
<1> QED BY <1>1, <1>4, <1>5, DiskAssumption

LEMMA DiskInitInv == DiskInit => DiskInv
<1> SUFFICES ASSUME DiskInit PROVE DiskInv
  OBVIOUS
<1>1. PICK there \in SUBSET Drives : tables \in [there -> Tables]
  BY DEF DiskInit
<1>2. call = NoCall /\ call.op = "none" /\ call.at = "issue" /\ late = FALSE /\ entry = 0 /\ partitions = <<>> /\ detecting = 1
  BY DEF DiskInit, NoCall
<1>3. \A c \in {1, 2} : channel[c] = Idle /\ channel[c].st = "idle" /\ channel[c].op = "none"
  BY DEF DiskInit, Idle
<1>4. DiskTypeOK
  <2>1. 0 \in 0 .. Lba48Limit - 1
    BY DiskAssumption
  <2>2. Idle \in [st : {"idle", "busy", "drq", "err", "writing"}, op : Ops \cup {"none"}, drive : 0 .. 4, lba : 0 .. Lba48Limit - 1]
    BY <2>1 DEF Idle
  <2>3. NoCall \in [op : Ops \cup {"none"}, drive : 0 .. 4, lba : 0 .. Lba48Limit - 1, try : Nat, at : {"issue", "poll", "flush"}]
    BY <2>1 DEF NoCall
  <2>4. partitions \in Seq([drive : 1 .. 4, start : Nat, size : Nat])
    BY <1>2
  <2>5. channel \in [{1, 2} -> [st : {"idle", "busy", "drq", "err", "writing"}, op : Ops \cup {"none"}, drive : 0 .. 4, lba : 0 .. Lba48Limit - 1]]
    BY <2>2 DEF DiskInit
  <2>6. DOMAIN tables \subseteq Drives /\ \A d \in DOMAIN tables : tables[d] \in Tables
    BY <1>1
  <2>7. call \in [op : Ops \cup {"none"}, drive : 0 .. 4, lba : 0 .. Lba48Limit - 1, try : Nat, at : {"issue", "poll", "flush"}]
    BY <1>2, <2>3
  <2>8. detecting \in 1 .. 6 /\ entry \in Nat
    BY <1>2
  <2>9. late \in BOOLEAN
    BY <1>2, Zenon
  <2> QED BY <1>2, <2>4, <2>5, <2>6, <2>7, <2>8, <2>9 DEF DiskTypeOK
<1>5. DOMAIN partitions = {} /\ DOMAIN medium = {} /\ mount.at = "no" /\ read.asked = read.came
  BY <1>2 DEF DiskInit
<1>6. CallsInOrder
  BY <1>2, <1>5 DEF CallsInOrder
<1>7. CommandsMatch
  BY <1>2, <1>3 DEF CommandsMatch
<1>8. WritesInside /\ PartitionsListed
  BY <1>2, <1>3, <1>5 DEF WritesInside, PartitionsListed
<1> QED BY <1>4, <1>5, <1>6, <1>7, <1>8 DEF DiskInv

-----------------------------------------------------------------------------
(* A call is begun when none is under way *)

LEMMA BegunInv ==
  ASSUME DiskInv, NEW op \in Ops, NEW d \in 1 .. 4, NEW lba \in 0 .. Lba48Limit - 1,
         call.op = "none", Begin(op, d, lba), mount'.at \notin {"data", "sb"},
         op = "identify" => detecting <= 4,
         op # "identify" => detecting = 5,
         op = "write" => InTable(d, lba),
         UNCHANGED <<tables, channel, detecting, entry, partitions, medium, read>>
  PROVE  DiskInv'
<1>1. /\ call' = [op |-> op, drive |-> d, lba |-> lba, try |-> 1, at |-> "issue"]
      /\ late' = (late \/ channel[ChannelOf(d)].st = "busy")
  BY DEF Begin
<1>2. call'.op = op /\ call'.drive = d /\ call'.lba = lba /\ call'.at = "issue" /\ op # "none"
  BY <1>1 DEF Ops
<1>3. late' \in BOOLEAN /\ (~late' => ~late /\ channel[ChannelOf(d)].st # "busy")
  BY <1>1 DEF DiskInv, DiskTypeOK
<1>4. DiskTypeOK'
  <2>1. call' \in [op : Ops \cup {"none"}, drive : 0 .. 4, lba : 0 .. Lba48Limit - 1, try : Nat, at : {"issue", "poll", "flush"}]
    BY <1>1
  <2> QED BY <2>1, <1>2, <1>3 DEF DiskInv, DiskTypeOK
<1>5. ~(entry > 0) /\ entry' = entry
  BY DEF DiskInv, CallsInOrder
<1>6. CallsInOrder'
  BY <1>2, <1>5 DEF CallsInOrder, Ops
<1>7. CommandsMatch'
  <2>1. Hw' = channel[ChannelOf(d)]
    BY <1>2 DEF Hw
  <2>2. ~(op = "read" /\ detecting <= 4)
    OBVIOUS
  <2> QED BY <1>2, <1>3, <2>1, <2>2 DEF DiskInv, CommandsMatch
<1>8. WritesInside'
  BY <1>2 DEF DiskInv, WritesInside, InTable
<1>9. PartitionsListed'
  BY DEF DiskInv, PartitionsListed
<1> QED BY <1>3, <1>4, <1>6, <1>7, <1>8, <1>9 DEF DiskInv

LEMMA AtaInitInv == DiskInv /\ ata_init => DiskInv'
<1> SUFFICES ASSUME DiskInv, ata_init PROVE DiskInv'
  OBVIOUS
<1>1. detecting \in 1 .. 4 /\ call.op = "none" /\ 0 \in 0 .. Lba48Limit - 1 /\ detecting <= 4
  BY DiskAssumption DEF ata_init, NoCall
<1>2. mount'.at \notin {"data", "sb"}
  BY <1>1 DEF ata_init, DiskInv, CallsInOrder
<1> QED BY <1>1, <1>2, BegunInv DEF ata_init, Ops

(* A call for a sector of a listed partition stays inside it. *)
LEMMA PartitionCallInv ==
  ASSUME DiskInv, NEW op \in {"read", "write"}, NEW i, NEW lba \in Nat, InPartition(i, lba), detecting = 5,
         call.op = "none", PartitionCall(op, i, lba), mount'.at \notin {"data", "sb"},
         UNCHANGED <<tables, channel, detecting, entry, partitions, medium, read>>
  PROVE  DiskInv'
<1> DEFINE d == partitions[i].drive
           sector == partitions[i].start + lba
<1>1. i \in DOMAIN partitions /\ lba < partitions[i].size /\ Begin(op, d, sector)
  BY DEF InPartition, PartitionCall
<1>2. partitions[i] \in [drive : 1 .. 4, start : Nat, size : Nat]
  <2>1. partitions \in Seq([drive : 1 .. 4, start : Nat, size : Nat])
    BY DEF DiskInv, DiskTypeOK
  <2> QED BY <1>1, <2>1, ElementOf
<1>3. d \in DOMAIN tables
  BY <1>1 DEF DiskInv, PartitionsListed
<1>4. PICK j \in DOMAIN tables[d].entries : On(d, tables[d].entries[j]) = partitions[i]
  BY <1>1 DEF DiskInv, PartitionsListed
<1>5. /\ partitions[i].start = tables[d].entries[j].start
      /\ partitions[i].size = tables[d].entries[j].size
  BY <1>4 DEF On
<1>6. tables[d].entries[j].start + tables[d].entries[j].size <= Lba48Limit
  BY <1>3, <1>4, TableFacts DEF DiskInv
<1>7. sector \in 0 .. Lba48Limit - 1
  BY <1>1, <1>2, <1>5, <1>6, DiskAssumption
<1>8. sector \in tables[d].entries[j].start .. tables[d].entries[j].start + tables[d].entries[j].size - 1
  BY <1>1, <1>2, <1>5
<1>9. InTable(d, sector)
  BY <1>3, <1>4, <1>8 DEF InTable
<1>10. d \in 1 .. 4
  BY <1>2
<1> HIDE DEF d, sector
<1> QED BY <1>1, <1>7, <1>9, <1>10, BegunInv DEF Ops

LEMMA PartitionsSectorInv == DiskInv /\ partitions_sector => DiskInv'
<1> SUFFICES ASSUME DiskInv, partitions_sector PROVE DiskInv'
  OBVIOUS
<1>1. PICK op \in {"read", "write"}, i \in 1 .. MAX_PARTITIONS + 1, lba \in 0 .. Lba28Limit : PartitionCall(op, i, lba)
  BY DEF partitions_sector
<1>2. /\ detecting = 5 /\ call.op = "none" /\ mount'.at \notin {"data", "sb"} /\ mount' = mount
      /\ UNCHANGED <<tables, channel, detecting, entry, partitions, medium, read>>
  BY DEF partitions_sector, Free, NoCall
<1>3. CASE InPartition(i, lba)
  BY <1>1, <1>2, <1>3, PartitionCallInv, SMTT(40)
<1>4. CASE ~InPartition(i, lba)
  <2>1. UNCHANGED <<tables, channel, call, detecting, entry, partitions, mount, medium, read, late>>
    BY <1>1, <1>2, <1>4 DEF PartitionCall
  <2> QED BY <2>1, ZenonT(60) DEF DiskInv, DiskTypeOK, CallsInOrder, CommandsMatch, CommandOf, Hw, WritesInside, InTable, PartitionsListed
<1> QED BY <1>3, <1>4

(* Steps that leave the calls, the drives and the sectors alone. *)
LEMMA MountOnlyInv ==
  ASSUME DiskInv, mount'.at \in {"data", "sb"} => call.op = "none" /\ detecting = 5,
         UNCHANGED <<tables, channel, call, detecting, entry, partitions, medium, read, late>>
  PROVE  DiskInv'
<1>1. DiskTypeOK'
  BY DEF DiskInv, DiskTypeOK
<1>2. CallsInOrder'
  BY DEF DiskInv, CallsInOrder
<1>3. CommandsMatch'
  BY DEF DiskInv, CommandsMatch, CommandOf, Hw
<1>4. WritesInside' /\ PartitionsListed'
  BY DEF DiskInv, WritesInside, InTable, PartitionsListed
<1> QED BY <1>1, <1>2, <1>3, <1>4 DEF DiskInv

LEMMA Ext4MountInv == DiskInv /\ ext4_mount => DiskInv'
<1> SUFFICES ASSUME DiskInv, ext4_mount PROVE DiskInv'
  OBVIOUS
<1>1. call.op = "none" /\ detecting = 5
  BY DEF ext4_mount, Free, NoCall
<1> QED BY <1>1, MountOnlyInv DEF ext4_mount

LEMMA MountBufferInv == DiskInv /\ MountBuffer => DiskInv'
<1> SUFFICES ASSUME DiskInv, MountBuffer PROVE DiskInv'
  OBVIOUS
<1>1. call.op = "none" /\ detecting = 5
  BY DEF MountBuffer, DiskInv, CallsInOrder
<1> QED BY <1>1, MountOnlyInv DEF MountBuffer

LEMMA MountSectorInv == DiskInv /\ MountSector => DiskInv'
<1> SUFFICES ASSUME DiskInv, MountSector PROVE DiskInv'
  OBVIOUS
<1>1. PICK i \in 1 .. MAX_PARTITIONS + 1 :
          /\ PartitionCall("read", i, 2)
          /\ mount' = IF InPartition(i, 2) THEN [mount EXCEPT !.at = "read"] ELSE [at |-> "failed", held |-> {}]
  BY DEF MountSector
<1>2. /\ call.op = "none" /\ detecting = 5
      /\ UNCHANGED <<tables, channel, detecting, entry, partitions, medium, read>>
  BY DEF MountSector, DiskInv, CallsInOrder
<1>3. CASE InPartition(i, 2)
  <2>1. mount'.at \notin {"data", "sb"}
    <3>1. mount' = [mount EXCEPT !.at = "read"]
      BY <1>1, <1>3
    <3> QED BY <3>1
  <2> QED BY <1>1, <1>2, <1>3, <2>1, PartitionCallInv
<1>4. CASE ~InPartition(i, 2)
  <2>1. mount'.at = "failed" /\ UNCHANGED <<call, late>>
    BY <1>1, <1>4 DEF PartitionCall
  <2> QED BY <2>1, <1>2, MountOnlyInv
<1> QED BY <1>3, <1>4

-----------------------------------------------------------------------------
(* The drive works *)

LEMMA IssueInv == DiskInv /\ Issue => DiskInv'
<1> SUFFICES ASSUME DiskInv, Issue PROVE DiskInv'
  OBVIOUS
<1> DEFINE ch == ChannelOf(call.drive)
           new == IF Hw.st \in {"busy", "writing"} THEN Hw
                  ELSE IF call.drive \notin DOMAIN tables THEN Idle
                  ELSE [st |-> "busy", op |-> call.op, drive |-> call.drive, lba |-> call.lba]
           Channel == [st : {"idle", "busy", "drq", "err", "writing"}, op : Ops \cup {"none"},
                       drive : 0 .. 4, lba : 0 .. Lba48Limit - 1]
<1>1. /\ call.op # "none" /\ call.at = "issue" /\ call' = [call EXCEPT !.at = "poll"]
      /\ UNCHANGED <<tables, detecting, entry, partitions, mount, medium, read, late>>
  BY DEF Issue
<1>2. ch \in {1, 2} /\ call.drive \in 1 .. 4 /\ Hw = channel[ch] /\ Hw \in Channel
  BY <1>1, HwFacts DEF DiskInv
<1>3. call \in [op : Ops \cup {"none"}, drive : 0 .. 4, lba : 0 .. Lba48Limit - 1, try : Nat, at : {"issue", "poll", "flush"}]
  BY DEF DiskInv, DiskTypeOK
<1>4. Addressed(call.lba) = call.lba
  BY <1>3, AddressedKeeps
<1>5. channel' = [channel EXCEPT ![ch] = new]
  BY <1>4 DEF Issue
<1>6. call'.op = call.op /\ call'.drive = call.drive /\ call'.lba = call.lba /\ call'.at = "poll"
      /\ call' \in [op : Ops \cup {"none"}, drive : 0 .. 4, lba : 0 .. Lba48Limit - 1, try : Nat, at : {"issue", "poll", "flush"}]
  BY <1>1, <1>3
<1>7. new \in Channel
  <2>1. Idle \in Channel
    BY DiskAssumption DEF Idle
  <2>2. [st |-> "busy", op |-> call.op, drive |-> call.drive, lba |-> call.lba] \in Channel
    BY <1>3
  <2> QED BY <1>2, <2>1, <2>2
<1>8. channel' \in [{1, 2} -> Channel] /\ channel'[ch] = new /\ \A c \in {1, 2} : c # ch => channel'[c] = channel[c]
  BY <1>2, <1>5, <1>7 DEF DiskInv, DiskTypeOK
<1>9. new.st # "drq" /\ (new.st = "busy" => new.drive \in DOMAIN tables)
  BY <1>2 DEF Idle, DiskInv, CommandsMatch
<1>10. new.op = "write" => InTable(new.drive, new.lba)
  BY <1>1, <1>2 DEF Idle, DiskInv, WritesInside
<1>11. new.st = "busy" => new = Hw \/ CommandOf(new)
  BY DEF CommandOf, Idle
<1>12. new = Hw \/ new.st # "busy" \/ CommandOf(new)
  BY <1>11
<1> HIDE DEF new, ch
<1>13. DiskTypeOK'
  BY <1>1, <1>6, <1>8 DEF DiskInv, DiskTypeOK
<1>14. CallsInOrder'
  BY <1>1, <1>6 DEF DiskInv, CallsInOrder
<1>15. CommandsMatch'
  <2>1. Hw' = new
    BY <1>6, <1>8 DEF Hw, ch
  <2>2. \A c \in {1, 2} : channel'[c].st \in {"busy", "drq"} => channel'[c].drive \in DOMAIN tables
    BY <1>8, <1>9 DEF DiskInv, CommandsMatch
  <2>3. ASSUME ~late \/ (call.op = "read" /\ detecting <= 4), new.st = "busy"
        PROVE  CommandOf(new)
    BY <2>3, <1>1, <1>12 DEF DiskInv, CommandsMatch
  <2>5. CommandOf(Hw)' <=> /\ new.op = call.op /\ new.drive = call.drive /\ new.lba = call.lba
    BY <1>6, <2>1, SMTT(40) DEF CommandOf
  <2> QED BY <1>1, <1>6, <1>9, <2>1, <2>2, <2>3, <2>5 DEF CommandsMatch, CommandOf
<1>16. WritesInside'
  <2>1. \A c \in {1, 2} : channel'[c].op = "write" => InTable(channel'[c].drive, channel'[c].lba)
    BY <1>8, <1>10 DEF DiskInv, WritesInside
  <2> QED BY <2>1, <1>1, <1>6 DEF DiskInv, WritesInside, InTable
<1>17. PartitionsListed'
  BY <1>1 DEF DiskInv, PartitionsListed
<1> QED BY <1>1, <1>13, <1>14, <1>15, <1>16, <1>17 DEF DiskInv

LEMMA DriveAnswersInv == DiskInv /\ DriveAnswers => DiskInv'
<1> SUFFICES ASSUME DiskInv, DriveAnswers PROVE DiskInv'
  OBVIOUS
<1> DEFINE Channel == [st : {"idle", "busy", "drq", "err", "writing"}, op : Ops \cup {"none"},
                       drive : 0 .. 4, lba : 0 .. Lba48Limit - 1]
<1>1. channel \in [{1, 2} -> Channel]
  BY DEF DiskInv, DiskTypeOK
<1>2. UNCHANGED <<tables, call, detecting, entry, partitions, mount, medium, read, late>>
  BY DEF DriveAnswers
<1>3. PICK c \in {1, 2} :
          \/ channel[c].st = "busy" /\ \E s \in {"drq", "err"} : channel' = [channel EXCEPT ![c].st = s]
          \/ channel[c].st = "writing" /\ channel' = [channel EXCEPT ![c] = Idle]
  BY <1>1 DEF DriveAnswers
<1>4. \A b \in {1, 2} : b # c => channel'[b] = channel[b]
  BY <1>1, <1>3
<1>5. channel'[c] \in Channel /\ DOMAIN channel' = {1, 2}
  <2>1. Idle \in Channel
    BY DiskAssumption DEF Idle
  <2> QED BY <1>1, <1>3, <2>1
<1>6. channel' \in [{1, 2} -> Channel]
  <2>1. \A b \in {1, 2} : channel'[b] \in Channel
    BY <1>1, <1>4, <1>5
  <2>2. channel' = [b \in DOMAIN channel' |-> channel'[b]]
    BY <1>1, <1>3
  <2> QED BY <1>5, <2>1, <2>2
<1>7. \/ /\ channel[c].st = "busy" /\ channel'[c].st \in {"drq", "err"} /\ channel'[c].op = channel[c].op
         /\ channel'[c].drive = channel[c].drive /\ channel'[c].lba = channel[c].lba
      \/ channel'[c].st = "idle" /\ channel'[c].op = "none"
  BY <1>1, <1>3 DEF Idle
<1>8. DiskTypeOK'
  BY <1>2, <1>6 DEF DiskInv, DiskTypeOK
<1>9. CallsInOrder' /\ PartitionsListed'
  BY <1>2 DEF DiskInv, CallsInOrder, PartitionsListed
<1>10. CommandsMatch'
  <2>1. \A b \in {1, 2} : channel'[b].st \in {"busy", "drq"} => channel'[b].drive \in DOMAIN tables
    BY <1>4, <1>7 DEF DiskInv, CommandsMatch
  <2>2. ASSUME call.op # "none", ~late \/ (call.op = "read" /\ detecting <= 4)
        PROVE  /\ Hw'.st = "busy" => CommandOf(Hw)'
               /\ Hw'.st = "drq" /\ call.at = "poll" => CommandOf(Hw)'
    <3>1. ChannelOf(call.drive) \in {1, 2} /\ Hw = channel[ChannelOf(call.drive)] /\ Hw' = channel'[ChannelOf(call.drive)]
      BY <2>2, <1>2, HwFacts DEF DiskInv, Hw
    <3>2. CASE ChannelOf(call.drive) # c
      BY <3>1, <3>2, <2>2, <1>2, <1>4 DEF DiskInv, CommandsMatch, CommandOf
    <3>3. CASE ChannelOf(call.drive) = c
      BY <3>1, <3>3, <2>2, <1>2, <1>7, SMTT(40) DEF DiskInv, CommandsMatch, CommandOf
    <3> QED BY <3>2, <3>3
  <2> QED BY <1>2, <2>1, <2>2 DEF CommandsMatch
<1>11. WritesInside'
  <2>1. \A b \in {1, 2} : channel'[b].op = "write" => InTable(channel'[b].drive, channel'[b].lba)
    BY <1>4, <1>7 DEF DiskInv, WritesInside
  <2> QED BY <1>2, <2>1 DEF DiskInv, WritesInside, InTable
<1> QED BY <1>2, <1>8, <1>9, <1>10, <1>11 DEF DiskInv

-----------------------------------------------------------------------------
(* A call returns *)

(* What is known when the poll ends well with data that is the call's. *)
LEMMA NextDriveInv ==
  ASSUME DiskTypeOK, detecting <= 4, NextDrive
  PROVE  /\ detecting' \in 1 .. 5 /\ entry' = 0 /\ call'.op = "none" /\ call'.at = "issue"
         /\ call' \in [op : Ops \cup {"none"}, drive : 0 .. 4, lba : 0 .. Lba48Limit - 1, try : Nat, at : {"issue", "poll", "flush"}]
<1>1. 0 \in 0 .. Lba48Limit - 1
  BY DiskAssumption
<1>2. call' = NoCall /\ entry' = 0 /\ detecting' = detecting + 1
  BY DEF NextDrive
<1> QED BY <1>1, <1>2 DEF NoCall, DiskTypeOK

(* A partition list made of entries of the table of one drive. *)
LEMMA ListedFrom ==
  ASSUME DiskTypeOK, NEW d \in DOMAIN tables, NEW list \in Listed(tables[d].entries)
  PROVE  /\ \E n \in Nat : DOMAIN list = 1 .. n
         /\ \A i \in DOMAIN list : \E j \in DOMAIN tables[d].entries : list[i] = tables[d].entries[j]
<1> DEFINE used == {i \in DOMAIN tables[d].entries : tables[d].entries[i] # NoEntry}
           n == Min({Cardinality(used), MAX_PARTITIONS})
<1>1. PICK pick \in [1 .. n -> used] : list = [k \in 1 .. n |-> tables[d].entries[pick[k]]]
  BY DEF Listed
<1>2. n \in Nat
  <2>1. Len(tables[d].entries) \in Nat /\ DOMAIN tables[d].entries = 1 .. Len(tables[d].entries)
    BY TableFacts
  <2>2. IsFiniteSet(1 .. Len(tables[d].entries)) /\ used \in SUBSET (1 .. Len(tables[d].entries))
    BY <2>1, FS_Interval
  <2>3. Cardinality(used) \in Nat
    BY <2>2, FS_Subset, FS_CardinalityType
  <2>4. ASSUME NEW a \in Nat, NEW b \in Nat PROVE Min({a, b}) \in Nat
    <3>1. \E x \in {a, b} : \A y \in {a, b} : x <= y
      OBVIOUS
    <3> QED BY <3>1 DEF Min
  <2> QED BY <2>3, <2>4, DiskAssumption
<1> QED BY <1>1, <1>2

Partition == [drive : 1 .. 4, start : Nat, size : Nat]

LEMMA PartitionOf ==
  ASSUME DiskTypeOK, NEW d \in DOMAIN tables, NEW j \in DOMAIN tables[d].entries
  PROVE  On(d, tables[d].entries[j]) \in Partition
<1>1. tables[d].entries \in Seq([start : Nat, size : Nat]) /\ d \in 1 .. 4
  BY TableFacts
<1>2. tables[d].entries[j] \in [start : Nat, size : Nat]
  BY <1>1, ElementOf
<1> QED BY <1>1, <1>2 DEF On, Partition

(* The list of an MBR. *)
LEMMA MbrListed ==
  ASSUME DiskTypeOK, NEW d \in DOMAIN tables, NEW list \in Listed(tables[d].entries), tables' = tables,
         partitions' = [i \in DOMAIN list |-> On(d, list[i])]
  PROVE  partitions' \in Seq(Partition) /\ PartitionsListed'
<1>1. PICK n \in Nat : DOMAIN list = 1 .. n
  BY ListedFrom
<1>2. \A i \in 1 .. n : \E j \in DOMAIN tables[d].entries : list[i] = tables[d].entries[j]
  BY <1>1, ListedFrom
<1>3. \A i \in 1 .. n : On(d, list[i]) \in Partition
  BY <1>2, PartitionOf
<1>4. partitions' = [i \in 1 .. n |-> On(d, list[i])]
  BY <1>1
<1>5. partitions' \in Seq(Partition)
  BY <1>3, <1>4
<1>6. DOMAIN partitions' = 1 .. n /\ \A i \in 1 .. n : partitions'[i] = On(d, list[i]) /\ partitions'[i].drive = d
  BY <1>4 DEF On
<1>7. \A i \in 1 .. n : 1 \in 1 .. n
  OBVIOUS
<1>8. PartitionsListed'
  BY <1>2, <1>6, <1>7 DEF PartitionsListed
<1> QED BY <1>5, <1>8

(* An entry of a GPT is added to those of the same drive. *)
LEMMA EntryListed ==
  ASSUME DiskTypeOK, PartitionsListed, NEW d \in DOMAIN tables, NEW j \in DOMAIN tables[d].entries, tables' = tables,
         \A i \in DOMAIN partitions : partitions[i].drive = d,
         partitions' = Append(partitions, On(d, tables[d].entries[j]))
  PROVE  /\ partitions' \in Seq(Partition) /\ PartitionsListed'
         /\ \A i \in DOMAIN partitions' : partitions'[i].drive = d
<1> DEFINE new == On(d, tables[d].entries[j])
<1>1. new \in Partition /\ new.drive = d
  BY PartitionOf DEF On
<1>2. partitions \in Seq(Partition)
  BY DEF DiskTypeOK, Partition
<1>3. /\ partitions' \in Seq(Partition) /\ DOMAIN partitions' = 1 .. Len(partitions) + 1
      /\ DOMAIN partitions = 1 .. Len(partitions) /\ Len(partitions) \in Nat
      /\ \A i \in 1 .. Len(partitions) : partitions'[i] = partitions[i]
      /\ partitions'[Len(partitions) + 1] = new
  <2> HIDE DEF new
  <2>1. partitions' = Append(partitions, new)
    BY DEF new
  <2> QED BY <1>1, <1>2, <2>1
<1>4. \A i \in DOMAIN partitions' : (i \in DOMAIN partitions /\ partitions'[i] = partitions[i]) \/ partitions'[i] = new
  BY <1>3
<1>5. \A i \in DOMAIN partitions' : partitions'[i].drive = d
  BY <1>1, <1>4
<1>6. 1 \in DOMAIN partitions'
  BY <1>3
<1>7. ASSUME NEW i \in DOMAIN partitions'
      PROVE  \E k \in DOMAIN tables[d].entries : On(d, tables[d].entries[k]) = partitions'[i]
  <2>1. CASE i \in DOMAIN partitions /\ partitions'[i] = partitions[i]
    <3>1. partitions[i].drive = d
      BY <2>1
    <3>2. \E k \in DOMAIN tables[partitions[i].drive].entries :
             On(partitions[i].drive, tables[partitions[i].drive].entries[k]) = partitions[i]
      BY <2>1 DEF PartitionsListed
    <3> QED BY <2>1, <3>1, <3>2
  <2>2. CASE partitions'[i] = new
    BY <2>2
  <2> QED BY <1>4, <2>1, <2>2
<1>8. PartitionsListed'
  BY <1>5, <1>6, <1>7 DEF PartitionsListed
<1> QED BY <1>3, <1>5, <1>8

CallRecord == [op : Ops \cup {"none"}, drive : 0 .. 4, lba : 0 .. Lba48Limit - 1, try : Nat, at : {"issue", "poll", "flush"}]

(* What a call leaves that returned: no call, or the next read of the same  *)
(* drive, and a list of partitions of one drive.                            *)
Returned ==
  /\ call' \in CallRecord /\ call'.at = "issue" /\ call'.op \in {"none", "read"}
  /\ call'.op = "read" => call'.drive = call.drive /\ call'.drive \in 1 .. 4
  /\ detecting' \in 1 .. 6 /\ entry' \in Nat /\ partitions' \in Seq(Partition)
  /\ PartitionsListed' /\ CallsInOrder'

LEMMA NoPartitions ==
  ASSUME partitions' = <<>> PROVE partitions' \in Seq(Partition) /\ PartitionsListed'
BY DEF PartitionsListed

LEMMA SamePartitions ==
  ASSUME DiskInv, UNCHANGED <<tables, partitions>> PROVE partitions' \in Seq(Partition) /\ PartitionsListed'
<1>1. partitions' \in Seq(Partition)
  BY DEF DiskInv, DiskTypeOK, Partition
<1> QED BY <1>1 DEF DiskInv, PartitionsListed

LEMMA BeginFacts ==
  ASSUME NEW op \in Ops, NEW d \in 1 .. 4, NEW lba \in 0 .. Lba48Limit - 1, Begin(op, d, lba)
  PROVE  /\ call' \in CallRecord /\ call'.op = op /\ call'.drive = d /\ call'.lba = lba /\ call'.at = "issue"
         /\ call'.op # "none"
<1>1. call' = [op |-> op, drive |-> d, lba |-> lba, try |-> 1, at |-> "issue"]
  BY DEF Begin
<1> QED BY <1>1 DEF CallRecord, Ops

LEMMA MountIdle ==
  ASSUME DiskInv, call.op # "none" PROVE mount.at \notin {"data", "sb"}
BY DEF DiskInv, CallsInOrder

(* ata_init goes on to the next drive. *)
LEMMA NextDriveReturned ==
  ASSUME DiskInv, call.op # "none", detecting <= 4, NextDrive, mount' = mount,
         partitions' \in Seq(Partition), PartitionsListed'
  PROVE  Returned
<1>1. /\ detecting' \in 1 .. 5 /\ entry' = 0 /\ call'.op = "none" /\ call'.at = "issue" /\ call' \in CallRecord
  BY NextDriveInv DEF DiskInv, CallRecord
<1>2. mount'.at \notin {"data", "sb"}
  BY MountIdle
<1>3. detecting' # 6 /\ ~(entry' > 0)
  BY <1>1
<1>4. CallsInOrder'
  BY <1>1, <1>2, <1>3 DEF CallsInOrder
<1> QED BY <1>1, <1>4 DEF Returned

(* The first read of a drive follows its identification. *)
LEMMA IdentifiedReturned ==
  ASSUME DiskInv, call.op = "identify", Begin("read", call.drive, 0), UNCHANGED <<tables, detecting, entry, partitions, mount>>
  PROVE  Returned
<1>1. call.drive \in 1 .. 4 /\ detecting \in 1 .. 6 /\ entry \in Nat /\ call.op # "none" /\ detecting <= 4
  BY DEF DiskInv, DiskTypeOK, CallsInOrder
<1>2. 0 \in 0 .. Lba48Limit - 1
  BY DiskAssumption
<1>3. /\ call' \in CallRecord /\ call'.op = "read" /\ call'.drive = call.drive /\ call'.at = "issue"
  BY <1>1, <1>2, BeginFacts DEF Ops
<1>4. ~(entry > 0) /\ detecting' # 6
  BY <1>1 DEF DiskInv, CallsInOrder
<1>5. mount'.at \notin {"data", "sb"}
  BY <1>1, MountIdle
<1>6. CallsInOrder'
  BY <1>3, <1>4, <1>5 DEF CallsInOrder
<1> QED BY <1>1, <1>3, <1>6, SamePartitions DEF Returned

(* The next entry of a GPT is read from the same drive. *)
LEMMA NextEntryReturned ==
  ASSUME DiskInv, call.op = "read", detecting <= 4, call.drive \in DOMAIN tables,
         NEW k \in DOMAIN tables[call.drive].entries, entry' = k, tables[call.drive].kind = "gpt",
         ~Unsized(tables[call.drive]), Begin("read", call.drive, EntrySector(tables[call.drive], k)),
         UNCHANGED <<tables, detecting, mount>>, partitions' \in Seq(Partition), PartitionsListed',
         \A i \in DOMAIN partitions' : partitions'[i].drive = call.drive
  PROVE  Returned
<1>1. call.drive \in 1 .. 4 /\ detecting \in 1 .. 6 /\ call.op # "none"
  BY DEF DiskInv, DiskTypeOK
<1>2. k \in Nat /\ EntrySector(tables[call.drive], k) \in 0 .. Lba48Limit - 1
  <2>1. tables[call.drive].entries \in Seq([start : Nat, size : Nat])
    BY TableFacts DEF DiskInv
  <2>2. k \in Nat
    BY <2>1, SMTT(40)
  <2> QED BY <2>2, EntrySectorOnDrive DEF DiskInv
<1>3. /\ call' \in CallRecord /\ call'.op = "read" /\ call'.drive = call.drive /\ call'.at = "issue"
  BY <1>1, <1>2, BeginFacts DEF Ops
<1>4. mount'.at \notin {"data", "sb"}
  BY <1>1, MountIdle
<1>5. CallsInOrder'
  BY <1>3, <1>4 DEF CallsInOrder
<1> QED BY <1>1, <1>2, <1>3, <1>5 DEF Returned

(* The kernel stops for a GPT whose entries have no size. *)
LEMMA StoppedReturned ==
  ASSUME DiskInv, call.op # "none", NEW d \in DOMAIN tables, Unsized(tables[d]), DivideError,
         UNCHANGED <<tables, mount>>, partitions' \in Seq(Partition), PartitionsListed'
  PROVE  Returned
<1>1. detecting' = 6 /\ entry' = 0 /\ call'.op = "none" /\ call'.at = "issue" /\ call' \in CallRecord
  BY DiskAssumption DEF DivideError, NoCall, CallRecord
<1>2. mount'.at \notin {"data", "sb"}
  BY MountIdle
<1>3. \E x \in DOMAIN tables' : Unsized(tables'[x])
  OBVIOUS
<1>4. CallsInOrder'
  BY <1>1, <1>2, <1>3 DEF CallsInOrder
<1> QED BY <1>1, <1>4 DEF Returned

(* A call that is not part of the detection. *)
LEMMA OtherReturned ==
  ASSUME DiskInv, call.op = "write" \/ (call.op = "read" /\ detecting > 4), call' = NoCall,
         UNCHANGED <<tables, detecting, entry, partitions>>, mount'.at \notin {"data", "sb"}
  PROVE  Returned
<1>1. call' \in CallRecord /\ call'.op = "none" /\ call'.at = "issue"
  BY DiskAssumption DEF NoCall, CallRecord
<1>2. detecting \in 1 .. 6 /\ entry \in Nat
  BY DEF DiskInv, DiskTypeOK
<1>3. ~(entry > 0) /\ detecting # 6
  BY <1>2 DEF DiskInv, CallsInOrder
<1>4. CallsInOrder'
  BY <1>1, <1>3 DEF CallsInOrder
<1> QED BY <1>1, <1>2, <1>4, SamePartitions DEF Returned

LEMMA FailedReturns ==
  ASSUME DiskInv, call.op # "none", CallReturns(FALSE), tables' = tables
  PROVE  Returned
<1>1. CASE call.op = "identify" /\ NextDrive /\ UNCHANGED <<partitions, mount>>
  <2>1. detecting <= 4
    BY <1>1 DEF DiskInv, CallsInOrder
  <2> QED BY <1>1, <2>1, SamePartitions, NextDriveReturned
<1>2. CASE call.op = "read" /\ detecting <= 4 /\ NextDrive /\ partitions' = (IF entry = 0 THEN <<>> ELSE partitions) /\ mount' = mount
  <2>1. partitions' = <<>> \/ partitions' = partitions
    BY <1>2
  <2> QED BY <1>2, <2>1, NoPartitions, SamePartitions, NextDriveReturned
<1>3. CASE /\ call.op = "write" \/ (call.op = "read" /\ detecting > 4)
           /\ call' = NoCall /\ UNCHANGED <<detecting, entry, partitions>>
           /\ IF mount.at # "read" THEN UNCHANGED mount ELSE Mounted("failed", {})
  <2>1. mount'.at \notin {"data", "sb"}
    BY <1>3, MountIdle DEF Mounted
  <2> QED BY <1>3, <2>1, OtherReturned
<1> QED BY <1>1, <1>2, <1>3 DEF CallReturns

LEMMA GoodReturns ==
  ASSUME DiskInv, call.op # "none", CallReturns(TRUE), tables' = tables, call.at = "poll", Hw.st = "drq"
  PROVE  Returned
<1>1. CASE call.op = "identify" /\ Begin("read", call.drive, 0) /\ UNCHANGED <<detecting, entry>> /\ UNCHANGED <<partitions, mount>>
  BY <1>1, IdentifiedReturned
<1>2. CASE /\ call.op = "read" /\ detecting <= 4 /\ mount' = mount
           /\ IF entry = 0 THEN partitions_init(tables[Hw.drive]) ELSE ReadEntry(tables[Hw.drive].entries[entry])
  <2> DEFINE d == call.drive
  <2>1. Hw.drive = d /\ d \in DOMAIN tables
    <3>1. CommandOf(Hw)
      BY <1>2 DEF DiskInv, CommandsMatch
    <3>2. Hw.drive \in DOMAIN tables
      BY HwFacts DEF DiskInv, CommandsMatch
    <3> QED BY <3>1, <3>2 DEF CommandOf
  <2>2. DiskTypeOK /\ PartitionsListed
    BY DEF DiskInv
  <2>3. tables[d].entries \in Seq([start : Nat, size : Nat])
    BY <2>1, <2>2, TableFacts
  <2>4. CASE entry = 0
    <3>1. partitions_init(tables[d])
      BY <1>2, <2>1, <2>4
    <3>2. CASE (\E list \in Listed(tables[d].entries) : partitions' = [i \in DOMAIN list |-> On(call.drive, list[i])]) /\ NextDrive
      <4>1. partitions' \in Seq(Partition) /\ PartitionsListed'
        BY <3>2, <2>1, <2>2, MbrListed
      <4> QED BY <4>1, <3>2, <1>2, NextDriveReturned
    <3>3. CASE /\ tables[d].kind = "gpt" /\ tables[d].entries # <<>> /\ ~Unsized(tables[d])
               /\ partitions' = <<>> /\ entry' = 1 /\ Begin("read", call.drive, EntrySector(tables[d], 1))
               /\ UNCHANGED detecting
      <4>1. 1 \in DOMAIN tables[d].entries
        BY <3>3, <2>3
      <4>2. DOMAIN partitions' = {}
        BY <3>3
      <4> QED BY <3>3, <4>1, <4>2, <1>2, <2>1, NoPartitions, NextEntryReturned
    <3>4. CASE partitions' = <<>> /\ NextDrive
      BY <3>4, <1>2, NoPartitions, NextDriveReturned
    <3>5. CASE Unsized(tables[d]) /\ partitions' = <<>> /\ DivideError
      BY <3>5, <1>2, <2>1, NoPartitions, StoppedReturned
    <3> QED BY <3>1, <3>2, <3>3, <3>4, <3>5 DEF partitions_init
  <2>5. CASE entry # 0
    <3>1. ReadEntry(tables[d].entries[entry])
      BY <1>2, <2>1, <2>5
    <3>2. entry \in Nat /\ entry > 0
      BY <2>2, <2>5 DEF DiskTypeOK
    <3>3. /\ entry \in DOMAIN tables[d].entries /\ tables[d].kind = "gpt" /\ ~Unsized(tables[d])
          /\ \A i \in DOMAIN partitions : partitions[i].drive = d
      BY <3>2 DEF DiskInv, CallsInOrder
    <3>4. /\ partitions' \in Seq(Partition) /\ PartitionsListed'
          /\ \A i \in DOMAIN partitions' : partitions'[i].drive = d
      <4>1. partitions' = partitions \/ partitions' = Append(partitions, On(d, tables[d].entries[entry]))
        BY <3>1 DEF ReadEntry
      <4>2. CASE partitions' = partitions
        BY <4>2, <3>3, SamePartitions
      <4>3. CASE partitions' = Append(partitions, On(d, tables[d].entries[entry]))
        BY <4>3, <3>3, <2>1, <2>2, EntryListed
      <4> QED BY <4>1, <4>2, <4>3
    <3>5. CASE /\ entry < Len(tables[d].entries) /\ entry' = entry + 1 /\ UNCHANGED detecting
               /\ Begin("read", d, EntrySector(tables[d], entry'))
      <4>1. entry' \in DOMAIN tables[d].entries
        BY <3>2, <3>5, <2>3
      <4> QED BY <3>3, <3>4, <3>5, <4>1, <1>2, <2>1, NextEntryReturned
    <3>6. CASE NextDrive
      BY <3>4, <3>6, <1>2, NextDriveReturned
    <3> QED BY <3>1, <3>5, <3>6 DEF ReadEntry
  <2> QED BY <2>4, <2>5
<1>3. CASE /\ call.op = "write" \/ (call.op = "read" /\ detecting > 4)
           /\ call' = NoCall /\ UNCHANGED <<detecting, entry, partitions>>
           /\ IF mount.at # "read" THEN UNCHANGED mount ELSE MountRead(<<Hw.drive, Hw.lba>>)
  <2>1. mount'.at \notin {"data", "sb"}
    BY <1>3, MountIdle DEF Mounted, MountRead
  <2> QED BY <1>3, <2>1, OtherReturned
<1> QED BY <1>1, <1>2, <1>3 DEF CallReturns

-----------------------------------------------------------------------------
(* The poll *)

(* A call that failed leaves the drives as they are. *)
LEMMA FailedInv ==
  ASSUME DiskInv, call.op # "none", CallReturns(FALSE), UNCHANGED <<tables, channel, medium, read, late>>
  PROVE  DiskInv'
<1>1. Returned /\ call'.op = "none"
  <2>1. Returned
    BY FailedReturns
  <2>2. call' = NoCall
    BY DEF CallReturns, NextDrive
  <2> QED BY <2>1, <2>2 DEF NoCall
<1>2. DiskTypeOK'
  BY <1>1 DEF Returned, DiskInv, DiskTypeOK, CallRecord, Partition
<1>3. CommandsMatch'
  BY <1>1 DEF DiskInv, CommandsMatch
<1>4. WritesInside'
  BY <1>1 DEF DiskInv, WritesInside, InTable
<1> QED BY <1>1, <1>2, <1>3, <1>4 DEF DiskInv, Returned

LEMMA FlushFailsInv == DiskInv /\ FlushFails => DiskInv'
<1> SUFFICES ASSUME DiskInv, FlushFails PROVE DiskInv'
  OBVIOUS
<1>1. call.op # "none"
  BY DEF FlushFails, DiskInv, CallsInOrder
<1> QED BY <1>1, FailedInv DEF FlushFails

LEMMA PollBadInv == DiskInv /\ ata_poll_bad => DiskInv'
<1> SUFFICES ASSUME DiskInv, ata_poll_bad PROVE DiskInv'
  OBVIOUS
<1>1. call.op # "none" /\ UNCHANGED <<tables, channel, medium, read, late>>
  BY DEF ata_poll_bad
<1>2. CASE CallReturns(FALSE)
  BY <1>1, <1>2, FailedInv
<1>3. CASE Retry /\ UNCHANGED <<detecting, entry, partitions, mount>>
  <2>1. call \in CallRecord
    BY DEF DiskInv, DiskTypeOK, CallRecord
  <2> DEFINE n == call.try + 1
  <2>8. n \in Nat
    BY <2>1 DEF CallRecord
  <2>2. call' = [call EXCEPT !.at = "issue", !.try = n]
    BY <1>3 DEF Retry
  <2> HIDE DEF n
  <2>3. call' \in CallRecord /\ call'.op = call.op /\ call'.drive = call.drive /\ call'.lba = call.lba /\ call'.at = "issue"
    BY <2>1, <2>2, <2>8 DEF CallRecord
  <2>4. DiskTypeOK'
    BY <1>1, <1>3, <2>3 DEF DiskInv, DiskTypeOK, CallRecord
  <2>5. CallsInOrder'
    BY <1>1, <1>3, <2>3 DEF DiskInv, CallsInOrder
  <2>6. CommandsMatch'
    BY <1>1, <1>3, <2>3 DEF DiskInv, CommandsMatch, CommandOf, Hw
  <2>7. WritesInside' /\ PartitionsListed'
    BY <1>1, <1>3, <2>3 DEF DiskInv, WritesInside, InTable, PartitionsListed
  <2> QED BY <1>1, <2>4, <2>5, <2>6, <2>7 DEF DiskInv
<1> QED BY <1>2, <1>3 DEF ata_poll_bad

(* The data of a read, or of an identification, is taken. *)
LEMMA TakenInv ==
  ASSUME DiskInv, call.op # "none", call.at = "poll", Hw.st = "drq", call.op # "write",
         channel' = [channel EXCEPT ![ChannelOf(call.drive)] = Idle],
         read' = [asked |-> <<call.op, call.drive, call.lba>>, came |-> <<Hw.op, Hw.drive, Hw.lba>>],
         CallReturns(TRUE), UNCHANGED <<tables, medium, late>>
  PROVE  DiskInv'
<1> DEFINE ch == ChannelOf(call.drive)
           Channel == [st : {"idle", "busy", "drq", "err", "writing"}, op : Ops \cup {"none"},
                       drive : 0 .. 4, lba : 0 .. Lba48Limit - 1]
<1>1. Returned
  BY GoodReturns
<1>2. ch \in {1, 2} /\ Hw = channel[ch]
  BY HwFacts DEF DiskInv
<1>3. Idle \in Channel /\ Idle.st = "idle" /\ Idle.op = "none"
  BY DiskAssumption DEF Idle
<1>4. channel' \in [{1, 2} -> Channel] /\ channel'[ch] = Idle /\ \A c \in {1, 2} : c # ch => channel'[c] = channel[c]
  BY <1>2, <1>3 DEF DiskInv, DiskTypeOK
<1> HIDE DEF ch
<1>5. DiskTypeOK'
  BY <1>1, <1>4 DEF Returned, DiskInv, DiskTypeOK, CallRecord, Partition
<1>6. CommandsMatch'
  <2>1. call'.op = "read" => Hw' = Idle
    BY <1>1, <1>4 DEF Returned, Hw, ch
  <2>2. call'.op # "none" => Hw'.st = "idle"
    BY <1>1, <1>3, <2>1 DEF Returned
  <2>3. \A c \in {1, 2} : channel'[c].st \in {"busy", "drq"} => channel'[c].drive \in DOMAIN tables
    BY <1>3, <1>4, SMTT(40) DEF DiskInv, CommandsMatch
  <2> QED BY <2>2, <2>3 DEF CommandsMatch
<1>7. WritesInside'
  <2>1. \A c \in {1, 2} : channel'[c].op = "write" => InTable(channel'[c].drive, channel'[c].lba)
    BY <1>3, <1>4 DEF DiskInv, WritesInside
  <2>2. call'.op # "write"
    BY <1>1 DEF Returned
  <2> QED BY <2>1, <2>2 DEF DiskInv, WritesInside, InTable
<1>8. ~late => CommandOf(Hw)
  BY DEF DiskInv, CommandsMatch
<1>9. ~late => read'.asked = read'.came
  BY <1>8 DEF CommandOf
<1> QED BY <1>1, <1>5, <1>6, <1>7, <1>9 DEF DiskInv, Returned

(* The data of a write is given. *)
LEMMA GivenInv ==
  ASSUME DiskInv, call.op = "write", call.at = "poll", Hw.st = "drq",
         medium' = IF Hw.op # "write" THEN medium
                   ELSE [s \in DOMAIN medium \cup {<<Hw.drive, Hw.lba>>} |->
                           IF s = <<Hw.drive, Hw.lba>> THEN <<call.drive, call.lba>> ELSE medium[s]],
         channel' = [channel EXCEPT ![ChannelOf(call.drive)].st = IF Hw.op = "write" THEN "writing" ELSE "idle"],
         call' = [call EXCEPT !.at = "flush"],
         UNCHANGED <<tables, detecting, entry, partitions, mount, read, late>>
  PROVE  DiskInv'
<1> DEFINE ch == ChannelOf(call.drive)
           Channel == [st : {"idle", "busy", "drq", "err", "writing"}, op : Ops \cup {"none"},
                       drive : 0 .. 4, lba : 0 .. Lba48Limit - 1]
<1>1. ch \in {1, 2} /\ Hw = channel[ch] /\ Hw \in Channel
  BY HwFacts DEF DiskInv
<1>2. call \in CallRecord
  BY DEF DiskInv, DiskTypeOK, CallRecord
<1>3. call' \in CallRecord /\ call'.op = "write" /\ call'.drive = call.drive /\ call'.lba = call.lba /\ call'.at = "flush"
  BY <1>2 DEF CallRecord
<1>4. channel \in [{1, 2} -> Channel]
  BY DEF DiskInv, DiskTypeOK
<1>5. /\ channel' \in [{1, 2} -> Channel] /\ channel'[ch].st \in {"writing", "idle"}
      /\ channel'[ch].op = Hw.op /\ channel'[ch].drive = Hw.drive /\ channel'[ch].lba = Hw.lba
  BY <1>1, <1>4
<1>6. \A c \in {1, 2} : c # ch => channel'[c] = channel[c]
  BY <1>1, <1>4
<1> HIDE DEF ch
<1>7. DiskTypeOK'
  BY <1>3, <1>5 DEF DiskInv, DiskTypeOK, CallRecord
<1>8. CallsInOrder' /\ PartitionsListed'
  BY <1>3 DEF DiskInv, CallsInOrder, PartitionsListed
<1>9. CommandsMatch'
  <2>1. Hw' = channel'[ch]
    BY <1>3 DEF Hw, ch
  <2>2. \A c \in {1, 2} : channel'[c].st \in {"busy", "drq"} => channel'[c].drive \in DOMAIN tables
    BY <1>5, <1>6 DEF DiskInv, CommandsMatch
  <2> QED BY <1>5, <2>1, <2>2 DEF CommandsMatch
<1>10. Hw.op = "write" => InTable(Hw.drive, Hw.lba)
  BY <1>1, SMTT(40) DEF DiskInv, WritesInside
<1>11. WritesInside'
  <2>1. \A c \in {1, 2} : channel'[c].op = "write" => InTable(channel'[c].drive, channel'[c].lba)
    BY <1>5, <1>6, <1>10 DEF DiskInv, WritesInside
  <2>2. \A s \in DOMAIN medium' : s \in DOMAIN medium \/ (Hw.op = "write" /\ s = <<Hw.drive, Hw.lba>>)
    OBVIOUS
  <2>3. \A s \in DOMAIN medium' : InTable(s[1], s[2])
    BY <2>2, <1>10 DEF DiskInv, WritesInside
  <2> QED BY <1>3, <2>1, <2>3, ZenonT(60) DEF DiskInv, WritesInside, InTable
<1>12. ASSUME ~late PROVE \A s \in DOMAIN medium' : medium'[s] = s
  <2>1. CommandOf(Hw)
    BY <1>12 DEF DiskInv, CommandsMatch
  <2>2. <<Hw.drive, Hw.lba>> = <<call.drive, call.lba>>
    BY <2>1 DEF CommandOf
  <2>3. \A s \in DOMAIN medium : medium[s] = s
    BY <1>12 DEF DiskInv
  <2> QED BY <2>2, <2>3
<1> QED BY <1>7, <1>8, <1>9, <1>11, <1>12 DEF DiskInv

LEMMA PollGoodInv == DiskInv /\ ata_poll_good => DiskInv'
<1> SUFFICES ASSUME DiskInv, ata_poll_good PROVE DiskInv'
  OBVIOUS
<1>1. call.op # "none" /\ call.at = "poll" /\ Hw.st = "drq" /\ tables' = tables
  BY DEF ata_poll_good
<1>2. CASE call.op = "write"
  BY <1>1, <1>2, GivenInv DEF ata_poll_good
<1>3. CASE call.op # "write"
  BY <1>1, <1>3, TakenInv DEF ata_poll_good
<1> QED BY <1>2, <1>3

-----------------------------------------------------------------------------
LEMMA DiskStepInv == DiskInv /\ [DiskNext]_diskVars => DiskInv'
<1> SUFFICES ASSUME DiskInv, [DiskNext]_diskVars PROVE DiskInv'
  OBVIOUS
<1>1. CASE UNCHANGED diskVars
  <2>1. UNCHANGED <<tables, channel, call, detecting, entry, partitions, medium, read, late>> /\ mount' = mount
    BY <1>1 DEF diskVars
  <2>2. mount'.at \in {"data", "sb"} => call.op = "none" /\ detecting = 5
    BY <2>1 DEF DiskInv, CallsInOrder
  <2> QED BY <2>1, <2>2, MountOnlyInv
<1> QED BY <1>1, AtaInitInv, IssueInv, PollGoodInv, PollBadInv, FlushFailsInv, MountBufferInv, MountSectorInv,
           DriveAnswersInv, PartitionsSectorInv, Ext4MountInv
        DEF DiskNext, DriverStep

LEMMA DiskInvHolds == DiskSpec => []DiskInv
<1>1. DiskInv /\ [DiskNext]_diskVars => DiskInv'
  BY DiskStepInv
<1> QED BY <1>1, DiskInitInv, PTL DEF DiskSpec

(* A read brings the sector that was asked for and a write goes to the      *)
(* sector it was meant for, unless a call came while a drive was still busy *)
(* with a command given up before; even then nothing is written outside the *)
(* partitions, and the list holds entries of one drive's table: for every   *)
(* partition table, number of tries and width of the sector numbers         *)
(* (ata_read_sector, ata_write_sector, partitions_init).                    *)
THEOREM SectorsCorrect == DiskSpec => []SectorsRight
<1>1. DiskInv => SectorsRight
  <2> SUFFICES ASSUME DiskInv PROVE SectorsRight
    OBVIOUS
  <2>1. \A s \in DOMAIN medium : \E i \in DOMAIN tables[s[1]].entries :
          LET e == tables[s[1]].entries[i] IN s[2] \in e.start .. e.start + e.size - 1
    BY DEF DiskInv, WritesInside, InTable
  <2> QED BY <2>1 DEF DiskInv, PartitionsListed, CallsInOrder, SectorsRight
<1> QED BY <1>1, DiskInvHolds, PTL
=============================================================================
