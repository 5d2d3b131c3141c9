------------------------------ MODULE Network ------------------------------
(***************************************************************************)
(* The e1000 driver's rings (src/core/drivers/ethernet/e1000.c) and the     *)
(* handling of packets and the command ping above them                      *)
(* (src/core/kernel/shell/commands/network.c).                              *)
(*                                                                         *)
(* The main loop takes one packet at a time and may answer it.  The command *)
(* ping runs in the keyboard's interrupt, that is, between any two steps of *)
(* the main loop, which then waits until it is done.  The card works all    *)
(* the time.  The type of a frame is compared without swapping its bytes: a *)
(* packet has kind "arp request" and so on if the code takes it for one,    *)
(* and a frame in network byte order is of kind "other".                    *)
(***************************************************************************)
EXTENDS Naturals, Sequences, SequencesExt, FiniteSets

CONSTANTS Ring,         \* RX_DESC_COUNT, TX_DESC_COUNT
          ArpSize,      \* entries of arp_table
          Packets,      \* packets of others: [kind, src, ip, to], by MAC and IP address
          Hosts,        \* IP addresses to ping
          OWN, ALL,     \* net_config.ip after network_init, 0xFFFFFFFF
          MaxIn, MaxPings  \* bounds: packets that arrive, pings

NoPacket == [kind |-> "none"]

ASSUME NetworkAssumption == /\ Ring \in Nat \ {0, 1} /\ ArpSize \in Nat /\ MaxIn \in Nat /\ MaxPings \in Nat
                            /\ NoPacket \notin Packets

VARIABLES net,          \* what network_init has come to
          rx, rx_cur, rdh, rdt,         \* receive ring: the packets with the status bit set;
                                        \* and the card's head and tail
          tx, tx_cur, tdh, tdt,         \* send ring, with what is not sent yet
          arp_table,
          main,         \* the main loop: what it is at, with which packet, in which slot
          ping,         \* the host whose answer ping waits for, or none
          incoming,     \* auxiliary: packets the card took that were not read
          outgoing,     \* auxiliary: packets handed to the driver that were not sent
          told,         \* auxiliary: the last address each host gave in a reply
          torn,         \* auxiliary: ping sent something in the middle of a send
          overrun,      \* auxiliary: a packet was put in a full ring
          arrivals, pings

rxVars == <<rx, rx_cur, rdh, rdt, incoming, arrivals>>
txVars == <<tx, tx_cur, tdh, tdt, outgoing, torn, overrun>>
netVars == <<net, rxVars, txVars, arp_table, main, ping, told, pings>>

RingSlot == 0..Ring - 1
NextSlot(i) == (i + 1) % Ring
Whole(p) == [data |-> p, length |-> p]
AtPoll == [at |-> "poll", packet |-> NoPacket, slot |-> 0]
NoArp == [valid |-> FALSE, ip |-> "none", mac |-> "none"]
OwnIp == IF net = "ok" THEN OWN ELSE "zero"

NetInit ==
    /\ net = "boot"
    /\ rx = [i \in RingSlot |-> NoPacket] /\ rx_cur = 0 /\ rdh = 0 /\ rdt = Ring - 1
    /\ tx = [i \in RingSlot |-> Whole(NoPacket)] /\ tx_cur = 0 /\ tdh = 0 /\ tdt = 0
    /\ arp_table = [i \in 1..ArpSize |-> NoArp] /\ main = AtPoll /\ ping = "none"
    /\ incoming = <<>> /\ outgoing = <<>> /\ arrivals = 0
    /\ told = [p \in {q.ip : q \in Packets} |-> "none"] /\ torn = FALSE /\ overrun = FALSE /\ pings = 0

----------------------------------------------------------------------------
(* Set-up                                                                   *)

\* No card or no memory ("null": the rings are null pointers, and what the main loop reads
\* through them is left out), a card that does not come
\* out of its reset ("quiet": the rings are never given to it), one that has no address
\* ("unnamed": it works, and there is no IP address), or one that has ("ok").
e1000_init == {"null", "quiet", "unnamed", "ok"}

network_init ==
    /\ net = "boot" /\ net' \in e1000_init
    /\ UNCHANGED <<rxVars, txVars, arp_table, main, ping, told, pings>>

Works == net \in {"unnamed", "ok"}

----------------------------------------------------------------------------
(* The card                                                                 *)

CardReceives ==
    /\ Works /\ rdh # rdt /\ arrivals < MaxIn /\ arrivals' = arrivals + 1
    /\ \E p \in Packets :
          /\ rx' = [rx EXCEPT ![rdh] = p]
          /\ incoming' = Append(incoming, p)
    /\ rdh' = NextSlot(rdh)
    /\ UNCHANGED <<net, rx_cur, rdt, txVars, arp_table, main, ping, told, pings>>

CardSends ==
    /\ Works /\ tdh # tdt
    /\ tx' = [tx EXCEPT ![tdh] = Whole(NoPacket)] /\ tdh' = NextSlot(tdh)
    /\ outgoing' = IF outgoing = <<>> THEN <<>> ELSE Tail(outgoing)
    /\ UNCHANGED <<net, rxVars, tx_cur, tdt, torn, overrun, arp_table, main, ping, told, pings>>

----------------------------------------------------------------------------
(* Sending.  The main loop takes the slot, fills it, moves on, and then      *)
(* tells the card where the ring ends.                                      *)

TakeSlot(p) ==
    /\ main' = [at |-> "describe", packet |-> p, slot |-> tx_cur]
    /\ tx' = [tx EXCEPT ![tx_cur].data = p]
    /\ outgoing' = Append(outgoing, p)
    /\ overrun' = (overrun \/ NextSlot(tx_cur) = tdh)
    /\ UNCHANGED <<tx_cur, tdh, tdt, torn>>

e1000_send_packet ==
    /\ ping = "none"
    /\ \/ /\ main.at = "describe" /\ main' = [main EXCEPT !.at = "advance"]
          /\ tx' = [tx EXCEPT ![main.slot].length = main.packet]
          /\ UNCHANGED <<tx_cur, tdt>>
       \/ /\ main.at = "advance" /\ main' = [main EXCEPT !.at = "tail"]
          /\ tx_cur' = NextSlot(tx_cur)
          /\ UNCHANGED <<tx, tdt>>
       \/ /\ main.at = "tail" /\ main' = AtPoll
          /\ tdt' = tx_cur
          /\ UNCHANGED <<tx, tx_cur>>
    /\ UNCHANGED <<net, rxVars, tdh, outgoing, torn, overrun, arp_table, ping, told, pings>>

\* The same in an interrupt, in one step.
SendAtOnce(p) ==
    /\ tx' = [tx EXCEPT ![tx_cur] = Whole(p)]
    /\ tx_cur' = NextSlot(tx_cur) /\ tdt' = tx_cur'
    /\ outgoing' = Append(outgoing, p)
    /\ overrun' = (overrun \/ NextSlot(tx_cur) = tdh)
    /\ torn' = (torn \/ main.at \in {"describe", "advance", "tail"})
    /\ UNCHANGED tdh

----------------------------------------------------------------------------
(* network_handle_packet                                                    *)

ToUs(p) == p.to = OwnIp \/ (p.kind \notin {"arp request", "arp reply"} /\ p.to = ALL)

\* The answer goes to the sender's MAC address; that to an echo request comes from the IP
\* address the request was sent to.
Answer(p) ==
    CASE p.kind = "arp request"  -> [kind |-> "arp reply", src |-> p.src, ip |-> OwnIp, to |-> p.ip]
      [] p.kind = "echo request" -> [kind |-> "echo reply", src |-> p.src, ip |-> p.to, to |-> p.ip]

\* The first entry that is unused or the host's.
ArpUnused(ip) == {i \in DOMAIN arp_table : ~arp_table[i].valid}
ArpEntries(ip) == {i \in DOMAIN arp_table : ~arp_table[i].valid \/ arp_table[i].ip = ip}
ArpFirst(ip) == {i \in ArpEntries(ip) : \A j \in ArpEntries(ip) : i <= j}

\* The addresses are copied byte by byte: a reader in between may see parts of both.
ArpStore(p) ==
    /\ told' = [told EXCEPT ![p.ip] = p.src]
    /\ IF ArpEntries(p.ip) = {} THEN main' = AtPoll /\ UNCHANGED arp_table
       ELSE \E i \in ArpFirst(p.ip) :
              /\ arp_table' = [arp_table EXCEPT ![i] = [valid |-> @.valid, ip |-> p.ip, mac |-> "torn"]]
              /\ main' = [at |-> "store", packet |-> p, slot |-> i]

ArpStored ==
    /\ ping = "none" /\ main.at = "store" /\ main' = AtPoll
    /\ arp_table' = [arp_table EXCEPT ![main.slot] = [valid |-> TRUE, ip |-> @.ip, mac |-> main.packet.src]]
    /\ UNCHANGED <<net, rxVars, txVars, ping, told, pings>>

network_handle_packet ==
    LET p == main.packet IN
    /\ ping = "none" /\ main.at = "handle"
    /\ IF p.kind \in {"arp request", "echo request"} /\ ToUs(p)
       THEN TakeSlot(Answer(p)) /\ UNCHANGED <<arp_table, told>>
       ELSE /\ IF p.kind = "arp reply" THEN ArpStore(p)
               ELSE main' = AtPoll /\ UNCHANGED <<arp_table, told>>
            /\ UNCHANGED txVars
    /\ UNCHANGED <<net, rxVars, ping, pings>>

----------------------------------------------------------------------------
(* Receiving                                                                *)

ReceiveKeepsStatus ==
    /\ ping = "none" /\ main.at = "poll" /\ net \notin {"boot", "null"}
    /\ rx[rx_cur] # NoPacket
    /\ main' = [main EXCEPT !.at = "handle", !.packet = rx[rx_cur]]
    /\ incoming' = IF incoming = <<>> THEN <<>> ELSE Tail(incoming)
    /\ rx_cur' = NextSlot(rx_cur) /\ rdt' = (NextSlot(rx_cur) + Ring - 1) % Ring
    /\ UNCHANGED <<net, rx, rdh, arrivals, txVars, arp_table, ping, told, pings>>

\* The slot is given back to the card by moving the tail behind it.
e1000_receive_packet ==
    /\ ping = "none" /\ main.at = "poll" /\ net \notin {"boot", "null"}
    /\ rx[rx_cur] # NoPacket
    /\ main' = [main EXCEPT !.at = "handle", !.packet = rx[rx_cur]]
    /\ incoming' = IF incoming = <<>> THEN <<>> ELSE Tail(incoming)
    /\ rx' = [rx EXCEPT ![rx_cur] = NoPacket]
    /\ rx_cur' = NextSlot(rx_cur) /\ rdt' = (rx_cur' + Ring - 1) % Ring
    /\ UNCHANGED <<net, rdh, arrivals, txVars, arp_table, ping, told, pings>>

----------------------------------------------------------------------------
(* ping                                                                     *)

\* The address in the first entry of a host, or none.
arp_lookup(ip) ==
    LET hit == {i \in DOMAIN arp_table : arp_table[i].valid /\ arp_table[i].ip = ip}
    IN  IF hit = {} THEN "none" ELSE arp_table[CHOOSE i \in hit : \A j \in hit : i <= j].mac

arp_request(ip) == SendAtOnce([kind |-> "arp request", src |-> ALL, ip |-> OwnIp, to |-> ip])
Echo(ip, mac) == SendAtOnce([kind |-> "echo request", src |-> mac, ip |-> OwnIp, to |-> ip])

\* A host that is known is sent the request; for another one an ARP request comes first.
cmd_ping(ip) ==
    /\ ping = "none" /\ net \notin {"boot", "null"} /\ pings < MaxPings /\ pings' = pings + 1
    /\ IF arp_lookup(ip) # "none"
       THEN Echo(ip, arp_lookup(ip)) /\ UNCHANGED ping
       ELSE arp_request(ip) /\ ping' = ip
    /\ UNCHANGED <<net, rxVars, arp_table, main, told>>

\* NextSlot a while the table is looked at again; without an answer the request goes to all.
PingAfterWait ==
    /\ ping # "none" /\ ping' = "none"
    /\ Echo(ping, IF arp_lookup(ping) # "none" THEN arp_lookup(ping) ELSE ALL)
    /\ UNCHANGED <<net, rxVars, arp_table, main, told, pings>>

NetNext == \/ network_init \/ CardReceives \/ CardSends \/ e1000_send_packet \/ ArpStored
           \/ network_handle_packet \/ e1000_receive_packet
           \/ \E ip \in Hosts : cmd_ping(ip)
           \/ PingAfterWait

NetSpec == NetInit /\ [][NetNext]_netVars

----------------------------------------------------------------------------
(* Properties                                                               *)

\* The n slots of a ring from one on, and their contents.
SlotsFrom(first, n) == {(first + i - 1) % Ring : i \in 1..n}
RingFrom(ring, first, n) == [i \in 1..n |-> ring[(first + i - 1) % Ring]]
Sending == main.at \in {"describe", "advance", "tail"}

\* The rings of e1000.c, however often they have wrapped.  Receiving: the slots from the
\* driver's position up to the card's hold the packets that were not read, in order, and no
\* other slot is taken for a packet.  Sending: outside of a send the card has in front of
\* it the packets that were handed in, in order and whole, unless ping cut into a send or
\* the ring was full.
PacketsInOrder ==
    /\ Len(incoming) < Ring /\ (rx_cur + Len(incoming)) % Ring = rdh
    /\ RingFrom(rx, rx_cur, Len(incoming)) = incoming
    /\ {i \in RingSlot : rx[i] # NoPacket} = SlotsFrom(rx_cur, Len(incoming))
    /\ ~torn /\ ~overrun /\ ~Sending =>
          /\ Len(outgoing) < Ring /\ (tdh + Len(outgoing)) % Ring = tdt
          /\ RingFrom(tx, tdh, Len(outgoing)) = [i \in DOMAIN outgoing |-> Whole(outgoing[i])]

\* arp_table of network.c: outside of an update, a host whose reply was heard has one entry,
\* with the address it gave last, or else none, and then the table is full of others.
ArpLatest ==
    main.at # "store" =>
        \A ip \in DOMAIN told :
            LET mine == {i \in DOMAIN arp_table : arp_table[i].valid /\ arp_table[i].ip = ip} IN
            \/ \E i \in mine : mine = {i} /\ arp_table[i].mac = told[ip]
            \/ mine = {} /\ (told[ip] # "none" => \A i \in DOMAIN arp_table : arp_table[i].valid)

----------------------------------------------------------------------------
(* What the steps preserve                                                  *)

Elements(seq) == {seq[i] : i \in DOMAIN seq}

\* The receive ring; the tail is always one slot behind the driver's position.
RxInv ==
    /\ {rx_cur, rdh, rdt} \subseteq RingSlot /\ incoming \in Seq(Packets)
    /\ rx \in [RingSlot -> Packets \cup {NoPacket}]
    /\ Len(incoming) < Ring /\ (rx_cur + Len(incoming)) % Ring = rdh
    /\ RingFrom(rx, rx_cur, Len(incoming)) = incoming
    /\ {i \in RingSlot : rx[i] # NoPacket} = SlotsFrom(rx_cur, Len(incoming))
    /\ rdt = (rx_cur + Ring - 1) % Ring

MainInv ==
    /\ main = [at |-> main.at, packet |-> main.packet, slot |-> main.slot]
    /\ main.at \in {"poll", "handle", "store", "describe", "advance", "tail"}
    /\ main.at \in {"handle", "store"} => main.packet \in Packets

\* The packets the card has been told of.
Pending == IF Sending THEN Len(outgoing) - 1 ELSE Len(outgoing)

\* The send ring: the packet that is being handed in is in the slot behind those the card
\* has been told of, and whole once it is described.
TxInv ==
    /\ {tx_cur, tdh, tdt} \subseteq RingSlot /\ outgoing \in Seq(Elements(outgoing))
    /\ tx = [i \in RingSlot |-> [data |-> tx[i].data, length |-> tx[i].length]]
    /\ {torn, overrun} \subseteq BOOLEAN
    /\ ~torn /\ ~overrun =>
          /\ Pending \in Nat /\ Len(outgoing) < Ring /\ (tdh + Pending) % Ring = tdt
          /\ \A i \in 1..Pending : tx[(tdh + i - 1) % Ring] = Whole(outgoing[i])
          /\ tx_cur = IF main.at = "tail" THEN NextSlot(tdt) ELSE tdt
          /\ Sending => /\ main.slot = tdt /\ main.packet = outgoing[Len(outgoing)]
                        /\ tx[tdt].data = main.packet
          /\ main.at \in {"advance", "tail"} => tx[tdt].length = main.packet

Storing(ip) == main.at = "store" /\ main.packet.ip = ip
Mine(ip) == {i \in 1..ArpSize : arp_table[i].valid /\ arp_table[i].ip = ip}

\* The entries in use come first.  While a reply is being stored its slot is the host's, or
\* the first one that is not in use.
ArpInv ==
    /\ arp_table = [i \in 1..ArpSize |-> [valid |-> arp_table[i].valid, ip |-> arp_table[i].ip, mac |-> arp_table[i].mac]]
    /\ \A i \in 1..ArpSize : arp_table[i].valid \in BOOLEAN
    /\ DOMAIN told = {q.ip : q \in Packets}
    /\ \A i \in 1..ArpSize : arp_table[i].valid => \A j \in 1..i : arp_table[j].valid
    /\ main.at = "store" =>
          /\ main.slot \in ArpFirst(main.packet.ip) /\ arp_table[main.slot].ip = main.packet.ip
          /\ told[main.packet.ip] = main.packet.src
    /\ \A ip \in DOMAIN told :
          \/ \E i \in Mine(ip) : Mine(ip) = {i} /\ (Storing(ip) \/ arp_table[i].mac = told[ip])
          \/ Mine(ip) = {} /\ (Storing(ip) \/ told[ip] = "none" \/ \A i \in 1..ArpSize : arp_table[i].valid)

NetInv == RxInv /\ MainInv /\ TxInv /\ ArpInv
=============================================================================
