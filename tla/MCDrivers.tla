----------------------------- MODULE MCDrivers -----------------------------
(* The device drivers, one at work in each behaviour: a USB host controller *)
(* of the kinds EHCI, OHCI and UHCI with two ports, an xHCI with two ports  *)
(* and two slots, the ATA drives, the network card with a ring of three     *)
(* slots and three hosts that answer, one of them at two addresses in turn, *)
(* or the module loader with a table of four, three of them built in.       *)
EXTENDS UsbHost, Xhci, Disk, Network, Modules

VARIABLE live       \* the driver at work

allVars == <<usbVars, xhciVars, diskVars, netVars, modVars, live>>

Entries(seq) == [i \in DOMAIN seq |-> [start |-> seq[i][1], size |-> seq[i][2]]]
Table(k, entries, size) == [kind |-> k, entries |-> Entries(entries), array_lba |-> 3, entry_size |-> size]
MCTables == {Table("none", <<>>, 0), Table("mbr", <<<<2, 3>>, <<0, 0>>, <<6, 2>>>>, 0),
             Table("gpt", <<<<0, 0>>, <<3, 4>>, <<9, 2>>>>, 256), Table("gpt", <<<<3, 4>>>>, 1024),
             Table("gpt", <<>>, 128)}
MCVolumes == {<<1, 4>>, <<2, 5>>}
MCPackets ==
    {[kind |-> "arp reply", src |-> s[1], ip |-> s[2], to |-> "us"] : s \in {<<"m1", "a">>, <<"m2", "a">>, <<"m3", "b">>, <<"m4", "c">>}}
    \cup {[kind |-> "arp request", src |-> "m1", ip |-> "a", to |-> "us"],
          [kind |-> "echo request", src |-> "m3", ip |-> "b", to |-> "all"]}
MCBuiltIns == <<"console", "keyboard", "mouse">>

Host(A) == live = "host" /\ A /\ UNCHANGED <<xhciVars, diskVars, netVars, modVars, live>>
XHost(A) == live = "xhci" /\ A /\ UNCHANGED <<usbVars, diskVars, netVars, modVars, live>>
Ata(A) == live = "ata" /\ A /\ UNCHANGED <<usbVars, xhciVars, netVars, modVars, live>>
Net(A) == live = "net" /\ A /\ UNCHANGED <<usbVars, xhciVars, diskVars, modVars, live>>
Mod(A) == live = "modules" /\ A /\ UNCHANGED <<usbVars, xhciVars, diskVars, netVars, live>>

\* A driver that is not at work stays in one of its initial states.
MCInit ==
    /\ live \in {"host", "xhci", "ata", "net", "modules"}
    /\ UsbInit /\ XhciInit /\ DiskInit /\ NetInit /\ ModInit
    /\ live # "host" => kind = "ehci"
    /\ live # "ata" => tables = <<>>
MCNext == Host(UsbNext) \/ XHost(XhciNext) \/ Ata(DiskNext) \/ Net(NetNext) \/ Mod(ModNext)
MCSpec == /\ MCInit /\ [][MCNext]_allVars
          /\ WF_allVars(Host(Boot)) /\ WF_allVars(Host(Poll)) /\ WF_allVars(Ata(DriverStep))

\* ata_init gets through the drives where it runs, or meets a GPT whose entries have no size.
DetectionEnds == (live = "ata") ~> (detecting >= 5)
=============================================================================
