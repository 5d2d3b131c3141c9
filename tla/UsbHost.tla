------------------------------ MODULE UsbHost ------------------------------
(***************************************************************************)
(* The drivers of the EHCI, OHCI and UHCI host controllers                  *)
(* (src/core/drivers/usb): the same sequence of set-up, enumeration of the  *)
(* ports and polling from the main loop, with different descriptors.  The   *)
(* controller works at the same time: it may complete a transfer between    *)
(* any two steps of the driver.                                             *)
(*                                                                         *)
(* A control transfer is known by the blocks of memory it takes, and by     *)
(* those it frees where it ends.  The drivers wait 10 ms for it, look at no *)
(* result and go on with what is in the buffers, so a device may turn out   *)
(* as any type, or none.  There is one entry of the frame list (or head of  *)
(* the list of endpoints) for all devices, and only the descriptor it       *)
(* points to is worked on.                                                  *)
(*                                                                         *)
(* The controllers do what the drivers expect of them: UHCI works on frame  *)
(* list entries with the terminate bit set (uhci.c:172), and OHCI leaves    *)
(* the head of an endpoint at the descriptor it is done with, and its       *)
(* buffer pointer as it was (ohci.c:247-251).  EHCI and UHCI hand on what   *)
(* is at the address of the buffer; it is taken to be allocated there.      *)
(***************************************************************************)
EXTENDS Naturals, Sequences, SequencesExt

CONSTANTS Kinds,        \* the controllers to look at
          Ports,        \* ports of the controller
          MaxReports    \* bound: reports a device completes

ASSUME UsbHostAssumption == Kinds \subseteq {"ehci", "ohci", "uhci"} /\ Ports \in Nat /\ MaxReports \in Nat

VARIABLES kind,
          initialized,
          port,         \* the port the enumeration is at; 0 before set-up
          request,      \* the control request of the device at that port; 0: none
          wlen,         \* whether its wLength is above 0
          taking,       \* the block the control transfer takes next; "end": it has them all
          held,         \* auxiliary: the blocks it holds
          unfreed,      \* auxiliary: the blocks that an ended transfer did not free
          misfreed,     \* auxiliary: what it freed without holding it
          devices,      \* devices[], device_count being its length
          linked,       \* the device whose descriptor the controller works on; 0: none
          sts,          \* the status bit "a transfer completed"
          donehead,     \* OHCI: the list of completed transfers, latest first; 0: a control transfer
          scan,         \* the poll is at this device (OHCI: at this list), or idle
          adrift,       \* auxiliary: the poll has come to a descriptor that was freed
          completed, handled  \* auxiliary: reports by device

transfer == <<wlen, taking, held, unfreed, misfreed>>
usbVars == <<kind, initialized, port, request, transfer, devices, linked, sts,
             donehead, scan, adrift, completed, handled>>

idle == [at |-> 0, list |-> <<>>]
Polling == port = Ports + 1

----------------------------------------------------------------------------
(* What the drivers differ in                                               *)

\* The blocks of a control transfer: for each the block that is taken after it, and what is
\* freed if there is no memory for it; at the end, what is freed when the transfer is over.
Data == IF wlen THEN {"data"} ELSE {}
AfterSetup == IF wlen THEN "data" ELSE "status"

\* Mutant: without memory for the status stage, the queue head is forgotten.
ehci_control_transferNoQh ==
    [qh     |-> [next |-> "setup",    frees |-> {}],
     setup  |-> [next |-> AfterSetup, frees |-> {"qh"}],
     data   |-> [next |-> "status",   frees |-> {"setup", "qh"}],
     status |-> [next |-> "end",      frees |-> Data \cup {"setup"}],
     end    |-> [next |-> "end",      frees |-> {"status"} \cup Data \cup {"setup", "qh"}]]

ehci_control_transfer ==
    [qh     |-> [next |-> "setup",    frees |-> {}],
     setup  |-> [next |-> AfterSetup, frees |-> {"qh"}],
     data   |-> [next |-> "status",   frees |-> {"setup", "qh"}],
     status |-> [next |-> "end",      frees |-> Data \cup {"setup", "qh"}],
     end    |-> [next |-> "end",      frees |-> {"status"} \cup Data \cup {"setup", "qh"}]]

\* OHCI passes the physical address of the packet to kernel_memory_free, not the pointer.
ohci_control_transfer ==
    [ed     |-> [next |-> "setup",    frees |-> {}],
     setup  |-> [next |-> "packet",   frees |-> {"ed"}],
     packet |-> [next |-> AfterSetup, frees |-> {"setup", "ed"}],
     data   |-> [next |-> "status",   frees |-> {"physical", "setup", "ed"}],
     status |-> [next |-> "end",      frees |-> Data \cup {"physical", "setup", "ed"}],
     end    |-> [next |-> "end",      frees |-> {"physical", "status"} \cup Data \cup {"setup", "ed"}]]

uhci_control_transfer ==
    [setup  |-> [next |-> "packet",   frees |-> {}],
     packet |-> [next |-> AfterSetup, frees |-> {"setup"}],
     data   |-> [next |-> "status",   frees |-> {"packet", "setup"}],
     status |-> [next |-> "end",      frees |-> Data \cup {"packet", "setup"}],
     end    |-> [next |-> "end",      frees |-> {"packet", "status"} \cup Data \cup {"setup"}]]

Row == [ehci |-> ehci_control_transfer,
        ohci |-> ohci_control_transfer,
        uhci |-> uhci_control_transfer][kind][taking]
FirstBlock == [ehci |-> "qh", ohci |-> "ed", uhci |-> "setup"][kind]

\* UHCI and OHCI hang the transfer where the devices' descriptors hang.
TakesOverSchedule == kind # "ehci"

\* The outcomes of setting up the endpoint of an enumerated device: it has a descriptor, a
\* transfer and a buffer for the reports as far as there was memory for them.
Device(type, desc, td, buf) == [type |-> type, desc |-> desc, td |-> td, buf |-> buf]
Bare(type) == Device(type, FALSE, "none", FALSE)

ehci_endpoint(type) ==
    {Bare(type)}
    \cup (IF type = "other" THEN {} ELSE {Device(type, TRUE, "none", FALSE), Device(type, TRUE, "active", TRUE)})
ohci_endpoint(type) ==
    {Bare(type)}
    \cup (IF type = "other" THEN {}
          ELSE {Device(type, TRUE, "none", FALSE), Device(type, TRUE, "active", TRUE), Device(type, TRUE, "active", FALSE)})
uhci_endpoint(type) ==
    {Bare(type)}
    \cup (IF type = "other" THEN {} ELSE {Device(type, TRUE, "active", TRUE)})

Endpoint(type) == [ehci |-> ehci_endpoint(type),
                   ohci |-> ohci_endpoint(type),
                   uhci |-> uhci_endpoint(type)][kind]

----------------------------------------------------------------------------
UsbInit ==
    /\ kind \in Kinds /\ initialized = FALSE /\ port = 0 /\ request = 0
    /\ wlen = FALSE /\ taking = "end" /\ held = {} /\ unfreed = {} /\ misfreed = {}
    /\ devices = <<>> /\ linked = 0 /\ sts = FALSE /\ donehead = <<>> /\ scan = idle /\ adrift = FALSE
    /\ completed = <<>> /\ handled = <<>>

\* ehci_init, ohci_init, uhci_init: a failed allocation ends it, and nothing is enumerated.
ehci_init == kind = "ehci" /\ initialized' \in BOOLEAN
ohci_init == kind = "ohci" /\ initialized' \in BOOLEAN
uhci_init == kind = "uhci" /\ initialized' \in BOOLEAN

HostInit ==
    /\ port = 0
    /\ ehci_init \/ ohci_init \/ uhci_init
    /\ port' = IF initialized' THEN 1 ELSE Ports + 1
    /\ UNCHANGED <<kind, request, transfer, devices, linked, sts, donehead, scan, adrift,
                   completed, handled>>

\* A device is enumerated when its port reads connected, is reset, and then reads
\* otherwise; each other port is passed over.
Enumerating == port \in 1..Ports

SkipPort ==
    /\ Enumerating /\ request = 0
    /\ port' = port + 1
    /\ UNCHANGED <<kind, initialized, request, transfer, devices, linked, sts, donehead,
                   scan, adrift, completed, handled>>

\* The requests: descriptor (1), address (2), configuration (3), all of it (4), the report
\* descriptor of a HID device (5), and the choice of the configuration of such a device (6)
\* or of another (7).  The length of two of them is what the device has said.
Lengths(r) == IF r \in {1, 3} THEN {TRUE} ELSE IF r \in {4, 5} THEN BOOLEAN ELSE {FALSE}

StartRequest(r) == request' = r /\ wlen' \in Lengths(r) /\ taking' = FirstBlock

FoundDevice ==
    /\ Enumerating /\ request = 0
    /\ StartRequest(1)
    /\ UNCHANGED <<kind, initialized, port, held, unfreed, misfreed, devices, linked, sts, donehead, scan,
                   adrift, completed, handled>>

TakeBlock ==
    /\ taking # "end"
    /\ held' = held \cup {taking} /\ taking' = Row.next
    /\ linked' = IF taking = "status" /\ TakesOverSchedule THEN 0 ELSE linked
    /\ UNCHANGED <<kind, initialized, port, request, wlen, unfreed, misfreed, devices, sts, donehead, scan,
                   adrift, completed, handled>>

\* The type a device is given by its report descriptor (*_parse_hid_report).
Types(r) == IF r = 6 THEN {"other", "keyboard", "mouse"} ELSE {"other"}

\* The fifth request is only made for a HID device.
NextRequest ==
    \/ StartRequest(request + 1)
    \/ request = 4 /\ StartRequest(7)

\* The end of a request, done or not: the next one follows; after the last the endpoint is
\* set up.
EndRequest ==
    /\ unfreed' = unfreed \cup (held \ Row.frees) /\ misfreed' = misfreed \cup (Row.frees \ held)
    /\ held' = {}
    /\ IF request < 6
       THEN /\ NextRequest
            /\ UNCHANGED <<port, devices, linked, completed, handled>>
       ELSE /\ request' = 0 /\ wlen' = FALSE /\ taking' = "end" /\ port' = port + 1
            /\ \E type \in Types(request) : \E d \in Endpoint(type) :
                  /\ devices' = Append(devices, d)
                  /\ linked' = IF d.desc THEN Len(devices) + 1 ELSE linked
            /\ completed' = Append(completed, 0)
            /\ handled' = Append(handled, 0)
    /\ UNCHANGED <<kind, initialized, sts, donehead, scan, adrift>>

NoMemory == taking # "end" /\ EndRequest

TransferEnds == request # 0 /\ taking = "end" /\ EndRequest

----------------------------------------------------------------------------
(* The controller completes the transfer it is pointed to and leaves the    *)
(* descriptor as the driver expects to find it.                             *)

Complete ==
    /\ linked # 0 /\ devices[linked].td = "active" /\ completed[linked] < MaxReports
    /\ devices' = [devices EXCEPT ![linked].td = "done"]
    /\ completed' = [completed EXCEPT ![linked] = @ + 1]
    /\ sts' = TRUE
    /\ donehead' = IF kind = "ohci" THEN <<linked>> \o donehead ELSE donehead
    /\ UNCHANGED <<kind, initialized, port, request, transfer, linked, scan, adrift, handled>>

\* The controller may also get through a control transfer while the driver waits for it.
ControlDone ==
    /\ request # 0 /\ taking = "end"
    /\ sts' = TRUE
    /\ donehead' = IF kind = "ohci" /\ 0 \notin ToSet(donehead) THEN <<0>> \o donehead ELSE donehead
    /\ UNCHANGED <<kind, initialized, port, request, transfer, devices, linked, scan, adrift, completed, handled>>

----------------------------------------------------------------------------
(* The poll from the main loop                                              *)

pollUnchanged == <<kind, initialized, port, request, transfer, linked, completed>>

Acknowledge ==
    /\ Polling /\ initialized /\ scan = idle /\ sts
    /\ sts' = FALSE
    /\ scan' = IF kind = "ohci" THEN [at |-> 1, list |-> donehead]
               ELSE [at |-> 1, list |-> [d \in 1..Len(devices) |-> d]]
    /\ UNCHANGED <<pollUnchanged, devices, donehead, adrift, handled>>

AtDevice == scan.list[scan.at]
InScan == scan.at \in 1..Len(scan.list)
IsDone == devices[AtDevice].td = "done"
HandOn == handled' = [handled EXCEPT ![AtDevice] = @ + 1]
Onward == scan' = [scan EXCEPT !.at = @ + 1]

\* A new descriptor replaces the one that is done, if there is memory for it.
ehci_resubmit_keeps == UNCHANGED devices
ehci_resubmit == \E td \in {"none", "active"} : devices' = [devices EXCEPT ![AtDevice].td = td]

ehci_handle_interrupt ==
    /\ kind = "ehci" /\ InScan /\ Onward
    /\ IF IsDone THEN HandOn /\ ehci_resubmit ELSE UNCHANGED <<devices, handled>>
    /\ UNCHANGED <<pollUnchanged, sts, donehead, adrift>>

\* The first device that is done is served, and the scan ends.
uhci_resubmit == devices' = [devices EXCEPT ![AtDevice].td = "active"]

uhci_handle_interrupt ==
    /\ kind = "uhci" /\ InScan
    /\ IF IsDone THEN HandOn /\ uhci_resubmit /\ scan' = idle
                 ELSE Onward /\ UNCHANGED <<devices, handled>>
    /\ UNCHANGED <<pollUnchanged, sts, donehead, adrift>>

\* The list is walked from the head that was read; nothing is submitted anew.  Without a
\* buffer nothing is handed on.
ohci_handle_interrupt ==
    /\ kind = "ohci" /\ InScan /\ AtDevice # 0 /\ Onward
    /\ IF devices[AtDevice].buf THEN HandOn ELSE UNCHANGED handled
    /\ devices' = [devices EXCEPT ![AtDevice].td = "retired"]
    /\ UNCHANGED <<pollUnchanged, sts, donehead, adrift>>

\* The descriptors of a control transfer have been freed: the walk goes on with whatever is
\* in their memory by now.
ohci_walk_freed ==
    /\ kind = "ohci" /\ InScan /\ AtDevice = 0
    /\ adrift' = TRUE
    /\ UNCHANGED <<pollUnchanged, devices, sts, donehead, scan, handled>>

ScanEndsAcknowledging ==
    /\ scan # idle /\ ~InScan
    /\ scan' = idle /\ sts' = FALSE
    /\ donehead' = <<>>
    /\ UNCHANGED <<pollUnchanged, devices, adrift, handled>>

\* The end of a scan; OHCI writes 0 to the head of the list, whatever it is by now.
ScanEnds ==
    /\ scan # idle /\ ~InScan
    /\ scan' = idle
    /\ donehead' = <<>>
    /\ UNCHANGED <<pollUnchanged, sts, devices, adrift, handled>>

Poll == ~adrift /\ (Acknowledge \/ ehci_handle_interrupt \/ uhci_handle_interrupt \/ ohci_handle_interrupt
                    \/ ohci_walk_freed \/ ScanEnds)

UsbNext == \/ HostInit \/ SkipPort \/ FoundDevice \/ TakeBlock \/ NoMemory \/ TransferEnds
           \/ Complete \/ ControlDone \/ Poll

\* The boot code gets through the ports and the main loop polls for ever.
Boot == HostInit \/ SkipPort \/ FoundDevice \/ TakeBlock \/ NoMemory \/ TransferEnds
UsbSpec == UsbInit /\ [][UsbNext]_usbVars /\ WF_usbVars(Boot) /\ WF_usbVars(Poll)

----------------------------------------------------------------------------
(* Properties                                                               *)

\* Whatever allocation fails in whatever request, a control transfer that ends has freed each
\* block it held and nothing else, except for the setup packets of OHCI: a transfer that got
\* as far as one frees its physical address instead (*_control_transfer).
TransfersBalance ==
    /\ kind # "ohci" => unfreed = {} /\ misfreed = {}
    /\ unfreed \subseteq {"packet"} /\ misfreed \subseteq {"physical"}

Unhanded(dev) == dev.td = "done" \/ (dev.td = "retired" /\ ~dev.buf)
CountsAgree == \A d \in 1..Len(devices) : completed[d] = handled[d] + (IF Unhanded(devices[d]) THEN 1 ELSE 0)

\* Every report a controller completes is handed to its driver once: it is not handed on
\* again when the device is polled anew, and it is waiting as long as it was not handed on;
\* OHCI drops it for want of a buffer.  Nothing is promised once its poll walks through freed
\* descriptors (*_handle_interrupt).
ReportsOnce == ~adrift => CountsAgree

Waiting(d) ==
    /\ d \in DOMAIN devices /\ devices[d].td = "done" /\ ~adrift
    /\ kind = "ehci" \/ Len(devices) = 1

\* A completed report is handed on some time, although the status bit is cleared before
\* the devices are looked at and the controller goes on in between.  UHCI stops at the
\* first device and OHCI clears the list unread, so there it takes a single device.
ReportsHandled == \A d \in 1..Ports : Waiting(d) ~> ~Waiting(d)

----------------------------------------------------------------------------
(* What the steps preserve                                                  *)

Devices == [type : {"other", "keyboard", "mouse"}, desc : BOOLEAN, td : {"none", "active", "done", "retired"}, buf : BOOLEAN]
Listable == DOMAIN devices \cup (IF kind = "ohci" THEN {0} ELSE {})
ListsDevices(list) == list \in Seq(Nat) /\ \A i \in DOMAIN list : list[i] \in Listable
Distinct(list) == \A i, j \in DOMAIN list : list[i] = list[j] => i = j

UsbTypeOK ==
    /\ kind \in {"ehci", "ohci", "uhci"} /\ request \in Nat /\ devices \in Seq(Devices)
    /\ completed \in Seq(Nat) /\ Len(completed) = Len(devices)
    /\ handled \in Seq(Nat) /\ Len(handled) = Len(devices)
    /\ linked \in Nat /\ (linked # 0 => linked \in DOMAIN devices)
    /\ scan = [at |-> scan.at, list |-> scan.list] /\ scan.at \in Nat
    /\ ListsDevices(scan.list) /\ ListsDevices(donehead)

\* The list of OHCI: a device is in it once, and what is on it is done as long as no poll
\* is walking it; the poll finds done what it has yet to come to.
DoneListInv ==
    /\ Distinct(donehead) /\ Distinct(scan.list)
    /\ \A i \in DOMAIN donehead : \/ donehead[i] = 0 \/ devices[donehead[i]].td = "done"
                                  \/ scan # idle /\ devices[donehead[i]].td = "retired"
    /\ \A i \in DOMAIN scan.list : i >= scan.at => scan.list[i] = 0 \/ devices[scan.list[i]].td = "done"

\* A transfer holds what its failing paths free; OHCI holds the packet where it frees the
\* physical address.
TakingOK ==
    /\ wlen \in BOOLEAN /\ (taking = "data" => wlen)
    /\ taking \in {FirstBlock, "setup", "data", "status", "end"} \cup (IF kind = "ehci" THEN {} ELSE {"packet"})
Holds(frees) == (frees \ {"physical"}) \cup (IF "physical" \in frees THEN {"packet"} ELSE {})
HeldInv ==
    /\ request = 0 => held = {} /\ taking = "end" /\ wlen = FALSE
    /\ request # 0 => TakingOK /\ held = Holds(Row.frees)

UsbInv ==
    /\ UsbTypeOK
    /\ TransfersBalance /\ HeldInv
    /\ CountsAgree
    /\ kind = "ohci" => DoneListInv
=============================================================================
