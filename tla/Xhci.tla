-------------------------------- MODULE Xhci --------------------------------
(***************************************************************************)
(* The driver of the xHCI host controller (src/core/drivers/usb/xhci.c):    *)
(* commands go into a ring the driver writes, events come in a ring the     *)
(* controller writes, and neither ring's cycle bit is kept by the driver.   *)
(* No command is waited for: enumeration goes on with what memory holds,    *)
(* and the slot a port is given is the value of an uninitialised variable.  *)
(***************************************************************************)
EXTENDS Naturals, Sequences, SequencesExt, FiniteSets

CONSTANTS XPorts,       \* max_ports of the controller
          MaxSlots,     \* max_slots of the controller
          RingSize,     \* entries of either ring
          MaxEvents     \* bound: events the controller posts

ASSUME XhciAssumption == /\ XPorts \in Nat /\ MaxSlots \in Nat /\ MaxEvents \in Nat
                         /\ RingSize \in Nat \ {0}

VARIABLES xhci_initialized,
          xport,            \* the port the enumeration is at; 0 before set-up
          slot,             \* the slot of the device at that port, or XNone
          contexts,         \* the slots that have a device context
          types,            \* devices[].type
          cmd_ring_index,
          event_ring,       \* entry: number of the event, or 0; cycle: bit 0 of control
          event_ring_index,
          posted,           \* number of events the controller has posted
          xhandled,         \* auxiliary: the numbers of the events handled, in order
          faulted           \* a context was used that does not exist

xhciVars == <<xhci_initialized, xport, slot, contexts, types, cmd_ring_index, event_ring,
              event_ring_index, posted, xhandled, faulted>>

XNone == 256
Slots == 0..MaxSlots        \* MaxSlots stands for the numbers from max_slots to 255

----------------------------------------------------------------------------
(* Rings                                                                    *)

xhci_get_next_trb(index) == (index + 1) % RingSize

\* n commands submitted one after the other.
xhci_submit_command(n) == cmd_ring_index' = (cmd_ring_index + n) % RingSize

\* Setup, data if there is any, status.
xhci_control_transfer(data) == IF data THEN 3 ELSE 2

----------------------------------------------------------------------------
XhciInit ==
    /\ xhci_initialized = FALSE /\ xport = 0 /\ slot = XNone /\ contexts = {}
    /\ types = [s \in Slots |-> "other"] /\ cmd_ring_index = 0
    /\ event_ring = [i \in 0..RingSize - 1 |-> [n |-> 0, cycle |-> 0]]
    /\ event_ring_index = 0 /\ posted = 0 /\ xhandled = <<>> /\ faulted = FALSE

\* An allocation that fails ends it; the rings are cleared by the allocation.
xhci_init ==
    /\ xport = 0
    /\ \/ xhci_initialized' = FALSE /\ xport' = XPorts + 1
       \/ xhci_initialized' = TRUE /\ xport' = 1
    /\ UNCHANGED <<slot, contexts, types, cmd_ring_index, event_ring, event_ring_index, posted,
                   xhandled, faulted>>

SkipXPort ==
    /\ xport \in 1..XPorts /\ slot = XNone /\ ~faulted
    /\ xport' = xport + 1
    /\ UNCHANGED <<xhci_initialized, slot, contexts, types, cmd_ring_index, event_ring,
                   event_ring_index, posted, xhandled, faulted>>

\* The command is submitted and *slot_id is not set.
xhci_enable_slot == slot' \in Slots

\* The context is allocated if the slot is in range and there is memory; then it is
\* written to all the same.
xhci_alloc_device_context(s) ==
    \/ s < MaxSlots /\ contexts' = contexts \cup {s}
    \/ s < MaxSlots /\ contexts' = contexts \ {s}
    \/ s >= MaxSlots /\ UNCHANGED contexts

xhci_address_device ==
    /\ xport \in 1..XPorts /\ slot = XNone /\ ~faulted
    /\ xhci_enable_slot
    /\ xhci_alloc_device_context(slot')
    /\ faulted' = (slot' \notin contexts')
    /\ IF faulted' THEN xhci_submit_command(1) ELSE xhci_submit_command(2)
    /\ UNCHANGED <<xhci_initialized, xport, types, event_ring, event_ring_index, posted, xhandled>>

\* Three descriptors, the report descriptor of a HID device, the configuration; a keyboard
\* or mouse gets an endpoint, and a transfer if there is memory for its buffer.  The type
\* of a device is never reset, so a slot used before may keep the type of its first device.
xhci_enumerate_device ==
    /\ slot # XNone /\ ~faulted
    /\ \E data \in BOOLEAN, hid \in {0, 2, 3}, type \in {types[slot], "keyboard", "mouse"},
          transfer \in {0, 1} :
          /\ hid = 0 => type = types[slot]
          /\ type = "other" => transfer = 0
          /\ types' = [types EXCEPT ![slot] = type]
          /\ xhci_submit_command(2 * xhci_control_transfer(TRUE) + xhci_control_transfer(data) + hid
                                 + xhci_control_transfer(FALSE)
                                 + (IF type = "other" THEN 0 ELSE 1 + transfer))
    /\ slot' = XNone /\ xport' = xport + 1
    /\ UNCHANGED <<xhci_initialized, contexts, event_ring, event_ring_index, posted, xhandled,
                   faulted>>

----------------------------------------------------------------------------
(* The controller writes events round the ring, with the cycle bit of the   *)
(* round, as long as the next entry is not the one the driver is at.        *)

PostEvent ==
    /\ xhci_initialized /\ posted < MaxEvents
    /\ (posted + 1) % RingSize # event_ring_index
    /\ event_ring' = [event_ring EXCEPT ![posted % RingSize] =
                        [n |-> posted + 1, cycle |-> IF (posted \div RingSize) % 2 = 0 THEN 1 ELSE 0]]
    /\ posted' = posted + 1
    /\ UNCHANGED <<xhci_initialized, xport, slot, contexts, types, cmd_ring_index, event_ring_index,
                   xhandled, faulted>>

\* One event per call from the main loop.
HandleKeepsIndex ==
    /\ xport = XPorts + 1 /\ xhci_initialized /\ ~faulted
    /\ event_ring[event_ring_index].cycle = 1 /\ Len(xhandled) < 2 * MaxEvents
    /\ xhandled' = Append(xhandled, event_ring[event_ring_index].n)
    /\ UNCHANGED event_ring_index
    /\ UNCHANGED <<xhci_initialized, xport, slot, contexts, types, cmd_ring_index, event_ring,
                   posted, faulted>>

xhci_handle_event ==
    /\ xport = XPorts + 1 /\ xhci_initialized /\ ~faulted
    /\ event_ring[event_ring_index].cycle = 1 /\ Len(xhandled) < 2 * MaxEvents
    /\ xhandled' = Append(xhandled, event_ring[event_ring_index].n)
    /\ event_ring_index' = xhci_get_next_trb(event_ring_index)
    /\ UNCHANGED <<xhci_initialized, xport, slot, contexts, types, cmd_ring_index, event_ring,
                   posted, faulted>>

XhciNext == xhci_init \/ SkipXPort \/ xhci_address_device \/ xhci_enumerate_device
            \/ PostEvent \/ xhci_handle_event
XhciSpec == XhciInit /\ [][XhciNext]_xhciVars

----------------------------------------------------------------------------
(* Properties                                                               *)

\* The events of the first round of the ring are handled once each and in the order they
\* were posted, whatever the enumeration did before; only those, as xhci_handle_event
\* neither clears an entry nor follows the cycle bit.
EventsInOrder ==
    posted < RingSize =>
        /\ Len(xhandled) <= posted
        /\ \A i \in DOMAIN xhandled : xhandled[i] = i

\* What the steps preserve: in the first round the driver is at the entry behind the last one
\* it handled, and the entries up to the controller's hold the events.
XhciInv ==
    /\ posted \in Nat /\ event_ring_index \in 0..RingSize - 1 /\ xhandled \in Seq(Nat)
    /\ event_ring \in [0..RingSize - 1 -> [n : Nat, cycle : {0, 1}]]
    /\ posted < RingSize =>
          /\ event_ring_index = Len(xhandled)
          /\ \A i \in 0..RingSize - 1 : event_ring[i] = IF i < posted THEN [n |-> i + 1, cycle |-> 1]
                                                        ELSE [n |-> 0, cycle |-> 0]
    /\ EventsInOrder
=============================================================================
