-------------------------------- MODULE Timer --------------------------------
(***************************************************************************)
(* The timer (interrupts/timer/timer.c): the tick counter and the array of *)
(* subscribers that the interrupt handler walks.                           *)
(*                                                                         *)
(* The handler runs with interrupts off, one action per iteration of its   *)
(* loop.  timer_subscribe_event runs with interrupts on: it claims a slot  *)
(* by raising subscriber_count and fills in the slot's fields afterwards,  *)
(* one action per assignment, so that a tick may arrive between any two.   *)
(* A slot that was never written is all zero; one that was vacated keeps   *)
(* its old contents.  Each callback subscribes once, which tells the       *)
(* subscriptions apart.                                                    *)
(***************************************************************************)
EXTENDS Integers, Sequences

CONSTANTS
  Callbacks,     \* callbacks that are subscribed
  Intervals,     \* interval_ms that callers pass
  Repeats,       \* values of `repeat' that callers pass
  Unsubscribes,  \* may timer_unsubscribe_event be called?  (No code in the kernel does.)
  MAX_EVENT_SUBSCRIBERS,
  MaxTicks       \* bound: no tick once total_ticks is this high

RATE == 300      \* the rate that every conversion to and from time assumes
NONE == "none"

ASSUME TimerAssumption ==
  /\ NONE \notin Callbacks /\ Intervals \subseteq Nat
  /\ Repeats \subseteq BOOLEAN /\ Unsubscribes \in BOOLEAN
  /\ MAX_EVENT_SUBSCRIBERS \in Nat \ {0} /\ MaxTicks \in Nat

VARIABLES
  total_ticks, boot_time_ticks,
  slots, subscriber_count,
  i,        \* the handler's loop index; -1 outside the handler
  sub,      \* the timer_subscribe_event call in progress: its slot, arguments, next assignment
  subscribed,    \* auxiliary: callbacks that were passed to timer_subscribe_event
  kept,     \* auxiliary: recurring ones whose call returned and met no tick on its way
  stale     \* auxiliary: has a tick come while a claimed slot still had its old handler?

timerVars == <<total_ticks, boot_time_ticks, slots, subscriber_count, i, sub, subscribed, kept, stale>>
idle == [step |-> "idle", slot |-> 0, cb |-> NONE, ms |-> 0, repeat |-> FALSE, ticked |-> FALSE]
Zero == [id |-> 0, handler |-> NONE, interval |-> 0, next |-> 0, recurring |-> FALSE]

(* timer_system_initialize: the count starts at 1, 0 stands for not ready.  *)
TimerInit ==
  /\ total_ticks = 1 /\ boot_time_ticks = 0
  /\ slots = [s \in 0 .. MAX_EVENT_SUBSCRIBERS - 1 |-> Zero] /\ subscriber_count = 0
  /\ i = -1 /\ sub = idle /\ subscribed = {} /\ kept = {} /\ stale = FALSE

(* The array once entry k is taken out: those behind it move up, the last   *)
(* one is left behind where it was.                                         *)
Without(k) == [s \in DOMAIN slots |-> IF s >= k /\ s < subscriber_count - 1 THEN slots[s + 1] ELSE slots[s]]

-----------------------------------------------------------------------------
Unnamed == sub.step \in {"id", "handler"}   \* the slot is claimed, its handler not yet written

(* timer_handle_interrupt *)
Tick ==
  /\ i = -1 /\ total_ticks < MaxTicks
  /\ total_ticks' = total_ticks + 1
  /\ i' = 0
  /\ sub' = [sub EXCEPT !.ticked = sub.step # "idle"]
  /\ stale' = (stale \/ Unnamed)
  /\ UNCHANGED <<boot_time_ticks, slots, subscriber_count, subscribed, kept>>

Looping == i >= 0 /\ i < subscriber_count
Due == total_ticks >= slots[i].next

NotDue ==
  /\ Looping /\ ~Due
  /\ i' = i + 1
  /\ UNCHANGED <<total_ticks, boot_time_ticks, slots, subscriber_count, sub, subscribed, kept, stale>>

Rearm ==
  /\ Looping /\ Due /\ slots[i].recurring
  /\ slots' = [slots EXCEPT ![i].next = total_ticks + slots[i].interval]
  /\ i' = i + 1
  /\ UNCHANGED <<total_ticks, boot_time_ticks, subscriber_count, sub, subscribed, kept, stale>>

(* Mutant: the index moves on although the next entry moved up. *)
RemoveSkips ==
  /\ Looping /\ Due /\ ~slots[i].recurring
  /\ slots' = Without(i) /\ subscriber_count' = subscriber_count - 1 /\ i' = i + 1
  /\ UNCHANGED <<total_ticks, boot_time_ticks, sub, subscribed, kept, stale>>

RemoveEntry ==
  /\ Looping /\ Due /\ ~slots[i].recurring
  /\ slots' = Without(i) /\ subscriber_count' = subscriber_count - 1
  /\ UNCHANGED <<total_ticks, boot_time_ticks, i, sub, subscribed, kept, stale>>

TickReturns ==
  /\ i >= 0 /\ i >= subscriber_count
  /\ i' = -1
  /\ UNCHANGED <<total_ticks, boot_time_ticks, slots, subscriber_count, sub, subscribed, kept, stale>>

-----------------------------------------------------------------------------
HasRoom == subscriber_count < MAX_EVENT_SUBSCRIBERS

(* timer_subscribe_event, up to the claim of the slot. *)
timer_subscribe_event(cb, ms, repeat) ==
  /\ i = -1 /\ sub.step = "idle" /\ cb \notin subscribed
  /\ subscribed' = subscribed \cup {cb}
  /\ IF HasRoom
     THEN /\ subscriber_count' = subscriber_count + 1
          /\ sub' = [step |-> "id", slot |-> subscriber_count, cb |-> cb, ms |-> ms, repeat |-> repeat, ticked |-> FALSE]
     ELSE UNCHANGED <<subscriber_count, sub>>
  /\ UNCHANGED <<total_ticks, boot_time_ticks, slots, i, kept, stale>>

IntervalTicks(ms) == (ms * RATE) \div 1000

(* One assignment to the claimed slot; the slot is addressed where it was   *)
(* claimed, wherever the handler has moved its contents since.              *)
Assign(step, after, event) ==
  /\ i = -1 /\ sub.step = step
  /\ slots' = [slots EXCEPT ![sub.slot] = event]
  /\ sub' = [sub EXCEPT !.step = after]
  /\ UNCHANGED <<total_ticks, boot_time_ticks, subscriber_count, i, subscribed, kept, stale>>

Slot == slots[sub.slot]
Fill ==
  \/ Assign("id", "handler", [Slot EXCEPT !.id = subscriber_count])
  \/ Assign("handler", "interval", [Slot EXCEPT !.handler = sub.cb])
  \/ Assign("interval", "next", [Slot EXCEPT !.interval = IntervalTicks(sub.ms)])
  \/ Assign("next", "repeat", [Slot EXCEPT !.next = total_ticks + Slot.interval])
  \/ Assign("repeat", "return", [Slot EXCEPT !.recurring = sub.repeat])

SubscribeReturns ==
  /\ i = -1 /\ sub.step = "return"
  /\ sub' = idle
  /\ kept' = IF sub.repeat /\ ~sub.ticked THEN kept \cup {sub.cb} ELSE kept
  /\ UNCHANGED <<total_ticks, boot_time_ticks, slots, subscriber_count, i, subscribed, stale>>

(* The first entry with the id goes; ids are counts, so two may share one.  *)
timer_unsubscribe_event(id) ==
  /\ Unsubscribes /\ i = -1 /\ sub.step = "idle"
  /\ \E k \in 0 .. subscriber_count - 1 :
       /\ slots[k].id = id /\ \A s \in 0 .. k - 1 : slots[s].id # id
       /\ slots' = Without(k) /\ kept' = kept \ {slots[k].handler}
  /\ subscriber_count' = subscriber_count - 1
  /\ UNCHANGED <<total_ticks, boot_time_ticks, i, sub, subscribed, stale>>

timer_record_boot_timestamp ==
  /\ i = -1 /\ sub.step = "idle" /\ boot_time_ticks = 0
  /\ boot_time_ticks' = total_ticks
  /\ UNCHANGED <<total_ticks, slots, subscriber_count, i, sub, subscribed, kept, stale>>

TimerNext ==
  \/ Tick \/ NotDue \/ Rearm \/ RemoveEntry \/ TickReturns
  \/ \E cb \in Callbacks, ms \in Intervals, repeat \in Repeats : timer_subscribe_event(cb, ms, repeat)
  \/ Fill \/ SubscribeReturns
  \/ \E id \in 1 .. MAX_EVENT_SUBSCRIBERS : timer_unsubscribe_event(id)
  \/ timer_record_boot_timestamp

TimerSpec == TimerInit /\ [][TimerNext]_timerVars

-----------------------------------------------------------------------------
Active == 0 .. subscriber_count - 1

(* When the handler has returned no subscriber is overdue, however many     *)
(* entries it took out on its way: every one that was due was served in     *)
(* this very tick, a zero interval being due again only at the next one.    *)
(* (A slot still being filled in has no due time yet.)                      *)
NoneOverdue ==
  i = -1 => \A s \in Active : \/ slots[s].next > total_ticks
                              \/ slots[s].interval = 0 /\ slots[s].next = total_ticks
                              \/ sub.step # "idle" /\ s = sub.slot

(* timer_handle_interrupt and the subscriptions: none is overdue, and a     *)
(* recurring subscription whose call met no tick stays in the array, with   *)
(* its callback, until it is unsubscribed: ticks that take others out and   *)
(* subscriptions that do meet a tick never drop it.  It is there once as    *)
(* long as no tick came between a claim and the assignment of the handler:  *)
(* a removal in such a tick moves what the slot's last owner left in it     *)
(* back among the active entries.                                           *)
SubscribersServed ==
  /\ NoneOverdue
  /\ i = -1 /\ sub.step = "idle" =>
       \A cb \in kept : \E s \in Active : /\ slots[s].handler = cb /\ slots[s].recurring
                                          /\ stale \/ \A t \in Active : slots[t].handler = cb => t = s

-----------------------------------------------------------------------------
Slots == 0 .. MAX_EVENT_SUBSCRIBERS - 1
Steps == {"idle", "id", "handler", "interval", "next", "repeat", "return"}
Events == [id : Nat, handler : Callbacks \cup {NONE}, interval : Nat, next : Nat, recurring : BOOLEAN]
Calls == [step : Steps, slot : Slots, cb : Callbacks \cup {NONE}, ms : Nat, repeat : BOOLEAN, ticked : BOOLEAN]

TimerTypeOK ==
  /\ total_ticks \in Nat /\ boot_time_ticks \in Nat
  /\ slots \in [Slots -> Events]
  /\ subscriber_count \in 0 .. MAX_EVENT_SUBSCRIBERS /\ i \in Nat \cup {-1}
  /\ sub \in Calls
  /\ subscribed \subseteq Callbacks /\ kept \subseteq subscribed /\ stale \in BOOLEAN

(* Where the call in progress stands: no active slot is behind the one it   *)
(* claimed, and as long as no tick came that one is the last active slot,   *)
(* holding what was written and the callback nowhere else.                  *)
CallInProgress ==
  sub.step # "idle" =>
    /\ sub.slot >= subscriber_count - 1 /\ sub.cb \in subscribed \ kept
    /\ Unnamed => \A s \in Slots : slots[s].handler # sub.cb
    /\ ~sub.ticked => /\ i = -1 /\ subscriber_count = sub.slot + 1
                      /\ ~Unnamed => \A s \in Slots : slots[s].handler = sub.cb <=> s = sub.slot
                      /\ sub.step = "return" => slots[sub.slot].recurring = sub.repeat

(* Entries that the handler has passed, or that it left behind when it      *)
(* returned, have their next due time ahead of them.                        *)
ServedSoFar ==
  \A s \in Active : i = -1 \/ s < i =>
    \/ slots[s].next > total_ticks
    \/ slots[s].interval = 0 /\ slots[s].next = total_ticks
    \/ sub.step \in {"id", "handler", "interval", "next"} /\ s = sub.slot

KeptThere ==
  \A cb \in kept : \E s \in Active : /\ slots[s].handler = cb /\ slots[s].recurring
                                     /\ sub.step # "idle" => s # sub.slot

KeptOnce ==
  ~stale => /\ i # -1 => ~Unnamed
            /\ \A s, t \in Active : /\ slots[s].handler \in kept /\ slots[s].handler = slots[t].handler
                                   /\ (Unnamed => sub.slot \notin {s, t})
                                   => s = t

(* What every step of the timer preserves. *)
TimerInv ==
  /\ TimerTypeOK /\ CallInProgress /\ ServedSoFar /\ KeptThere /\ KeptOnce
  /\ \A s \in Slots : slots[s].handler \in subscribed \cup {NONE}
=============================================================================
