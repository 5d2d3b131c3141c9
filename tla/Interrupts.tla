----------------------------- MODULE Interrupts -----------------------------
(***************************************************************************)
(* Interrupt delivery while the PS/2 mouse is set up and afterwards:       *)
(* mouse_init (drivers/ps2/mouse/mouse.c) runs in the boot code with       *)
(* interrupts on and polls the same data port that the keyboard's and the  *)
(* mouse's interrupt handlers read.                                        *)
(*                                                                         *)
(* The handlers are entered through interrupt gates, so each is one        *)
(* action.  The two interrupt controllers, the keyboard controller with    *)
(* its one output buffer and the mouse are hardware: requests are latched  *)
(* on an edge, a request is served when no line of its or a higher         *)
(* priority is in service, an EOI ends the highest one in service.         *)
(*                                                                         *)
(* Bytes are told apart by what they are: scan codes, the configuration,   *)
(* acknowledgements (0xFA) and the three bytes of a packet.  The mouse     *)
(* answers a command before mouse_wait's 100000 attempts are over.         *)
(***************************************************************************)
EXTENDS Integers, SequencesExt

CONSTANTS
  Surroundings,  \* prompt: does an interrupt reach the processor before its next instruction?
                 \* early: are keys pressed before mouse_init is through?
  MaxKeys        \* bound: scan codes waiting in the keyboard

ASSUME InterruptsAssumption == Surroundings \subseteq [prompt : BOOLEAN, early : BOOLEAN] /\ MaxKeys \in Nat

VARIABLES
  irr, isr1, isr2,       \* requests; lines in service at the primary and the secondary controller
  buf, data,             \* the output buffer, and what reading the data port of an empty one returns
  cfg,                   \* the controller's configuration: which of its two interrupts are on
  scancodes, asked, mouse,  \* bytes still to be loaded: of the keyboard, the controller, the mouse
  main, sent,            \* where mouse_init is; the commands it has sent
  packet, event,         \* mouse_packet[0 .. mouse_cycle - 1]; the last packet acted upon
  env                    \* the surroundings of this run, which do not change

hw == <<irr, isr1, isr2>>
port == <<buf, data>>
queues == <<scancodes, asked, mouse>>
irqVars == <<hw, port, cfg, queues, main, sent, packet, event, env>>

KBD == 1
AUX == 12
CASCADE == 2
Empty == "empty"
FromMouse(byte) == byte \in {"ack", "p1", "p2", "p3"}

(* Mutant: one command less is sent to the mouse. *)
CommandsFive == 5

(* mouse_init sends 0xF6, 0xF3, 200, 0xE8, 0x03 and 0xF4. *)
Commands == 6

IrqInit ==
  /\ irr = {} /\ isr1 = {} /\ isr2 = {}
  /\ buf = Empty /\ data = "scan" /\ cfg \in [kbd : {TRUE}, aux : BOOLEAN]
  /\ scancodes = 0 /\ asked = FALSE /\ mouse = <<>>
  /\ main = "ask" /\ sent = 0 /\ packet = <<>> /\ event = <<>>
  /\ env \in Surroundings

-----------------------------------------------------------------------------
(* The hardware. *)

Requests == (irr \cap {0, KBD}) \cup (IF AUX \in irr /\ isr2 = {} THEN {CASCADE} ELSE {})
Served(line) ==
  /\ line \in Requests
  /\ \A other \in Requests : line <= other
  /\ \A busy \in isr1 : line < busy

Ended(isr) == {line \in isr : \E other \in isr : other < line}

TimerRequest == irr' = irr \cup {0} /\ UNCHANGED <<isr1, isr2, port, cfg, queues, main, sent, packet, event, env>>

Key ==
  /\ scancodes < MaxKeys /\ (main = "done" \/ env.early)
  /\ scancodes' = scancodes + 1
  /\ UNCHANGED <<hw, port, cfg, asked, mouse, main, sent, packet, event, env>>

(* The mouse reports once the last command, 0xF4, has turned reporting on. *)
Move ==
  /\ sent = Commands /\ mouse = <<>>
  /\ mouse' = <<"p1", "p2", "p3">>
  /\ UNCHANGED <<hw, port, cfg, scancodes, asked, main, sent, packet, event, env>>

Load(byte, line, on) ==
  /\ buf = Empty /\ buf' = byte
  /\ irr' = irr \cup (IF on THEN {line} ELSE {})
  /\ UNCHANGED <<isr1, isr2, data, cfg, main, sent, packet, event, env>>

LoadScancode == scancodes > 0 /\ Load("scan", KBD, cfg.kbd) /\ scancodes' = scancodes - 1 /\ UNCHANGED <<asked, mouse>>
LoadConfig == asked /\ Load("config", KBD, cfg.kbd) /\ asked' = FALSE /\ UNCHANGED <<scancodes, mouse>>
LoadMouse ==
  mouse # <<>> /\ Load(Head(mouse), AUX, cfg.aux) /\ mouse' = Tail(mouse) /\ UNCHANGED <<scancodes, asked>>

-----------------------------------------------------------------------------
(* The handlers. *)

Inb == IF buf = Empty THEN data ELSE buf
TakesByte == data' = Inb /\ buf' = Empty

timer_handle_interrupt ==
  /\ isr1' = Ended(isr1 \cup {0})
  /\ UNCHANGED <<isr2, port, packet, event>>

keyboard_interrupt_handler ==
  /\ TakesByte
  /\ isr1' = Ended(isr1 \cup {KBD})
  /\ UNCHANGED <<isr2, packet, event>>

(* Bit 3 of a byte: set in 0xFA and in the first byte of a packet. *)
Bit3(byte) == IF byte \in {"ack", "p1"} THEN {TRUE} ELSE BOOLEAN

(* Mutant: only the primary controller gets an EOI. *)
irq_ack_primary_only == isr2' = isr2 \cup {AUX} /\ isr1' = Ended(isr1 \cup {CASCADE})

irq_ack_mouse == isr2' = Ended(isr2 \cup {AUX}) /\ isr1' = Ended(isr1 \cup {CASCADE})
NotAcknowledged == isr2' = isr2 \cup {AUX} /\ isr1' = isr1 \cup {CASCADE}

mouse_interrupt_handler ==
  IF ~FromMouse(buf) THEN NotAcknowledged /\ UNCHANGED <<port, packet, event>>
  ELSE /\ TakesByte
       /\ \E bit3 \in Bit3(buf) :
            IF packet = <<>> /\ ~bit3 THEN NotAcknowledged /\ UNCHANGED <<packet, event>>
            ELSE /\ irq_ack_mouse
                 /\ IF Len(packet) = 2 THEN packet' = <<>> /\ event' = Append(packet, buf)
                    ELSE packet' = Append(packet, buf) /\ UNCHANGED event

handle_cpu_interrupt(line) ==
  /\ Served(line)
  /\ irr' = irr \ {IF line = CASCADE THEN AUX ELSE line}
  /\ \/ line = 0 /\ timer_handle_interrupt
     \/ line = KBD /\ keyboard_interrupt_handler
     \/ line = CASCADE /\ mouse_interrupt_handler
  /\ UNCHANGED <<cfg, queues, main, sent, env>>

-----------------------------------------------------------------------------
(* mouse_init. *)

Runs == env.prompt => \A line \in {0, KBD, CASCADE} : ~Served(line)

AskConfig ==
  /\ main = "ask" /\ Runs
  /\ asked' = TRUE /\ main' = "config"
  /\ UNCHANGED <<hw, port, cfg, scancodes, mouse, sent, packet, event, env>>

(* Mutant: the loop only ends when a byte is there. *)
mouse_wait_forever == buf # Empty

(* The loop ends when a byte is there or, the answer having come and gone,  *)
(* when the time is over.                                                   *)
mouse_wait == buf # Empty \/ (~asked /\ "ack" \notin ToSet(mouse))

mouse_read == mouse_wait /\ TakesByte

(* What was read, with the mouse's interrupt on, becomes the configuration. *)
ReadConfig ==
  /\ main = "config" /\ Runs /\ mouse_read
  /\ cfg' \in [kbd : IF Inb = "config" THEN {cfg.kbd} ELSE IF Inb = "scan" THEN BOOLEAN ELSE {FALSE}, aux : {TRUE}]
  /\ main' = "command"
  /\ UNCHANGED <<hw, queues, sent, packet, event, env>>

mouse_write ==
  /\ main = "command" /\ sent < Commands /\ Runs
  /\ sent' = sent + 1 /\ mouse' = Append(mouse, "ack") /\ main' = "answer"
  /\ UNCHANGED <<hw, port, cfg, scancodes, asked, packet, event, env>>

ReadAnswer ==
  /\ main = "answer" /\ Runs /\ mouse_read
  /\ main' = IF sent = Commands THEN "done" ELSE "command"
  /\ UNCHANGED <<hw, cfg, queues, sent, packet, event, env>>

Main == AskConfig \/ ReadConfig \/ mouse_write \/ ReadAnswer

IrqNext ==
  \/ TimerRequest \/ Key \/ Move \/ LoadScancode \/ LoadConfig \/ LoadMouse
  \/ \E line \in {0, KBD, CASCADE} : handle_cpu_interrupt(line)
  \/ Main

(* The keyboard controller passes bytes on. *)
Loads == LoadScancode \/ LoadConfig \/ LoadMouse

(* The processor takes interrupts and, a tick being far longer than its     *)
(* handler, gets on with mouse_init.                                        *)
IrqFairness ==
  /\ WF_irqVars(Loads)
  /\ \A line \in {0, KBD, CASCADE} : SF_irqVars(handle_cpu_interrupt(line))
  /\ SF_irqVars(Main)

IrqSpec == IrqInit /\ [][IrqNext]_irqVars /\ IrqFairness

-----------------------------------------------------------------------------
(* Each interrupt is served before the polling loop looks again, and nobody *)
(* types while the mouse is set up.                                         *)
Calm == env.prompt /\ ~env.early

(* In calm surroundings the mouse acts on whole packets only, its own or    *)
(* three acknowledgements of commands, however keys, ticks and the polling  *)
(* of mouse_init fall between the bytes: it never starts in the middle of a *)
(* packet.                                                                  *)
PacketsWhole ==
  Calm =>
  /\ event \in {<<>>, <<"ack", "ack", "ack">>, <<"p1", "p2", "p3">>}
  /\ IsPrefix(packet, <<"ack", "ack">>) \/ IsPrefix(packet, <<"p1", "p2">>)

(* What the interrupt requests say of the output buffer: in calm            *)
(* surroundings a byte is in it exactly while its interrupt is requested,   *)
(* and no line stays in service.                                            *)
BufferAnnounced ==
  /\ isr1 = {} /\ isr2 = {} /\ irr \subseteq {0, KBD, AUX}
  /\ KBD \in irr <=> buf \in {"scan", "config"}
  /\ AUX \in irr <=> FromMouse(buf)
  /\ buf \in {Empty, "scan", "config", "ack", "p1", "p2", "p3"}

(* How far mouse_init has got with the configuration. *)
ConfigFlow ==
  /\ cfg \in [kbd : {TRUE}, aux : BOOLEAN] /\ scancodes \in Nat /\ asked \in BOOLEAN
  /\ main # "done" => scancodes = 0 /\ buf # "scan"
  /\ main = "ask" => ~asked /\ buf = Empty
  /\ main = "config" => (asked /\ buf = Empty) \/ (~asked /\ buf = "config") \/ (~asked /\ buf = Empty /\ data = "config")
  /\ main \in {"ask", "config"} => sent = 0
  /\ main \notin {"ask", "config"} => cfg.aux /\ ~asked /\ buf # "config"

(* The acknowledgements that the mouse's handler holds after n commands. *)
Acks(n) == IF n \in {1, 4} THEN <<"ack">> ELSE IF n \in {2, 5} THEN <<"ack", "ack">> ELSE <<>>
Report == <<"p1", "p2", "p3">>

(* Every byte of the mouse is on its way to the handler in its order: the   *)
(* answer to the last command, then reports.                                *)
MouseFlow ==
  \/ /\ main \in {"ask", "config", "command"} /\ sent \in 0 .. Commands - 1
     /\ packet = Acks(sent) /\ ~FromMouse(buf) /\ mouse = <<>>
  \/ /\ main = "answer" /\ sent \in 1 .. Commands
     /\ \/ packet = Acks(sent - 1) /\ ~FromMouse(buf) /\ mouse = <<"ack">>
        \/ packet = Acks(sent - 1) /\ buf = "ack" /\ (mouse = <<>> \/ (sent = Commands /\ mouse = Report))
        \/ packet = Acks(sent) /\ ~FromMouse(buf) /\ mouse = <<>> /\ sent < Commands
  \/ /\ main \in {"answer", "done"} /\ sent = Commands
     /\ \/ packet = <<>> /\ ~FromMouse(buf) /\ mouse \in {<<>>, Report}
        \/ packet = <<>> /\ buf = "p1" /\ mouse = <<"p2", "p3">>
        \/ packet = <<"p1">> /\ ~FromMouse(buf) /\ mouse = <<"p2", "p3">>
        \/ packet = <<"p1">> /\ buf = "p2" /\ mouse = <<"p3">>
        \/ packet = <<"p1", "p2">> /\ ~FromMouse(buf) /\ mouse = <<"p3">>
        \/ packet = <<"p1", "p2">> /\ buf = "p3" /\ mouse \in {<<>>, Report}

(* What every step in calm surroundings preserves. *)
CalmInv ==
  /\ BufferAnnounced /\ ConfigFlow /\ MouseFlow
  /\ event \in {<<>>, <<"ack", "ack", "ack">>, Report}

IrqInv == env \in Surroundings /\ (Calm => CalmInv)

(* In calm surroundings no byte stays in the output buffer, which would     *)
(* silence both the keyboard and the mouse; and every tick that the timer   *)
(* requests is served, whoever reads whose bytes and even when the mouse's  *)
(* line stays in service for good.                                          *)
RequestsServed ==
  /\ (Calm /\ buf # Empty) ~> buf = Empty
  /\ 0 \in irr ~> 0 \notin irr

(* mouse_init ends, whoever reads the answers it waits for. *)
InitEnds == <>(main = "done")

(* The boot code logs "Input devices: [ OK ]" after mouse_init: the         *)
(* keyboard's interrupt is still on.                                        *)
KeyboardStaysOn == main = "done" => cfg.kbd
=============================================================================
