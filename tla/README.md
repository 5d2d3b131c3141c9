# KernixOS in TLA+

Models of the KernixOS kernel (`src/core`), checked with TLC on small instances, and theorems about most of its
components proved with TLAPS for every size of the instance. `PROJECT.json` lists the components, the runs, the source lines behind
each definition, the hazards and the findings; this file explains them.

## 1. The system

KernixOS is a monolithic x86-64 kernel started by the Limine boot loader. `kmain` (`kernel/kernel.c`) initialises one
subsystem after the other, turns interrupts on in `timer_system_initialize`, and ends in a loop that polls the USB
controllers and the network card between `hlt`s. There are no user processes; the shell's commands run *inside* the
keyboard's interrupt handler. So the concurrency of the system is between the boot code or the main loop on one side and
three interrupt handlers (timer, keyboard, mouse) on the other, plus the hardware.

| Component | State | Operations | Hard behaviour |
|---|---|---|---|
| Heap (`mem/heap`, `mem/kernel_memory`) | linked list of block headers in an arena, `used_heap` | malloc, free with merging, create/alloc/free with accounting | long sequences of splits and merges; double frees; 64-bit wrap |
| Frame allocator (`mem/phys`) | bitmap, frame records | init from the memory map, allocate and free runs | maps with holes and overlaps, runs at a boundary |
| Paging (`mem/paging`) | four-level tables | map a page, a region, a device | frames run out in the middle of a walk; shared tables |
| VFS (`fs/vfs`) with devfs | mounts, node tree, descriptors | mount, open, close, create, register a device | failures half way through open; prefixes of mount paths |
| Shell file commands, file manager | working directory, directory shown | cd, mkdir, touch, cat, mount, clicks | paths put together with and without slashes |
| tmpfs (`fs/vfs/tmpfs`) | heap buffer, size, positions | read, write, seek | growth under several descriptors, allocation failures |
| kedit (`shell/commands/kedit.c`) | line arrays, cursor | load, save, edit keys | the ends of lines and of the array |
| Shell (`shell/acsh.c`, `parser.c`) | input line, history | keys, chained commands | the history at its limit, runs of `&` |
| Text output (`print.c`, `visual.c`, `cursor.c`) | cells, cursor, underline | putchar, scrolling, redrawing the input | a key's echo in the middle of putchar; cursor below zero |
| Timer (`interrupts/timer`) | ticks, subscriber array | tick, subscribe, unsubscribe | a tick between two assignments of a subscription |
| Keyboards (`drivers/ps2`, `usb_keyboard.c`) | modifier flags, last report | make, break, report | keys sharing a flag, slots that move |
| Mice (`drivers/ps2/mouse`, `usb_mouse.c`) | positions in pixels and hundredths, saved background | packet, report, draw the arrow | two drivers that set each other's position |
| Interrupts | controllers' requests and services, one output buffer | the three handlers, `mouse_init` | a polling loop and two handlers read one port |
| GUI (`gui/gui.c`) and terminal | window array, task bar, pools, drag, dirty rectangles; rows of text | open, close, focus, drag, keys, frames | pointers into an array that is shifted; a frame in the middle of an event |
| USB host controllers | descriptors, rings, devices | set-up, enumeration, transfers, polling | the controller completes at any time; allocations fail |
| ATA, partitions, ext4 | registers, partition array | detect, read, write, mount | late and missing answers, retries |
| Network (`e1000.c`, `network.c`) | two rings, ARP table | receive, answer, ping | ping cuts into the main loop's send; rings wrap |
| Modules (`kernel/module`) | components, table of modules | enrol, remove, insmod, rmmod | a load that fails half way |
| User space, scheduler, SMP, graphics manager | process and task lists | - | set up at boot and never used |
| PCI, CMOS, serial, fonts, CPU set-up | registers | straight-line I/O | little that a model checker reaches |

Interactions: paging takes its tables from the frame allocator; tmpfs and the VFS take nodes and buffers from the heap;
kedit and the shell's commands use the VFS; the keyboard drivers call `console_handle_key`, which passes codes to the
shell or to kedit, or `gui_handle_key`; the timer calls its subscribers (the GUI's frames, the cursor's blinking); both
mice call the GUI. The PS/2 keyboard and mouse share one controller and one data port. The main loop polls the USB
controllers and the network card, and every handler can come in between.

## 2. Modules

Every module names the source it models at its top; `map` in `PROJECT.json` gives the lines. Definitions have the names
of the C functions where there is one. Definitions that only mutants use (a plausible bug each, mostly marked `Mutant:`)
are *not* part of the specification; they show that a property can fail. Variables marked auxiliary are not in the code.

Memory
- **Heap** (MCHeap, HeapProofs). Byte-accurate: real header size and alignment, addresses as offsets from the start of
  the heap. `malloc` is one action per outcome, `free` one action per iteration of its two merge loops. Headers that a
  merge absorbs stay in memory and are kept in `stale`, so that a second free of the same pointer reads what the code
  would read. `used_heap` is kept modulo 2^64 (a smaller power of two in the runs).
- **PhysMem** and **Paging** (MCPaging, MachineProofs), which extends it. Everything is counted in frames. PhysMem's allocation is stated
  as first fit; `ScanIsFirstFit` says that the scan loop, as the code writes it, finds the same run. Paging walks the tables one level
  per step, so that a failed allocation can hit any level, while other callers of the frame allocator (`OthersRuns`) take
  and return runs between mappings. It starts from the boot loader's tables with its direct map and huge pages of both
  sizes. `paging_map_page` takes a huge page for a table: below one of 2 MB its write goes to the page's data and nothing
  is mapped, below one of 1 GB it takes data for entries. When the frames that hold the tables or the frame records are
  hit that way, or are taken out of the direct map, the model stops (`strayed`).

Files and text
- **Vfs** (ResourceProofs) and **ShellFs** (MCVfs), which extends it: mounts, nodes, path resolution and descriptors of the VFS with devfs
  and tmpfs directories; above them the shell's file commands and the file manager. Paths are sequences of name pieces,
  so that one name can be a string prefix of another, and a piece counts as one character. `fs_open` is split at the
  allocation of its file block: each failing path after it has its own free. `fs_resolve` cuts a name to the size of `comp`;
  `fname`, `dname`, `ppath` and the paths of the shell and the file manager have their sizes, which the code does not check:
  a call that writes past one ends the behaviour (`overrun`).
- **FileOps, FileSpec, Tmpfs** (MCText, TextProofs): FileSpec is an abstract file (bytes and positions); Tmpfs has buffer, capacity
  and allocation failures and implements FileSpec under the mapping in Tmpfs (`ImplementsFile`).
- **Kedit** (the editor over one file), **Shell** (input line, history, chained commands) and **Terminal** (the rows of
  a terminal window, whose last row is the input; all windows share the working directory) (MCText, TextProofs). A key
  past the end of a row, or a prompt too long for its array, ends the behaviour of a terminal (`ranover`).
- **Screen** (MCHandlers, HandlerProofs): text in cells. The boot log's `putchar` takes several steps, between which a key may echo;
  everything else is one step. A second page without a bottom gets the same text and says what should be seen.

Handlers
- **Timer** (MCHandlers, HandlerProofs): the tick handler iteration by iteration; `timer_subscribe_event` assignment by
  assignment. The auxiliary `stale` notes a tick that found a slot claimed but not yet given its handler, and `kept` the
  recurring events whose subscription met no tick.
- **Keyboard** (MCHandlers, MCKeyboard, HandlerProofs): both keyboard drivers and where key codes go. The PS/2 handler is one action per
  scan code; the USB driver, which runs in the main loop with interrupts on, is one action per slot of a report.
- **Pointer** (MCHandlers, HandlerProofs): the positions both mouse drivers keep, the USB driver's step by step, with
  movements of 8 and of 16 bits that wrap when they are doubled, and the arrow.
- **Interrupts** (MCInterrupts, MachineProofs): the interrupt controllers and the keyboard controller (hardware), the three handlers
  (one action each, since they run with interrupts off) and `mouse_init` step by step.
- **Gui** (MCGui, GuiProofs): windows by index into the array, as the code's pointers are. Where a window lies is left out: a click
  may meet any window that is shown. An event of a USB device is handled by the main loop, and a frame or the handler of
  a PS/2 device may come in the middle: before the last assignments of the event (`EventReturns`) such an interrupt is
  modelled as it is, in the middle of the work on the windows it sets `raced`, after which nothing is known of them. A
  frame that only redraws regions may leave a window drawn over another (`screen`).

Drivers (MCDrivers, MCDisk)
- **UsbHost** (ResourceProofs): EHCI, OHCI and UHCI in one module; each has a table of the blocks
  a control transfer takes and of what each failing path frees, and its own way with a finished report. OHCI's done list also
  gets the descriptors of control transfers, which are freed by the time the poll walks the list (`adrift`). **Xhci** (DriverProofs): command and event ring. The controller is a process of its own.
- **Disk** (DriverProofs): ATA commands with a drive that answers at any time or never, the partition tables, mounting of ext4.
  The header of a GPT says where its entries are and how large; a size of zero or above a sector's stops the kernel in a
  division (`DivideError`).
- **Network** (DriverProofs): the card, both rings, the main loop's receive and answer in steps, ping as one step from the interrupt.
- **Modules** (ResourceProofs): components, and the loader with every step that takes something.

Loops of the code over bytes, characters, lines or frames are recursive functions (`Scanning`, `Loading`, `Splitting`,
`Adding`, `Putting`...) whose value at `n` is the state after `n` rounds. **Loops** holds the facts about them that the proofs share.

A composing module (MCText, MCHandlers, MCDrivers) holds parts that share no state; each behaviour exercises one of them,
so the states add up instead of multiplying.

## 3. Runs

| Run | What it shows | Bounds |
|---|---|---|
| heap | the list tiles the arena, blocks are disjoint and coalesced, requests are honoured, no step harms a block in use, a second free is turned down, free returns | 232 bytes: up to five blocks; requests that fit exactly, leave too little to split, and wrap; double frees of every absorbed header |
| paging | runs handed out are disjoint, usable and accounted for (`FramesSound`), the scan is first fit; regions stay mapped, tables form a tree (`MappingsSound`), mapping ends | four memory maps of up to 21 usable frames, some of which run out; tables of three entries, four levels; a direct map of small pages and huge pages of both sizes, with a region and devices over it; one run of another caller at a time |
| vfs | no file leaked, resolution is stable, what is created resolves; directories stay directories, `..` of the file manager leads up, and `cd ..` does unless the working directory ends with a slash: then it takes the slash away (`PathsMeant`) | eight nodes, two descriptors, three mounts, overlapping paths; names of two characters, parents of four and paths of six fit, longer ones overrun |
| text | Tmpfs implements FileSpec and leaks no buffer; kedit's cursor and arrays, its edits as edits of one text, load and save; the history is the last lines entered and each part between `&&` is called once, in order; a terminal loses neither what is typed nor what was printed | two descriptors, blocks of 2 bytes, files of up to 4 bytes; three lines of two characters; lines of up to seven characters over three symbols, history and chain of two; two terminals of three rows of five characters, prompts of which one is too long, seven keys |
| handlers | no modifier sticks, every new USB key is passed on once (`KeysRight`); both pointers stay on the screen and are where their moves add up to, the arrow's background returns to its place; no event skipped, overdue or lost; the text screen shows the last lines (`TextShown`) | two keys held, two slots; a screen of four pixels, moves on both sides of the thresholds, one that wraps when it is doubled, two sensitivities; three subscriptions for two slots, four ticks; two rows of three cells, input of two characters, two keys before the boot is over |
| interrupts | ticks are served and `mouse_init` ends in every race; mouse packets stay whole and the shared buffer drains if interrupts are prompt and nobody types during set-up | two scan codes waiting |
| gui | windows, task bar, focus and program states agree; a drag never outlives its window; what an event changes is drawn in the end | three windows, three opened in all sessions, one dirty rectangle |
| drivers | USB: each path of a control transfer frees what it took, each report is handed on once and some time; xHCI: events of a round in order; disk: sectors where they were meant, detection ends; network: packets in order through both rings, the ARP table tells the latest; modules: a failed load leaves nothing behind | two ports, two reports each; rings of three; two drives, tables of both kinds and sizes of entries that fit twice, not at all and without entries, sectors around both limits, three tries, two calls; four packets and one ping; four modules, four loads |

`CounterCovers` (heap) is about `used_heap`: only a second free can take it below the bytes in use and the headers that
splitting added, so while callers free each pointer once it never wraps below zero. `TerminalKeeps` compares the rows of
a terminal with the lines printed *cut to a row*: a terminal may be wider than a row of its buffer, and
`gui_terminal_add_line` drops what does not fit.

The timer's run has two slots, too few for one effect that the proof of `SubscribersServed` brought out: with three and
more, a tick that comes while a claimed slot still has its old handler can leave an event in two slots. The property
promises a recurring event *once* only if no such tick fell (`stale`), and that it is there in any case.

The limits of the arrays that a property is about (tables, names and paths, lines and rows, history, rings, windows) are
constants, and the run reaches each; where the code does not check one, the run goes past it and the model ends there. Addresses and
counts are small because every comparison in the code is between quantities that the run lets be smaller, equal and
larger. A run without deadlock checking is one whose bounded inputs can be used up.

Runs that are expected to fail document a disagreement between the code and what it says of itself (the findings):

- **vfs_devices**: `devfs_register_device` never links the node below `/dev`; a registered device cannot be opened.
- **keyboard_quit**: Ctrl-Q and Ctrl-S never reach the editor.
- **interrupts_config**: a key pressed while `mouse_init` waits for the controller's configuration is taken for it, and
  the value written back may turn the keyboard off. `mouse_init` runs with interrupts on: the timer's set-up turns them
  on (`timer.c:48`), and `enroll_component(&mouse_handler)` (`kernel.c:373`) comes later.
- **ext4_mount**: the superblock is copied with `str_copy`, which stops at its first zero byte, so no volume mounts,
  although `src/Documentation/1.2-FS` lists ext4 as supported.

Where a property has a premise, the premise marks what the code does not give. Dropping it shows the behaviour:

- `mouse_interrupt_handler` returns without an EOI when `mouse_init` has read the byte first; the output buffer then
  stays full for the keyboard as well (`RequestsServed` without `Calm`). With prompt interrupts the six acknowledgements
  of `mouse_init` are taken for two packets, and the mouse is in step only because six is a multiple of three.
- On a full input line a key moves the cursor and not the line; the left arrow then takes `cursor_x` below zero and the
  next glyph is drawn outside the framebuffer (`TextShown` without `overfull`). A key echoed in the middle of `putchar`
  may draw below the last row, and a `clear` there takes `cursor_y` below zero (`early`, `cleared`).
- Saving a shorter text over a longer file leaves the old tail, and reports success (`LoadsAndSaves`).
- A held USB key is delivered again when the keyboard closes the gap of a released one (`KeysRight` allows it).
- After two moves without a frame the arrow's background is put back where no arrow was (`BackgroundRestored`); moves of
  the PS/2 and of the USB driver that interrupt each other tear position and hundredths apart until the next move.
- OHCI loses the setup packet of every transfer, never submits a report again, forgets the done list unread and walks
  through freed descriptors; UHCI serves only the first finished device (`TransfersBalance`, `adrift`, `Waiting`).
- A mapping over the direct map can take the kernel's tables and frame records out of its reach or write into them
  (`strayed`). `HEAP_START` (`mem.h:9`) is an address at which Limine puts its direct map unless it was told to place it
  elsewhere, and nothing in the code looks for `PTE_HUGE`.
- A file name of 64 characters or a parent path of 200 overruns the arrays of `fs_open` and `fs_mkdir`, a path of 256 those
  of the shell and the file manager (`overrun`); a key typed past column 255 of a terminal's row goes to the next row
  (`ranover`). A `cd` in one terminal window moves the place where the commands of the others begin (`mixed`).
- A PS/2 interrupt in the middle of a USB event works on half-changed windows (`raced`). A frame that redraws a region can
  cover a window in front, and no later frame is due: `ChangesDrawn` says that each change is on the screen once.
- A recurring event whose subscription a tick cut into may be lost (`kept` has only the others). Near 2^64 a request is
  rounded up to 0 bytes (`RequestHonoured`).
- The xHCI's event ring is read again from the second round on (`EventsInOrder` speaks of the first); the slot of a new
  device is an uninitialised variable.
- A command for a drive that is still busy with one that was given up is lost, and what is read is old (`late`).
  `partitions_init` forgets the partitions of the drives before.
- A ping that cuts into the main loop's send overwrites its descriptor (`torn`); a full ring is not noticed (`overrun`).
  While ping waits for an ARP reply the main loop, which would handle it, does not run: an unknown host is always
  addressed by broadcast. Types of frames are compared without swapping their bytes.
- `kernel_symbol_lookup` finds nothing: a module that uses a symbol of the kernel cannot be loaded. All modules that are
  loaded have the name "unknown". The entry point of a relocatable file is called as an absolute address.
- `gui_create_window` resets only `is_terminal`: a window opened in a slot of the array that still has the pointer to a
  program's state shares that state, and closing it marks a state as free that another window uses. `WindowsAgree`
  promises the other direction, that no state is taken without a window for it.
- Conversions of time assume 300 Hz, the kernel sets 1000 Hz. Allocations that do not split leak 40 bytes of accounting
  per cycle; exception gates are installed as not present; a line ending in `&&` executes an uninitialised array.

## 4. Fairness

- Heap, Paging: weak fairness of the steps of a call that has begun. The processor executes the next iteration of a
  loop; nothing is assumed of callers.
- Interrupts: weak fairness of the keyboard controller's loading of the next byte; strong fairness of each delivery and
  of the boot code. Strong, because ticks may come for ever and a tick takes precedence each time; a tick is a
  millisecond and its handler far shorter, so the others get their turn again and again and must take it. That the mouse
  answers within `mouse_wait`'s 100000 attempts is assumed in `mouse_wait`.
- Gui: weak fairness of the frames, which the timer draws, and of the main loop's steps through an event that has begun.
- Drivers: weak fairness of the boot code, of the main loop's polling and of the ATA driver's own steps. Nothing is
  assumed of the hardware: a drive need never answer.

## 5. Proofs

Every theorem has the form `Spec => []P` or `Spec => [][A]_v` for a property that a run checks on a small instance, and
holds for all constants that satisfy the module's named assumption. The assumptions say that constants are of their type
and not empty, with these that say more:

- `PhysMemAssumption`: the memory map keeps usable memory apart from everything else, as the boot protocol promises.
- `BootTablesAssumption`: the tables that the boot loader leaves are a tree and do not lie in usable memory, as the boot
  protocol promises, and its direct map has them and all usable frames. `KernelPagesAssumption`: the pages that the kernel
  maps have numbers of four indices; they may lie in the direct map and under huge pages.
- `SectorsAssumption`: a partition and the entries of a GPT end within the 48 bits that number sectors. `CounterAssumption`: the bound of `used_heap`
  leaves room for one more allocation below 2^64.
- `PointerAssumption`: the screen is wide enough for the arrow. `GuiAssumption`: dialogs and programs have different titles.
  `ModulesAssumption`: no built-in module is called "unknown".
- `TerminalAssumption`: no command prints a zero byte, and the array of a prompt is not larger than a row, as in the code
  (64 and 256). `KeditAssumption`,
  `VfsAssumption`: files and paths are sequences over a given set of bytes or name pieces.
- `ScreenAssumption`: framebuffer and input line are far below 2^32 pixels, where the cursor wraps; what is typed is
  printable, so neither a control character nor the underline of the cursor.

The bounds on counters (`Max...`) are constants too, so a theorem holds for each of them.

The method is the same throughout: an inductive invariant, mostly stated in the component's module beside the property it is
for and checked with TLC before the proof, one lemma per operator or action, and a last step by temporal logic.

**HeapProofs** (`TypeCorrect`, `HeapCorrect`, `BlocksDisjoint`, `UsedBlocksKept`, `CounterCorrect`). The invariant is `TypeOK /\ HeapInv`.
Disjointness alone is not inductive: whether a split or a merge keeps blocks apart depends on the list being a tiling of
the arena, and whether the tiling survives a merge depends on the two blocks being neighbours, which the loop knows from
the links. Coalescing fails in the middle of a free, so it is stated for all pairs except around `cur`. Three lemmas are
about the list alone (`FlipTiled`, `SplitTiled`, `JoinTiled`). For `CounterCorrect` the bytes in use are a sum over the
addresses of the arena; `SumsChange` says that a change at one address changes the sum by that much, and the list
invariant tells which block a step changes.

**Loops**. A loop that starts in some set of states and whose rounds stay in it is a function into that set (`LoopStays`), and
the function that TLA+ chooses for a recursive definition is the one that satisfies it (`LoopRuns`); both by the principle of the
least number (`LeastNumber`), proved from the library's `WFMin`. By them the proofs below speak about every length of input.

**MachineProofs**. `FramesCorrect`: `FramesInv` adds to `FramesSound` that a frame the bitmap calls free is usable memory
outside the allocator's own records. That is established by the set-up steps, and is where the assumption on memory
maps is needed: with an overlap, freeing the usable entry would free the other one. Paging's own steps only allocate.
`ScanCorrect`: while the scan has found nothing it counts the free frames behind the last used one, so the first full
count is the first fit. `MappingsCorrect`: `PagingInv` says that the tables are a tree (each table named once, one level below
the table that names it), that every table added is a run of the allocator, and where the walk of a mapping in progress
stands. What it writes undoes no other page, since two pages with the same place
in the same table are the same page, and the pages under huge pages are those of the boot loader (`HugeKept`). `PacketsCorrect`: `CalmInv` ties the requests to the byte in the output buffer, follows the
acknowledgements of the set-up, and splits a report into the bytes taken, the one in the buffer and those to come.

**TextProofs**. `TmpfsCorrect`, `TmpfsImplements`: `TmpfsInv` adds that a node with a buffer has a size, since the test for
copying also decides about freeing the old buffer, and that nothing is written beyond the size, so that a hole left by a
seek reads the same whether or not the buffer grew. Each step of tmpfs is then a step of FileSpec or leaves what a reader
sees. `LinesCorrect`: the history is compared with the lines entered without repetitions; `ShellInv` says that these are
numbered without gaps and that the newest is the last one entered, by which `add_to_history` decides. `ChainsCorrect`:
after n rounds of the loop of `parse_and_execute_chained` (`Filled`), the next character is the first behind the n-th split
and every command so far is *alike* its part of the line: it has a word or not, and `console_execute` calls the same with
it, since they differ by spaces in front. That the first `&&` from there on is the next split (`ChainIsCut`, `NextCut`) is
where the runs of ampersands of even and odd length come in. `CursorCorrect`:
`KeditInv` is `CursorInside` with types; loading is a loop that never has more than `MAX_LINES` lines, nor a line that is too long.
`TerminalCorrect`: `TermInv` says that each row *holds* its line, up to the zero byte, whatever an earlier line left behind
it, and that the last row holds the prompt that was shown and behind it what was typed; adding a line shifts the rows
when the buffer is full, and prints of any number of lines are a loop of that.

**HandlerProofs**. `PointerCorrect`, `BackgroundCorrect`: `PointerInv` follows a USB report through its steps and says which
of the two positions agree at each, as long as no packet tore them apart. `SubscribersCorrect`: `TimerInv` says what the
handler's loop has served so far, what a subscription in progress has assigned, and that a kept event has a slot; the
removal of an entry shifts the array under the loop, and the proof follows each entry to its new slot. `KeysCorrect`:
`KbdInv` says that `prev_keys` is this report below the slot looked at and the one before from there on, and which keys
have been passed on; that a report lists a key once makes them distinct. `TextCorrect`: `ScreenInv` says what the screen
*will be* when the character of the log has been put (`Finish`), that this shows the text of the paper (`Like`), and where
the cursor's row may be at each step of `putchar` (`RowInWindow`: one below the window only between the newline and the end
of the scroll). Every operation on a page preserves `Like` on both pages at once and takes the cursor down, never out of
the window (`Goes`), which is all that a key in the middle of `putchar` needs; a text of any length is a loop of `putchar`.

**DriverProofs**. `EventsCorrect`, `RingsCorrect`, `AddressesCorrect`: `XhciInv` and `NetInv` describe rings as what lies between
two positions modulo the size, with lemmas on going round; `TxInv` follows a packet through the steps of a send that a
ping may cut into, and `ArpInv` adds that the entries in use come first, so that the first free slot is behind them.
`SectorsCorrect`: `DiskInv` says which command a channel may be busy with given where the call is (`CommandsMatch`), unless a
call began while the drive was busy, and that a call for a partition was checked against its table.

**ResourceProofs**. `TransfersCorrect`: `HeldInv` says that at each block to be taken a transfer holds what that row of its
driver's table frees. `ReportsCorrect`: `UsbInv` adds what OHCI's done list holds, in and out of a poll.
`FilesCorrect`: the blocks allocated are those of the descriptors, each of its own, and the one of the call under way. `ModulesCorrect`: `ModInv` ties what a load holds to
the step it is at, so that every exit gives back exactly that, and says that the block it is about to own is nobody's.
`ResolutionCorrect`, `CreationCorrect`: a node that is added comes last and has a name that its directory did not have, so
no look-up along a path that succeeded before is answered differently; the path of a new node is split as that of its
directory and the last name, with any number of slashes between them.

**GuiProofs**. `WindowsCorrect`, `DragCorrect`: `GuiInv` adds types and that every id is below the next one. A launch breaks
the agreement between its two halves, so `Agrees` has the windows with a button as a parameter. Closing and focusing
renumber the windows; one lemma each says which index a window moves to. A drag's pointer is an index, and stays inside
because a click, the only event that closes a window, has reset it first. What an event does to the windows is one lemma
(`HandleStep`), used for interrupts and for the main loop.

What stays with TLC, and why:

- liveness (`FreeTerminates`, `MappingEnds`, `RequestsServed`, `InitEnds`, `ChangesDrawn`, `ReportsHandled`, `DetectionEnds`);
- what a loop computes where the loop's invariant is about texts put together of parts: `EditsAtPoint` and `LoadsAndSaves`
  (lines joined into one text), `PathsMeant` (path strings, split, shortened and joined again).

## 6. Not modelled, and the plan

Not modelled, because nothing that a caller can do reaches it: user space, scheduler, SMP and the graphics manager (only
their initialisation runs: nothing creates a process or a task, `smp_start_aps` and `perform_scheduling` have no
caller), ext4 behind its mount, which always fails. Not modelled, because a model would have no state to be wrong about:
fonts, formatting, PCI enumeration, the clock, the serial port and processor tables (straight-line I/O), the vendored
UEFI and boot loader files. Left out of modelled parts: pixels, the wallpaper, the scroll bar, the text editor's window,
double buffering and the line buffer of GUI mode (Screen), the contents of sections and relocations (Modules), and
`malloc` interrupted by itself, for which the code has no exclusion at all.

Next, in this order:

1. proofs: `EditsAtPoint`;
2. `console_handle_key` split at its assignments, entered from the main loop and from the interrupt handler;
3. GUI mode's line buffer together with Terminal; the text editor's window and the scroll bar.

## 7. Running

In `tla/`: `tlc -config MCHeap.cfg MCHeap` (and likewise for every run of `PROJECT.json`), and `tlapm
HeapProofs.tla` (likewise Loops, MachineProofs, TextProofs, HandlerProofs, DriverProofs, ResourceProofs, GuiProofs).
