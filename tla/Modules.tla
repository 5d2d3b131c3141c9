------------------------------ MODULE Modules ------------------------------
(***************************************************************************)
(* Components (src/core/kernel/module/module.c) and loadable modules        *)
(* (lkm.c, elf_loader.c) with the commands insmod and rmmod.                *)
(*                                                                         *)
(* The boot code registers the built-in modules and enrols their           *)
(* components.  A load takes a file descriptor and blocks of memory one     *)
(* after the other, each step of it may fail, and what it then gives back   *)
(* is written out anew at each place.  The exit functions of the built-in   *)
(* modules are empty and left out.                                          *)
(***************************************************************************)
EXTENDS Naturals, Sequences, SequencesExt, FiniteSets

CONSTANTS BuiltIns,         \* the modules and components of the boot code, in order
          COMPONENT_LIMIT, MAX_LKMS,
          MaxLoads          \* bound: calls of insmod

ASSUME ModulesAssumption == /\ COMPONENT_LIMIT \in Nat /\ MAX_LKMS \in Nat /\ MaxLoads \in Nat
                            /\ BuiltIns \in Seq(STRING) /\ "unknown" \notin Range(BuiltIns)

VARIABLES booted,           \* built-ins registered and enrolled so far
          registered_handlers, \* handler_total being its length
          loaded_lkms,      \* names and blocks; lkm_count being its length
          load,             \* the step a load is at, and what it holds
          loads,
          blocks,           \* auxiliary: blocks of loads that returned, still allocated
          lost,             \* auxiliary: what loads that failed have not given back
          running           \* auxiliary: components started and not shut down

modVars == <<booted, registered_handlers, loaded_lkms, load, loads, blocks, lost, running>>

NotLoading == [at |-> "none", held |-> {}]

ModInit ==
    /\ booted = 0 /\ registered_handlers = <<>> /\ loaded_lkms = <<>>
    /\ load = NotLoading /\ loads = 0 /\ blocks = {} /\ lost = {} /\ running = {}

----------------------------------------------------------------------------
(* Boot and components                                                      *)

lkm_register_builtin ==
    /\ booted < Len(BuiltIns) /\ booted' = booted + 1
    /\ loaded_lkms' = IF Len(loaded_lkms) >= MAX_LKMS THEN loaded_lkms
                      ELSE Append(loaded_lkms, [name |-> BuiltIns[booted'], block |-> 0])
    /\ UNCHANGED <<registered_handlers, load, loads, blocks, lost, running>>

\* A component is started before it is entered, and entered only if that went well.
enroll_component(h) ==
    IF Len(registered_handlers) >= COMPONENT_LIMIT \/ h \in Range(registered_handlers)
    THEN UNCHANGED <<registered_handlers, running>>
    ELSE \/ registered_handlers' = Append(registered_handlers, h) /\ running' = running \cup {h}
         \/ UNCHANGED <<registered_handlers, running>>

Enroll ==
    /\ booted >= Len(BuiltIns) /\ load = NotLoading
    /\ \E h \in Range(BuiltIns) : enroll_component(h)
    /\ UNCHANGED <<booted, loaded_lkms, load, loads, blocks, lost>>

\* The first component of the name is shut down and the ones behind it move up.
remove_component(h) ==
    /\ booted >= Len(BuiltIns) /\ load = NotLoading
    /\ \E i \in DOMAIN registered_handlers :
          /\ registered_handlers[i] = h /\ \A j \in 1..i - 1 : registered_handlers[j] # h
          /\ registered_handlers' = RemoveAt(registered_handlers, i)
          /\ running' = running \ {h}
    /\ UNCHANGED <<booted, loaded_lkms, load, loads, blocks, lost>>

----------------------------------------------------------------------------
(* Loading                                                                  *)

\* insmod: the table may be full.
cmd_insmod ==
    /\ booted >= Len(BuiltIns) /\ load = NotLoading /\ loads < MaxLoads /\ loads' = loads + 1
    /\ load' = IF Len(loaded_lkms) >= MAX_LKMS THEN NotLoading ELSE [at |-> "open", held |-> {}]
    /\ UNCHANGED <<booted, registered_handlers, loaded_lkms, blocks, lost, running>>

\* The steps of elf_load_module and of elf_resolve_symbols below it, in order, and what each
\* takes; "header" takes nothing and fails for a file that is short or not of the right kind.
Takes(s) == [open |-> {"fd"}, header |-> {}, headers |-> {"shdrs"}, strtab |-> {"strtab"}, base |-> {"base"},
             syms |-> {"syms"}, symstr |-> {"symstr"}, relocate |-> {}][s]
After(s) == [open |-> "header", header |-> "headers", headers |-> "strtab", strtab |-> "base", base |-> "syms",
             syms |-> "symstr", symstr |-> "relocate", relocate |-> "return"][s]

\* What is given back where a step fails.
GivesBackAtBase(s) ==
    [open     |-> {},
     header   |-> {"fd"},
     headers  |-> {"fd"},
     strtab   |-> {"shdrs", "fd"},
     base     |-> {"shdrs", "fd"},
     syms     |-> {"base", "strtab", "shdrs", "fd"},
     symstr   |-> {"syms", "base", "strtab", "shdrs", "fd"},
     relocate |-> {"symstr", "syms", "base", "strtab", "shdrs", "fd"},
     init     |-> {"base"}][s]
GivesBack(s) ==
    [open     |-> {},
     header   |-> {"fd"},
     headers  |-> {"fd"},
     strtab   |-> {"shdrs", "fd"},
     base     |-> {"strtab", "shdrs", "fd"},
     syms     |-> {"base", "strtab", "shdrs", "fd"},
     symstr   |-> {"syms", "base", "strtab", "shdrs", "fd"},
     relocate |-> {"symstr", "syms", "base", "strtab", "shdrs", "fd"},
     init     |-> {"base"}][s]

LoadFails ==
    /\ load.at \notin {"none", "return"}
    /\ load' = NotLoading /\ lost' = lost \cup (load.held \ GivesBack(load.at))
    /\ UNCHANGED <<booted, registered_handlers, loaded_lkms, loads, blocks, running>>

elf_load_module ==
    /\ load.at \in {"open", "header", "headers", "strtab", "base"}
    /\ load' = [at |-> After(load.at), held |-> load.held \cup Takes(load.at)]
    /\ UNCHANGED <<booted, registered_handlers, loaded_lkms, loads, blocks, lost, running>>

\* The symbols: the two copies are freed at the end.  A symbol of the kernel never resolves,
\* as kernel_symbol_lookup finds none.
elf_resolve_symbols ==
    /\ load.at \in {"syms", "symstr", "relocate"}
    /\ load' = [at |-> After(load.at),
                held |-> IF load.at = "relocate" THEN load.held \ {"syms", "symstr"}
                         ELSE load.held \cup Takes(load.at)]
    /\ UNCHANGED <<booted, registered_handlers, loaded_lkms, loads, blocks, lost, running>>

\* A file without a symbol table or without relocations.
NoSymbols ==
    /\ load.at = "syms" /\ load' = [load EXCEPT !.at = "return"]
    /\ UNCHANGED <<booted, registered_handlers, loaded_lkms, loads, blocks, lost, running>>

ElfReturns ==
    /\ load.at = "return" /\ load' = [at |-> "init", held |-> load.held \ {"strtab", "shdrs", "fd"}]
    /\ UNCHANGED <<booted, registered_handlers, loaded_lkms, loads, blocks, lost, running>>

\* The module's init function succeeded.  Its name is not looked at.
lkm_load ==
    /\ load.at = "init" /\ load' = NotLoading
    /\ loaded_lkms' = Append(loaded_lkms, [name |-> "unknown", block |-> loads])
    /\ blocks' = blocks \cup {loads} /\ lost' = lost \cup (load.held \ {"base"})
    /\ UNCHANGED <<booted, registered_handlers, loads, running>>

----------------------------------------------------------------------------
\* rmmod: the first module of the name goes, with its memory if it has any.
lkm_unload(name) ==
    /\ booted >= Len(BuiltIns) /\ load = NotLoading
    /\ \E i \in DOMAIN loaded_lkms :
          /\ loaded_lkms[i].name = name /\ \A j \in 1..i - 1 : loaded_lkms[j].name # name
          /\ blocks' = blocks \ {loaded_lkms[i].block}
          /\ loaded_lkms' = RemoveAt(loaded_lkms, i)
    /\ UNCHANGED <<booted, registered_handlers, load, loads, lost, running>>

ModNext == \/ lkm_register_builtin \/ Enroll \/ cmd_insmod \/ LoadFails \/ elf_load_module
           \/ elf_resolve_symbols \/ NoSymbols \/ ElfReturns \/ lkm_load
           \/ \E h \in Range(BuiltIns) : remove_component(h)
           \/ \E name \in Range(BuiltIns) \cup {"unknown"} : lkm_unload(name)

ModSpec == ModInit /\ [][ModNext]_modVars

----------------------------------------------------------------------------
(* Properties                                                               *)

\* Wherever a load fails, no block and no file descriptor of it stays behind
\* (elf_load_module, elf_resolve_symbols, lkm_load); after any series of insmod and rmmod the
\* table lists each block of a loaded module once and none that was freed, within its
\* limit; and the components listed are those that run, each once (enroll_component,
\* remove_component).
ModulesSound ==
    /\ lost = {} /\ (load.at = "none" => load.held = {})
    /\ Len(loaded_lkms) <= MAX_LKMS
    /\ {loaded_lkms[i].block : i \in DOMAIN loaded_lkms} \ {0} = blocks
    /\ \A i, j \in DOMAIN loaded_lkms :
          loaded_lkms[i].block = loaded_lkms[j].block /\ loaded_lkms[i].block # 0 => i = j
    /\ Range(registered_handlers) = running
    /\ \A i, j \in DOMAIN registered_handlers : registered_handlers[i] = registered_handlers[j] => i = j

----------------------------------------------------------------------------
(* What the steps preserve                                                  *)

\* What a load holds before each of its steps.
HeldAt(s) ==
    [none     |-> {},
     open     |-> {},
     header   |-> {"fd"},
     headers  |-> {"fd"},
     strtab   |-> {"fd", "shdrs"},
     base     |-> {"fd", "shdrs", "strtab"},
     syms     |-> {"fd", "shdrs", "strtab", "base"},
     symstr   |-> {"fd", "shdrs", "strtab", "base", "syms"},
     relocate |-> {"fd", "shdrs", "strtab", "base", "syms", "symstr"},
     return   |-> {"fd", "shdrs", "strtab", "base"},
     init     |-> {"base"}][s]

LkmEntry == [name : Range(BuiltIns) \cup {"unknown"}, block : Nat]

\* A load in progress has a place in the table, and no block goes by its number yet.
LoadInv ==
    /\ load = [at |-> load.at, held |-> load.held] /\ load.held = HeldAt(load.at)
    /\ load.at \in {"none", "open", "header", "headers", "strtab", "base", "syms", "symstr", "relocate",
                    "return", "init"}
    /\ load.at # "none" => /\ booted >= Len(BuiltIns) /\ Len(loaded_lkms) < MAX_LKMS
                           /\ loads \notin blocks /\ loads # 0

ModInv ==
    /\ booted \in Nat /\ loads \in Nat /\ registered_handlers \in Seq(Range(BuiltIns))
    /\ loaded_lkms \in Seq(LkmEntry) /\ blocks \subseteq 1..loads
    /\ LoadInv
    /\ ModulesSound
=============================================================================
