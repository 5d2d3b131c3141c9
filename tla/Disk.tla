-------------------------------- MODULE Disk --------------------------------
(***************************************************************************)
(* ATA drives, the partitions found on them, and the mounting of ext4       *)
(* volumes (src/core/drivers/ata, src/core/drivers/partitions,              *)
(* src/core/fs/ext4).                                                       *)
(*                                                                         *)
(* The driver writes a command to the registers of a channel and polls its  *)
(* status a bounded number of times; the drive works at the same time, and  *)
(* may not be done when the driver gives up.  A drive that is busy takes    *)
(* no command.  An LBA goes to the drive in 28 or in 48 bits.               *)
(***************************************************************************)
EXTENDS Naturals, Sequences, SequencesExt, FiniteSets, FiniteSetsExt

CONSTANTS Drives,           \* 1, 2 on the first channel, 3, 4 on the second
          Tables,           \* what the first sector of a drive may hold
          Ext4Volumes,      \* sectors <<drive, lba>> that hold an ext4 superblock
          Lba28Limit,       \* 0x10000000
          Lba48Limit,       \* 2^48
          MAX_PARTITIONS,
          Retries,          \* tries of a read
          MaxCalls          \* bound: calls after the boot

ASSUME DiskAssumption ==
    /\ Drives \subseteq 1..4 /\ Retries \in Nat \ {0} /\ MAX_PARTITIONS \in Nat
    /\ Lba28Limit \in Nat /\ Lba48Limit \in Nat /\ Lba28Limit < Lba48Limit
    /\ \A t \in Tables : t.kind \in {"mbr", "gpt", "none"} /\ t.entries \in Seq([start : Nat, size : Nat])

\* Where the header of a GPT says that its entries lie, and how large it says they are.
ASSUME HeaderAssumption == \A t \in Tables : t.array_lba \in Nat /\ t.entry_size \in Nat

\* Numbers of sectors have 48 bits: the entries of a GPT lie on its drive, and a partition ends there.
ASSUME SectorsAssumption ==
    \A t \in Tables : /\ t.array_lba + Len(t.entries) <= Lba48Limit
                      /\ \A i \in DOMAIN t.entries : t.entries[i].start + t.entries[i].size <= Lba48Limit

VARIABLES tables,       \* the drives that are there, each with its table
          channel,      \* what each channel's drive does
          call,         \* the call of the driver that is under way
          detecting,    \* the drive ata_init is at; 5 when it is done, 6 when it stopped the kernel
          entry,        \* the entry of the GPT being read
          partitions,
          mount,        \* ext4_mount: "no", "data", "sb", "read", and the blocks it holds
          medium,       \* auxiliary: sectors written, each with the sector its data was meant for
          read,         \* auxiliary: the last sector read, what was asked and what came
          late,         \* auxiliary: a call was begun while its channel was still busy
          calls

diskVars == <<tables, channel, call, detecting, entry, partitions, mount, medium, read, late, calls>>

NoEntry == [start |-> 0, size |-> 0]
NoCall == [op |-> "none", drive |-> 0, lba |-> 0, try |-> 0, at |-> "issue"]
Idle == [st |-> "idle", op |-> "none", drive |-> 0, lba |-> 0]
ChannelOf(d) == (d + 1) \div 2
Hw == channel[ChannelOf(call.drive)]

----------------------------------------------------------------------------
(* The driver                                                               *)

\* The sector the registers name: the 28-bit form keeps the bits below its limit.
AddressedLate(lba) == IF lba > Lba28Limit THEN lba % Lba48Limit ELSE lba % Lba28Limit
Addressed(lba) == IF lba >= Lba28Limit THEN lba % Lba48Limit ELSE lba % Lba28Limit

Begin(op, d, lba) ==
    /\ call' = [op |-> op, drive |-> d, lba |-> lba, try |-> 1, at |-> "issue"]
    /\ late' = (late \/ channel[ChannelOf(d)].st = "busy")

\* The command is written; a busy drive and a missing one do not take it.
Issue ==
    /\ call.op # "none" /\ call.at = "issue"
    /\ channel' = [channel EXCEPT ![ChannelOf(call.drive)] =
          IF Hw.st \in {"busy", "writing"} THEN Hw
          ELSE IF call.drive \notin DOMAIN tables THEN Idle
          ELSE [st |-> "busy", op |-> call.op, drive |-> call.drive, lba |-> Addressed(call.lba)]]
    /\ call' = [call EXCEPT !.at = "poll"]
    /\ UNCHANGED <<tables, detecting, entry, partitions, mount, medium, read, late, calls>>

\* The drive gets ready for data or fails; a write that has its data is done without more.
DriveAnswers ==
    /\ \E c \in DOMAIN channel :
          \/ channel[c].st = "busy" /\ \E s \in {"drq", "err"} : channel' = [channel EXCEPT ![c].st = s]
          \/ channel[c].st = "writing" /\ channel' = [channel EXCEPT ![c] = Idle]
    /\ UNCHANGED <<tables, call, detecting, entry, partitions, mount, medium, read, late, calls>>

----------------------------------------------------------------------------
(* What follows a call that returned                                        *)

NextDrive == detecting' = detecting + 1 /\ entry' = 0 /\ call' = NoCall

\* The entries in use, as many as there is room for, in their order: pick[k] is the k-th.
Listed(entries) ==
    LET used == {i \in DOMAIN entries : entries[i] # NoEntry}
        n == Min({Cardinality(used), MAX_PARTITIONS})
    IN  {[k \in 1..n |-> entries[pick[k]]] :
            pick \in {p \in [1..n -> used] : \A k \in 1..n : Cardinality({i \in used : i <= p[k]}) = k}}

On(d, e) == [drive |-> d, start |-> e.start, size |-> e.size]

\* The entries of a GPT lie side by side in the sectors from array_lba on.
entries_per_sector(t) == 512 \div t.entry_size
EntrySector(t, i) == t.array_lba + (i - 1) \div entries_per_sector(t)

\* A division by an entry size of zero, or by the number of entries of a sector that is too
\* small for one: an exception, and the kernel stops.
Unsized(t) == /\ t.kind = "gpt"
              /\ t.entry_size = 0 \/ (t.entries # <<>> /\ entries_per_sector(t) = 0)
DivideError == detecting' = 6 /\ entry' = 0 /\ call' = NoCall

\* partitions_init: the list starts anew for each drive.  The first sector is an MBR or, in
\* its place, a GPT header; the entries of a GPT are read one by one.
partitions_init(t) ==
    \/ /\ t.kind = "mbr"
       /\ \E list \in Listed(t.entries) : partitions' = [i \in DOMAIN list |-> On(call.drive, list[i])]
       /\ NextDrive
    \/ /\ t.kind = "gpt" /\ t.entries # <<>> /\ ~Unsized(t)
       /\ partitions' = <<>> /\ entry' = 1 /\ Begin("read", call.drive, EntrySector(t, 1))
       /\ UNCHANGED detecting
    \/ /\ t.kind = "none" \/ (t.kind = "gpt" /\ t.entries = <<>> /\ ~Unsized(t))
       /\ partitions' = <<>> /\ NextDrive
    \/ /\ Unsized(t)
       /\ partitions' = <<>> /\ DivideError

ReadEntry(e) ==
    /\ partitions' = IF e = NoEntry THEN partitions ELSE Append(partitions, On(call.drive, e))
    /\ IF entry < Len(tables[call.drive].entries) /\ Len(partitions') < MAX_PARTITIONS
       THEN /\ entry' = entry + 1 /\ UNCHANGED detecting
            /\ Begin("read", call.drive, EntrySector(tables[call.drive], entry'))
       ELSE NextDrive

\* str_copy stops at the first NUL byte; the block size is a small number in four bytes.
SuperblockFields == <<"s_inodes_count", "s_blocks_count", "s_log_block_size", "s_blocks_per_group",
                      "s_inodes_per_group", "s_magic">>
HasNul(f) == f = "s_log_block_size"
Copied == {SuperblockFields[i] : i \in {j \in DOMAIN SuperblockFields :
              \A k \in 1..j - 1 : ~HasNul(SuperblockFields[k])}}
ValidMagic(s) == s \in Ext4Volumes /\ "s_magic" \in Copied

\* A mount ends with the result and the blocks it has not freed.
Mounted(result, held) == mount' = [at |-> result, held |-> held]

MountRead(s) ==
    IF ValidMagic(s) THEN Mounted("mounted", {"data"}) ELSE Mounted("failed", {})

\* The call that returned was made by ata_init, by ext4_mount, or by a caller of partitions.
CallReturns(ok) ==
    \/ /\ call.op = "identify"
       /\ IF ok THEN Begin("read", call.drive, 0) /\ UNCHANGED <<detecting, entry>> ELSE NextDrive
       /\ UNCHANGED <<partitions, mount>>
    \/ /\ call.op = "read" /\ detecting <= 4
       /\ IF ~ok THEN NextDrive /\ partitions' = IF entry = 0 THEN <<>> ELSE partitions
          ELSE IF entry = 0 THEN partitions_init(tables[Hw.drive])
          ELSE ReadEntry(tables[Hw.drive].entries[entry])
       /\ UNCHANGED mount
    \/ /\ call.op = "write" \/ (call.op = "read" /\ detecting > 4)
       /\ call' = NoCall /\ UNCHANGED <<detecting, entry, partitions>>
       /\ IF mount.at # "read" THEN UNCHANGED mount
          ELSE IF ok THEN MountRead(<<Hw.drive, Hw.lba>>) ELSE Mounted("failed", {})

----------------------------------------------------------------------------
(* The poll                                                                 *)

\* A request for data ends the poll well: the data is taken, or given and followed by a
\* command that flushes the cache.
ata_poll_good ==
    /\ call.op # "none" /\ call.at = "poll" /\ Hw.st = "drq"
    /\ IF call.op = "write"
       THEN /\ medium' = IF Hw.op # "write" THEN medium
                         ELSE [s \in DOMAIN medium \cup {<<Hw.drive, Hw.lba>>} |->
                                 IF s = <<Hw.drive, Hw.lba>> THEN <<call.drive, call.lba>> ELSE medium[s]]
            /\ channel' = [channel EXCEPT ![ChannelOf(call.drive)].st =
                             IF Hw.op = "write" THEN "writing" ELSE "idle"]
            /\ call' = [call EXCEPT !.at = "flush"]
            /\ UNCHANGED <<detecting, entry, partitions, mount, read, late>>
       ELSE /\ channel' = [channel EXCEPT ![ChannelOf(call.drive)] = Idle]
            /\ read' = [asked |-> <<call.op, call.drive, call.lba>>, came |-> <<Hw.op, Hw.drive, Hw.lba>>]
            /\ CallReturns(TRUE)
            /\ UNCHANGED <<medium, late>>
    /\ UNCHANGED <<tables, calls>>

\* An error of the drive, or so many looks at the status that the poll gives up: a read is
\* tried again, anything else fails.
RetryUncounted == call' = [call EXCEPT !.at = "issue"]
Retry == call' = [call EXCEPT !.at = "issue", !.try = @ + 1]

ata_poll_bad ==
    /\ call.op # "none" /\ call.at = "poll" /\ Hw.st # "drq"
    /\ IF call.op = "read" /\ call.try < Retries
       THEN Retry /\ UNCHANGED <<detecting, entry, partitions, mount>>
       ELSE CallReturns(FALSE)
    /\ UNCHANGED <<tables, channel, medium, read, late, calls>>

\* After the flush the driver polls for a request for data as well, and none comes.
FlushFails ==
    /\ call.at = "flush" /\ Hw.st # "drq"
    /\ CallReturns(FALSE)
    /\ UNCHANGED <<tables, channel, medium, read, late, calls>>

----------------------------------------------------------------------------
(* Operations                                                               *)

DiskInit ==
    /\ \E there \in SUBSET Drives : tables \in [there -> Tables]
    /\ channel = [c \in {1, 2} |-> Idle]
    /\ call = NoCall /\ detecting = 1 /\ entry = 0 /\ partitions = <<>>
    /\ mount = [at |-> "no", held |-> {}]
    /\ medium = [s \in {} |-> s] /\ read = [asked |-> <<>>, came |-> <<>>] /\ late = FALSE /\ calls = 0

\* The four drives are identified one after the other.
ata_init ==
    /\ detecting \in 1..4 /\ call = NoCall
    /\ Begin("identify", detecting, 0)
    /\ UNCHANGED <<tables, channel, detecting, entry, partitions, mount, medium, read, calls>>

Free == detecting = 5 /\ call = NoCall /\ calls < MaxCalls /\ calls' = calls + 1

\* partitions_read_sector, partitions_write_sector: the index and the sector are checked.
InPartition(i, lba) == i \in DOMAIN partitions /\ lba < partitions[i].size

PartitionCall(op, i, lba) ==
    IF InPartition(i, lba)
    THEN Begin(op, partitions[i].drive, partitions[i].start + lba)
    ELSE UNCHANGED <<call, late>>

partitions_sector ==
    /\ Free /\ mount.at \notin {"data", "sb", "read"}
    /\ \E op \in {"read", "write"}, i \in 1..MAX_PARTITIONS + 1 :
          \E lba \in 0..Lba28Limit : PartitionCall(op, i, lba)
    /\ UNCHANGED <<tables, channel, detecting, entry, partitions, mount, medium, read>>

\* ext4_mount of a partition: two blocks of memory, the third sector of the partition, and
\* the test of the copied superblock's magic.
ext4_mount ==
    /\ Free /\ mount.at \notin {"data", "sb", "read"}
    /\ \/ mount' = [at |-> "data", held |-> {"data"}]
       \/ mount' = [at |-> "failed", held |-> {}]
    /\ UNCHANGED <<tables, channel, call, detecting, entry, partitions, medium, read, late>>

MountBuffer ==
    /\ mount.at = "data"
    /\ \/ mount' = [at |-> "sb", held |-> mount.held \cup {"sb"}]
       \/ mount' = [at |-> "failed", held |-> {}]
    /\ UNCHANGED <<tables, channel, call, detecting, entry, partitions, medium, read, late, calls>>

MountSector ==
    /\ mount.at = "sb"
    /\ \E i \in 1..MAX_PARTITIONS + 1 :
          /\ PartitionCall("read", i, 2)
          /\ mount' = IF InPartition(i, 2) THEN [mount EXCEPT !.at = "read"]
                      ELSE [at |-> "failed", held |-> {}]
    /\ UNCHANGED <<tables, channel, detecting, entry, partitions, medium, read, calls>>

DriverStep == ata_init \/ Issue \/ ata_poll_good \/ ata_poll_bad \/ FlushFails \/ MountBuffer \/ MountSector
DiskNext == DriverStep \/ DriveAnswers \/ partitions_sector \/ ext4_mount
DiskSpec == DiskInit /\ [][DiskNext]_diskVars /\ WF_diskVars(DriverStep)

----------------------------------------------------------------------------
(* Properties                                                               *)

\* What is read is the sector that was asked for and what is written goes to the sector it
\* was meant for, on either side of the 28-bit limit and through retries, unless a call
\* found a drive still busy with a command given up before (ata_read_sector,
\* ata_write_sector, ata_identify).  Even then a sector that is written lies within a
\* partition of the table of its drive, and the listed partitions are entries of one
\* drive's table (partitions_init, partitions_write_sector).  The kernel stops while drives
\* are detected only for a GPT whose header gives its entries no possible size.
SectorsRight ==
    /\ ~late => /\ read.asked = read.came
                /\ \A s \in DOMAIN medium : medium[s] = s
    /\ \A s \in DOMAIN medium : \E i \in DOMAIN tables[s[1]].entries :
          LET e == tables[s[1]].entries[i] IN s[2] \in e.start..e.start + e.size - 1
    /\ \A i \in DOMAIN partitions :
          /\ partitions[i].drive = partitions[1].drive
          /\ \E j \in DOMAIN tables[partitions[i].drive].entries :
                On(partitions[i].drive, tables[partitions[i].drive].entries[j]) = partitions[i]
    /\ detecting = 6 => \E d \in DOMAIN tables : Unsized(tables[d])

Ops == {"identify", "read", "write"}
DiskTypeOK ==
    /\ DOMAIN tables \subseteq Drives /\ \A d \in DOMAIN tables : tables[d] \in Tables
    /\ channel \in [{1, 2} -> [st : {"idle", "busy", "drq", "err", "writing"}, op : Ops \cup {"none"},
                               drive : 0..4, lba : 0..Lba48Limit - 1]]
    /\ call \in [op : Ops \cup {"none"}, drive : 0..4, lba : 0..Lba48Limit - 1, try : Nat,
                 at : {"issue", "poll", "flush"}]
    /\ call.op # "none" => call.drive \in 1..4
    /\ detecting \in 1..6 /\ entry \in Nat /\ late \in BOOLEAN
    /\ partitions \in Seq([drive : 1..4, start : Nat, size : Nat])

\* Which calls are under way when: ata_init identifies a drive and reads its table, entry by
\* entry; a mount holds nothing up until it reads.
CallsInOrder ==
    /\ call.op = "identify" => detecting <= 4
    /\ call.op = "write" => detecting = 5
    /\ call.at = "flush" => call.op = "write"
    /\ mount.at \in {"data", "sb"} => call.op = "none" /\ detecting = 5
    /\ detecting = 6 => call.op = "none" /\ \E d \in DOMAIN tables : Unsized(tables[d])
    /\ entry > 0 => /\ call.op = "read" /\ detecting <= 4 /\ call.drive \in DOMAIN tables
                    /\ ~Unsized(tables[call.drive]) /\ tables[call.drive].kind = "gpt"
                    /\ entry \in DOMAIN tables[call.drive].entries
                    /\ \A i \in DOMAIN partitions : partitions[i].drive = call.drive

\* A command on a channel was taken by a drive that is there.  It is the one of the call under
\* way, unless that call came late; while drives are detected it is in any case, for a read
\* follows a call that ended well.
CommandOf(c) == c.op = call.op /\ c.drive = call.drive /\ c.lba = call.lba
CommandsMatch ==
    /\ \A c \in {1, 2} : channel[c].st \in {"busy", "drq"} => channel[c].drive \in DOMAIN tables
    /\ call.op # "none" /\ (~late \/ (call.op = "read" /\ detecting <= 4)) =>
          /\ Hw.st = "busy" => CommandOf(Hw)
          /\ Hw.st = "drq" /\ call.at = "poll" => CommandOf(Hw)

\* Every write that is asked for, sent or done is of a sector of a partition.
InTable(d, lba) ==
    /\ d \in DOMAIN tables
    /\ \E i \in DOMAIN tables[d].entries :
          LET e == tables[d].entries[i] IN lba \in e.start..e.start + e.size - 1
WritesInside ==
    /\ call.op = "write" => InTable(call.drive, call.lba)
    /\ \A c \in {1, 2} : channel[c].op = "write" => InTable(channel[c].drive, channel[c].lba)
    /\ \A s \in DOMAIN medium : InTable(s[1], s[2])

PartitionsListed ==
    \A i \in DOMAIN partitions :
        /\ partitions[i].drive = partitions[1].drive /\ partitions[i].drive \in DOMAIN tables
        /\ \E j \in DOMAIN tables[partitions[i].drive].entries :
              On(partitions[i].drive, tables[partitions[i].drive].entries[j]) = partitions[i]

\* What every step of the driver and of the drives preserves.
DiskInv ==
    /\ DiskTypeOK /\ CallsInOrder /\ CommandsMatch /\ WritesInside /\ PartitionsListed
    /\ ~late => /\ read.asked = read.came
                /\ \A s \in DOMAIN medium : medium[s] = s

\* A partition with an ext4 superblock whose sector is read is mounted ("Supported file
\* systems: ext4", src/Documentation/1.2-FS): the superblock is copied as a string.
Ext4Mounts ==
    [][mount.at = "read" /\ mount'.at # "read" /\ read' # read /\ <<read'.came[2], read'.came[3]>> \in Ext4Volumes
       => mount'.at = "mounted"]_diskVars
=============================================================================
