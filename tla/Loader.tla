------------------------------- MODULE Loader -------------------------------
(***************************************************************************)
(* The boot loader, boot/: a second reader of the image that the tool of   *)
(* Tfs makes.  The boot sector reads stage 2 (stage1.asm); stage 2 finds   *)
(* out the geometry of the disk (disk.asm), looks up /System/Kernel and    *)
(* loads its blocks one after another (stage2.asm, tfs.asm), through BIOS  *)
(* reads that fail and are retried.                                        *)
(*                                                                         *)
(* The machine is switched on while no command of the tool runs, and off   *)
(* again when the loader has ended.  One action is one attempt to read a   *)
(* sector, with what the loader makes of its result.                       *)
(***************************************************************************)
EXTENDS TfsFiles

CONSTANTS
  SystemName, KernelName,  \* _path_system_dir, _path_kernel
  Drives,                  \* the drives the image may be in
  Attempts,                \* what disk_read tries before it gives up (5)
  Cylinders,               \* values of the cylinder number in an int 0x13 (1024)
  LowWord                  \* values of ax (65536)

FloppyTypes == <<36, 18, 15, 9>>       \* sectors per track that are tried
Names2      == <<SystemName, KernelName>>

ASSUME LoaderAssumption ==
  /\ {SystemName, KernelName} \subseteq Names
  /\ Drives \subseteq [kind: {"hard", "floppy"}, heads: Nat \ {0}, sects: Nat \ {0}]
  /\ \A d \in Drives : d.kind = "floppy" =>
       d.heads = 2 /\ \E i \in 1 .. Len(FloppyTypes) : FloppyTypes[i] = d.sects
  /\ {Attempts, Cylinders, LowWord} \subseteq Nat \ {0}

VARIABLES
  lpc,               \* where the loader is; "off" when the machine is
  drive,             \* the drive the image is in
  heads, sects,      \* _disk_heads, _disk_sects
  tries,             \* si in disk_read
  item,              \* which of Names2 is looked up
  addr,              \* dl:ax, the block read last or to be read next
  edi,               \* where the next directory block is copied to
  dest,              \* _kernel_dest and _kernel_pos are as stage 2 set them
  loaded,            \* the blocks at _kernel_dest, in order
  gaveup             \* some disk_read has used up its attempts (history)

geometry == <<drive, heads, sects>>
lookup   == <<item, addr, edi>>
kernel   == <<dest, loaded>>
lvars    == <<lpc, geometry, tries, lookup, kernel, gaveup>>

NoDrive == [kind |-> "none", heads |-> 1, sects |-> 1]
Off ==
  /\ lpc = "off" /\ drive = NoDrive /\ heads = 1 /\ sects = 1
  /\ tries = Attempts /\ item = 1 /\ addr = 0 /\ edi = "buffer"
  /\ dest = TRUE /\ loaded = << >> /\ gaveup = FALSE

-----------------------------------------------------------------------------
(* disk_read.  The loader splits an address into cylinder, head and sector *)
(* by the geometry it believes in; the BIOS puts them together by that of  *)
(* the drive.                                                              *)
Chs(a)    == [c |-> (a \div (sects * heads)) % Cylinders,
              h |-> (a \div sects) % heads, s |-> a % sects]
Sector(a) == LET p == Chs(a) IN (p.c * drive.heads + p.h) * drive.sects + p.s

(* An address that the loader splits by a geometry which is not the        *)
(* drive's, or whose cylinder is too large, is that of another sector.     *)
(* The blocks from FirstData on are known to the model as records and      *)
(* bytes, a block of the map only as the entries that it has itself.       *)
MapBlock(a)   == BootBlocks + 2 * (a \div EntriesPerBlock)
DataKnown(a)  == Sector(a) \in FirstData .. TotalBlocks - 1
EntryKnown(a) == Sector(MapBlock(a)) = MapBlock(a)
DataAt(a)     == IF DataKnown(a) THEN disk[Sector(a)] ELSE ZeroBlock

(* "astray": the loader goes by bytes that the model does not know, or has *)
(* copied a block over memory that it does not know.  It may do anything   *)
(* from here on, and nothing is claimed of it until the next PowerOn.      *)
(* Goes: the next stage, if what it depends on is sound.                   *)
Goes(sound, stage) == lpc' = IF sound THEN stage ELSE "astray"

(* One attempt of a disk_read: it succeeds, or it fails and is repeated,   *)
(* or it was the last one.                                                 *)
(* Mutants: the attempts are not limited; they start again.                *)
DiskReadUncounted(Success, Failure) ==
  \/ /\ Success
     /\ tries' = Attempts /\ UNCHANGED gaveup
  \/ /\ tries' = tries - 1
     /\ UNCHANGED <<lpc, lookup, kernel, gaveup>>
  \/ /\ tries = 1 /\ tries' = Attempts /\ gaveup' = TRUE
     /\ Failure
DiskReadEndless(Success, Failure) ==
  \/ /\ Success
     /\ tries' = Attempts /\ UNCHANGED gaveup
  \/ /\ tries' = IF tries > 1 THEN tries - 1 ELSE Attempts
     /\ UNCHANGED <<lpc, lookup, kernel, gaveup>>
DiskRead(Success, Failure) ==
  \/ /\ Success
     /\ tries' = Attempts /\ UNCHANGED gaveup
  \/ /\ tries > 1 /\ tries' = tries - 1
     /\ UNCHANGED <<lpc, lookup, kernel, gaveup>>
  \/ /\ tries = 1 /\ tries' = Attempts /\ gaveup' = TRUE
     /\ Failure

-----------------------------------------------------------------------------
(* The boot sector: stage 1 repeats its read until it succeeds.            *)

Bootable == /\ boot.loader # NoSource
            /\ \A a \in 1 .. BootBlocks - 1 : disk[a].bytes.src # NoSource

PowerOn ==
  /\ lpc = "off" /\ pc = "idle" /\ Bootable
  /\ drive' \in Drives
  /\ lpc' = "stage1"
  /\ UNCHANGED <<heads, sects, tries, lookup, kernel, gaveup>>

Stage1 ==
  /\ lpc = "stage1" /\ lpc' = "disk_init"
  /\ UNCHANGED <<geometry, tries, lookup, kernel, gaveup>>

(* disk_init.  A hard disk is asked for its geometry.  On a floppy the     *)
(* last sector of a track is read for each type in turn: a read that       *)
(* fails is repeated for ever, and one that succeeds returns with carry    *)
(* clear, so that the next type is tried.                                  *)
(* Mutant: heads and sectors are exchanged.                                *)
HardDiskSwapped ==
  /\ lpc = "disk_init" /\ drive.kind = "hard"
  /\ heads' = drive.sects /\ sects' = drive.heads
  /\ lpc' = "tfs_init"
  /\ UNCHANGED <<drive, tries, lookup, kernel, gaveup>>
HardDisk ==
  /\ lpc = "disk_init" /\ drive.kind = "hard"
  /\ heads' = drive.heads /\ sects' = drive.sects
  /\ lpc' = "tfs_init"
  /\ UNCHANGED <<drive, tries, lookup, kernel, gaveup>>

FloppyStart ==
  /\ lpc = "disk_init" /\ drive.kind = "floppy"
  /\ heads' = 2 /\ sects' = FloppyTypes[1]
  /\ lpc' = "floppy"
  /\ UNCHANGED <<drive, tries, lookup, kernel, gaveup>>

FloppyTry ==
  /\ lpc = "floppy"
  /\ \/ /\ sects <= drive.sects
        /\ \E i \in 1 .. Len(FloppyTypes) :
             /\ FloppyTypes[i] = sects
             /\ IF i < Len(FloppyTypes)
                  THEN sects' = FloppyTypes[i + 1] /\ UNCHANGED lpc
                  ELSE lpc' = "tfs_init" /\ UNCHANGED sects
     \/ sects > drive.sects /\ UNCHANGED <<lpc, sects>>
  /\ UNCHANGED <<drive, heads, tries, lookup, kernel, gaveup>>

-----------------------------------------------------------------------------
(* tfs_init and tfs_find.  Address 0 is the boot sector in every geometry. *)
(* The carry of tfs_init is not looked at: without the boot sector the     *)
(* root is what the memory of _tfs_root_id held, and the loader goes by it.*)

TfsInit ==
  /\ lpc = "tfs_init"
  /\ DiskRead(/\ lpc' = "find" /\ addr' = boot.root
              /\ UNCHANGED <<item, edi, kernel>>,
              lpc' = "astray" /\ UNCHANGED <<lookup, kernel>>)
  /\ UNCHANGED geometry

Find ==
  /\ lpc = "find"
  /\ DiskRead(/\ Goes(DataKnown(addr), "compare") /\ edi' = "buffer"
              /\ UNCHANGED <<item, addr, kernel>>,
              lpc' = "fail" /\ UNCHANGED <<lookup, kernel>>)
  /\ UNCHANGED geometry

Block0 == DataAt(addr).recs
Unused == Block0[1].perm = "none"      \* the first record's permissions are 0
(* Mutant: the last record of a block is not compared.                     *)
NamedButLast(s) ==
  s < DirSlots /\ ~Unused /\ Block0[s].name = Names2[item]
Named(s) == ~Unused /\ Block0[s].name = Names2[item]

Match ==
  /\ lpc = "compare"
  /\ \E s \in Slots :
       /\ Named(s) /\ \A t \in 1 .. s - 1 : ~Named(t)
       /\ addr' = Block0[s].addr
  /\ IF item = 1 THEN item' = 2 /\ lpc' = "find"
                 ELSE lpc' = "load" /\ UNCHANGED item
  /\ UNCHANGED <<geometry, tries, edi, kernel, gaveup>>

(* After the four comparisons edi points behind the buffer, and there the  *)
(* next block of the directory is copied to.                               *)
NoMatchHere ==
  /\ lpc = "compare" /\ \A s \in Slots : ~Named(s)
  /\ edi' = IF Unused THEN "buffer" ELSE "behind"
  /\ lpc' = "next_dir"
  /\ UNCHANGED <<geometry, tries, item, addr, kernel, gaveup>>

-----------------------------------------------------------------------------
(* tfs_read_next: the map's entry, then the block.  Only the low word of   *)
(* the next address is compared with 0, and a failed read returns as the   *)
(* end of the chain does.                                                  *)

(* Mutant: the end of a chain is not noticed.                              *)
EndsNever(n) == FALSE
Ends(n) == n % LowWord = 0

NextOf(from, to, end) ==
  /\ lpc = from
  /\ DiskRead(LET n == prim[addr].next IN
                /\ Goes(EntryKnown(addr), IF Ends(n) THEN end ELSE to)
                /\ addr' = IF EntryKnown(addr) /\ ~Ends(n) THEN n ELSE addr
                /\ UNCHANGED <<item, edi, kernel>>,
              lpc' = end /\ UNCHANGED <<lookup, kernel>>)
  /\ UNCHANGED geometry

NextOfDir  == NextOf("next_dir", "read_dir", "fail")
NextOfFile == NextOf("next_file", "read_file", "enter")

(* The copy behind the buffer overwrites _kernel_dest and _kernel_pos, and *)
(* _tfs_root_id, which has been used.  The lookup does not notice: it      *)
(* compares what disk_read has put in the buffer itself.                   *)
ReadDir ==
  /\ lpc = "read_dir"
  /\ DiskRead(/\ Goes(DataKnown(addr), "compare") /\ edi' = "buffer"
              /\ dest' = (dest /\ edi = "buffer")
              /\ UNCHANGED <<item, addr, loaded>>,
              lpc' = "fail" /\ UNCHANGED <<lookup, kernel>>)
  /\ UNCHANGED geometry

-----------------------------------------------------------------------------
(* Loading the kernel: its first block, whose carry is not looked at, then *)
(* the rest of the chain.  With _kernel_pos overwritten, a block is copied *)
(* to any place, which may be the loader's own.                            *)

Load ==
  /\ lpc = "load"
  /\ DiskRead(/\ loaded' = <<DataAt(addr).bytes>>
              /\ Goes(dest /\ DataKnown(addr), "next_file")
              /\ UNCHANGED <<lookup, dest>>,
              /\ loaded' = <<ZeroBlock.bytes>>
              /\ lpc' = "next_file" /\ UNCHANGED <<lookup, dest>>)
  /\ UNCHANGED geometry

(* Mutant: _kernel_pos does not advance.                                   *)
ReadFileInPlace ==
  /\ lpc = "read_file"
  /\ DiskRead(/\ loaded' = <<DataAt(addr).bytes>>
              /\ Goes(dest /\ DataKnown(addr), "next_file")
              /\ UNCHANGED <<lookup, dest>>,
              lpc' = "enter" /\ UNCHANGED <<lookup, kernel>>)
  /\ UNCHANGED geometry
ReadFile ==
  /\ lpc = "read_file"
  /\ DiskRead(/\ loaded' = Append(loaded, DataAt(addr).bytes)
              /\ Goes(dest /\ DataKnown(addr), "next_file")
              /\ UNCHANGED <<lookup, dest>>,
              lpc' = "enter" /\ UNCHANGED <<lookup, kernel>>)
  /\ UNCHANGED geometry

(* The arguments are copied, the processor switches to protected mode and  *)
(* jumps to where _kernel_dest points to.                                  *)
Enter32 ==
  /\ lpc = "enter" /\ Goes(dest, "kernel")
  /\ UNCHANGED <<geometry, tries, lookup, kernel, gaveup>>

Ended == {"kernel", "fail", "astray"}
PowerOff ==
  /\ lpc \in Ended
  /\ lpc' = "off" /\ drive' = NoDrive /\ heads' = 1 /\ sects' = 1
  /\ tries' = Attempts /\ item' = 1 /\ addr' = 0 /\ edi' = "buffer"
  /\ dest' = TRUE /\ loaded' = << >> /\ gaveup' = FALSE

-----------------------------------------------------------------------------
LoaderStep ==
  \/ Stage1 \/ HardDisk \/ FloppyStart \/ FloppyTry \/ TfsInit \/ Find
  \/ Match \/ NoMatchHere \/ NextOfDir \/ ReadDir
  \/ Load \/ NextOfFile \/ ReadFile \/ Enter32

BootInit == Init /\ Off
BootNext ==
  \/ lpc = "off" /\ Next /\ UNCHANGED lvars
  \/ (PowerOn \/ LoaderStep \/ PowerOff) /\ UNCHANGED vars

BootSpec     == BootInit /\ [][BootNext]_<<vars, lvars>>
(* The processor goes on executing the loader.                             *)
FairBootSpec == BootSpec /\ WF_<<vars, lvars>>(LoaderStep /\ UNCHANGED vars)

-----------------------------------------------------------------------------
(* Properties.                                                             *)

Stages == {"off", "stage1", "disk_init", "floppy", "tfs_init", "find", "compare",
           "next_dir", "read_dir", "load", "next_file", "read_file", "enter",
           "kernel", "fail", "astray"}

(* Every variable of the loader has its type, and what it takes for an     *)
(* address is one on the image: it goes by nothing but what it has read    *)
(* there, or has gone astray.                                              *)
LoaderTypeOK ==
  /\ lpc \in Stages /\ drive \in Drives \union {NoDrive}
  /\ heads \in Nat \ {0} /\ sects \in Nat \ {0}
  /\ tries \in 1 .. Attempts /\ item \in 1 .. 2 /\ addr \in Addr
  /\ edi \in {"buffer", "behind"} /\ dest \in BOOLEAN
  /\ loaded \in Seq(Bytes) /\ gaveup \in BOOLEAN

KernelFile == Resolve(Names2)
OnHardDisk == drive.kind = "hard"

(* The loader is after the root, or after what it has found from there.    *)
Following ==
  lpc \in {"find", "compare", "next_dir", "read_dir", "load", "next_file", "read_file"}

(* What the loader reads as a directory or as the kernel is a block that   *)
(* some fork of the image has, never a free block and none of the system   *)
(* area: whatever commands made the image, the root, the records and the   *)
(* links that it goes by are sound, and an address is split and put        *)
(* together to the same one (disk.asm:66-88, tfs.asm:26-147).              *)
ReadsBlocksInUse ==
  Following /\ OnHardDisk /\ ~gaveup /\ TotalBlocks <= Cylinders * heads * sects =>
    Sector(addr) \in Addr /\ prim[Sector(addr)].type \in {"FILE", "DIR"}

(* Why it is so, beside the invariant of the tool.  A record without       *)
(* permissions has no name, so that tfs_find, which looks at the           *)
(* permissions of the first record only, finds records in use; an image    *)
(* with a boot sector is formatted.  While the loader runs, no command     *)
(* does; it has the geometry of the disk and follows blocks in use.        *)
Nameless(r) == r.perm = "none" => r.name = NoName
ImageSound ==
  /\ \A a \in Addr, s \in Slots : Nameless(disk[a].recs[s])
  /\ \A s \in Slots : Nameless(dir[s])
  /\ boot.loader # NoSource => boot.sig
LoaderSound ==
  /\ ImageSound
  /\ lpc # "off" => pc = "idle" /\ boot.loader # NoSource
  /\ lpc = "floppy" => ~OnHardDisk
  /\ OnHardDisk /\ lpc \notin {"stage1", "disk_init"} =>
       heads = drive.heads /\ sects = drive.sects
  /\ Following /\ ~gaveup => prim[addr].type \in {"FILE", "DIR"}

(* What the loader relies on: the drive's cylinders reach as far as the    *)
(* image, no read gave up, and no chain that it follows has a later block  *)
(* whose address has a low word of 0 (tfs.asm:58).                         *)
WholeAddresses(r) == \A i \in 2 .. Len(Blocks(r.addr)) : Blocks(r.addr)[i] % LowWord # 0
Readable ==
  /\ OnHardDisk /\ ~gaveup /\ TotalBlocks <= Cylinders * heads * sects
  /\ \A r \in {RootRec, Resolve(<<SystemName>>), KernelFile} : WholeAddresses(r)

(* The kernel that is entered is what the tool stored there, and a file    *)
(* with all of its blocks in their order, if the disk could be read        *)
(* (stage2.asm:77-89).  The type of the record is not looked at: a         *)
(* directory of the name is entered as well.                               *)
EntersWhole ==
  lpc = "kernel" /\ Readable =>
    /\ KernelFile.type \in {"FILE", "DIR"}
    /\ KernelFile.type = "FILE" =>
         /\ Len(loaded) >= BlocksOf(KernelFile.size)
         /\ SubSeq(loaded, 1, BlocksOf(KernelFile.size)) = Stored(KernelFile).data

(* The lookup finds what the tool would find: on a disk that could be read *)
(* it ends in failure only if no command stored the file (tfs_find and     *)
(* cmd_export walk the same records).                                      *)
FindsStoredKernel ==
  lpc = "fail" /\ Readable => KernelFile.type # "FILE"

(* On a disk that could be read the loader keeps the place where it loads  *)
(* the kernel to, and does not go astray, as long as each of the two names *)
(* is in the first block of its directory: the one thing that can go wrong *)
(* there is the copy behind the buffer (tfs.asm:94,128, disk.asm:105-115). *)
InFirstBlock(a, name) == \E s \in Slots : disk[a].recs[s].name = name
DestKept ==
  Readable /\ InFirstBlock(boot.root, SystemName)
           /\ InFirstBlock(Resolve(<<SystemName>>).addr, KernelName) =>
    dest /\ lpc # "astray"

(* From a hard disk the loader gets to the kernel or to the failure        *)
(* message, whichever reads fail (stage2.asm:78-89,109-111): it goes       *)
(* through no circle of the map and waits for nothing.  It does not if it  *)
(* goes astray, and that takes a read that has given up, a load address    *)
(* that was overwritten, or a disk larger than the cylinder number.        *)
CausesAstray == gaveup \/ ~dest \/ TotalBlocks > Cylinders * heads * sects
LoaderEnds == lpc \notin Ended \union {"off"} /\ OnHardDisk
                ~> lpc \in {"kernel", "fail"} \/ (lpc = "astray" /\ CausesAstray)

(* The loader prints "ok" and enters the kernel only with all its blocks   *)
(* in memory.                                                              *)
NeverCutShort ==
  lpc = "kernel" => Len(loaded) >= BlocksOf(KernelFile.size)

(* A floppy is read with the number of sectors that its tracks have.       *)
FloppyRecognised ==
  lpc = "tfs_init" /\ drive.kind = "floppy" => sects = drive.sects

=============================================================================
