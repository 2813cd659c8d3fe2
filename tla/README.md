# TLA+ for TangerineSystem

TangerineSystem is a small 32-bit x86 operating system.  This directory models
its own code: the tool that makes and fills disk images, the boot loader that
reads them, and the kernel that it starts, up to a keyboard that works.

Check a run with `tlc -workers 2 -config MCTfs.cfg MCTfs`, a module's proofs
with `tlapm TfsProofs.tla`.  `PROJECT.json` lists the runs, the mutants of the
definitions that break each property, the source lines of every definition, the
findings, the hazards and the theorems.

## 1. Inventory

| Component | State | Operations | Meets the others through |
|---|---|---|---|
| TFS image tool, `sdk/tfs/tfs.c` | the image; in memory the boot sector, the whole block map, one directory block, the data block | `genfs`, `mkfs`, `bootsect`, `bootloader`, `df`, `ls`, `mkdir`, `add`, `export`; each is one process between `tfs_mount` and `tfs_umount` | the image |
| Boot sector and loader, `boot/` | the geometry, a disk buffer, the address of the block read last, where the kernel goes; the keyboard controller | `disk_init`, `disk_read` with retries, `tfs_find`, `tfs_read_next`, lookup of `/System/Kernel`, load, `a20_init`, unreal and protected mode, jump | the image; the keyboard controller, which the kernel takes over as it is |
| Kernel start, `kernel/kernel.c`, `src/modules.c` | the module table, the arguments | `kernel_init`: the inits in a fixed order, interrupts on, then the modules in a fixed order, each if the scan for signatures found it | every other part of the kernel |
| Interrupt dispatch, `src/handler.c`, `idt*.c`, `isr.c` | handler table, PICs | `isr_set`, `_idt_handler` with the end of interrupt | calls handlers in the middle of any kernel code |
| Timer, `src/timer.c` | tick counter, handler table | tick interrupt, `timer_delay_ticks`, `timer_add_handler` (no caller) | interrupt and main program share both |
| PS/2 bus, `modules/bus_ps2.c` | the lock, a one-byte mailbox, two device slots | read and write with time-outs, interrupt 1, setup of the devices | keyboard, timer, interrupt flag |
| Keyboard, `modules/keyboard_ps2.c` | shift, caps, leds, the flag that ignores input during setup | setup dialogue, scan code handler | PS/2 bus |
| VGA text, debug output | cursor | formatting | nothing depends on it |
| Mouse, IDE, PCI, ISA PnP, serial, parallel, `fs_tfs`, VFS | none yet | empty init functions | - |
| `lib/c`, `sdk/config`, `sdk/cfgboot` | none | byte loops; a build menu; a rewrite of one sector | - |
| `sdk/tinycc` | - | vendored compiler, left out | - |

What is hard in each of them, and what makes it correct:

* **Image tool.**  Directory records and file data are on the image as soon as
  they are written (`block_write` flushes), the map only at the end
  (`tfs_umount`, two copies, block by block).  A process may be killed in
  between, the disk may fill up in the middle of a command (`tfs_alloc` ends the
  process from inside), blocks are reused without being cleared, and the path
  walk keeps a directory address between the parts of a path.  Correct means: no
  block in two forks, none lost, no link into free blocks, the system area
  untouched, files changed only by the command that names them, every command
  ends, and the image mounts again.
* **Loader.**  Reads fail and are retried; the end of a chain and a failed read
  are reported alike; addresses are cut to 16 bits in a test and to ten bits of
  cylinder in a read; a lookup that goes on to a second block copies it over the
  loader's variables.  Correct means: the kernel is entered only when all of its
  blocks were read, the loader reads exactly the chain the tool wrote, and it
  ends.
* **A20.**  The last of the four methods talks to the keyboard controller with
  interrupts off, over status bits that the keyboard changes too.  Correct
  means: the kernel runs with the line on, and what the method leaves in the
  controller neither resets the machine nor keeps the kernel's driver from
  working.
* **Timer.**  A 32-bit counter that wraps, a condition that decides how long a
  delay takes, handlers added while the tick interrupt runs.
* **PS/2 and keyboard.**  The interrupt handler and the main program share a
  one-byte mailbox with interrupts on; time-outs race with answers; a lock spans
  several exchanges; the interrupt handler reads the port that the main program
  polls.  Correct means: no byte lost or read twice, every lock released, each
  answer matched to its command; and above all that the keyboard works when the
  setup is over.
* **Kernel start.**  The order of the inits against the moment interrupts are
  switched on; the module table's limit.

The full list of what tests would hardly reach is under `hazards` in
`PROJECT.json`, each at its line; a hazard that no property covers says why.

## 2. Plan

1. `Tfs`, `TfsFiles`, `FileStore`: the image tool.  *Written.*
2. `TfsInv`, `TfsProofs`, `TfsSafety`: its inductive invariant; types, then the
   ownership of blocks.  `TfsFaults`: kills and a second format.  `TfsForks`:
   chains of blocks, and what `export` hands over.  `TfsDirs`: the directories
   that `mkdir` and `add` make.  *Proved, section 7.*  To come, on the trails of
   `TfsDirs`: that the tool implements `FileStore`, and `KillSparesOthers`.
3. `Geometry`: the size of the map that `cmd_mkfs` computes, for any size of
   disk.  *Written and proved.*
4. `Loader`: the boot loader as a second reader of the image of `Tfs`, over a
   BIOS whose reads fail.  *Written.*
5. `Kbc`, `A20`, `Timer`, `Ps2`, `Machine`, `KeyStore`: loader and kernel one
   after the other on one keyboard controller.  *Written.*
6. `MachineInv`, `MachineProofs`: their inductive invariant, and the proof that the driver implements `KeyStore`.  *Proved.*
7. `LoaderProofs`: what the loader reads and enters, from the invariants of the
   image tool.
   *Proved.*
8. Not begun: the scan for module signatures, with a proof that it finds each
   module once; the second port of the bus and the table of timer handlers once
   something in the kernel uses them.

What composes what:

    FileStore <--implements-- TfsFiles --extends--> Tfs
                                 ^
                              Loader            (tool and loader on one image)

    KeyStore  <--implements-- Ps2 --extends--> Timer, Kbc
                               ^                      ^
                            Machine --extends--> A20 -+   (loader and kernel on
                                                           one controller)

## 3. The modules and the code

### Tfs

`Tfs.tla` is the tool, one process at a time on one image.  Its variables:

| Variable | In the code |
|---|---|
| `boot` | `_bootsect` on the image: signature, root address, the loader in it |
| `disk` | the blocks after the boot sector that hold the loader, directories and files |
| `prim`, `back` | the map on the image and its mirror |
| `map` | `_map`, in memory |
| `pc`, `req`, `ret`, `w` | where the process is, `argv`, the exit status, blocks written so far by a loop that writes several |
| `part_i`, `dir_address`, `dir_first_address`, `dir`, `slot` | the variables of those names in `cmd_mkdir` and `cmd_add`; `slot` is where `file_rec` points |
| `file_address`, `trim_address`, `left` | the data fork; `left` stands for the position in the source, and for `data_size` in `cmd_export` |
| `out` | what `ls` printed or `export` wrote |

A step is at most one `block_write`, so a kill can come between any two writes;
what leads up to the write belongs to the same step.  `Start` is `main` with
`tfs_mount`; `GenFs`/`MkFs`, `FmtBoot`, `FmtRoot`, `FmtZero` are `cmd_mkfs`;
`BootSect` and `BootLoader` the commands of those names; `Found`, `SearchOn`,
`NotFound`, `Insert`, `Clear`, `InsertOn`, `Extend`, `NoRoom` and `WalkDone` the
path walk that `mkdir`, `add`, `ls` and `export` share in form (where they
differ, the action asks for `req.op`); `Write`, `SourceEnds`, `Record`, `Trim`
the data part of `cmd_add`; `List` and `Read` those of `ls` and `export`;
`Umount`, `Unmounted`, `Exit` the end.  `Finish` is the way to `tfs_umount`,
also from inside `tfs_alloc`.  `Kill` is the host ending the process.

Abstractions of the data:

* A block is read as directory records and as file data.  A file's bytes, read
  as records, are records in use with a name that matches nothing (`JunkRec`);
  a directory's bytes, read as data, come from no file.
* Names are model values, and the paths in requests are sequences of names:
  `path_get`'s cutting of strings is not modelled, nor are names longer than a
  record.
* The boot sector and the two copies of the map are variables of their own
  instead of blocks of `disk`.  `WritesStayInDataArea` and `SystemAreaReserved`
  are what makes that sound for commands that work from an intact map; after
  the kill that `kill_format` shows it no longer is, and the run stops there.
* A file's last block is zero behind the end of the source (`FileBlock`, the
  `memset` calls of lines 555 and 560), so that the slots there read as free records; a block of
  the loader reads as records in use throughout (`LoaderBlock`).
* `cmd_mkfs` allocates and clears a quarter of the map (`* 128` where the
  entries have 4 bytes) and then sets the entries of the reserved area.  The
  entries behind the allocation hold what the heap held (`stray`, any value of
  `Heap` for each entry): a type that is EMPTY or not, and a link to any block
  of the disk.  Every type but EMPTY is `JUNK` in the model, the bytes of FILE
  and DIR included: `tfs_alloc` and `df` ask for EMPTY only, `tfs_read_next` for
  the link only, and the properties go by what is pointed to.  A link beyond
  the disk, which ends a chain for `tfs_read_next`, is left out.
* `mkfs` is called with the size that the image has.
* Times, the volume's label, the text of `ls` and `df`, and `data_size`'s
  wrap at 2^32 are left out.

Command lines with missing or wrong arguments, host files that cannot be opened
and failing `fseek`/`fread` on the image end the process without a block
written and are left out.  `add /` and `export /` use uninitialised variables
and are excluded by `RequestsAssumption`.

### TfsFiles, FileStore

`TfsFiles` reads the files off the blocks: `Fork` follows `_map` (`Blocks` to the
end of the chain), `Child` is the first record with a name in the blocks of a
directory, `Steps` and `Walk` go down a path as `cmd_export` does.  `FileStore` is the promise, without blocks: a command works
on one path, changes no other file, and when it reports success the file holds
its source.  `Store == INSTANCE FileStore WITH ...` is the refinement mapping:
the store's files are `FileAt` of every prefix of a path that a request names,
its directories the paths that resolve to one, its job the `add` or `mkdir`
that runs.

### Geometry

`Geometry` takes the numbers of the code, 128 map entries in a block and eight
blocks in front of the map, and any size.  `MkFs` is the arithmetic of
`cmd_mkfs`, `Alloc` a `tfs_alloc` that finds the entries before its last one
taken; `entry` is the index it looks at last.  No block is ever freed here: the
question is only how far the index goes.

### Loader

`Loader` extends `TfsFiles`: its images are those that the commands of the tool
make.  `PowerOn` comes between two commands, `PowerOff` when the loader has
ended, and in between the tool does not run.

| Variable | In the code |
|---|---|
| `lpc` | the place in `stage1.asm` and `stage2.asm`; most labels name the read that comes next |
| `drive`, `heads`, `sects` | the drive as it is; `_disk_heads`, `_disk_sects` as the loader believes it to be |
| `tries` | `si` in `disk_read` |
| `item` | which of `_path_system_dir` and `_path_kernel` is looked up |
| `addr` | `dl:ax` |
| `edi` | where the next block of a directory is copied to |
| `dest` | whether `_kernel_dest` and `_kernel_pos` are still as stage 2 set them |
| `loaded` | the blocks copied to `_kernel_dest` |
| `gaveup` | history: some `disk_read` has used up its attempts |

One action is one attempt of an `int 0x13`, with what the code does on its
result; `DiskRead(Success, Failure)` is the loop of `disk_read`.  `Stage1`,
`HardDisk`, `FloppyStart`, `FloppyTry` find the disk out; `TfsInit` is
`tfs_init`; `Find`, `Match`, `NoMatchHere`, `NextOfDir`, `ReadDir` are
`tfs_find`; `Load`, `NextOfFile`, `ReadFile`, `Enter32` the rest of stage 2.
`Chs` splits an address as `disk_read` does, with ten bits of cylinder, and
`Sector` puts it together as the drive does: a block beyond the last cylinder
reads another one, and that read succeeds.

The stage `astray` is where the model stops to follow the loader, because it
goes by bytes that the model does not know: the root, if the boot sector could
not be read (24 bits of memory that nobody has written, `tfs.asm:9-15`); a
sector behind the image or of another part of it than data blocks, if the
geometry does not reach the block (`DataKnown`, `EntryKnown`); the load of a
block after the copy behind the buffer has overwritten `_kernel_dest` and
`_kernel_pos` (`dest` is FALSE then).  It may do anything there, to its own code
too, so nothing is claimed of it until the machine is switched on again.

Abstractions: stage 1, which repeats its read without a limit, succeeds in the
end; a failed read leaves zeros in the buffer where the code goes on to use it.

### Kbc

`Kbc` is the hardware, modelled from how `a20.asm`, `bus_ps2.c` and
`keyboard_ps2.c` use it: the input buffer `ibf` with the port that was written,
the output buffer `obf`, the request `irq1`, in `ctl` the byte that the
controller waits for, the configuration bits, the port's enable, A20 and reset,
and in `kbd` the queue of bytes to send, the scan code set, and the keys held.
Interrupt 1 is requested by an edge (ICW1 0x11 in `isr.c`): the configuration
byte requests it for a byte that is in the output buffer only if it was off
before, so that a byte which the default handler has answered without reading
it is taken by the loop of `bus_ps2.c:54` and by nothing else.
`AcceptCommand`, `AcceptConfig`, `AcceptOutPort` and `AcceptKeyboard` take the
byte in the input buffer, `Deliver` fills the output buffer, `TypeKey` and
the two actions for extended keys are the user.  A code is of kind `key` (set 1), `raw` (another set, not translated) or
it is an answer.  Two kinds of keys are typed: shift keys, and extended keys
whose codes come with fake shifts (arrows with Num Lock, Print Screen).  The
branches of `_action` for 0xe0 and 0xe1 are empty, so that the byte after a
prefix is handled by itself, and a fake shift (0xe0 0x2a, 0xe0 0xaa, or the
release and press that undo a held shift key) changes `_shift` like a shift key
(`PressExtended`, `ReleaseExtended`; `on` and `off` are the extended keys that
are held with shift switched on or off).  The prefix itself, an extended key's
own code and the codes of all other keys change no state and are left out.  A
raw code may have the value of a shift key's press in set 1 and so may set
`_shift`.  Whether a keyboard clears the codes it has queued when
it gets a command differs between keyboards: both are possible, and `dropped`
remembers it.

### A20

`A20` is `a20_init` with what comes before and after it in stage 2: `First`
tests the line, `Support` asks the BIOS for the methods, `Int15` and `Port92`
try the first two, `TestInput`, `WaitOutput`, `In` and `Out` are the keyboard
method with its program `outs`, `End` the last test.  `wait_bit_2` looks at the
input buffer once and falls into `wait_bit_1`, which waits for the *output*
buffer to be empty; the model has both as they are.  `port` is what `in` read
as the output port: it may be a byte of the keyboard, and then its bit 0, which
resets the machine when it is written back as 0, can be anything (`Restart`).

### Timer, Ps2

`Timer` has the counter with its wrap and the two halves of
`timer_delay_ticks`, `DelayStart` and `DelayEnd`; `start` is the local of the
same name.

`Ps2` is the kernel from the moment `kernel_init` switches interrupts on.  What
the main program has still to do is the sequence `todo` of instructions, at
first `Modules(built)`: the calls that `bus_ps2_init` and
`keyboard_ps2_init` consist of, in the order of `kernel_init`.  A loop puts its
body in front of itself (`Drain`, `Empty`, `Poll`), and a call puts the
instructions of what it calls in front of the rest (`SetDevice` puts
`_setup`, `SetupProgram`).

| Variable | In the code |
|---|---|
| `isr1` | the handler table's entry for interrupt 1 |
| `received` | `_received_main` |
| `initialized`, `device0`, `lock` | `_initialized`, `_bus_ps2_devices[0]`, `_lock` |
| `ignore`, `shift` | `_ignore`, `_shift` |
| `given`, `dropped` | history: what kinds of bytes the scan code handler got; a queued code was dropped |

`IsrSet` ... `Listen` are the instructions, `TickInterrupt` and `Interrupt1`
the two interrupts (`_idt_handler` with `_action_dev_main` and `_action`),
which come between any two instructions, `Devices` and `Typing` the hardware
and the user.  The value of `_received_main` is left out: the only callers of
`bus_ps2_read_main_u8` in `_setup` make no use of it.  An interrupt that is
requested may be taken as late as one likes.

Left out: the clearing of the device table in `bus_ps2_init` and its loop over
registered devices, as `kernel_init` starts the keyboard after the bus and the
table is empty until then; the second port (its handlers are there, no driver sets them), the
caps and lock keys and the leds' bits (`_set_leds` sends the same bytes
whatever they are), and `debug` output.

### KeyStore, Machine

`KeyStore` is the promise: once it is open, typed codes are queued, each is
taken once and in order, and shift changes only by what is taken.
`Keys == INSTANCE KeyStore WITH ...` in `Ps2` maps the queue to the output
buffer followed by what the keyboard has still to send, and `open` to a driver
that listens and whose last command the controller has taken.

`Machine` puts `A20` and `Ps2` on one `Kbc`: `Loading` until the kernel is
entered, `Running` from then on, `Resetting` when the reset line was pulled.
`FairMachineSpec` states the fairness.

### LoaderProofs, MachineInv, MachineProofs

`LoaderProofs` proves, on top of `TfsForks`, what blocks the loader reads, where
its lookup ends and what it enters.
`MachineInv` states the inductive invariant; `MachineProofs` proves it and what
follows from it (section 7).

### TfsInv, TfsProofs, TfsSafety, TfsFaults, TfsForks, TfsDirs

`TfsInv` states the inductive invariants: `Inv` of runs without kills, `DataInv`
with `RootInv` and `FreshInv` of those with kills or a second format.
`TfsProofs` begins with the lemmas on *sites*, the places that hold a block
address: the boot sector, a map entry, a record.  `TfsProofs` and `TfsSafety`
prove the first, `TfsFaults` the second.  `TfsForks` has the chains of blocks and
the walk of `export`, `TfsDirs` the walk of `mkdir` and `add` (section 7).

## 4. Runs

| Run | Asks | Shows |
|---|---|---|
| `structure` | every command, no kills | types; no block in two forks (`NoSharedBlock`), no link to a block that is not in use (`TargetsLive`), none lost (`NoLostBlock`); the system area stays reserved; the image mounts again; every command ends; the invariant of the proofs |
| `files` | names used at one depth only | the tool implements `FileStore`; no file is longer than its fork; `export` returns what is stored; `mkdir` makes what `ls` finds |
| `kill` | kills between any two writes, once the image is formatted | no write into the system area, the root is never given away, files that the killed command did not name are still there when the image mounts |
| `reformat` | `mkfs` on an image in use | the root has no record, the blocks whose entries were cleared are free and the copies of the map agree, whatever the heap held (`FormatEmpties`); what the old file system left never leads a write into the system area |
| `boot` | every image that the commands can make, booted from two hard disks and two floppies, with reads that fail | the kernel that is entered is what was stored, a file whole (`EntersWhole`); what is read on the way is in use, never a free block nor the system area (`ReadsBlocksInUse`, and with `LoaderSound` the invariant of its proof); the lookup fails only if it was not stored (`FindsStoredKernel`); `_kernel_dest` is kept when both names are in the first block of their directories (`DestKept`); from a hard disk the loader ends, or goes astray for a cause that is named (`LoaderEnds`) |
| `machine` | every way through `a20_init`, every set of modules, shift keys and extended keys typed and interrupts taken at any time | the invariant of the proofs; the setup ends (`SetupEnds`) and leaves the keyboard configured (`KeyboardConfigured`); no byte stays unannounced (`ByteIsAnnounced`); no reset, A20 on (`LineStaysOn`); the driver implements `KeyStore`; shift does not stick (`ShiftNeverSticks`) |

The other runs are violations, each of one property:

| Run | The code does | Against |
|---|---|---|
| `add_crossed` | `cmd_add` makes `/y` and then looks for the next part beside it instead of in it: `add /y/x` overwrites `/x` | the usage, "add file." |
| `kill_format` | a `genfs` killed after the signature leaves an image that mounts, and block 0 is given away | "reserved space" |
| `reformat_stale` | after `mkfs`, a directory that grows takes over entries of the former file system; at the end of the trace the root's second block has an entry `u` of the old image whose block 11 the map calls free (`NoRecordOfFreeBlock`) | "format existing image" |
| `map_short` | the size of the map is rounded up with a bitwise `\|`: for 360 and 720 KiB floppies the map ends before the disk does, and `tfs_alloc` reads on behind it | "format existing image or disk" |
| `load_cut` | a read that gives up in the middle of the kernel's chain ends it like an end of the chain, and stage 2 enters what it has | "ret: cf = 1=sucesso \| 0=falha" (`disk.asm:65`), which `tfs_read_next` drops |
| `kernel_answers` | `timer_delay_ticks` compares the wrong way round, so that every delay of `_setup` is over at once and the answers reach the scan code handler | "limpa buffer" (`keyboard_ps2.c:94`) |

**Bounds.**  `TotalBlocks` 10 or 12 with `BootBlocks = 2` and map blocks of 5 or
6 entries, so two map blocks with their mirrors and four or six data blocks:
enough for a root, a directory, a file of three blocks that is cut to one, and
for the disk to be full at each place that allocates.  The run `kill` has 16
blocks and three map blocks of 7 entries, with its four data blocks in two of
them, so that a kill can leave a map that is half old and half new where it
matters.  `DirSlots = 1` makes the second entry of a
directory grow it; `add_crossed` and `reformat_stale` use 2, the latter with six
data blocks, so that a directory can grow into an old directory block while the
disk has free blocks left.  `BlockBytes = 2` with sources of 1
byte and of 3 or 4 bytes gives a file of one short block, one that ends inside
a block and one that ends with one.  `HeapPerBlock = 4` leaves at least one
entry of a data block to what the heap held: EMPTY or not, with a link to the
root, or to the block behind it in the runs with kills (`MCHeap`, `KillHeap`);
`reformat_stale` has fresh memory, which is zero.  A sequence of commands has no
bound: the images are finitely many, and TLC visits them all.  `out` is bounded
by the chains.

In `boot` an image has 12 blocks and map blocks of 6 entries, `DirSlots = 1`, so
that a second name of a directory is in its second block and the lookup has to
go on; `Cylinders = 4` makes the second hard disk (two heads of one sector) end
at block 8 of 12, so that a read can wrap; `LowWord = 10` makes block 10 one
whose low word is 0; `Attempts = 2` is the least with a retry.  `load_cut` has
`LowWord = 64`, so that only a failed read is left as a reason to stop early.
In `machine` there are one shift key and one extended key with two key events
(`MaxKeys`) at any two moments, from two starts (`Starts`: no key down, or the
shift key and the extended key that undoes it), so that fake shifts of both
kinds, their ends and the overlap of the two keys occur; a counter of two values
(`TickValues`), so that it wraps and a delay halts until it has come round; and
one poll of `bus_ps2_read_main_u8` (`ReadTries`).  `kernel_answers` has three
values of the counter, with which a delay also halts without a wrap.  The proofs of section 7
have none of these bounds.  `map_short` takes the sizes of the usual floppies.

**Deadlock** is checked in every run but those of `Machine`: an idle tool can
always be started again, and the loader can be switched off.  A machine really
stops: in `panic` when A20 cannot be switched on, in `wait_bit_1` when the
output buffer stays full, and in the idle loop when all keys are typed.

**Fairness.**  `FairSpec` adds `WF_vars(Step)`: the host goes on scheduling a
process that it has started.  Nothing makes a command start, and `Kill` is
never fair.  Only `Termination` uses it.  `FairBootSpec` adds weak fairness of
the loader's steps: the processor goes on executing it.  A read may still fail
at every attempt.  `FairMachineSpec` adds, once the kernel runs, weak fairness
of the main program, of interrupt 1, of the tick interrupt and of the
controller, none of the user; and strong fairness of the end of a delay.  A
delay that halts looks at the counter after every interrupt and goes on as soon
as it sees a value on which the loop ends; with nothing else to do it sees each
value, so it cannot miss that one for ever.  With 32 bits and a tick of 10 ms
the counter may take 497 days to come round to it: `SetupEnds` says that the
setup ends, not when.  No fairness is assumed in the loader.

## 5. Properties that are false and why the passing runs avoid them

`ImplementsFileStore` fails as soon as a name is used in a directory and in its
parent (`add_crossed`); so the `files` run gives every name one depth, and says
what holds then.  Directories that `add` makes lack `S_IFDIR`, so that `ls` does
not find them and `mkdir` makes them a second time (`AddIsListed` in
`TfsFiles`).  A block that is added to a directory is not cleared, so that `ls`
prints a former file's bytes as entries.  The mount accepts an image of a
killed command with a record whose block is free, as map and mirror agree; so
`KillSparesOthers` speaks of kills of a command that started from an intact
image, and `RootSurvives` of what stays true however often the tool was killed.
A file of a whole number of blocks gets one block more before the end of the
source is seen (`tfs.c:561`), so its `add` fails on a disk with exactly the
room for it; the model does the same, and no property forbids it.
`GeometryAssumption` excludes the sizes of `map_short`; `Geometry` proves which
those are.

A format does not free all blocks: those whose entries lie behind the memory
that `cmd_mkfs` clears (`tfs.c:156`) keep what the heap held there, taken or
linked.  `FormatEmpties` says what holds whatever that was, and claims nothing
of these blocks.  A command that is not killed on an image that is formatted
once never follows such a link, as it is not reached from the root and
`tfs_alloc` clears the entries it gives away; so the properties of `structure`
and `files` need nothing of the heap.  After a kill, or on an image with records
of a former file system, a record may name such a block; so the proofs for those
runs assume that the links do not lead into the system area (`HeapInData`) or to
the root (`HeapOffRoot`).

In the loader:

* The floppy test repeats a failing read instead of going on to the next type,
  and after a good read it goes on to the next, with carry clear
  (`disk.asm:42`).  `FloppyRecognised` in `Loader` is false: a disk of 36
  sectors per track is read as one of 9, and one of fewer sectors is never left.
  So `LoaderEnds` and the properties of what is entered speak of hard disks.
* `Readable` excludes what the loader cannot cope with: a read that gave up, an
  image that reaches beyond the last cylinder, and a chain with a later block
  whose low word is 0 (`tfs.asm:58`).  In each of these cases it may enter a
  kernel that is cut or wrong, or go astray.
* A directory whose second block is looked at overwrites `_kernel_dest`; a load
  after that goes astray.  `DestKept` says when it does not happen.
* That the loader ends without condition is false: after a failed read of the
  boot sector it may follow whatever memory held, in a circle too.  `LoaderEnds`
  lists the three causes (`CausesAstray`).
* `tfs_find` compares names only, so that a directory `/System/Kernel` is loaded
  and entered like a file; `EntersWhole` speaks of its content for a file only.
* That `a20_init` ends is false: in `wait_bit_1` the answer to 0xd0 fills the
  output buffer, interrupts are off, and nobody empties it (`a20.asm:59`).

In the kernel:

* Every delay is over at once unless ticks come between its two looks at the
  counter (`timer.c:44`); so the setup's reads do not wait for answers, and the
  answers reach the scan code handler (`kernel_answers`).  They do no harm there,
  as none is the code of a shift key.
* `_set_leds` sends 0xae to the controller (enable the port) and 0x00 to the
  keyboard, where 0xed would set the leds; the model has the bytes as they are
  sent.
* One flag stands for both shift keys, so shift is off when one of two held
  keys is released.  `ShiftNeverSticks` claims only the other direction, with no
  key held, and excepts what the driver cannot know: codes that were under way
  in another set, and codes that the keyboard dropped.
* With no shift key held, `_shift` is on while an extended key is held that came
  with a fake shift, as the branch for 0xe0 is empty (`keyboard_ps2.c:34`);
  `ShiftNeverSticks` speaks of the time when these keys are up too.

## 6. Assumptions

`GeometryAssumption`: the sizes are positive, the map has an entry for every
block, there is room for the root, and the root's map entry lies in the part of
the map that was allocated.  `HeapAssumption`: what the heap held are map
entries of the disk.  `HeapInData` and `HeapOffRoot` are not assumptions but
hypotheses of the theorems that need them (section 7).  `RequestsAssumption`: requests are command lines
of the tool's commands, with a path for `add` and `export`.
`LoaderAssumption`: a drive has heads and sectors, and a floppy is of one of the
four types; the numbers are positive.  `KbcAssumption`, `TimerAssumption` and
`Ps2Assumption`: any number of key events, any keys down at the start, a fake
shift with the codes of one of the shift keys, a counter of at least one value, any
number of polls, and only the two PS/2 modules in a set of modules.  The second
theorem of `Geometry` assumes of the sizes what the first one shows them to
need.

## 7. Proofs

### The image tool

For every size of disk, set of names and sources and set of requests that the
assumptions allow, and for any sequence of commands that run to their end
(`Spec`; no kill, no `mkfs`):

| Theorem | Says |
|---|---|
| `TypeCorrect` (`TfsProofs`) | `[]TypeOK` |
| `Invariance` (`TfsSafety`) | `[]Inv`, from which the others follow |
| `NoBlockShared`, `TargetsAlwaysLive`, `NoBlockLost` | every block in use belongs to exactly one fork, and no link leads out of the blocks in use |
| `SystemAreaSafe`, `MountsAgain`, `WritesSafe` | the system area stays reserved, the image mounts again, `mkdir` and `add` write to data blocks only |

*The argument.*  That no two places point to one block is not inductive.
`tfs_alloc` takes a block because the map calls it free, so the map must call
every block free that nothing points to and no other: `TargetsLive` and
`NoLostBlock`.  A record counts as a place only in a directory block, so a block
that becomes a directory must not hold stale records in use: `RecordsSound`.
`add` writes a directory buffer that it read many steps earlier, so the buffer
must still agree with the block but for the size and mode of one record:
`BufferSound`, and before it `WalkSound`, which keeps the walk on directory
blocks.  The trim loop holds the only address of the blocks it has still to
free: `TrimSound`.  A mount reads the map back from the image, so `tfs_umount`
must have written all of it, twice: `UmountSound`, which counts blocks.
`Blank` covers the time before the image has a root, `MapSound` the reserved
area.  Their conjunction is `Inv`; TLC checks it in the run `structure`.

*The layout.*  The ownership is reduced to three kinds of step: no
address changes (`SameKeepsOwnership`), one place gets the address of a free
block (`AddKeepsOwnership`: the root, a new record, a new link), one place loses
its address (`CutKeepsOwnership`: the end of `add`, the trim loop).  These and
the types are in `TfsProofs`; `TypeOK` needs `Control`, as records are built from `req`.
`TfsSafety` says what each writing action does to every map entry and every
record (`InsertEffect`, `WriteEffect`, ...) and proves the parts of `Inv` that
do not speak of places, one lemma per part; then it maps each action to one
of the three kinds and concludes.

### The image tool under kills and formats

For kills between any two block writes of a command that does not format
(`KillSpec`), and for any number of formats of an image in use (`ReformatSpec`):

| Theorem (`TfsFaults`) | Says |
|---|---|
| `KilledWritesSafe` | `ASSUME HeapInData PROVE KillSpec => []WritesStayInDataArea` |
| `ReformattedWritesSafe` | `ASSUME HeapInData PROVE ReformatSpec => []WritesStayInDataArea` |
| `RootKept` | `ASSUME HeapInData, HeapOffRoot PROVE KillSpec => []RootSurvives` |
| `FormatLeavesRoot` | `ReformatSpec => []FormatEmpties`, whatever the heap held |

*The hypotheses.*  `HeapInData`: what the heap holds behind the cleared part of
the map links to data blocks or to nothing; `HeapOffRoot`: not to the root.  A
kill can leave a record that names a block whose entry is stray, and a walk then
follows its link: with a link into the system area or to the root what
these theorems claim is not so.  Memory that the host has just mapped,
which is zero, meets both.

*The argument.*  Ownership is lost here: a map that was half written mixes two
maps, and a record may name a free block.  So the invariant says only what holds
of every entry and record by itself and survives any mixture: each link leads to
a data block (a stray one by `HeapInData`) and the system area is reserved, in memory and in both copies
(`MapsSound`); each record with a name leads to a data block, and so does every
address that the walk has taken from one (`WalkData`).  An image that a format
is still writing must not be mounted, which is why kills within a format are
left out (the run `kill_format` shows what happens with them): `FormatControl`.
`FormatCopied` counts the blocks of the map that an unmount has written, so that
the copies of a format agree when it ends.  With these (`DataInv`), `RootInv`
keeps the root: no link leads to it in any of the three maps and its entry is
that of a directory, so `tfs_alloc` does not find it.  `FreshInv` follows a
format from the map it makes on: the root is the first data block, the entries
that were cleared stay so (`Cleared`), the root's records are cleared at the end.
It rests on `FormatInv`, which has no part that speaks of links.

### Chains, file sizes and export

For the same runs as `Inv` (`Spec`), and files and directories of any length:

| Theorem (`TfsForks`) | Says |
|---|---|
| `ForksCover` | `[]ForkCoversSize` |
| `ExportIsExact` | `[]ExportExact` |

*Chains.*  `IsChain(f, a, m)` says that `f` are the blocks of the chain of map `m`
that starts at `a`: linked, ended by 0, none twice.  That every block starts one
(`Chained`) is inductive, given that no two links lead to one block: a new link
to a free block makes the chains that end there longer (`LinkedChain`), a cut
makes them shorter (`ClippedChain`).  Chains are unique (`ChainUnique`), two that
share a block share the rest (`ChainsMeet`), and `Blocks`, the recursive function
of `TfsFiles`, returns them (`BlocksOfChain`).  `Fork` and `Steps` are recursive
functions, so the proof first shows that a function with the recursive equation
exists (`ForksExist`, `FunctionExists`), by induction over the numbers
(`Induct`, from the well-founded order of the naturals).

*Sizes.*  `Covers` says of each record of a file that its chain is as long as its
size asks for; `AddCounts` what holds of the file that `add` writes: the block
that it is at is the k-th of the chain of its record, and the size that the
record in memory has so far is that of the blocks before it.  The size reaches
the image only after the last block, and the trim cuts the chain behind it.

*Export.*  `Trail(S, p, perms, n)` says that the records `S[0]`..`S[n]` lead down
the first `n` parts of a path.  It is the counterpart of `Steps` (`TrailSteps`)
that can be said of the next state too.  `ExportWalk`: the walk has followed a
trail, and no block of the current directory before the one it is at has the
part that it looks for.  `ExportRead`: the loop is at some block of the chain of
the record that the trail ends with, the blocks before it are out, and as many
bytes are left as the size has beyond them.  `ExportDone`: all of the size's
blocks are out, which needs `ForksCover`, as the chain could end before.

### The directories that mkdir makes

| Theorem (`TfsDirs`) | Says |
|---|---|
| `MkdirMade` | `ASSUME Layered PROVE Spec => []MkdirMakes` |

*The hypothesis.*  After `cmd_mkdir` has made a part of a path, it looks for the
next part in the block that holds the new record, and only then in the new
directory (`dir_address` is not set: `tfs.c:392`, `tfs.c:513` in `cmd_add`).  If
the block has a directory of the name of that part, the walk leaves the path, as
`add_crossed` shows.  So the theorem assumes `Layered`: the command lines of
`mkdir` and `add` use no name at two depths.  The requests of the run `files` are
of this kind; `export`, `ls` and `df` may be asked for any path.

*The argument.*  `Levels`: there is a level for each block, 1 for the root, such
that a fork lies at one level, a record leads one level down, and its name is one
of its level.  A free block that becomes part of the tree gets the level it is
used at (`GrownLevels`).  `WalkLevel`: the walk's directory is of the level of the
part it looks for.  So what it finds in a block a level up is nothing: the part
is a name of the level below.  `Searching`, `Inserting` and `Clearing` follow the
walk with a `Trail` of records, of directories for `mkdir`: before a part is
made, every block of its directory was found to lack it (`Lacking`), so that the
new record, in a slot that had none, is the first with the name and the trail
goes on with it (`WalkInserts`).  At the end the trail is as long as the path
(`Made`); `ls`, which takes for each part the first record that has its name and
the directory bit, goes along the same trail (`MadeIsListed`).  This also needed
a stronger `BufferSound`: the directory buffer that `add` writes back has the
names that the image has.

### The size of the map

`MapCoversFitting` (`Geometry`): the map that `cmd_mkfs` computes covers the disk
exactly for the sizes that are a multiple of 128 blocks or whose quotient by 128
is even.  `FittingSizesAlloc`: for any set of such sizes, `tfs_alloc` never looks
behind the map.

### The loader on the tool's images

For every image that commands can make, every drive and geometry, any number of
attempts, and whatever reads fail (`BootSpec`):

| Theorem (`LoaderProofs`) | Says |
|---|---|
| `BootRefinesTool` | `BootSpec => Spec`: what is proved of the tool holds of the images that are booted |
| `LoaderTypes` | `[]LoaderTypeOK`: what it takes for an address is one on the image, or it has gone astray |
| `LoaderStaysSound` | `[]LoaderSound` |
| `InUseRead` | `[]ReadsBlocksInUse` |
| `KernelWhole` | `[]EntersWhole` |
| `KernelFound` | `[]FindsStoredKernel` |
| `DestinationKept` | `[]DestKept` |

*Which blocks.*  The loader starts between two commands, when map and mirror on
the image are the tool's map (`UmountSound`), and from then on the image stays.
So the tool's invariant gives that the root, every link and every record in use
lead to blocks in use (`LinksInUse`).  The loader takes a record for its own if
the name matches and the first record of the block has permissions; that such a
record is in use needs one more fact about the tool, that a record without
permissions has no name (`ImageSound`), which each of the tool's steps keeps.
`LoaderSound` then says that the address is in use as long as no read has given
up, and that the loader has the geometry of a hard disk.  Last, `SplitExact`:
cylinder, head and sector of an address, put together again, are that address,
as long as the disk has the cylinder (`SectorExact`), and the block of the map
with the entry of a block is on the disk (`MapBlockOnDisk`).

*What is entered.*  `KernelInv` says where the loader is on the tool's chains and
trails (`TfsForks`).  `Looks`: the records found so far are a trail of
`/System/Kernel`, and the block at hand is one of the directory that the trail
ends with; no block before it has the name.  `Loads`: the blocks loaded are
those of the chain of the record at the end of the whole trail, up to the one at
hand.  `Fails`: the trail ends at a record that misses the next name.  For the
lookup to find what the tool finds (`NamedHits`), one more fact about the tool
is needed: within a block the records in use come first (`RecordsPacked`), as
`tfs_find` looks at the permissions of the first one only.  For the loop to end
where the chain ends (`ChainEnds`), no later block of the three chains may have
a low word of 0, which `Readable` says.  That the chain has as many blocks as
the size asks for is `ForkInv`, so the loaded blocks begin with the stored ones
(`StoredChain`).  While the machine is on the image does not change
(`StaticImage`), so the invariant is carried along by the steps of `Progress`
alone.  `DestInv`: with both names in first blocks, the loader never asks for a
second block of a directory (`FoundFirst`).

### Loader and kernel on the keyboard controller

For every set of shift keys and of extended keys, any keys down at the start, any
number of key events, every width of the tick
counter, any number of polls and every set of modules (`MachineSpec`):

| Theorem | Says |
|---|---|
| `TypesKept` (`MachineProofs`) | `[]Ps2TypeOK` |
| `LineKept`, `BytesAnnounced` (`MachineProofs`) | `[]LineStaysOn`, `[]ByteIsAnnounced` |
| `MachineInvariance` (`MachineProofs`) | `[]MInv`, from which the next three follow |
| `ConfiguredKept` (`MachineProofs`) | `[]KeyboardConfigured` |
| `DriverImplements` (`MachineProofs`) | `ImplementsKeyStore` |
| `ShiftReleased` (`MachineProofs`) | `[]ShiftNeverSticks` |

*The argument.*  What the controller holds depends on how far the program that
talks to it has come, so the invariant ties the two together.  `A20Sound` says
which tails of the keyboard method's program can be left (`OutsLeft`), and
`ResetSound` that a reset, or the byte that pulls it, is only there within the
method: its last command is written over the input buffer, and so over that
byte.  `KernelWaits` keeps the kernel's state as it was until then.  For the
kernel, `BusFrom(k, todo)` says that what is left to do begins with `BusProgram`
from its k-th instruction on, and `Reached(k)` what that implies: the command
0x60 is in the input buffer or has been accepted, then its argument, and from
then on `Ready`: bytes that come are announced and not translated.  A byte that
came in earlier is the difficulty: if the default handler has answered its
interrupt, nothing requests it again, and it blocks the keyboard until the loop
of the sixth instruction reads it.  From there on every byte in the output
buffer is `Announced`.  `SetupFrom(k, todo)` and `SetupReached(k)` do the same for
the setup of the keyboard, whose reads and delays put any number of
instructions in front of the rest; each of its bytes is either still in the
input buffer or has had its effect, and the next write waits until it has.
`BusInvariance` proves the part of the bus alone, `MachineInvariance` the rest
on top of it.

For `DriverImplements`, `OpenState` shows what is left to happen once the driver
listens and the input buffer is empty: the program is done, so that the main
program does nothing; the controller accepts nothing, so that all it does is to
move a byte from the keyboard to the output buffer, which leaves the queue as it
is (`ByteDelivered`: nothing is translated any more); the interrupt takes the
head of the queue (`ByteTaken`: no request without a byte, `RequestSound`); and
a key typed is appended as a code of set 1 (`KeyTyped`).

For `ShiftReleased`, `ShiftSound` follows the driver through its life: the flag
is off until it listens; from then on, with no shift key held and no extended key
that has sent a fake shift, the last code that is still under way is a release
of a shift key, real or fake, and when none is under way the flag is off.  The lemmas `CodesTaken`, `CodesKept` and `CodeAppended` say
what taking, moving and typing a code do to that last code.  The loader sends
the keyboard neither 0xf0 nor 0xf4 (`LoaderBytes`), so that what the keyboard
drops or sends in another set is the kernel's own doing.

### Only model-checked

* `Termination`, `LoaderEnds` and `SetupEnds` are liveness, which is out of the
  prover's reach.
* `ImplementsFileStore` holds only if no name is used at two depths, like
  `MkdirMakes`, and has no proof yet: one would add to the trails of `TfsDirs`
  what becomes of the records off the path.
* `KillSparesOthers` has no proof yet.  The chains of `TfsForks` are what one
  would build on, but a kill can leave two links to one block.

## 8. Not modelled

* The switches of the processor's mode (`unreal.asm`, `prot.asm`) and the BIOS
  calls for the screen are straight-line code; nothing they set is read by
  another part of the model.
* `modules_find` scans memory for signatures: the model starts from the set of
  modules that it found.  The descriptor tables, the handlers of the other 254
  interrupts and the end-of-interrupt writes are left out.
* The second PS/2 port, `_try_read`, `bus_ps2_read_aux_u8`,
  `bus_ps2_can_read_aux` and `timer_add_handler` have no caller.
* What a failing `int 0x13` leaves in memory and in the registers of the
  geometry call is not known from the source.
* The VGA text output, the debug output and `lib/c` format or copy bytes and
  keep no state that another part reads.  The stubs (mouse, IDE, PCI, ISA PnP,
  serial, parallel, `fs_tfs`, VFS) have nothing to model yet.  `sdk/config` and
  `sdk/cfgboot` are build-time helpers without steps.
* `sdk/tinycc` is a vendored third-party compiler and more than nine tenths of
  the lines in the repository; the share of lines that `map` covers is low for
  that reason.
