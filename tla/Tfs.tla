-------------------------------- MODULE Tfs --------------------------------
(***************************************************************************)
(* The TFS image tool, sdk/tfs/tfs.c.  One process runs one command at a   *)
(* time on one disk image: it mounts the image (reads the boot sector and  *)
(* the block map, checks the map against its mirror), runs the command and *)
(* unmounts (writes the map and its mirror back, block by block).          *)
(*                                                                         *)
(* A format makes an image of TotalBlocks blocks; that mkfs may give the   *)
(* image it finds another size is left out.                                *)
(*                                                                         *)
(* Directory records and file data reach the image at once (block_write    *)
(* flushes); the map is changed in memory and reaches the image only in    *)
(* tfs_umount.  One action is at most one block_write, so that Kill can    *)
(* stop the process between any two writes.                                *)
(***************************************************************************)
EXTENDS Naturals, Sequences

CONSTANTS
  Names,            \* the parts a path is made of
  NoName,           \* the name in a record that no path part matches
  Sources,          \* the host files that can be added
  NoSource,         \* the source of bytes that come from no host file
  SourceBytes,      \* the length of each source file
  Requests,         \* the command lines the tool can be started with
  TotalBlocks,      \* total_disk_blocks
  BootBlocks,       \* blocks before the map: boot sector and loader (8)
  EntriesPerBlock,  \* map entries in a block (128)
  HeapPerBlock,     \* map entries per map block that cmd_mkfs allocates (32)
  Heap,             \* map entries that the memory behind these may hold
  DirSlots,         \* directory records in a block (4)
  BlockBytes        \* bytes in a block (512)

Commands == {"genfs", "mkfs", "bootsect", "bootloader", "df", "ls", "mkdir",
             "add", "export"}

ASSUME RequestsAssumption ==
  /\ NoName \notin Names
  /\ NoSource \notin Sources
  /\ SourceBytes \in [Sources -> Nat]
  /\ Requests \subseteq [op: Commands, path: Seq(Names), src: Sources]
  \* "add /" and "export /" use file_rec and file_address uninitialised.
  /\ \A r \in Requests : r.op \in {"add", "export"} => r.path # << >>

(***************************************************************************)
(* Geometry.  cmd_mkfs computes size / 128 | (size % 128 > 0): the "or"    *)
(* rounds up only when the quotient is even.                               *)
(***************************************************************************)
MapBlocks ==
  LET q == TotalBlocks \div EntriesPerBlock
      r == TotalBlocks % EntriesPerBlock
  IN  IF r > 0 /\ q % 2 = 0 THEN q + 1 ELSE q

FirstData == BootBlocks + 2 * MapBlocks
Addr      == 0 .. TotalBlocks - 1
Entries   == 0 .. MapBlocks * EntriesPerBlock - 1
Slots     == 1 .. DirSlots

ASSUME GeometryAssumption ==
  /\ {TotalBlocks, BootBlocks, EntriesPerBlock, DirSlots, BlockBytes}
       \subseteq Nat \ {0}
  /\ HeapPerBlock \in Nat
  /\ TotalBlocks <= MapBlocks * EntriesPerBlock   \* the map covers the disk
  /\ FirstData < TotalBlocks                      \* room for the root
  /\ FirstData < HeapPerBlock * MapBlocks         \* root entry is on the heap

(***************************************************************************)
(* Data.  A block is the same bytes read in two ways: as directory records *)
(* and as file data.  Bytes of a host file, read as records, are occupied  *)
(* records whose names match nothing ("junk").                             *)
(***************************************************************************)
Types   == {"EMPTY", "FILE", "DIR", "RESERVED", "JUNK"}
MapPtr  == [type: Types, next: Addr]
Perms   == {"none", "plain", "ifdir", "ifreg", "junk"}
Rec     == [perm: Perms, type: Types, addr: Addr, size: Nat,
            name: Names \union {NoName}]
Bytes   == [src: Sources \union {NoSource}, at: Nat]
Block   == [recs: [Slots -> Rec], bytes: Bytes]

EmptyPtr  == [type |-> "EMPTY", next |-> 0]
NoRec     == [perm |-> "none", type |-> "EMPTY", addr |-> 0, size |-> 0,
              name |-> NoName]
JunkRec   == [perm |-> "junk", type |-> "JUNK", addr |-> 0, size |-> 0,
              name |-> NoName]
ZeroBlock == [recs |-> [s \in Slots |-> NoRec],
              bytes |-> [src |-> NoSource, at |-> 0]]
DirBlock(recs) == [recs |-> recs, bytes |-> [src |-> NoSource, at |-> 1]]
(* Block n of a loader is filled up with ones, the last one of a file with *)
(* zeros: a slot that none of its bytes reaches is a free record.          *)
LoaderBlock(src, n) == [recs |-> [s \in Slots |-> JunkRec],
                        bytes |-> [src |-> src, at |-> n]]
FileBlock(src, n) ==
  [recs  |-> [s \in Slots |-> IF (s - 1) * BlockBytes < (SourceBytes[src] - n) * DirSlots
                                THEN JunkRec ELSE NoRec],
   bytes |-> [src |-> src, at |-> n]]

(* An entry of the map that no allocation has written: any byte but that   *)
(* of an EMPTY entry counts as a block in use, whichever it is (tfs_alloc, *)
(* cmd_df), and is "JUNK" here; the bytes of a FILE or DIR entry are too.  *)
ASSUME HeapAssumption == Heap \subseteq [type: {"EMPTY", "JUNK"}, next: Addr]

Chunk(b) == {e \in Entries : e \div EntriesPerBlock = b}

VARIABLES
  boot,               \* the boot sector: [sig, root, loader]
  disk,               \* the blocks that hold loader, directories and files
  prim, back,         \* the map on the image and its mirror
  pc, req, ret,       \* where the process is, its command line, exit status
  map,                \* _map
  part_i, dir_address, dir_first_address, dir, slot,  \* the path walk
  file_address, trim_address,                         \* the data fork
  left,               \* bytes of the data fork still to write or to read
  out,                \* what ls printed or export wrote
  w                   \* blocks written so far by umount or bootloader

image == <<boot, disk, prim, back>>
walk  == <<part_i, dir_address, dir_first_address>>
rec   == <<dir, slot>>
fork  == <<file_address, trim_address, left>>
vars  == <<image, pc, req, ret, map, walk, rec, fork, out, w>>


(***************************************************************************)
(* No process: what its variables hold before main and after its end.      *)
(***************************************************************************)
ZeroMap   == [e \in Entries |-> EmptyPtr]
NoDir     == [s \in Slots |-> NoRec]
NoRequest == [op |-> "none", path |-> << >>, src |-> NoSource]

Init ==
  /\ boot = [sig |-> FALSE, root |-> 0, loader |-> NoSource]
  /\ disk = [a \in Addr |-> ZeroBlock]
  /\ prim = ZeroMap /\ back = ZeroMap /\ map = ZeroMap
  /\ pc = "idle" /\ req = NoRequest /\ ret = 0
  /\ part_i = 1 /\ dir_address = 0 /\ dir_first_address = 0
  /\ dir = NoDir /\ slot = 1
  /\ file_address = 0 /\ trim_address = 0 /\ left = 0
  /\ out = << >> /\ w = 0

ProcessEnds ==
  /\ pc' = "idle" /\ req' = NoRequest /\ ret' = 0
  /\ part_i' = 1 /\ dir_address' = 0 /\ dir_first_address' = 0
  /\ dir' = NoDir /\ slot' = 1
  /\ file_address' = 0 /\ trim_address' = 0 /\ left' = 0
  /\ out' = << >> /\ w' = 0

(* The command is over with exit status code; main goes on to tfs_umount,  *)
(* and so does tfs_alloc before its exit(1) on a full disk.                *)
Finish(code) == pc' = "umount" /\ ret' = code

-----------------------------------------------------------------------------
(* Helpers.                                                                *)

(* tfs_alloc takes the first block whose entry is EMPTY.                   *)
(* Mutant: reserved blocks count as free.                                  *)
IsFirstFreeOrReserved(b) ==
  /\ map[b].type \in {"EMPTY", "RESERVED"}
  /\ \A c \in 0 .. b - 1 : map[c].type \notin {"EMPTY", "RESERVED"}
IsFirstFree(b) == /\ map[b].type = "EMPTY"
                  /\ \A c \in 0 .. b - 1 : map[c].type # "EMPTY"
DiskFull == \A a \in Addr : map[a].type # "EMPTY"
Allocated(b, type) == [map EXCEPT ![b] = [type |-> type, next |-> 0]]
Linked(a, b, type) == [Allocated(b, type) EXCEPT ![a].next = b]

(* tfs_read_next goes on to map[a].next.                                   *)
(* Mutant: the end of the chain is not tested.                             *)
HasNextUnchecked(a, m) == a < TotalBlocks
HasNext(a, m) == a # 0 /\ a < TotalBlocks /\ m[a].next # 0

Here      == disk[dir_address].recs
Part      == req.path[part_i]
MoreParts == part_i < Len(req.path)
Creates   == req.op \in {"mkdir", "add"}

(* What each command takes for an entry of the name it looks for.          *)
Matches(r) ==
  /\ r.name = Part
  /\ IF req.op \in {"add", "export"} THEN r.perm # "none" ELSE r.perm = "ifdir"
FirstMatch(s) == Matches(Here[s]) /\ \A t \in 1 .. s - 1 : ~Matches(Here[t])
FirstHole(s)  == /\ Here[s].perm = "none"
                 /\ \A t \in 1 .. s - 1 : Here[t].perm # "none"
NoMatch == \A s \in Slots : ~Matches(Here[s])
NoHole  == \A s \in Slots : Here[s].perm # "none"

Search == pc = "search" /\ part_i <= Len(req.path)
PathDone == pc = "search" /\ part_i > Len(req.path)

-----------------------------------------------------------------------------
(* main and tfs_mount.                                                     *)

FirstStep(op) ==
  CASE op \in {"ls", "mkdir", "add", "export"} -> "search"
    [] op = "bootsect"   -> "bootsect"
    [] op = "bootloader" -> "bootloader"
    [] op = "df"         -> "umount"

Mountable == boot.sig /\ prim = back

Start(r) ==
  /\ pc = "idle" /\ r.op \notin {"genfs", "mkfs"} /\ Mountable
  /\ pc' = FirstStep(r.op) /\ req' = r /\ map' = prim
  /\ dir_address' = boot.root /\ dir_first_address' = boot.root
  /\ UNCHANGED <<image, ret, part_i, rec, fork, out, w>>

MountFails(r) ==
  /\ pc = "idle" /\ r.op \notin {"genfs", "mkfs"} /\ ~Mountable
  /\ pc' = "exit" /\ req' = r /\ ret' = 1
  /\ UNCHANGED <<image, map, walk, rec, fork, out, w>>

(* tfs_umount: each block of the map, then its mirror.                     *)
Umount ==
  LET b == w \div 2 IN
  /\ pc = "umount" /\ w < 2 * MapBlocks
  /\ w' = w + 1
  /\ \/ /\ w % 2 = 0
        /\ prim' = [e \in Entries |-> IF e \in Chunk(b) THEN map[e] ELSE prim[e]]
        /\ UNCHANGED back
     \/ /\ w % 2 = 1
        /\ back' = [e \in Entries |-> IF e \in Chunk(b) THEN map[e] ELSE back[e]]
        /\ UNCHANGED prim
  /\ UNCHANGED <<boot, disk, pc, req, ret, map, walk, rec, fork, out>>

(* Mutant: the mirror of the last block is not written.                    *)
UnmountedEarly ==
  /\ pc = "umount" /\ w = 2 * MapBlocks - 1
  /\ pc' = "exit"
  /\ UNCHANGED <<image, req, ret, map, walk, rec, fork, out, w>>

Unmounted ==
  /\ pc = "umount" /\ w = 2 * MapBlocks
  /\ pc' = "exit"
  /\ UNCHANGED <<image, req, ret, map, walk, rec, fork, out, w>>

Exit == pc = "exit" /\ ProcessEnds /\ UNCHANGED <<image, map>>

-----------------------------------------------------------------------------
(* cmd_mkfs.  genfs opens the image with "wb+", which empties it; mkfs     *)
(* formats the image as it finds it.  block_write(block, size - 1) sizes   *)
(* the image.                                                              *)

GenFs(r) ==
  /\ pc = "idle" /\ r.op = "genfs"
  /\ boot' = [sig |-> FALSE, root |-> 0, loader |-> NoSource]
  /\ disk' = [a \in Addr |-> ZeroBlock]
  /\ prim' = ZeroMap /\ back' = ZeroMap /\ map' = ZeroMap
  /\ pc' = "fmt_boot" /\ req' = r
  /\ UNCHANGED <<ret, walk, rec, fork, out, w>>

MkFs(r) ==
  /\ pc = "idle" /\ r.op = "mkfs"
  /\ disk' = [disk EXCEPT ![TotalBlocks - 1] = ZeroBlock]
  /\ pc' = "fmt_boot" /\ req' = r
  /\ UNCHANGED <<boot, prim, back, ret, map, walk, rec, fork, out, w>>

(* malloc and memset cover total_map_blocks * 128 bytes, a quarter of the  *)
(* map; the entries after that hold whatever the heap held (stray), except *)
(* for the types that are set: those before the first data block and those *)
(* behind the disk, whose links nothing reads.                             *)
OnHeap == 0 .. HeapPerBlock * MapBlocks - 1
ReservedPtr == [type |-> "RESERVED", next |-> 0]
(* Mutant: the reserved area ends one block early.                         *)
FreshMapShort(stray) ==
  [e \in Entries |-> IF e \notin FirstData - 1 .. TotalBlocks - 1 THEN ReservedPtr
                     ELSE IF e \in OnHeap THEN EmptyPtr ELSE stray[e]]
FreshMap(stray) ==
  [e \in Entries |-> IF e \notin FirstData .. TotalBlocks - 1 THEN ReservedPtr
                     ELSE IF e \in OnHeap THEN EmptyPtr ELSE stray[e]]

FmtBoot ==
  /\ pc = "fmt_boot"
  /\ \E stray \in [Addr \ OnHeap -> Heap] : map' = FreshMap(stray)
  /\ boot' = [boot EXCEPT !.sig = TRUE]
  /\ pc' = "fmt_root"
  /\ UNCHANGED <<disk, prim, back, req, ret, walk, rec, fork, out, w>>

(* Mutant: the root's block is not marked as in use.                       *)
FmtRootUnmarked ==
  /\ pc = "fmt_root"
  /\ \E b \in Addr : IsFirstFree(b) /\ boot' = [boot EXCEPT !.root = b]
  /\ pc' = "fmt_zero"
  /\ UNCHANGED <<disk, prim, back, req, ret, map, walk, rec, fork, out, w>>

FmtRoot ==
  /\ pc = "fmt_root"
  /\ \E b \in Addr :
       /\ IsFirstFree(b)
       /\ map' = Allocated(b, "DIR")
       /\ boot' = [boot EXCEPT !.root = b]
  /\ pc' = "fmt_zero"
  /\ UNCHANGED <<disk, prim, back, req, ret, walk, rec, fork, out, w>>

(* Mutant: the root keeps what its block held.                             *)
FmtZeroSkipped ==
  /\ pc = "fmt_zero"
  /\ Finish(0)
  /\ UNCHANGED <<image, req, map, walk, rec, fork, out, w>>

FmtZero ==
  /\ pc = "fmt_zero"
  /\ disk' = [disk EXCEPT ![boot.root] = ZeroBlock]
  /\ Finish(0)
  /\ UNCHANGED <<boot, prim, back, req, map, walk, rec, fork, out, w>>

-----------------------------------------------------------------------------
(* cmd_bootsect and cmd_bootloader write the area before the map.          *)

BootSect ==
  /\ pc = "bootsect"
  /\ boot' = [boot EXCEPT !.loader = req.src]
  /\ Finish(0)
  /\ UNCHANGED <<disk, prim, back, req, map, walk, rec, fork, out, w>>

BootLoader ==
  /\ pc = "bootloader"
  /\ IF w + 1 < BootBlocks
       THEN /\ disk' = [disk EXCEPT ![w + 1] = LoaderBlock(req.src, w * BlockBytes)]
            /\ w' = w + 1 /\ UNCHANGED <<pc, ret>>
       ELSE Finish(0) /\ w' = 0 /\ UNCHANGED disk
  /\ UNCHANGED <<boot, prim, back, req, map, walk, rec, fork, out>>

(***************************************************************************)
(* The path walk that mkdir, add, ls and export share, one directory block *)
(* at a time.  A command keeps dir_address between path parts: after it    *)
(* creates a part, the next part is first looked for in the block that     *)
(* holds the new record, not in the new directory.                         *)
(***************************************************************************)
NextPart == part_i' = part_i + 1 /\ UNCHANGED <<pc, ret>>

Enter(r) ==      \* mkdir and ls: only directories match
  /\ req.op \in {"mkdir", "ls"}
  /\ dir_address' = r.addr
  /\ dir_first_address' = IF req.op = "mkdir" THEN r.addr ELSE dir_first_address
  /\ NextPart
  /\ UNCHANGED <<dir, slot, file_address, left>>

PathMisused(r) == r.type = IF MoreParts THEN "FILE" ELSE "DIR"

EnterOrOpen(r, s) ==      \* add
  /\ req.op = "add" /\ ~PathMisused(r)
  /\ IF r.type # "FILE"
       THEN /\ dir_address' = r.addr /\ dir_first_address' = r.addr
            /\ dir' = [Here EXCEPT ![s].perm = "ifdir"]
       ELSE /\ UNCHANGED <<dir_address, dir_first_address>>
            /\ dir' = [Here EXCEPT ![s].perm = "ifreg"]
  /\ file_address' = r.addr /\ slot' = s
  /\ NextPart
  /\ UNCHANGED left

Reject(r) ==      \* add: "invalid file path"
  /\ req.op = "add" /\ PathMisused(r)
  /\ Finish(1)
  /\ UNCHANGED <<walk, dir, slot, file_address, left>>

Follow(r) ==      \* export: any record, whatever its type
  /\ req.op = "export"
  /\ dir_address' = r.addr /\ file_address' = r.addr /\ left' = r.size
  /\ NextPart
  /\ UNCHANGED <<dir_first_address, dir, slot>>

Found ==
  /\ Search
  /\ \E s \in Slots :
       /\ FirstMatch(s)
       /\ LET r == Here[s] IN
            Enter(r) \/ EnterOrOpen(r, s) \/ Reject(r) \/ Follow(r)
  /\ UNCHANGED <<image, req, map, trim_address, out, w>>

SearchOn ==
  /\ Search /\ NoMatch /\ HasNext(dir_address, map)
  /\ dir_address' = map[dir_address].next
  /\ UNCHANGED <<image, pc, req, ret, map, part_i, dir_first_address, rec, fork, out, w>>

(* mkdir and add go back to the directory's first block to insert.         *)
NotFound ==
  /\ Search /\ NoMatch /\ ~HasNext(dir_address, map)
  /\ IF Creates
       THEN pc' = "insert" /\ dir_address' = dir_first_address /\ UNCHANGED ret
       ELSE Finish(1) /\ UNCHANGED dir_address
  /\ UNCHANGED <<image, req, map, part_i, dir_first_address, rec, fork, out, w>>

NewType == IF req.op = "add" /\ ~MoreParts THEN "FILE" ELSE "DIR"
(* Mutant: mkdir leaves the directory bit out.                             *)
NewRecPlain(b) ==
  [perm |-> "plain", type |-> NewType, addr |-> b, size |-> 0, name |-> Part]
NewRec(b) ==
  [perm |-> IF req.op = "mkdir" THEN "ifdir" ELSE "plain",
   type |-> NewType, addr |-> b, size |-> 0, name |-> Part]

(* Mutant: the record goes into the first block of the directory.          *)
InsertFirstBlock ==
  /\ pc = "insert"
  /\ \E s \in Slots, b \in Addr :
       /\ FirstHole(s) /\ IsFirstFree(b)
       /\ map' = Allocated(b, NewType)
       /\ dir' = [Here EXCEPT ![s] = NewRec(b)]
       /\ disk' = [disk EXCEPT ![dir_first_address] = DirBlock(dir')]
       /\ slot' = s /\ dir_first_address' = b /\ file_address' = b
  /\ pc' = "clear"
  /\ UNCHANGED <<boot, prim, back, req, ret, part_i, dir_address, trim_address, left, out, w>>

Insert ==
  /\ pc = "insert"
  /\ \E s \in Slots, b \in Addr :
       /\ FirstHole(s) /\ IsFirstFree(b)
       /\ map' = Allocated(b, NewType)
       /\ dir' = [Here EXCEPT ![s] = NewRec(b)]
       /\ disk' = [disk EXCEPT ![dir_address] = DirBlock(dir')]
       /\ slot' = s /\ dir_first_address' = b /\ file_address' = b
  /\ pc' = "clear"
  /\ UNCHANGED <<boot, prim, back, req, ret, part_i, dir_address, trim_address, left, out, w>>

(* The new block is written as zeros after the record that points to it.   *)
Clear ==
  /\ pc = "clear"
  /\ disk' = [disk EXCEPT ![dir_first_address] = ZeroBlock]
  /\ pc' = "search" /\ part_i' = part_i + 1
  /\ UNCHANGED <<boot, prim, back, req, ret, map, dir_address, dir_first_address,
                 rec, fork, out, w>>

InsertOn ==
  /\ pc = "insert" /\ NoHole /\ HasNext(dir_address, map)
  /\ dir_address' = map[dir_address].next
  /\ UNCHANGED <<image, pc, req, ret, map, part_i, dir_first_address, rec, fork, out, w>>

(* A directory without room gets one more block, which is linked and read  *)
(* back as it is: nothing is written to it.                                *)
Extend ==
  /\ pc = "insert" /\ NoHole /\ ~HasNext(dir_address, map)
  /\ \E b \in Addr :
       /\ IsFirstFree(b)
       /\ map' = Linked(dir_address, b, "DIR")
       /\ IF HasNext(dir_address, map')
            THEN dir_address' = b /\ UNCHANGED <<pc, ret>>
            ELSE Finish(1) /\ UNCHANGED dir_address
  /\ UNCHANGED <<image, req, part_i, dir_first_address, rec, fork, out, w>>

NoRoom ==      \* tfs_alloc: "disk is full"
  /\ pc = "insert" /\ DiskFull
  /\ (\E s \in Slots : FirstHole(s)) \/ ~HasNext(dir_address, map)
  /\ Finish(1)
  /\ UNCHANGED <<image, req, map, walk, rec, fork, out, w>>

(* The path is used up: mkdir is done, the others turn to the data.        *)
AfterPath(op) == CASE op = "mkdir"  -> "umount" [] op = "ls"     -> "list"
                   [] op = "add"    -> "write"  [] op = "export" -> "read"
(* Mutant: the size of a file that is overwritten is not reset.            *)
WalkDoneKeepsSize ==
  /\ PathDone
  /\ pc' = AfterPath(req.op)
  /\ left' = IF req.op = "add" THEN SourceBytes[req.src] ELSE left
  /\ UNCHANGED <<image, req, ret, map, walk, rec, file_address, trim_address, out, w>>

WalkDone ==
  /\ PathDone
  /\ pc' = AfterPath(req.op)
  /\ IF req.op = "add"
       THEN dir' = [dir EXCEPT ![slot].size = 0] /\ left' = SourceBytes[req.src]
       ELSE UNCHANGED <<dir, left>>
  /\ UNCHANGED <<image, req, ret, map, walk, slot, file_address, trim_address, out, w>>

-----------------------------------------------------------------------------
(* cmd_add: the data fork, then the record, then the blocks that a shorter *)
(* file leaves over.                                                       *)

(* Mutant: the count that fread returns is not used.                       *)
ReadSizeFull == BlockBytes
ReadSize == IF left < BlockBytes THEN left ELSE BlockBytes      \* fread

(* One pass of the loop: write a block and, after a full block, step to    *)
(* the next one of the chain or to a new one, whether or not the source    *)
(* has more to read.                                                       *)
Write ==
  /\ pc = "write" /\ left > 0
  /\ disk' = [disk EXCEPT ![file_address] =
                FileBlock(req.src, SourceBytes[req.src] - left)]
  /\ dir' = [dir EXCEPT ![slot].size = @ + ReadSize]
  /\ left' = left - ReadSize
  /\ \/ /\ ReadSize < BlockBytes                            \* the last block
        /\ pc' = "record" /\ UNCHANGED <<ret, map, file_address>>
     \/ /\ ReadSize = BlockBytes /\ HasNext(file_address, map)
        /\ file_address' = map[file_address].next
        /\ UNCHANGED <<pc, ret, map>>
     \/ /\ ReadSize = BlockBytes /\ ~HasNext(file_address, map)
        /\ \E b \in Addr :
             /\ IsFirstFree(b)
             /\ map' = Linked(file_address, b, "FILE")
             /\ IF HasNext(file_address, map')
                  THEN file_address' = b /\ UNCHANGED <<pc, ret>>
                  ELSE Finish(1) /\ UNCHANGED file_address
     \/ /\ ReadSize = BlockBytes /\ ~HasNext(file_address, map)
        /\ DiskFull
        /\ Finish(1) /\ UNCHANGED <<map, file_address>>
  /\ UNCHANGED <<boot, prim, back, req, walk, slot, trim_address, out, w>>

SourceEnds ==
  /\ pc = "write" /\ left = 0
  /\ pc' = "record"
  /\ UNCHANGED <<image, req, ret, map, walk, rec, fork, out, w>>

(* Mutants: the last block of the file keeps its link; the blocks that are *)
(* cut off are not freed; the cut is made after the first block; or in the *)
(* directory instead of the file.                                          *)
RecordKeepsLink ==
  /\ pc = "record"
  /\ disk' = [disk EXCEPT ![dir_address] = DirBlock(dir)]
  /\ trim_address' = map[file_address].next
  /\ IF trim_address' = 0 THEN Finish(0) ELSE pc' = "trim" /\ UNCHANGED ret
  /\ UNCHANGED <<boot, prim, back, req, map, walk, rec, file_address, left, out, w>>
RecordNoTrim ==
  /\ pc = "record"
  /\ disk' = [disk EXCEPT ![dir_address] = DirBlock(dir)]
  /\ map' = [map EXCEPT ![file_address].next = 0]
  /\ Finish(0)
  /\ UNCHANGED <<boot, prim, back, req, walk, rec, fork, out, w>>
RecordCutsAtHead ==
  /\ pc = "record"
  /\ disk' = [disk EXCEPT ![dir_address] = DirBlock(dir)]
  /\ trim_address' = map[dir[slot].addr].next
  /\ map' = [map EXCEPT ![dir[slot].addr].next = 0]
  /\ IF trim_address' = 0 THEN Finish(0) ELSE pc' = "trim" /\ UNCHANGED ret
  /\ UNCHANGED <<boot, prim, back, req, walk, rec, file_address, left, out, w>>
RecordCutsDir ==
  /\ pc = "record"
  /\ disk' = [disk EXCEPT ![dir_address] = DirBlock(dir)]
  /\ trim_address' = map[dir_address].next
  /\ map' = [map EXCEPT ![dir_address].next = 0]
  /\ IF trim_address' = 0 THEN Finish(0) ELSE pc' = "trim" /\ UNCHANGED ret
  /\ UNCHANGED <<boot, prim, back, req, walk, rec, file_address, left, out, w>>

Record ==
  /\ pc = "record"
  /\ disk' = [disk EXCEPT ![dir_address] = DirBlock(dir)]
  /\ trim_address' = map[file_address].next
  /\ map' = [map EXCEPT ![file_address].next = 0]
  /\ IF trim_address' = 0 THEN Finish(0) ELSE pc' = "trim" /\ UNCHANGED ret
  /\ UNCHANGED <<boot, prim, back, req, walk, rec, file_address, left, out, w>>

(* Mutant: the block before the one to trim is freed.                      *)
TrimFreesKept ==
  /\ pc = "trim"
  /\ file_address' = trim_address
  /\ trim_address' = map[trim_address].next
  /\ map' = [map EXCEPT ![file_address] = EmptyPtr]
  /\ IF trim_address' = 0 THEN Finish(0) ELSE UNCHANGED <<pc, ret>>
  /\ UNCHANGED <<image, req, walk, rec, left, out, w>>

Trim ==
  /\ pc = "trim"
  /\ file_address' = trim_address
  /\ trim_address' = map[trim_address].next
  /\ map' = [map EXCEPT ![trim_address] = EmptyPtr]
  /\ IF trim_address' = 0 THEN Finish(0) ELSE UNCHANGED <<pc, ret>>
  /\ UNCHANGED <<image, req, walk, rec, left, out, w>>

-----------------------------------------------------------------------------
(* cmd_ls and cmd_export: what they read goes to out.                      *)

List ==
  /\ pc = "list"
  /\ out' = Append(out, {Here[s].name : s \in {t \in Slots : Here[t].perm # "none"}})
  /\ IF HasNext(dir_address, map)
       THEN dir_address' = map[dir_address].next /\ UNCHANGED <<pc, ret>>
       ELSE Finish(0) /\ UNCHANGED dir_address
  /\ UNCHANGED <<image, req, map, part_i, dir_first_address, rec, fork, w>>

(* Mutant: the loop reads the first block again.                           *)
ReadStays ==
  /\ pc = "read"
  /\ out' = IF left > 0 THEN Append(out, disk[file_address].bytes) ELSE out
  /\ left' = left - ReadSize
  /\ IF left > BlockBytes THEN UNCHANGED <<pc, ret>> ELSE Finish(0)
  /\ UNCHANGED <<image, req, map, walk, rec, file_address, trim_address, w>>

(* The loop ends with the data size or with the chain, without an error.   *)
Read ==
  /\ pc = "read"
  /\ out' = IF left > 0 THEN Append(out, disk[file_address].bytes) ELSE out
  /\ left' = left - ReadSize
  /\ IF left > BlockBytes /\ HasNext(file_address, map)
       THEN file_address' = map[file_address].next /\ UNCHANGED <<pc, ret>>
       ELSE Finish(0) /\ UNCHANGED file_address
  /\ UNCHANGED <<image, req, map, walk, rec, trim_address, w>>

-----------------------------------------------------------------------------
(* The process runs one step at a time; Kill is its end at any point.      *)

Step ==
  \/ FmtBoot \/ FmtRoot \/ FmtZero \/ BootSect \/ BootLoader
  \/ Found \/ SearchOn \/ NotFound \/ Insert \/ Clear \/ InsertOn \/ Extend
  \/ NoRoom \/ WalkDone \/ Write \/ SourceEnds \/ Record \/ Trim
  \/ List \/ Read \/ Umount \/ Unmounted \/ Exit

Next == Step \/ \E r \in Requests : Start(r) \/ MountFails(r) \/ GenFs(r)
Spec == Init /\ [][Next]_vars

Kill ==
  /\ pc # "idle"
  /\ ProcessEnds /\ map' = prim
  /\ UNCHANGED image

Formatting == req.op \in {"genfs", "mkfs"}

ReformatSpec == Init /\ [][Next \/ \E r \in Requests : MkFs(r)]_vars
(* Kill once the image is complete; and Kill during the formatting too, as *)
(* soon as the boot sector names the root.                                 *)
KillSpec     == Init /\ [][Next \/ (Kill /\ ~Formatting)]_vars
AnyKillSpec  == Init /\ [][Next \/ (Kill /\ boot.root # 0)]_vars
(* The host schedules the process it has started.                          *)
FairSpec     == Spec /\ WF_vars(Step)

-----------------------------------------------------------------------------
(* Properties.                                                             *)

PCs == {"idle", "fmt_boot", "fmt_root", "fmt_zero", "bootsect", "bootloader",
        "search", "insert", "clear", "write", "record", "trim", "list", "read",
        "umount", "exit"}

(* Every variable of the image and of the process keeps its C type.        *)
TypeOK ==
  /\ boot \in [sig: BOOLEAN, root: Addr, loader: Sources \union {NoSource}]
  /\ disk \in [Addr -> Block]
  /\ prim \in [Entries -> MapPtr] /\ back \in [Entries -> MapPtr]
  /\ map \in [Entries -> MapPtr]
  /\ pc \in PCs /\ ret \in {0, 1} /\ w \in 0 .. BootBlocks + 2 * MapBlocks
  /\ req \in Requests \union {NoRequest}
  /\ part_i \in Nat \ {0} /\ dir_address \in Addr /\ dir_first_address \in Addr
  /\ dir \in [Slots -> Rec] /\ slot \in Slots
  /\ file_address \in Addr /\ trim_address \in Addr /\ left \in Nat

(***************************************************************************)
(* The places that hold a block address: the boot sector (the root), the   *)
(* map entry of a block (the next block of its fork) and a record of a     *)
(* directory block (a data fork).  Address 0 is "none".  An entry that is  *)
(* not in use points nowhere, whatever link it holds: tfs_alloc resets it. *)
(***************************************************************************)
Sites == {<<"boot", 0, 0>>} \union ({"map"} \X Addr \X {0})
           \union ({"rec"} \X Addr \X Slots)
InUse(r) == r.perm \in {"plain", "ifdir", "ifreg"}
InFork(e) == e.type \in {"FILE", "DIR"}
IsRecord(a, s) == map[a].type = "DIR" /\ InUse(disk[a].recs[s])

Target(o) ==
  CASE o[1] = "boot" -> boot.root
    [] o[1] = "map"  -> IF InFork(map[o[2]]) THEN map[o[2]].next ELSE 0
    [] o[1] = "rec"  -> IF IsRecord(o[2], o[3]) THEN disk[o[2]].recs[o[3]].addr ELSE 0
ForkType(o) ==
  CASE o[1] = "boot" -> "DIR"
    [] o[1] = "map"  -> map[o[2]].type
    [] o[1] = "rec"  -> disk[o[2]].recs[o[3]].type

(* No block belongs to two forks, nor twice to one: every block has at     *)
(* most one place that points to it, at every step of every command        *)
(* (tfs_alloc, addr_to_mapptr, the trim loop of cmd_add).                  *)
NoSharedBlock ==
  \A o1, o2 \in Sites : Target(o1) # 0 /\ Target(o1) = Target(o2) => o1 = o2

(* What a place points to is a data block that the map calls a block of    *)
(* that kind of fork: no fork runs into free blocks, into the map or into  *)
(* the loader.                                                             *)
TargetsLive ==
  \A o \in Sites : Target(o) # 0 =>
     /\ Target(o) >= FirstData
     /\ map[Target(o)].type = ForkType(o)
     /\ ForkType(o) \in {"FILE", "DIR"}

(* No block is lost that was allocated: a block the map calls FILE or DIR  *)
(* is pointed to, or is the next one that the trim loop of cmd_add frees.  *)
NoLostBlock ==
  \A a \in Addr : map[a].type \in {"FILE", "DIR"} =>
     \/ \E o \in Sites : Target(o) = a
     \/ pc = "trim" /\ trim_address = a

(* The area before first_data_block stays reserved in memory and in both   *)
(* copies of the map, so that no command gives its blocks away.            *)
SystemAreaReserved ==
  \A e \in 0 .. FirstData - 1 :
     /\ pc \notin {"idle", "fmt_boot", "exit"} => map[e].type = "RESERVED"
     /\ pc = "idle" /\ boot.sig => prim[e].type = "RESERVED"

(* A tool that is not killed leaves an image that it mounts again.         *)
AlwaysMountable == pc = "idle" /\ boot.sig => Mountable

(* No step of mkdir or add writes into the area before the first data      *)
(* block, whatever addresses the records and the map have led it to        *)
(* (block_write at lines 405-407, 532-534, 559 and 573).                   *)
WritesStayInDataArea ==
  /\ pc = "insert" => dir_address >= FirstData
  /\ pc = "clear"  => dir_first_address >= FirstData
  /\ pc = "write"  => file_address >= FirstData
  /\ pc = "record" => dir_address >= FirstData

(* No block is given away that is in use: as long as the root's block is a *)
(* directory block of the map that is in memory, neither tfs_alloc nor the *)
(* trim loop of cmd_add can reach it; so it is for every image that        *)
(* mounts, whenever the tool was killed before.                            *)
RootSurvives ==
  boot.root # 0 /\ ~Formatting /\ Mountable =>
    map[boot.root].type = "DIR" /\ prim[boot.root].type = "DIR"

(* A format leaves a root without an entry in the first data block, also   *)
(* on an image that held files (mkfs), and the map equal to its mirror.    *)
(* Of the other data blocks it leaves those free whose entries cmd_mkfs    *)
(* has cleared; of those behind them nothing can be said (tfs.c:156-171).  *)
FormatEmpties ==
  pc = "exit" /\ Formatting =>
    /\ boot.root = FirstData /\ prim[boot.root] = [type |-> "DIR", next |-> 0]
    /\ \A s \in Slots : disk[boot.root].recs[s].perm = "none"
    /\ \A a \in OnHeap \intersect Addr : a > FirstData => prim[a] = EmptyPtr
    /\ prim = back

(* No entry of a directory leads to a block that is free by the map which  *)
(* the mount accepts (its check at line 91): tfs_alloc would give it away, *)
(* and what is then stored there would be seen under two names.            *)
NoRecordOfFreeBlock ==
  pc = "idle" /\ Mountable =>
    \A a \in Addr, s \in Slots :
       IsRecord(a, s) => prim[disk[a].recs[s].addr].type # "EMPTY"

(* Every command that is started ends.                                     *)
Termination == pc # "idle" ~> pc = "idle"
=============================================================================
