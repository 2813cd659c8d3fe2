------------------------------- MODULE TfsInv ------------------------------
(***************************************************************************)
(* The inductive invariant of Tfs: what holds between any two block writes *)
(* of a tool that is not killed.  Its parts are named for what they tie    *)
(* together; TfsProofs proves that every step keeps them.                  *)
(***************************************************************************)
EXTENDS Tfs

Formatted == pc \notin {"idle", "exit", "fmt_boot"}
Walking   == pc \in {"search", "insert"} /\ Creates /\ part_i <= Len(req.path)

(* Where the process is, and for which command.                            *)
Control ==
  /\ pc # "idle" => req \in Requests
  /\ pc = "idle" => part_i = 1
  /\ pc \in {"search", "list", "read"} => req.op \in {"ls", "mkdir", "add", "export"}
  /\ pc \in {"insert", "clear"} => Creates /\ part_i <= Len(req.path)
  /\ pc \in {"write", "record", "trim"} => req.op = "add"
  /\ pc = "write" => left <= SourceBytes[req.src]
  /\ pc \notin {"bootloader", "umount", "exit"} => w = 0
  /\ Formatted => boot.sig

(* Before the boot sector names a root, the image holds nothing.           *)
Blank ==
  /\ pc \in {"fmt_boot", "fmt_root"} \/ ~boot.sig =>
       boot.root = 0 /\ \A e \in Entries : map[e].type \notin {"FILE", "DIR"}
  /\ pc \in {"fmt_boot", "fmt_root", "fmt_zero"} \/ ~boot.sig =>
       \A a \in Addr, s \in Slots : ~InUse(disk[a].recs[s])
  /\ pc \notin {"fmt_boot", "fmt_root"} /\ boot.sig => boot.root # 0

(* The map: what is in use is a data block, and the system area is         *)
(* reserved from the write of the boot sector on.                          *)
MapSound ==
  /\ \A e \in Entries : map[e].type \in {"FILE", "DIR"} =>
                          e \in Addr /\ e >= FirstData
  /\ boot.sig /\ pc # "fmt_boot" =>
       \A e \in 0 .. FirstData - 1 : map[e].type = "RESERVED"

(* Records in use lie in directory blocks; junk has no name.               *)
RecordsSound ==
  \A a \in Addr, s \in Slots :
    LET r == disk[a].recs[s] IN
      /\ InUse(r) => /\ map[a].type = "DIR" /\ r.addr # 0
                     /\ r.perm = "ifdir" => r.type = "DIR"
                     /\ r.type \in {"FILE", "DIR"}
      /\ r.perm = "junk" => r.name = NoName

(* The walk of mkdir and add stays on directory blocks.                    *)
WalkSound ==
  /\ Walking => map[dir_address].type = "DIR" /\ map[dir_first_address].type = "DIR"
  /\ pc = "clear" =>
       /\ map[dir_address].type = "DIR" /\ map[dir_first_address].type = NewType
       /\ \A s \in Slots : ~InUse(disk[dir_first_address].recs[s])
       /\ dir = Here

(* The file that add writes: its directory buffer differs from the block   *)
(* only in the size and the mode of its own record.                        *)
FileOpen == pc \in {"write", "record"} \/ (PathDone /\ req.op = "add")
                                       \/ (pc = "clear" /\ NewType = "FILE")
BufferSound ==
  FileOpen =>
    /\ map[dir_address].type = "DIR" /\ map[file_address].type = "FILE"
    /\ \A s \in Slots : s # slot => dir[s] = Here[s]
    /\ InUse(Here[slot]) /\ dir[slot].perm \in {"plain", "ifreg"}
    /\ dir[slot].addr = Here[slot].addr /\ dir[slot].name = Here[slot].name
    /\ dir[slot].type = Here[slot].type /\ Here[slot].type = "FILE"

(* The blocks that add still has to free belong to nobody else.            *)
TrimSound ==
  pc = "trim" => /\ map[trim_address].type = "FILE"
                 /\ \A o \in Sites : Target(o) # trim_address

(* How far tfs_umount has got with the map and with its mirror.            *)
UmountSound ==
  /\ pc \in {"idle", "exit"} => prim = map /\ back = map
  /\ pc = "umount" =>
       /\ w <= 2 * MapBlocks
       /\ \A e \in Entries :
            /\ 2 * (e \div EntriesPerBlock) < w => prim[e] = map[e]
            /\ 2 * (e \div EntriesPerBlock) + 1 < w => back[e] = map[e]

Inv ==
  /\ TypeOK /\ Control /\ Blank /\ MapSound /\ RecordsSound
  /\ WalkSound /\ BufferSound /\ TrimSound /\ UmountSound
  /\ TargetsLive /\ NoSharedBlock /\ NoLostBlock

-----------------------------------------------------------------------------
(***************************************************************************)
(* What is left of it when the tool is killed while no format runs, and    *)
(* when mkfs formats an image that held files.  A half-written map mixes   *)
(* the entries of two maps, and blocks keep stale records: what can be     *)
(* said then is said of each entry and each record by itself.              *)
(***************************************************************************)
AnyStep == Next \/ (\E r \in Requests : MkFs(r)) \/ (Kill /\ ~Formatting)

(* The process, also when it formats.                                      *)
FormatControl ==
  /\ pc \in {"fmt_boot", "fmt_root", "fmt_zero"} => Formatting
  /\ Formatting => pc \in {"fmt_boot", "fmt_root", "fmt_zero", "umount", "exit"}
  /\ pc \notin {"fmt_boot", "fmt_root"} /\ boot.sig => boot.root >= FirstData

(* A map whose links lead to data blocks, and one with the system area.    *)
LinksData(m) == \A e \in Entries : m[e].next # 0 => m[e].next >= FirstData
Reserves(m)  == \A e \in 0 .. FirstData - 1 : m[e].type = "RESERVED"

MapsSound ==
  /\ LinksData(map) /\ LinksData(prim) /\ LinksData(back)
  /\ Formatted => Reserves(map)
  /\ boot.sig /\ (~Formatting \/ pc = "exit") => Reserves(prim) /\ Reserves(back)

(* How far a formatting process has got with the maps.                     *)
FormatCopied ==
  pc \in {"umount", "exit"} /\ Formatting =>
    /\ pc = "umount" => w <= 2 * MapBlocks
    /\ \A e \in Entries :
         /\ 2 * (e \div EntriesPerBlock) < w \/ pc = "exit" => prim[e] = map[e]
         /\ 2 * (e \div EntriesPerBlock) + 1 < w \/ pc = "exit" => back[e] = map[e]

(* A record with a name leads to a data block, and so does the walk.       *)
NamesData(recs) == \A s \in Slots : recs[s].name # NoName => recs[s].addr >= FirstData
WalkData ==
  /\ \A a \in Addr : NamesData(disk[a].recs)
  /\ NamesData(dir)
  /\ Creates /\ pc \in {"search", "insert", "clear", "write", "record"} =>
       dir_address >= FirstData /\ dir_first_address >= FirstData
  /\ req.op = "add" /\ (pc \in {"clear", "write", "record"}
                           \/ (pc = "search" /\ part_i > 1)) => file_address >= FirstData
  /\ pc = "trim" => trim_address >= FirstData

DataInv == TypeOK /\ Control /\ FormatControl /\ MapsSound /\ FormatCopied /\ WalkData

(* After a kill a command may follow the link of an entry that no          *)
(* allocation has written: what holds then depends on the heap that        *)
(* cmd_mkfs found behind the memory it cleared.                            *)
HeapInData  == \A p \in Heap : p.next # 0 => p.next >= FirstData
HeapOffRoot == \A p \in Heap : p.next # FirstData

(* No link leads to the root, whose entry stays that of a directory; until *)
(* there is a root, none leads to the block that will be it.               *)
NoLinkTo(a, m) == \A e \in Entries : m[e].next # 0 => m[e].next # a
RootInv ==
  /\ pc \in {"fmt_boot", "fmt_root"} \/ ~boot.sig =>
       /\ boot.root = 0
       /\ NoLinkTo(FirstData, map) /\ NoLinkTo(FirstData, prim) /\ NoLinkTo(FirstData, back)
  /\ pc = "fmt_root" => map[FirstData] = EmptyPtr
  /\ NoLinkTo(boot.root, map) /\ NoLinkTo(boot.root, prim) /\ NoLinkTo(boot.root, back)
  /\ pc = "trim" => trim_address # boot.root
  /\ Formatted /\ pc # "fmt_root" => map[boot.root].type = "DIR"
  /\ boot.sig /\ (~Formatting \/ pc = "exit") =>
       map[boot.root].type = "DIR" /\ prim[boot.root].type = "DIR" /\ back[boot.root].type = "DIR"

(* While a format runs, the root is the first data block, and every other  *)
(* one that the map was cleared for is free.                               *)
FormatInv == TypeOK /\ Control /\ FormatControl /\ FormatCopied
Cleared(m) == \A a \in OnHeap \intersect Addr : a > FirstData => m[a] = EmptyPtr
FreshInv ==
  /\ pc = "fmt_root" => map[FirstData] = EmptyPtr /\ Reserves(map)
  /\ Formatting /\ pc # "fmt_boot" => Cleared(map)
  /\ Formatting /\ pc \notin {"fmt_boot", "fmt_root"} =>
       boot.root = FirstData /\ map[FirstData] = [type |-> "DIR", next |-> 0]
  /\ Formatting /\ pc \in {"umount", "exit"} =>
       \A s \in Slots : disk[FirstData].recs[s].perm = "none"
=============================================================================
