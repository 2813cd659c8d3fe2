----------------------------- MODULE TfsFiles ------------------------------
(***************************************************************************)
(* The files that an image holds, read off its blocks: how a path resolves *)
(* and what a data fork contains.  With them, what a user of the tool may  *)
(* expect of add, mkdir, ls and export, and the abstract FileStore that    *)
(* the tool implements.                                                    *)
(***************************************************************************)
EXTENDS Tfs

(* The blocks of the fork that starts at block a, in order, followed for   *)
(* at most n blocks.                                                       *)
Fork[n \in 0 .. TotalBlocks] ==
  [a \in Addr |-> IF a = 0 \/ n = 0 THEN << >> ELSE <<a>> \o Fork[n - 1][map[a].next]]
Blocks(a) == Fork[TotalBlocks][a]

(* The places, in the directory whose blocks are f, of the records with    *)
(* name and one of perms; and the record that a walk takes for name in     *)
(* directory d: the first, block by block and slot by slot.                *)
Hits(f, name, perms) ==
  {p \in (DOMAIN f) \X Slots :
     LET r == disk[f[p[1]]].recs[p[2]] IN r.name = name /\ r.perm \in perms}
Before(p, q) == p[1] < q[1] \/ (p[1] = q[1] /\ p[2] <= q[2])
First(f, hits) ==
  LET p == CHOOSE p \in hits : \A q \in hits : Before(p, q)
  IN  IF hits = {} THEN NoRec ELSE disk[f[p[1]]].recs[p[2]]
Child(name, perms) ==
  [d \in Rec |-> IF d.type # "DIR" THEN NoRec
                 ELSE LET f == Blocks(d.addr) IN First(f, Hits(f, name, perms))]

(* The records that a path leads through, from the root on.                *)
RootRec == [NoRec EXCEPT !.perm = "ifdir", !.type = "DIR", !.addr = boot.root]
Steps(p, perms) ==
  LET r[n \in 0 .. Len(p)] ==
        IF n = 0 THEN RootRec ELSE Child(p[n], perms)[r[n - 1]]
  IN  r
Walk(p, perms) == Steps(p, perms)[Len(p)]

Resolve(p) == Walk(p, Perms \ {"none"})      \* as add and export walk
Lists(p)   == Walk(p, {"ifdir"}) # NoRec      \* as ls and mkdir walk

BlocksOf(size) == (size + BlockBytes - 1) \div BlockBytes

Content(src, size) ==
  [size |-> size,
   data |-> [i \in 1 .. BlocksOf(size) |-> [src |-> src, at |-> (i - 1) * BlockBytes]]]
Stored(r) ==
  [size |-> r.size,
   data |-> LET f == Fork[BlocksOf(r.size)][r.addr] IN
            [i \in DOMAIN f |-> disk[f[i]].bytes]]

(* A stored file of size 0 has no data, so this is the content of no file. *)
AbsentFile == [size |-> 0, data |-> <<ZeroBlock.bytes>>]
FileAt(p)  == LET r == Resolve(p) IN
              IF r.type = "FILE" THEN Stored(r) ELSE AbsentFile

-----------------------------------------------------------------------------
(* The tool implements FileStore.                                          *)

FilePaths == UNION {{SubSeq(r.path, 1, n) : n \in 1 .. Len(r.path)} : r \in Requests}

Status == CASE pc \notin {"umount", "exit"} -> "running"
            [] ret = 0 -> "ok"  [] ret # 0 -> "failed"

Job ==
  IF req.op \in {"add", "mkdir"} /\ req.path # << >>
    THEN [kind |-> req.op, path |-> req.path,
          goal |-> Content(req.src, SourceBytes[req.src]), status |-> Status]
    ELSE NoRequest

Store == INSTANCE FileStore WITH
  Paths  <- FilePaths,
  Goals  <- {Content(s, SourceBytes[s]) : s \in Sources},
  Absent <- AbsentFile,
  NoJob  <- NoRequest,
  files  <- [p \in FilePaths |-> FileAt(p)],
  dirs   <- {p \in FilePaths : Resolve(p).type = "DIR"},
  job    <- Job

(* The commands, run one after another and each to its end, implement the  *)
(* promise of FileStore: add stores its source under its path and touches  *)
(* no other file, and mkdir touches no file.                               *)
ImplementsFileStore == Store!Spec

-----------------------------------------------------------------------------
(* What a user may expect.                                                 *)

Succeeded(op) == pc = "exit" /\ req.op = op /\ ret = 0

(* A file's fork is as long as its record says, except for the file that   *)
(* add is writing (the loop of cmd_add at line 556, and its trim loop).    *)
ForkCoversSize ==
  \A a \in Addr, s \in Slots :
    LET r == disk[a].recs[s] IN
      IsRecord(a, s) /\ r.type = "FILE" => Len(Blocks(r.addr)) >= BlocksOf(r.size)

(* export hands over exactly what the image holds under the path.          *)
ExportExact ==
  Succeeded("export") /\ Resolve(req.path).type = "FILE" =>
    out = Stored(Resolve(req.path)).data

(* After mkdir reports success, ls lists the directory.                    *)
MkdirMakes == Succeeded("mkdir") => Lists(req.path)

(* After add reports success, the file is under its path.                  *)
AddStores == Succeeded("add") =>
               FileAt(req.path) = Content(req.src, SourceBytes[req.src])

(* After add reports success, ls lists the directory that the file is in.  *)
AddIsListed == Succeeded("add") => Lists(SubSeq(req.path, 1, Len(req.path) - 1))

(* ls prints names of entries that commands have made, and no other.       *)
ListsOnlyEntries == pc = "exit" /\ req.op = "ls" =>
                      \A i \in 1 .. Len(out) : NoName \notin out[i]

(* A tool that is killed damages no file but the one it was adding: if the *)
(* image mounts again, every other file that it held is still there.       *)
KillSparesOthers ==
  [][Kill /\ NoSharedBlock /\ TargetsLive /\ Mountable' =>
       \A p \in FilePaths :
         p # req.path => FileAt(p)' = FileAt(p)]_vars
=============================================================================
