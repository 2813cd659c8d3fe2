----------------------------- MODULE TfsSafety -----------------------------
(***************************************************************************)
(* The steps of Tfs keep the inductive invariant: what each of them does   *)
(* to a map entry and to a record, that the parts of the invariant hold    *)
(* after it that do not speak of ownership (the map, the records, the path *)
(* walk, the open file and the unmount), and then the ownership of blocks: *)
(* on every image that commands make which run to their end, each block in *)
(* use belongs to one fork.                                                *)
(***************************************************************************)
EXTENDS TfsProofs

(* The parts of Inv that do not speak of sites, and the facts about an     *)
(* image that the cases below draw from Inv.                               *)
LEMMA InvTypes == Inv => TypeOK /\ Control /\ Ownership
BY DEF Inv, Ownership

(* Block 0 is never part of a fork.                                        *)
LEMMA NoForkAtZero ==
  ASSUME Inv PROVE map[0].type \notin {"FILE", "DIR"}
BY Geometry DEF Inv, MapSound

(* What tfs_alloc gives away: a data block that nothing points to and that *)
(* holds no record in use.                                                 *)
LEMMA FreeBlock ==
  ASSUME Inv, Formatted, NEW b \in Addr, map[b].type = "EMPTY"
  PROVE  /\ b # 0 /\ b >= FirstData /\ b \in Entries
         /\ \A o \in Sites : Target(o) # b
         /\ \A s \in Slots : ~InUse(disk[b].recs[s])
<1>1. b \in Entries /\ b \in Nat
  BY Geometry
<1>2. boot.sig /\ pc # "fmt_boot"
  BY DEF Inv, Control, Formatted
<1>3. b >= FirstData /\ b # 0
  BY <1>1, <1>2, Geometry DEF Inv, MapSound
<1>5. \A o \in Sites : Target(o) # b
  BY <1>3 DEF Inv, TargetsLive
<1>6. \A s \in Slots : ~InUse(disk[b].recs[s])
  BY DEF Inv, RecordsSound
<1> QED BY <1>1, <1>3, <1>5, <1>6

(* A link leads to a block of the same kind, that nothing else points to.  *)
LEMMA NextBlock ==
  ASSUME Inv, NEW a \in Addr, InFork(map[a]), map[a].next # 0
  PROVE  /\ map[a].next \in Addr /\ map[a].next >= FirstData
         /\ map[map[a].next].type = map[a].type
         /\ InFork(map[map[a].next])
         /\ \A o \in Sites : Target(o) = map[a].next => o = <<"map", a, 0>>
<1>1. <<"map", a, 0>> \in Sites
  BY SiteKinds
<1>2. /\ Target(<<"map", a, 0>>) = map[a].next
      /\ ForkType(<<"map", a, 0>>) = map[a].type
  BY TargetNow
<1>3. map[a].next \in Addr
  BY PartTypes, Geometry DEF Inv
<1>4. map[a].next >= FirstData /\ map[map[a].next].type = map[a].type
  BY <1>1, <1>2 DEF Inv, TargetsLive
<1>5. \A o \in Sites : Target(o) = map[a].next => o = <<"map", a, 0>>
  BY <1>1, <1>2 DEF Inv, NoSharedBlock
<1> QED BY <1>3, <1>4, <1>5 DEF InFork

(* A record in use leads to a block of the kind that it names.             *)
LEMMA RecordBlock ==
  ASSUME Inv, NEW a \in Addr, NEW s \in Slots, InUse(disk[a].recs[s])
  PROVE  LET r == disk[a].recs[s] IN
           r.addr \in Addr /\ r.addr # 0 /\ map[r.addr].type = r.type
<1>1. <<"rec", a, s>> \in Sites
  BY SiteKinds
<1>2. IsRecord(a, s) /\ disk[a].recs[s].addr # 0
  BY DEF Inv, RecordsSound, IsRecord
<1>3. /\ Target(<<"rec", a, s>>) = disk[a].recs[s].addr
      /\ ForkType(<<"rec", a, s>>) = disk[a].recs[s].type
  BY <1>2, TargetNow
<1>4. disk[a].recs[s].addr \in Addr
  BY PartTypes DEF Inv
<1> QED BY <1>1, <1>2, <1>3, <1>4 DEF Inv, TargetsLive

(* tfs_alloc's change of the map, entry by entry.                          *)
LEMMA AllocatedEntries ==
  ASSUME TypeOK, NEW b \in Addr, NEW t \in Types
  PROVE  \A e \in Entries :
           Allocated(b, t)[e] = IF e = b THEN [type |-> t, next |-> 0] ELSE map[e]
BY Geometry DEF Allocated, TypeOK

LEMMA LinkedEntries ==
  ASSUME TypeOK, NEW a \in Addr, NEW b \in Addr, a # b, NEW t \in Types
  PROVE  \A e \in Entries :
           /\ Linked(a, b, t)[e].type = IF e = b THEN t ELSE map[e].type
           /\ Linked(a, b, t)[e].next = IF e = b THEN 0 ELSE IF e = a THEN b ELSE map[e].next
<1>1. /\ Allocated(b, t) \in [Entries -> MapPtr] /\ a \in Entries
      /\ \A e \in Entries :
           Allocated(b, t)[e] = IF e = b THEN [type |-> t, next |-> 0] ELSE map[e]
  BY MapTypes, AllocatedEntries, Geometry
<1> DEFINE m == Allocated(b, t)
<1>2. m \in [Entries -> MapPtr] /\ m[a] \in MapPtr
  BY <1>1
<1>3. Linked(a, b, t) = [m EXCEPT ![a].next = b]
  BY DEF Linked
<1> HIDE DEF m
<1>4. \A e \in Entries : /\ Linked(a, b, t)[e].type = m[e].type
                         /\ Linked(a, b, t)[e].next = IF e = a THEN b ELSE m[e].next
  BY <1>1, <1>2, <1>3 DEF MapPtr
<1> QED BY <1>1, <1>4 DEF m

(* What cmd_mkfs makes of the map, entry by entry.                         *)
LEMMA FreshTypes ==
  ASSUME NEW stray \in [Addr \ OnHeap -> Heap]
  PROVE  /\ \A e \in Entries :
              /\ FreshMap(stray)[e].type \in {"EMPTY", "JUNK", "RESERVED"}
              /\ ~InFork(FreshMap(stray)[e])
              /\ e < FirstData => FreshMap(stray)[e] = ReservedPtr
         /\ \A e \in OnHeap \intersect Addr :
              e >= FirstData => FreshMap(stray)[e] = EmptyPtr
<1>1. \A e \in Addr \ OnHeap : stray[e].type \in {"EMPTY", "JUNK"}
  BY HeapAssumption
<1>2. \A e \in FirstData .. TotalBlocks - 1 : e \in Addr
  BY Geometry DEF Addr
<1>3. ASSUME NEW e \in Entries
      PROVE  /\ FreshMap(stray)[e].type \in {"EMPTY", "JUNK", "RESERVED"}
             /\ e < FirstData => FreshMap(stray)[e] = ReservedPtr
  BY <1>1, <1>2, <1>3, Geometry DEF FreshMap, ReservedPtr, EmptyPtr
<1>4. \A e \in OnHeap \intersect Addr :
        e >= FirstData => FreshMap(stray)[e] = EmptyPtr
  BY Geometry DEF FreshMap, Addr
<1> QED BY <1>3, <1>4 DEF InFork

(* The bytes of a file or of a loader, read as records, hold none in use.  *)
LEMMA DataRecords ==
  ASSUME NEW src, NEW n
  PROVE  /\ \A s \in Slots : FileBlock(src, n).recs[s] \in {JunkRec, NoRec}
         /\ LoaderBlock(src, n).recs = [s \in Slots |-> JunkRec]
BY DEF FileBlock, LoaderBlock

-----------------------------------------------------------------------------
(* The steps that write neither to the blocks nor to the map in memory.    *)
Quiet == \/ BootSect \/ Found \/ SearchOn \/ NotFound \/ InsertOn \/ NoRoom
         \/ WalkDone \/ SourceEnds \/ List \/ Read \/ Umount \/ Unmounted \/ Exit
         \/ (\E r \in Requests : Start(r) \/ MountFails(r)) \/ UNCHANGED vars

LEMMA NextCases ==
  ASSUME [Next]_vars
  PROVE  \/ Quiet \/ FmtBoot \/ FmtRoot \/ FmtZero \/ BootLoader \/ Insert \/ Clear
         \/ Extend \/ Write \/ Record \/ Trim \/ \E r \in Requests : GenFs(r)
BY DEF Next, Step, Quiet

Formats == {"fmt_boot", "fmt_root", "fmt_zero"}

LEMMA QuietSteps ==
  ASSUME Inv, Quiet
  PROVE  /\ disk' = disk /\ map' = map
         /\ boot'.root = boot.root /\ boot'.sig = boot.sig
         /\ pc' \in Formats \union {"trim", "clear", "idle"} \/ pc = "idle"
               => pc' = pc \/ (pc = "exit" /\ pc' = "idle") \/ pc = "idle"
         /\ pc' \in Formats => pc' = pc
         /\ pc \in Formats => pc' = pc
         /\ pc \in {"trim", "clear"} \/ pc' \in {"trim", "clear"} => UNCHANGED vars
<1> USE DEF image, walk, rec, fork, Formats
<1>1. CASE BootSect
  <2>1. boot'.root = boot.root /\ boot'.sig = boot.sig
    BY <1>1 DEF BootSect, Inv, TypeOK
  <2> QED BY <1>1, <2>1 DEF BootSect, Finish
<1>2. CASE Found
  BY <1>2 DEF Found, Enter, EnterOrOpen, Reject, Follow, NextPart, Finish, Search
<1>3. CASE SearchOn
  BY <1>3 DEF SearchOn, Search
<1>4. CASE NotFound
  BY <1>4 DEF NotFound, Search, Finish
<1>5. CASE InsertOn
  BY <1>5 DEF InsertOn
<1>6. CASE NoRoom
  BY <1>6 DEF NoRoom, Finish
<1>7. CASE WalkDone
  BY <1>7 DEF WalkDone, PathDone, AfterPath, Inv, Control
<1>8. CASE SourceEnds
  BY <1>8 DEF SourceEnds
<1>9. CASE List
  BY <1>9 DEF List, Finish
<1>10. CASE Read
  BY <1>10 DEF Read, Finish
<1>11. CASE Umount
  BY <1>11 DEF Umount
<1>12. CASE Unmounted
  BY <1>12 DEF Unmounted
<1>13. CASE Exit
  BY <1>13 DEF Exit, ProcessEnds
<1>14. ASSUME NEW r \in Requests, Start(r)
       PROVE  /\ disk' = disk /\ map' = map /\ boot' = boot
              /\ pc = "idle" /\ pc' \notin Formats \union {"trim", "clear", "idle"}
  BY <1>14, RequestTypes DEF Start, FirstStep, Commands, Inv, UmountSound
<1>15. ASSUME NEW r \in Requests, MountFails(r)
       PROVE  /\ disk' = disk /\ map' = map /\ boot' = boot
              /\ pc = "idle" /\ pc' = "exit"
  BY <1>15 DEF MountFails
<1>16. CASE UNCHANGED vars
  BY <1>16 DEF vars
<1>17. CASE \E r \in Requests : Start(r) \/ MountFails(r)
  BY <1>14, <1>15, <1>17
<1> QED BY <1>1, <1>2, <1>3, <1>4, <1>5, <1>6, <1>7, <1>8, <1>9, <1>10, <1>11,
           <1>12, <1>13, <1>16, <1>17 DEF Quiet

-----------------------------------------------------------------------------
(* The map.                                                                *)

LEMMA MapStep ==
  ASSUME Inv, [Next]_vars PROVE MapSound'
<1> USE DEF image, walk, rec, fork
<1>0. TypeOK /\ Control /\ MapSound
  BY DEF Inv
<1>1. CASE Quiet
  <2>1. /\ map' = map /\ boot'.sig = boot.sig
        /\ boot'.sig /\ pc' # "fmt_boot" => boot.sig /\ pc # "fmt_boot"
    BY <1>1, QuietSteps DEF Formats
  <2> QED BY <1>0, <2>1 DEF MapSound
<1>2. CASE FmtBoot
  <2>1. PICK stray \in [Addr \ OnHeap -> Heap] : map' = FreshMap(stray)
    BY <1>2 DEF FmtBoot
  <2>2. \A e \in Entries :
          /\ map'[e].type \in {"EMPTY", "JUNK", "RESERVED"}
          /\ e < FirstData => map'[e].type = "RESERVED"
    BY <2>1, FreshTypes, Geometry DEF ReservedPtr
  <2>3. 0 .. FirstData - 1 \subseteq Entries
    BY Geometry DEF Addr
  <2> QED BY <2>2, <2>3, Geometry DEF MapSound
<1>3. ASSUME NEW b \in Addr, NEW t \in {"FILE", "DIR"}, map[b].type = "EMPTY",
             Formatted, map' = Allocated(b, t)
      PROVE  MapSound'
  <2>1. \A e \in Entries : map'[e] = IF e = b THEN [type |-> t, next |-> 0] ELSE map[e]
    BY <1>0, <1>3, AllocatedEntries DEF Types
  <2>2. b >= FirstData /\ boot.sig /\ pc # "fmt_boot"
    BY <1>0, <1>3, FreeBlock DEF Control, Formatted
  <2>3. 0 .. FirstData - 1 \subseteq Entries /\ b \notin 0 .. FirstData - 1
    BY <2>2, Geometry DEF Addr
  <2> QED BY <1>0, <2>1, <2>2, <2>3 DEF MapSound
<1>4. ASSUME NEW a \in Addr, NEW b \in Addr, NEW t \in {"FILE", "DIR"},
             map[b].type = "EMPTY", map[a].type = t,
             Formatted, map' = Linked(a, b, t)
      PROVE  MapSound'
  <2>1. \A e \in Entries :
           /\ map'[e].type = IF e = b THEN t ELSE map[e].type
           /\ map'[e].next = IF e = b THEN 0 ELSE IF e = a THEN b ELSE map[e].next
    BY <1>0, <1>4, LinkedEntries DEF Types
  <2>2. b >= FirstData /\ boot.sig /\ pc # "fmt_boot"
    BY <1>0, <1>4, FreeBlock DEF Control, Formatted
  <2>3. 0 .. FirstData - 1 \subseteq Entries /\ b \notin 0 .. FirstData - 1
    BY <2>2, Geometry DEF Addr
  <2> QED BY <1>0, <2>1, <2>2, <2>3 DEF MapSound
<1>5. CASE FmtRoot
  <2>1. PICK b \in Addr : IsFirstFree(b) /\ map' = Allocated(b, "DIR")
    BY <1>5 DEF FmtRoot
  <2> QED BY <1>3, <1>5, <2>1 DEF FmtRoot, IsFirstFree, Formatted
<1>6. CASE Insert
  <2>1. PICK b \in Addr : IsFirstFree(b) /\ map' = Allocated(b, NewType)
    BY <1>6 DEF Insert
  <2> QED BY <1>0, <1>3, <1>6, <2>1, NewRecTypes DEF Insert, IsFirstFree, Formatted
<1>7. CASE Extend
  <2>1. PICK b \in Addr : IsFirstFree(b) /\ map' = Linked(dir_address, b, "DIR")
    BY <1>7 DEF Extend
  <2>2. map[dir_address].type = "DIR" /\ dir_address \in Addr
    BY <1>7 DEF Extend, Inv, WalkSound, Walking, Control, TypeOK
  <2> QED BY <1>4, <1>7, <2>1, <2>2 DEF Extend, IsFirstFree, Formatted
<1>8. CASE Write
  <2>1. CASE map' = map
    BY <1>0, <1>8, <2>1 DEF Write, MapSound
  <2>2. CASE \E b \in Addr : IsFirstFree(b) /\ map' = Linked(file_address, b, "FILE")
    <3>1. map[file_address].type = "FILE" /\ file_address \in Addr
      BY <1>8 DEF Write, Inv, BufferSound, FileOpen, TypeOK
    <3> QED BY <1>4, <1>8, <2>2, <3>1 DEF Write, IsFirstFree, Formatted
  <2> QED BY <1>8, <2>1, <2>2 DEF Write
<1>9. CASE Record
  <2>1. \A e \in Entries :
          /\ map'[e].type = map[e].type
          /\ map'[e].next = IF e = file_address THEN 0 ELSE map[e].next
    <3>1. map \in [Entries -> MapPtr] /\ map' = [map EXCEPT ![file_address].next = 0]
      BY <1>0, <1>9 DEF Record, TypeOK
    <3> QED BY <3>1 DEF MapPtr
  <2>2. 0 .. FirstData - 1 \subseteq Entries
    BY Geometry DEF Addr
  <2> QED BY <1>0, <1>9, <2>1, <2>2 DEF Record, MapSound
<1>10. CASE Trim
  <2>1. \A e \in Entries : map'[e] = IF e = trim_address THEN EmptyPtr ELSE map[e]
    BY <1>0, <1>10 DEF Trim, TypeOK
  <2>2. map[trim_address].type = "FILE"
    BY <1>10 DEF Trim, Inv, TrimSound
  <2>3. 0 .. FirstData - 1 \subseteq Entries
    BY Geometry DEF Addr
  <2> QED BY <1>0, <1>10, <2>1, <2>2, <2>3 DEF Trim, MapSound, EmptyPtr
<1>11. CASE FmtZero \/ BootLoader \/ Clear
  BY <1>0, <1>11 DEF FmtZero, BootLoader, Clear, MapSound
<1>12. ASSUME NEW r \in Requests, GenFs(r) PROVE MapSound'
  BY <1>12, Geometry DEF GenFs, ZeroMap, EmptyPtr, MapSound
<1> QED BY <1>1, <1>2, <1>5, <1>6, <1>7, <1>8, <1>9, <1>10, <1>11, <1>12, NextCases

-----------------------------------------------------------------------------
(* What the steps that write do to each record and to each map entry.      *)

(* tfs_alloc(t) and the link from block a.                                 *)
LinksTo(a, b, t) ==
  /\ b # a /\ map[b].type = "EMPTY" /\ map[a].type = t /\ map[a].next = 0
  /\ \A e \in Entries :
       /\ map'[e].type = IF e = b THEN t ELSE map[e].type
       /\ map'[e].next = IF e = b THEN 0 ELSE IF e = a THEN b ELSE map[e].next

LEMMA LinkEffect ==
  ASSUME TypeOK, NEW a \in Addr, NEW b \in Addr, NEW t \in {"FILE", "DIR"},
         IsFirstFree(b), map[a].type = t, ~HasNext(a, map), a # 0, map' = Linked(a, b, t)
  PROVE  LinksTo(a, b, t)
<1>1. map[b].type = "EMPTY" /\ b # a
  BY DEF IsFirstFree
<1>2. map[a].next = 0
  <2>1. a < TotalBlocks
    BY Geometry DEF Addr
  <2> QED BY <2>1 DEF HasNext
<1>3. t \in Types
  BY DEF Types
<1> QED BY <1>1, <1>2, <1>3, LinkedEntries DEF LinksTo

(* A block that is in use is not block 0.                                  *)
LEMMA InUseNotZero ==
  ASSUME Inv, NEW a \in Addr, map[a].type \in {"FILE", "DIR"} PROVE a # 0
BY NoForkAtZero

LEMMA InsertEffect ==
  ASSUME Inv, Insert
  PROVE  \E s \in Slots, b \in Addr :
           /\ Here[s].perm = "none" /\ map[b].type = "EMPTY"
           /\ dir_address \in Addr /\ map[dir_address].type = "DIR" /\ b # dir_address
           /\ NewType \in {"FILE", "DIR"}
           /\ \A e \in Entries :
                map'[e] = IF e = b THEN [type |-> NewType, next |-> 0] ELSE map[e]
           /\ \A a \in Addr, t \in Slots :
                disk'[a].recs[t] = IF a = dir_address /\ t = s THEN NewRec(b)
                                   ELSE disk[a].recs[t]
           /\ dir' = disk'[dir_address].recs
           /\ slot' = s /\ dir_first_address' = b /\ file_address' = b
<1>0. TypeOK /\ Control
  BY DEF Inv
<1>1. PICK s \in Slots, b \in Addr :
        /\ FirstHole(s) /\ IsFirstFree(b)
        /\ map' = Allocated(b, NewType)
        /\ dir' = [Here EXCEPT ![s] = NewRec(b)]
        /\ disk' = [disk EXCEPT ![dir_address] = DirBlock(dir')]
        /\ slot' = s /\ dir_first_address' = b /\ file_address' = b
  BY DEF Insert
<1>2. NewType \in {"FILE", "DIR"} /\ NewType \in Types
  BY <1>0, NewRecTypes DEF Insert
<1>3. dir_address \in Addr /\ map[dir_address].type = "DIR"
  BY <1>0 DEF Insert, Inv, WalkSound, Walking, Control, TypeOK
<1>4. Here[s].perm = "none" /\ map[b].type = "EMPTY" /\ b # dir_address
  BY <1>1, <1>3 DEF FirstHole, IsFirstFree
<1>5. \A e \in Entries :
        map'[e] = IF e = b THEN [type |-> NewType, next |-> 0] ELSE map[e]
  BY <1>0, <1>1, <1>2, AllocatedEntries
<1>6. Here \in [Slots -> Rec] /\ disk \in [Addr -> Block]
  BY <1>0, <1>3, PartTypes DEF Here, TypeOK
<1>7. disk'[dir_address].recs = dir'
  BY <1>1, <1>3, <1>6 DEF DirBlock
<1>8. \A t \in Slots : dir'[t] = IF t = s THEN NewRec(b) ELSE Here[t]
  BY <1>1, <1>6
<1>9. \A a \in Addr : a # dir_address => disk'[a] = disk[a]
  BY <1>1, <1>6
<1>10. \A a \in Addr, t \in Slots :
         disk'[a].recs[t] = IF a = dir_address /\ t = s THEN NewRec(b)
                            ELSE disk[a].recs[t]
  BY <1>7, <1>8, <1>9 DEF Here
<1> QED BY <1>1, <1>2, <1>3, <1>4, <1>5, <1>7, <1>10

LEMMA ExtendEffect ==
  ASSUME Inv, Extend
  PROVE  /\ dir_address \in Addr /\ map[dir_address].type = "DIR"
         /\ \E b \in Addr :
              /\ LinksTo(dir_address, b, "DIR")
              /\ dir_address' = b \/ (dir_address' = dir_address /\ pc' = "umount")
<1>1. dir_address \in Addr /\ map[dir_address].type = "DIR"
  BY DEF Extend, Inv, WalkSound, Walking, Control, TypeOK
<1>2. dir_address # 0
  BY <1>1, InUseNotZero
<1>3. PICK b \in Addr :
        /\ IsFirstFree(b) /\ map' = Linked(dir_address, b, "DIR")
        /\ dir_address' = b \/ (dir_address' = dir_address /\ pc' = "umount")
  BY DEF Extend, Finish
<1>4. LinksTo(dir_address, b, "DIR")
  BY <1>1, <1>2, <1>3, LinkEffect DEF Extend, Inv
<1> QED BY <1>1, <1>3, <1>4

(* The file that add writes is not the directory it is in.                 *)
LEMMA OpenFile ==
  ASSUME Inv, pc \in {"write", "record"}
  PROVE  /\ dir_address \in Addr /\ file_address \in Addr /\ slot \in Slots
         /\ map[dir_address].type = "DIR" /\ map[file_address].type = "FILE"
         /\ dir_address # file_address /\ file_address # 0
         /\ \A s \in Slots : s # slot => dir[s] = Here[s]
         /\ InUse(Here[slot]) /\ dir[slot].perm \in {"plain", "ifreg"}
         /\ dir[slot].addr = Here[slot].addr /\ dir[slot].name = Here[slot].name
         /\ dir[slot].type = "FILE" /\ Here[slot].type = "FILE"
<1>1. BufferSound /\ FileOpen /\ TypeOK
  BY DEF Inv, FileOpen
<1>2. dir_address \in Addr /\ file_address \in Addr /\ slot \in Slots
  BY <1>1 DEF TypeOK
<1>3. map[dir_address].type = "DIR" /\ map[file_address].type = "FILE"
  BY <1>1 DEF BufferSound
<1>4. dir_address # file_address /\ file_address # 0
  BY <1>2, <1>3, InUseNotZero
<1> QED BY <1>1, <1>2, <1>3, <1>4 DEF BufferSound

LEMMA WriteEffect ==
  ASSUME Inv, Write
  PROVE  /\ \A a \in Addr, t \in Slots :
              \/ disk'[a].recs[t] = disk[a].recs[t] /\ a # file_address
              \/ disk'[a].recs[t] \in {JunkRec, NoRec} /\ a = file_address
         /\ \A t \in Slots : t # slot => dir'[t] = dir[t]
         /\ dir'[slot].perm = dir[slot].perm /\ dir'[slot].addr = dir[slot].addr
         /\ dir'[slot].type = dir[slot].type /\ dir'[slot].name = dir[slot].name
         /\ \/ /\ map' = map
               /\ \/ file_address' = file_address
                  \/ /\ map[file_address].next # 0
                     /\ file_address' = map[file_address].next
            \/ \E b \in Addr : /\ LinksTo(file_address, b, "FILE")
                               /\ \/ file_address' = b
                                  \/ file_address' = file_address /\ pc' = "umount"
<1>0. TypeOK /\ pc = "write"
  BY DEF Inv, Write
<1>1. disk' = [disk EXCEPT ![file_address] = FileBlock(req.src, SourceBytes[req.src] - left)]
  BY DEF Write
<1>2. \A a \in Addr, t \in Slots :
        \/ disk'[a].recs[t] = disk[a].recs[t] /\ a # file_address
        \/ disk'[a].recs[t] \in {JunkRec, NoRec} /\ a = file_address
  <2>1. \A a \in Addr : a # file_address => disk'[a] = disk[a]
    BY <1>0, <1>1 DEF TypeOK
  <2>2. disk'[file_address] = FileBlock(req.src, SourceBytes[req.src] - left)
    BY <1>0, <1>1 DEF TypeOK
  <2>3. \A t \in Slots : disk'[file_address].recs[t] \in {JunkRec, NoRec}
    BY <2>2, DataRecords
  <2> QED BY <2>1, <2>3
<1>3. /\ \A t \in Slots : t # slot => dir'[t] = dir[t]
      /\ dir'[slot].perm = dir[slot].perm /\ dir'[slot].addr = dir[slot].addr
      /\ dir'[slot].type = dir[slot].type /\ dir'[slot].name = dir[slot].name
  <2>1. dir' = [dir EXCEPT ![slot].size = dir[slot].size + ReadSize]
    BY DEF Write
  <2>2. dir \in [Slots -> Rec] /\ slot \in Slots /\ dir[slot] \in Rec
    BY <1>0 DEF TypeOK
  <2> QED BY <2>1, <2>2 DEF Rec
<1>4. CASE map' = map /\ (file_address' = file_address \/ HasNext(file_address, map))
  <2>1. file_address' = file_address \/ file_address' = map[file_address].next
    BY <1>4 DEF Write
  <2>2. HasNext(file_address, map) => map[file_address].next # 0
    BY DEF HasNext
  <2> QED BY <1>2, <1>3, <1>4, <2>1, <2>2
<1>5. CASE /\ ~HasNext(file_address, map)
           /\ \E b \in Addr :
                /\ IsFirstFree(b) /\ map' = Linked(file_address, b, "FILE")
                /\ \/ file_address' = b
                   \/ file_address' = file_address /\ pc' = "umount"
  <2>1. PICK b \in Addr :
          /\ IsFirstFree(b) /\ map' = Linked(file_address, b, "FILE")
          /\ file_address' = b \/ (file_address' = file_address /\ pc' = "umount")
    BY <1>5
  <2>2. LinksTo(file_address, b, "FILE")
    BY <1>0, <1>5, <2>1, OpenFile, LinkEffect
  <2> QED BY <1>2, <1>3, <2>1, <2>2
<1> QED BY <1>4, <1>5 DEF Write, Finish

LEMMA RecordEffect ==
  ASSUME Inv, Record
  PROVE  /\ \A a \in Addr, t \in Slots :
              \/ disk'[a].recs[t] = disk[a].recs[t]
              \/ /\ a = dir_address /\ InUse(disk[a].recs[t])
                 /\ disk'[a].recs[t].perm \in {"plain", "ifreg"}
                 /\ disk'[a].recs[t].type = "FILE" /\ disk[a].recs[t].type = "FILE"
                 /\ disk'[a].recs[t].addr = disk[a].recs[t].addr
                 /\ disk'[a].recs[t].name = disk[a].recs[t].name
         /\ \A e \in Entries :
              /\ map'[e].type = map[e].type
              /\ map'[e].next = IF e = file_address THEN 0 ELSE map[e].next
<1>0. TypeOK /\ pc = "record"
  BY DEF Inv, Record
<1>1. \A a \in Addr : disk'[a].recs = IF a = dir_address THEN dir ELSE disk[a].recs
  <2>1. disk' = [disk EXCEPT ![dir_address] = DirBlock(dir)]
    BY DEF Record
  <2> QED BY <1>0, <2>1 DEF TypeOK, DirBlock
<1>2. \A e \in Entries :
        /\ map'[e].type = map[e].type
        /\ map'[e].next = IF e = file_address THEN 0 ELSE map[e].next
  <2>1. map \in [Entries -> MapPtr] /\ map' = [map EXCEPT ![file_address].next = 0]
    BY <1>0 DEF Record, TypeOK
  <2> QED BY <2>1 DEF MapPtr
<1>3. ASSUME NEW t \in Slots
      PROVE  \/ dir[t] = Here[t]
             \/ /\ InUse(Here[t]) /\ dir[t].perm \in {"plain", "ifreg"}
                /\ dir[t].type = "FILE" /\ Here[t].type = "FILE"
                /\ dir[t].addr = Here[t].addr /\ dir[t].name = Here[t].name
  BY <1>0, OpenFile
<1> QED BY <1>1, <1>2, <1>3 DEF Here

LEMMA TrimEffect ==
  ASSUME Inv, Trim
  PROVE  /\ disk' = disk /\ boot' = boot /\ map[trim_address].type = "FILE"
         /\ trim_address \in Addr /\ trim_address' = map[trim_address].next
         /\ \A e \in Entries : map'[e] = IF e = trim_address THEN EmptyPtr ELSE map[e]
         /\ \A o \in Sites : Target(o) # trim_address
<1>1. TypeOK /\ TrimSound /\ pc = "trim"
  BY DEF Inv, Trim
<1>2. \A e \in Entries : map'[e] = IF e = trim_address THEN EmptyPtr ELSE map[e]
  BY <1>1 DEF Trim, TypeOK
<1> QED BY <1>1, <1>2 DEF Trim, image, TypeOK, TrimSound

-----------------------------------------------------------------------------
(* Before the boot sector names a root, the image holds nothing.           *)

LEMMA BlankStep ==
  ASSUME Inv, [Next]_vars PROVE Blank'
<1> USE DEF image, walk, rec, fork, Formats
<1>0. Control /\ Blank /\ TypeOK
  BY DEF Inv
<1>1. CASE Quiet
  <2>1. /\ map' = map /\ disk' = disk /\ boot'.sig = boot.sig /\ boot'.root = boot.root
        /\ pc' \in Formats => pc' = pc
        /\ pc \in Formats => pc' = pc
    BY <1>1, QuietSteps
  <2> QED BY <1>0, <2>1 DEF Blank, InUse
<1>2. CASE FmtBoot
  <2>1. PICK stray \in [Addr \ OnHeap -> Heap] : map' = FreshMap(stray)
    BY <1>2 DEF FmtBoot
  <2>2. \A e \in Entries : map'[e].type \notin {"FILE", "DIR"}
    BY <2>1, FreshTypes
  <2>3. disk' = disk /\ boot'.root = boot.root /\ pc' = "fmt_root" /\ boot'.sig
    BY <1>0, <1>2 DEF FmtBoot, TypeOK
  <2> QED BY <1>0, <1>2, <2>2, <2>3 DEF Blank, InUse, FmtBoot
<1>3. CASE FmtRoot
  <2>1. PICK b \in Addr : IsFirstFree(b) /\ boot' = [boot EXCEPT !.root = b]
    BY <1>3 DEF FmtRoot
  <2>2. b # 0
    BY <1>3, <2>1, FreeBlock DEF FmtRoot, IsFirstFree, Formatted
  <2>3. boot'.root = b /\ boot'.sig /\ disk' = disk /\ pc' = "fmt_zero"
    BY <1>0, <1>3, <2>1 DEF FmtRoot, TypeOK, Control, Formatted
  <2> QED BY <1>0, <1>3, <2>2, <2>3 DEF Blank, InUse, FmtRoot
<1>4. ASSUME NEW r \in Requests, GenFs(r) PROVE Blank'
  <2>1. /\ boot'.root = 0 /\ ~boot'.sig
        /\ \A e \in Entries : map'[e].type \notin {"FILE", "DIR"}
    BY <1>4 DEF GenFs, ZeroMap, EmptyPtr
  <2>2. \A a \in Addr, s \in Slots : disk'[a].recs[s].perm = "none"
    BY <1>4 DEF GenFs, ZeroBlock, NoRec
  <2> QED BY <2>1, <2>2 DEF Blank, InUse
<1>5. CASE FmtZero \/ BootLoader \/ Insert \/ Clear \/ Extend \/ Write \/ Record \/ Trim
  <2>1. /\ boot' = boot /\ boot.sig /\ pc \notin {"fmt_boot", "fmt_root"}
        /\ pc' \notin Formats
    BY <1>0, <1>5 DEF FmtZero, BootLoader, Insert, Clear, Extend, Write, Record, Trim,
                      Control, Formatted, Finish
  <2> QED BY <1>0, <2>1 DEF Blank
<1> QED BY <1>1, <1>2, <1>3, <1>4, <1>5, NextCases

-----------------------------------------------------------------------------
(* Records in use lie in directory blocks and name a block.                *)

(* One record, in a block that the step leaves a directory if it was one.  *)
SoundRecord(r, t) ==
  /\ InUse(r) => /\ t = "DIR" /\ r.addr # 0
                 /\ r.perm = "ifdir" => r.type = "DIR"
                 /\ r.type \in {"FILE", "DIR"}
  /\ r.perm = "junk" => r.name = NoName

LEMMA RecordsNow ==
  RecordsSound <=> \A a \in Addr, s \in Slots : SoundRecord(disk[a].recs[s], map[a].type)
BY DEF RecordsSound, SoundRecord

LEMMA RecordsNext ==
  RecordsSound' <=> \A a \in Addr, s \in Slots : SoundRecord(disk'[a].recs[s], map'[a].type)
BY DEF RecordsSound, SoundRecord, InUse

LEMMA EmptyRecords ==
  \A t : SoundRecord(NoRec, t) /\ SoundRecord(JunkRec, t)
BY DEF SoundRecord, NoRec, JunkRec, InUse

(* A record stays sound when its block stays what it is or was free.       *)
LEMMA StillSound ==
  ASSUME NEW r, NEW t, NEW u, SoundRecord(r, t), t = "DIR" => u = "DIR"
  PROVE  SoundRecord(r, u)
BY DEF SoundRecord

LEMMA RecordsStep ==
  ASSUME Inv, [Next]_vars PROVE RecordsSound'
<1> USE DEF image, walk, rec, fork
<1>0. TypeOK /\ Control
  BY DEF Inv
<1>1. \A a \in Addr, s \in Slots : SoundRecord(disk[a].recs[s], map[a].type)
  BY RecordsNow DEF Inv
<1>2. ASSUME NEW d \in Addr, NEW j \in Rec, \A t : SoundRecord(j, t), map' = map,
             disk' = disk \/ \E x : /\ x.recs = [s \in Slots |-> j]
                                    /\ disk' = [disk EXCEPT ![d] = x]
      PROVE  RecordsSound'
  <2>1. \A a \in Addr, s \in Slots :
          disk'[a].recs[s] = disk[a].recs[s] \/ disk'[a].recs[s] = j
    BY <1>0, <1>2 DEF TypeOK
  <2> QED BY <1>1, <1>2, <2>1, RecordsNext
<1>3. CASE Quiet
  BY <1>1, <1>3, QuietSteps, RecordsNext
<1>4. CASE FmtZero \/ Clear
  <2>1. PICK d \in Addr : disk' = [disk EXCEPT ![d] = ZeroBlock]
    BY <1>0, <1>4 DEF FmtZero, Clear, TypeOK
  <2>2. ZeroBlock.recs = [s \in Slots |-> NoRec]
    BY DEF ZeroBlock
  <2>3. map' = map
    BY <1>4 DEF FmtZero, Clear
  <2> HIDE DEF ZeroBlock
  <2> QED BY <1>2, <2>1, <2>2, <2>3, EmptyRecords, ConstantTypes
<1>5. CASE BootLoader
  <2>1. CASE disk' = disk
    BY <1>1, <1>5, <2>1, RecordsNext DEF BootLoader
  <2>2. CASE /\ w + 1 < BootBlocks
             /\ disk' = [disk EXCEPT ![w + 1] = LoaderBlock(req.src, w * BlockBytes)]
    <3>1. w + 1 \in Addr
      BY <1>0, <2>2, Geometry DEF TypeOK, Addr, FirstData
    <3>2. LoaderBlock(req.src, w * BlockBytes).recs = [s \in Slots |-> JunkRec]
      BY DEF LoaderBlock
    <3>3. map' = map
      BY <1>5 DEF BootLoader
    <3> HIDE DEF LoaderBlock
    <3> QED BY <1>2, <2>2, <3>1, <3>2, <3>3, EmptyRecords, ConstantTypes
  <2> QED BY <1>5, <2>1, <2>2 DEF BootLoader
<1>6. CASE FmtBoot \/ \E r \in Requests : GenFs(r)
  <2>1. \A a \in Addr, s \in Slots : SoundRecord(disk'[a].recs[s], map'[a].type)
    <3>1. CASE FmtBoot
      <4>1. \A a \in Addr, s \in Slots : ~InUse(disk[a].recs[s]) /\ disk' = disk
        BY <1>0, <3>1 DEF FmtBoot, Inv, Blank
      <4> QED BY <1>1, <4>1 DEF SoundRecord
    <3>2. CASE \E r \in Requests : GenFs(r)
      <4>1. \A a \in Addr, s \in Slots : disk'[a].recs[s] = NoRec
        BY <3>2 DEF GenFs, ZeroBlock
      <4> QED BY <4>1, EmptyRecords
    <3> QED BY <1>6, <3>1, <3>2
  <2> QED BY <2>1, RecordsNext
<1>7. CASE FmtRoot
  <2>1. \A a \in Addr, s \in Slots : ~InUse(disk[a].recs[s]) /\ disk' = disk
    BY <1>0, <1>7 DEF FmtRoot, Inv, Blank
  <2>2. \A a \in Addr, s \in Slots : SoundRecord(disk'[a].recs[s], map'[a].type)
    BY <1>1, <2>1 DEF SoundRecord
  <2> QED BY <2>2, RecordsNext
<1>8. CASE Insert
  <2> PICK i \in Slots, b \in Addr :
        /\ map[b].type = "EMPTY" /\ map[dir_address].type = "DIR" /\ b # dir_address
        /\ NewType \in {"FILE", "DIR"}
        /\ \A e \in Entries :
             map'[e] = IF e = b THEN [type |-> NewType, next |-> 0] ELSE map[e]
        /\ \A a \in Addr, t \in Slots :
             disk'[a].recs[t] = IF a = dir_address /\ t = i THEN NewRec(b)
                                ELSE disk[a].recs[t]
    BY <1>8, InsertEffect
  <2>1. b # 0
    BY <1>8, FreeBlock DEF Insert, Formatted
  <2>2. SoundRecord(NewRec(b), "DIR")
    BY <2>1 DEF SoundRecord, NewRec, NewType, InUse
  <2>3. \A a \in Addr : map[a].type = "DIR" => map'[a].type = "DIR"
    BY Geometry
  <2>4. \A a \in Addr, s \in Slots : SoundRecord(disk'[a].recs[s], map'[a].type)
    BY <1>0, <1>1, <2>2, <2>3, StillSound DEF TypeOK
  <2> QED BY <2>4, RecordsNext
<1>9. CASE Extend
  <2>1. \A a \in Addr : map[a].type = "DIR" => map'[a].type = "DIR"
    BY <1>9, ExtendEffect, Geometry DEF LinksTo
  <2>2. \A a \in Addr, s \in Slots : SoundRecord(disk'[a].recs[s], map'[a].type)
    BY <1>1, <1>9, <2>1, StillSound DEF Extend
  <2> QED BY <2>2, RecordsNext
<1>10. CASE Write
  <2>1. \A a \in Addr : map[a].type = "DIR" => map'[a].type = "DIR"
    BY <1>10, WriteEffect, Geometry DEF LinksTo
  <2>2. \A a \in Addr, s \in Slots :
          disk'[a].recs[s] = disk[a].recs[s] \/ disk'[a].recs[s] \in {JunkRec, NoRec}
    BY <1>10, WriteEffect
  <2>3. \A a \in Addr, s \in Slots : SoundRecord(disk'[a].recs[s], map'[a].type)
    BY <1>1, <2>1, <2>2, StillSound, EmptyRecords
  <2> QED BY <2>3, RecordsNext
<1>11. CASE Record
  <2>1. \A a \in Addr : map'[a].type = map[a].type
    BY <1>11, RecordEffect, Geometry
  <2>2. ASSUME NEW a \in Addr, NEW s \in Slots
        PROVE  SoundRecord(disk'[a].recs[s], map'[a].type)
    <3>1. SoundRecord(disk[a].recs[s], map[a].type)
      BY <1>1
    <3>2. CASE disk'[a].recs[s] = disk[a].recs[s]
      BY <2>1, <3>1, <3>2
    <3>3. CASE /\ InUse(disk[a].recs[s])
               /\ disk'[a].recs[s].perm \in {"plain", "ifreg"}
               /\ disk'[a].recs[s].type = "FILE"
               /\ disk'[a].recs[s].addr = disk[a].recs[s].addr
      BY <2>1, <3>1, <3>3 DEF SoundRecord, InUse
    <3> QED BY <1>11, <3>2, <3>3, RecordEffect
  <2> QED BY <2>2, RecordsNext
<1>12. CASE Trim
  <2>1. \A a \in Addr : map[a].type = "DIR" => map'[a].type = "DIR"
    BY <1>12, TrimEffect, Geometry
  <2>2. \A a \in Addr, s \in Slots : SoundRecord(disk'[a].recs[s], map'[a].type)
    BY <1>1, <1>12, <2>1, StillSound, TrimEffect
  <2> QED BY <2>2, RecordsNext
<1> QED BY <1>3, <1>4, <1>5, <1>6, <1>7, <1>8, <1>9, <1>10, <1>11, <1>12, NextCases

-----------------------------------------------------------------------------
(* The walk of mkdir and add stays on directory blocks.                    *)

LEMMA FoundRecord ==
  ASSUME Inv, Search, Creates, NEW s \in Slots, Matches(Here[s])
  PROVE  /\ InUse(Here[s]) /\ Here[s].addr \in Addr /\ Here[s].addr # 0
         /\ map[Here[s].addr].type = Here[s].type
         /\ Here[s].type \in {"FILE", "DIR"}
         /\ Here[s].perm = "ifdir" => Here[s].type = "DIR"
         /\ map[dir_address].type = "DIR" /\ map[dir_first_address].type = "DIR"
<1>1. TypeOK /\ Control /\ WalkSound /\ Walking
  BY DEF Inv, Search, Walking
<1>2. dir_address \in Addr /\ Here = disk[dir_address].recs
  BY <1>1 DEF TypeOK, Here
<1>3. Part \in Names
  <2>1. part_i \in 1 .. Len(req.path) /\ req.path \in Seq(Names)
    BY <1>1, RequestTypes DEF Control, TypeOK, Walking, Search
  <2> QED BY <2>1 DEF Part
<1>4. Here[s].perm \in Perms \ {"none", "junk"}
  <2>1. Here[s].perm \in Perms /\ (Here[s].perm = "junk" => Here[s].name = NoName)
    BY <1>1, <1>2, PartTypes DEF Inv, RecordsSound
  <2>2. Here[s].name # NoName /\ Here[s].perm # "none"
    BY <1>3, RequestsAssumption DEF Matches
  <2> QED BY <2>1, <2>2
<1>5. InUse(Here[s])
  BY <1>4 DEF InUse, Perms
<1>6. /\ Here[s].addr \in Addr /\ Here[s].addr # 0
      /\ map[Here[s].addr].type = Here[s].type
  BY <1>2, <1>5, RecordBlock
<1>7. Here[s].type \in {"FILE", "DIR"} /\ (Here[s].perm = "ifdir" => Here[s].type = "DIR")
  BY <1>2, <1>5 DEF Inv, RecordsSound
<1> QED BY <1>1, <1>5, <1>6, <1>7 DEF WalkSound

LEMMA WalkStep ==
  ASSUME Inv, [Next]_vars PROVE WalkSound'
<1> USE DEF image, walk, rec, fork
<1>0. TypeOK /\ Control /\ WalkSound
  BY DEF Inv
<1>1. ASSUME pc' \notin {"search", "insert", "clear"} PROVE WalkSound'
  BY <1>1 DEF WalkSound, Walking
<1>2. ASSUME pc' # "clear", map[dir_address'].type = "DIR",
             map[dir_first_address'].type = "DIR", map' = map
      PROVE  WalkSound'
  BY <1>2 DEF WalkSound
<1>3. CASE Found
  <2>0. pc' # "clear" /\ map' = map /\ Search /\ req' = req
    BY <1>3 DEF Found, Search, Enter, EnterOrOpen, Reject, Follow, NextPart, Finish
  <2>1. CASE Creates
    <3> PICK s \in Slots :
          /\ FirstMatch(s)
          /\ Enter(Here[s]) \/ EnterOrOpen(Here[s], s) \/ Reject(Here[s]) \/ Follow(Here[s])
      BY <1>3 DEF Found
    <3>0. Matches(Here[s])
      BY DEF FirstMatch
    <3>1. /\ map[Here[s].addr].type = Here[s].type
          /\ Here[s].type \in {"FILE", "DIR"}
          /\ Here[s].perm = "ifdir" => Here[s].type = "DIR"
          /\ map[dir_address].type = "DIR" /\ map[dir_first_address].type = "DIR"
      BY <2>0, <2>1, <3>0, FoundRecord
    <3>2. CASE Enter(Here[s])
      <4>1. req.op = "mkdir" /\ Here[s].type = "DIR"
        BY <2>1, <3>0, <3>1, <3>2 DEF Enter, Matches, Creates
      <4> QED BY <1>2, <2>0, <3>1, <3>2, <4>1 DEF Enter
    <3>3. CASE EnterOrOpen(Here[s], s)
      BY <1>2, <2>0, <3>1, <3>3 DEF EnterOrOpen
    <3>4. CASE Reject(Here[s])
      BY <1>1, <3>4 DEF Reject, Finish
    <3>5. CASE Follow(Here[s])
      BY <2>1, <3>5 DEF Follow, Creates
    <3> QED BY <3>2, <3>3, <3>4, <3>5
  <2>2. CASE ~Creates
    BY <2>0, <2>2 DEF WalkSound, Walking, Creates
  <2> QED BY <2>1, <2>2
<1>4. CASE SearchOn \/ InsertOn
  <2>0. pc' = pc /\ pc # "clear" /\ map' = map /\ req' = req /\ part_i' = part_i
    BY <1>4 DEF SearchOn, InsertOn, Search
  <2>1. CASE Walking
    <3>1. map[dir_address].type = "DIR" /\ map[dir_first_address].type = "DIR"
      BY <1>0, <2>1 DEF WalkSound
    <3>2. /\ dir_address \in Addr /\ map[dir_address].next # 0
          /\ dir_address' = map[dir_address].next /\ dir_first_address' = dir_first_address
      BY <1>0, <1>4 DEF SearchOn, InsertOn, HasNext, TypeOK
    <3>3. map[dir_address'].type = "DIR"
      BY <3>1, <3>2, NextBlock DEF InFork
    <3> QED BY <1>2, <2>0, <3>1, <3>2, <3>3
  <2>2. CASE ~Walking
    BY <2>0, <2>2 DEF WalkSound, Walking, Creates
  <2> QED BY <2>1, <2>2
<1>5. CASE NotFound
  <2>1. CASE Creates
    <3>1. map[dir_first_address].type = "DIR"
      BY <1>0, <1>5, <2>1 DEF NotFound, Search, WalkSound, Walking
    <3> QED BY <1>2, <1>5, <2>1, <3>1 DEF NotFound
  <2>2. CASE ~Creates
    BY <1>1, <1>5, <2>2 DEF NotFound, Finish
  <2> QED BY <2>1, <2>2
<1>6. ASSUME NEW r \in Requests, Start(r) PROVE WalkSound'
  <2>1. map' = map /\ pc' # "clear"
    BY <1>6, RequestTypes DEF Start, FirstStep, Commands, Inv, UmountSound
  <2>2. boot.root # 0 /\ boot.sig
    BY <1>6 DEF Start, Mountable, Inv, Blank
  <2>3. map[boot.root].type = "DIR"
    BY <2>2, SiteKinds, TargetNow DEF Inv, TargetsLive
  <2> QED BY <1>2, <1>6, <2>1, <2>3 DEF Start
<1>7. CASE Insert
  <2> PICK i \in Slots, b \in Addr :
        /\ map[b].type = "EMPTY" /\ dir_address \in Addr
        /\ map[dir_address].type = "DIR" /\ b # dir_address
        /\ \A e \in Entries :
             map'[e] = IF e = b THEN [type |-> NewType, next |-> 0] ELSE map[e]
        /\ \A a \in Addr, t \in Slots :
             disk'[a].recs[t] = IF a = dir_address /\ t = i THEN NewRec(b)
                                ELSE disk[a].recs[t]
        /\ dir' = disk'[dir_address].recs /\ dir_first_address' = b
    BY <1>7, InsertEffect
  <2>1. \A s \in Slots : ~InUse(disk[b].recs[s])
    BY <1>7, FreeBlock DEF Insert, Formatted
  <2>2. \A s \in Slots : ~InUse(disk'[b].recs[s])
    BY <2>1
  <2>3. map'[b].type = NewType /\ map'[dir_address].type = "DIR"
    BY Geometry
  <2>4. pc' = "clear" /\ dir_address' = dir_address /\ NewType' = NewType
    BY <1>7 DEF Insert, NewType, MoreParts
  <2>5. dir' = Here'
    BY <2>4 DEF Here
  <2>6. \A s \in Slots : ~InUse(disk[dir_first_address].recs[s])'
    BY <2>2 DEF InUse
  <2> QED BY <2>3, <2>4, <2>5, <2>6 DEF WalkSound, Walking
<1>8. CASE Clear
  <2>1. /\ map[dir_address].type = "DIR" /\ map[dir_first_address].type = NewType
        /\ pc' = "search" /\ map' = map /\ req' = req /\ part_i' = part_i + 1
        /\ dir_address' = dir_address /\ dir_first_address' = dir_first_address
    BY <1>0, <1>8 DEF Clear, WalkSound
  <2>2. Walking' => MoreParts
    <3>1. part_i \in Nat /\ Len(req.path) \in Nat
      BY <1>0, <1>8, RequestTypes DEF TypeOK, Clear, Control
    <3> QED BY <2>1, <3>1 DEF Walking, MoreParts
  <2>3. Walking' => NewType = "DIR"
    BY <2>2 DEF NewType
  <2> QED BY <2>1, <2>3 DEF WalkSound
<1>9. CASE Extend
  <2>1. PICK b \in Addr :
          LinksTo(dir_address, b, "DIR") /\ (dir_address' = b \/ pc' = "umount")
    BY <1>9, ExtendEffect
  <2>2. map[dir_first_address].type = "DIR" /\ dir_first_address \in Addr
    BY <1>0, <1>9 DEF Extend, WalkSound, Walking, Control, TypeOK
  <2>3. map'[b].type = "DIR" /\ map'[dir_first_address].type = "DIR"
    BY <2>1, <2>2, Geometry DEF LinksTo
  <2>4. pc' \in {"insert", "umount"} /\ dir_first_address' = dir_first_address
    BY <1>9 DEF Extend, Finish
  <2> QED BY <2>1, <2>3, <2>4 DEF WalkSound, Walking
<1>10. CASE \/ FmtBoot \/ FmtRoot \/ FmtZero \/ BootSect \/ BootLoader \/ NoRoom \/ Write
            \/ SourceEnds \/ Record \/ Trim \/ List \/ Read \/ Umount \/ Unmounted \/ Exit
            \/ (\E r \in Requests : MountFails(r) \/ GenFs(r))
  BY <1>1, <1>10 DEF FmtBoot, FmtRoot, FmtZero, BootSect, BootLoader, NoRoom, Write,
     SourceEnds, Record, Trim, List, Read, Umount, Unmounted, Exit, MountFails, GenFs,
     Finish, ProcessEnds
<1>11. CASE WalkDone
  BY <1>0, <1>1, <1>11 DEF WalkDone, PathDone, AfterPath, Control
<1>12. CASE UNCHANGED vars
  BY <1>0, <1>12 DEF vars, WalkSound, Walking, Creates, NewType, MoreParts, Here, InUse
<1> QED BY <1>3, <1>4, <1>5, <1>6, <1>7, <1>8, <1>9, <1>10, <1>11, <1>12 DEF Next, Step

-----------------------------------------------------------------------------
(* The file that add writes and its directory buffer.                      *)

LEMMA BufferStep ==
  ASSUME Inv, [Next]_vars PROVE BufferSound'
<1> USE DEF image, walk, rec, fork
<1>0. TypeOK /\ Control /\ WalkSound /\ BufferSound
  BY DEF Inv
<1>1. ASSUME pc' \notin {"write", "record", "clear", "search"} PROVE BufferSound'
  BY <1>1 DEF BufferSound, FileOpen, PathDone
<1>2. ASSUME pc' = "search", ~PathDone' PROVE BufferSound'
  BY <1>2 DEF BufferSound, FileOpen
<1>3. CASE Found
  <2>0. Search /\ disk' = disk /\ map' = map /\ req' = req
    BY <1>3 DEF Found
  <2>1. CASE req.op = "add"
    <3> PICK s \in Slots :
          /\ FirstMatch(s)
          /\ Enter(Here[s]) \/ EnterOrOpen(Here[s], s) \/ Reject(Here[s]) \/ Follow(Here[s])
      BY <1>3 DEF Found
    <3>1. /\ InUse(Here[s]) /\ map[Here[s].addr].type = Here[s].type
          /\ Here[s].type \in {"FILE", "DIR"} /\ map[dir_address].type = "DIR"
      BY <2>0, <2>1, FoundRecord DEF FirstMatch, Creates
    <3>2. CASE EnterOrOpen(Here[s], s)
      <4>1. CASE Here[s].type # "FILE"
        <5>1. MoreParts /\ pc' = "search" /\ part_i' = part_i + 1
          BY <2>0, <3>1, <3>2, <4>1 DEF EnterOrOpen, PathMisused, NextPart, Search
        <5>2. part_i \in Nat /\ Len(req.path) \in Nat
          BY <1>0, <2>0, RequestTypes DEF TypeOK, Search, Control
        <5>3. ~PathDone'
          BY <2>0, <5>1, <5>2 DEF PathDone, MoreParts
        <5> QED BY <1>2, <5>1, <5>3
      <4>2. CASE Here[s].type = "FILE"
        <5>1. /\ dir_address' = dir_address /\ file_address' = Here[s].addr /\ slot' = s
              /\ dir' = [Here EXCEPT ![s].perm = "ifreg"]
          BY <3>2, <4>2 DEF EnterOrOpen
        <5>2. Here \in [Slots -> Rec] /\ Here[s] \in Rec
          BY <1>0, PartTypes DEF TypeOK, Here
        <5>3. /\ \A t \in Slots : t # s => dir'[t] = Here[t]
              /\ dir'[s].perm = "ifreg" /\ dir'[s].addr = Here[s].addr
              /\ dir'[s].name = Here[s].name
              /\ dir'[s].type = Here[s].type
          BY <5>1, <5>2 DEF Rec
        <5>4. Here' = Here /\ InUse(Here[slot])'
          BY <2>0, <3>1, <5>1 DEF Here, InUse
        <5> QED BY <2>0, <3>1, <4>2, <5>1, <5>3, <5>4 DEF BufferSound
      <4> QED BY <4>1, <4>2
    <3>3. CASE Reject(Here[s])
      BY <1>1, <3>3 DEF Reject, Finish
    <3> QED BY <2>1, <3>2, <3>3 DEF Enter, Follow
  <2>2. CASE req.op # "add"
    <3>1. pc' \in {"search", "umount"}
      BY <1>3 DEF Found, Search, Enter, EnterOrOpen, Reject, Follow, NextPart, Finish
    <3> QED BY <2>0, <2>2, <3>1 DEF BufferSound, FileOpen
  <2> QED BY <2>1, <2>2
<1>4. CASE SearchOn \/ NotFound
  <2>1. ~PathDone'
    BY <1>0, <1>4, RequestTypes DEF SearchOn, NotFound, Search, PathDone, TypeOK, Control
  <2>2. pc' \in {"search", "insert", "umount"}
    BY <1>4 DEF SearchOn, NotFound, Search, Finish
  <2> QED BY <1>1, <1>2, <2>1, <2>2
<1>5. ASSUME NEW r \in Requests, Start(r) PROVE BufferSound'
  <2>1. CASE r.op = "add"
    <3>1. part_i' = 1 /\ req' = r /\ pc' = "search" /\ r.path # << >> /\ r.path \in Seq(Names)
      BY <1>0, <1>5, <2>1, RequestTypes DEF Start, Control, FirstStep
    <3>2. Len(r.path) >= 1
      BY <3>1
    <3> QED BY <1>2, <3>1, <3>2 DEF PathDone
  <2>2. CASE r.op # "add"
    BY <1>5, <2>2, RequestTypes DEF Start, FirstStep, Commands, BufferSound, FileOpen
  <2> QED BY <2>1, <2>2
<1>6. CASE Insert
  <2> PICK i \in Slots, b \in Addr :
        /\ dir_address \in Addr /\ map[dir_address].type = "DIR" /\ b # dir_address
        /\ \A e \in Entries :
             map'[e] = IF e = b THEN [type |-> NewType, next |-> 0] ELSE map[e]
        /\ \A a \in Addr, t \in Slots :
             disk'[a].recs[t] = IF a = dir_address /\ t = i THEN NewRec(b)
                                ELSE disk[a].recs[t]
        /\ dir' = disk'[dir_address].recs
        /\ slot' = i /\ file_address' = b
    BY <1>6, InsertEffect
  <2>1. pc' = "clear" /\ dir_address' = dir_address /\ NewType' = NewType
    BY <1>6 DEF Insert, NewType, MoreParts
  <2>2. CASE NewType = "FILE"
    <3>1. map'[dir_address].type = "DIR" /\ map'[b].type = "FILE"
      BY <2>2, Geometry
    <3>2. dir' = Here' /\ dir'[i] = NewRec(b)
      BY <2>1 DEF Here
    <3>3. NewRec(b).perm = "plain" /\ NewRec(b).type = "FILE"
      BY <2>2 DEF NewRec, NewType
    <3> QED BY <2>1, <3>1, <3>2, <3>3 DEF BufferSound, InUse
  <2>3. CASE NewType # "FILE"
    BY <2>1, <2>3 DEF BufferSound, FileOpen, PathDone
  <2> QED BY <2>2, <2>3
<1>7. CASE Clear
  <2>1. /\ pc' = "search" /\ map' = map /\ req' = req /\ part_i' = part_i + 1
        /\ dir_address' = dir_address /\ file_address' = file_address
        /\ dir' = dir /\ slot' = slot
        /\ disk' = [disk EXCEPT ![dir_first_address] = ZeroBlock]
    BY <1>7 DEF Clear
  <2>2. CASE FileOpen
    <3>1. NewType = "FILE" /\ BufferSound
      BY <1>0, <1>7, <2>2 DEF FileOpen, Clear, PathDone
    <3>2. dir_address # dir_first_address
      BY <1>0, <1>7, <3>1 DEF WalkSound, Clear
    <3>3. Here' = Here
      BY <1>0, <2>1, <3>2 DEF Here, TypeOK
    <3> QED BY <2>1, <2>2, <3>1, <3>3 DEF BufferSound, InUse
  <2>3. CASE ~FileOpen
    <3>1. NewType = "DIR"
      BY <1>7, <2>3 DEF FileOpen, Clear, NewType
    <3>2. part_i \in Nat /\ Len(req.path) \in Nat
      BY <1>0, <1>7, RequestTypes DEF TypeOK, Clear, Control
    <3> QED BY <2>1, <3>1, <3>2 DEF NewType, BufferSound, FileOpen, PathDone, MoreParts
  <2> QED BY <2>2, <2>3
<1>8. CASE WalkDone
  <2>1. CASE req.op = "add"
    <3>1. FileOpen /\ BufferSound
      BY <1>0, <1>8, <2>1 DEF WalkDone, FileOpen
    <3>2. /\ disk' = disk /\ map' = map /\ dir_address' = dir_address /\ slot' = slot
          /\ file_address' = file_address /\ dir' = [dir EXCEPT ![slot].size = 0]
      BY <1>8, <2>1 DEF WalkDone
    <3>3. dir \in [Slots -> Rec] /\ slot \in Slots /\ dir[slot] \in Rec
      BY <1>0 DEF TypeOK
    <3>4. /\ \A t \in Slots : t # slot => dir'[t] = dir[t]
          /\ dir'[slot].perm = dir[slot].perm /\ dir'[slot].addr = dir[slot].addr
          /\ dir'[slot].type = dir[slot].type /\ dir'[slot].name = dir[slot].name
      BY <3>2, <3>3 DEF Rec
    <3>5. Here' = Here
      BY <3>2 DEF Here
    <3> QED BY <3>1, <3>2, <3>4, <3>5 DEF BufferSound, InUse
  <2>2. CASE req.op # "add"
    BY <1>0, <1>1, <1>8, <2>2 DEF WalkDone, PathDone, AfterPath, Control
  <2> QED BY <2>1, <2>2
<1>9. CASE Write
  <2>1. /\ dir_address \in Addr /\ file_address \in Addr /\ slot \in Slots
        /\ map[dir_address].type = "DIR" /\ map[file_address].type = "FILE"
        /\ dir_address # file_address
        /\ \A s \in Slots : s # slot => dir[s] = Here[s]
        /\ InUse(Here[slot]) /\ dir[slot].perm \in {"plain", "ifreg"}
        /\ dir[slot].addr = Here[slot].addr /\ dir[slot].name = Here[slot].name
        /\ dir[slot].type = "FILE" /\ Here[slot].type = "FILE"
    BY <1>9, OpenFile DEF Write
  <2>2. dir_address' = dir_address /\ slot' = slot
    BY <1>9 DEF Write
  <2>3. \A t \in Slots : Here'[t] = Here[t]
    BY <1>9, <2>1, <2>2, WriteEffect DEF Here
  <2>4. /\ \A t \in Slots : t # slot => dir'[t] = dir[t]
        /\ dir'[slot].perm = dir[slot].perm /\ dir'[slot].addr = dir[slot].addr
        /\ dir'[slot].type = dir[slot].type /\ dir'[slot].name = dir[slot].name
    BY <1>9, WriteEffect
  <2>5. map'[dir_address].type = "DIR" /\ map'[file_address'].type = "FILE"
    <3>1. CASE map' = map /\ file_address' = file_address
      BY <2>1, <3>1
    <3>2. CASE /\ map' = map /\ map[file_address].next # 0
               /\ file_address' = map[file_address].next
      BY <2>1, <3>2, NextBlock DEF InFork
    <3>3. CASE \E b \in Addr : /\ LinksTo(file_address, b, "FILE")
                               /\ file_address' = b \/ file_address' = file_address
      BY <2>1, <3>3, Geometry DEF LinksTo
    <3> QED BY <1>9, <3>1, <3>2, <3>3, WriteEffect
  <2>6. InUse(Here[slot])'
    BY <2>1, <2>2, <2>3 DEF InUse
  <2> QED BY <2>1, <2>2, <2>3, <2>4, <2>5, <2>6 DEF BufferSound
<1>10. CASE SourceEnds
  <2>1. FileOpen /\ BufferSound
    BY <1>0, <1>10 DEF SourceEnds, FileOpen
  <2> QED BY <1>10, <2>1 DEF SourceEnds, BufferSound, Here, InUse
<1>11. CASE InsertOn \/ Extend \/ Exit \/ FmtBoot \/ FmtRoot \/ FmtZero \/ BootSect \/ BootLoader
            \/ NoRoom \/ Record \/ Trim \/ List \/ Read \/ Umount \/ Unmounted
            \/ (\E r \in Requests : MountFails(r) \/ GenFs(r))
  BY <1>1, <1>11 DEF InsertOn, Extend, Exit, FmtBoot, FmtRoot, FmtZero, BootSect, BootLoader,
     NoRoom, Record, Trim, List, Read, Umount, Unmounted, MountFails, GenFs, Finish, ProcessEnds
<1>12. CASE UNCHANGED vars
  BY <1>0, <1>12 DEF vars, BufferSound, FileOpen, PathDone, NewType, MoreParts, Here, InUse
<1> QED BY <1>3, <1>4, <1>5, <1>6, <1>7, <1>8, <1>9, <1>10, <1>11, <1>12 DEF Next, Step

-----------------------------------------------------------------------------
(* The end of a process: the map and its mirror on the image.              *)

(* Every map entry is in one of the MapBlocks blocks of the map.           *)
LEMMA EntryBlock ==
  \A e \in Entries : e \div EntriesPerBlock \in 0 .. MapBlocks - 1
<1> SUFFICES ASSUME NEW e \in Entries
             PROVE  e \div EntriesPerBlock \in 0 .. MapBlocks - 1
  OBVIOUS
<1> DEFINE n == EntriesPerBlock  m == MapBlocks  q == e \div n
<1>1. n \in Nat \ {0} /\ m \in Nat /\ e \in Nat /\ m * n \in Nat /\ e < m * n
  BY Geometry DEF Entries
<1>2. q \in Nat /\ n * q <= e
  BY <1>1
<1>3. q < m
  <2> SUFFICES ASSUME q >= m PROVE FALSE
    BY <1>1, <1>2
  <2> HIDE DEF n, m, q
  <2>1. q - m \in Nat /\ n * (q - m) \in Nat
    BY <1>1, <1>2
  <2>2. n * q = n * (q - m) + m * n
    BY <1>1, <1>2, <2>1
  <2> QED BY <1>1, <1>2, <2>1, <2>2
<1> QED BY <1>1, <1>2, <1>3

LEMMA UmountStep ==
  ASSUME Inv, [Next]_vars PROVE UmountSound'
<1> USE DEF image, walk, rec, fork
<1>0. TypeOK /\ Control /\ UmountSound
  BY DEF Inv
<1>1. ASSUME pc' \notin {"idle", "exit", "umount"} PROVE UmountSound'
  BY <1>1 DEF UmountSound
<1>2. ASSUME pc' = "umount", w' = 0 PROVE UmountSound'
  <2>1. \A e \in Entries : e \div EntriesPerBlock \in Nat
    BY EntryBlock, Geometry
  <2> QED BY <1>2, <2>1, Geometry DEF UmountSound
<1>3. CASE Umount
  <2>1. w \in Nat /\ w < 2 * MapBlocks /\ w' = w + 1 /\ pc' = "umount" /\ map' = map
    BY <1>0, <1>3 DEF Umount, TypeOK
  <2>2. ASSUME NEW e \in Entries
        PROVE  /\ 2 * (e \div EntriesPerBlock) < w + 1 => prim'[e] = map[e]
               /\ 2 * (e \div EntriesPerBlock) + 1 < w + 1 => back'[e] = map[e]
    <3> DEFINE q == e \div EntriesPerBlock
    <3>1. q \in Nat
      BY EntryBlock, Geometry
    <3>2. (2 * q < w => prim[e] = map[e]) /\ (2 * q + 1 < w => back[e] = map[e])
      BY <1>0, <1>3 DEF UmountSound, Umount
    <3>3. e \in Chunk(w \div 2) <=> q = w \div 2
      BY DEF Chunk
    <3>4. CASE w % 2 = 0
      <4>1. /\ prim'[e] = IF e \in Chunk(w \div 2) THEN map[e] ELSE prim[e]
            /\ back' = back
        BY <1>3, <3>4 DEF Umount
      <4> HIDE DEF q
      <4>2. w = 2 * (w \div 2)
        BY <2>1, <3>4
      <4> QED BY <2>1, <3>1, <3>2, <3>3, <4>1, <4>2 DEF q
    <3>5. CASE w % 2 = 1
      <4>1. /\ back'[e] = IF e \in Chunk(w \div 2) THEN map[e] ELSE back[e]
            /\ prim' = prim
        BY <1>3, <3>5 DEF Umount
      <4> HIDE DEF q
      <4>2. w = 2 * (w \div 2) + 1
        BY <2>1, <3>5
      <4> QED BY <2>1, <3>1, <3>2, <3>3, <4>1, <4>2 DEF q
    <3> QED BY <1>3, <3>4, <3>5 DEF Umount
  <2> QED BY <2>1, <2>2, Geometry DEF UmountSound
<1>4. CASE Unmounted
  <2>1. \A e \in Entries : prim[e] = map[e] /\ back[e] = map[e]
    BY <1>0, <1>4, EntryBlock, Geometry DEF Unmounted, UmountSound
  <2>2. prim = map /\ back = map
    BY <1>0, <2>1 DEF TypeOK
  <2> QED BY <1>4, <2>2 DEF Unmounted, UmountSound
<1>5. CASE Exit
  BY <1>0, <1>5 DEF Exit, ProcessEnds, UmountSound
<1>6. ASSUME NEW r \in Requests, MountFails(r) PROVE UmountSound'
  BY <1>0, <1>6 DEF MountFails, UmountSound
<1>7. ASSUME NEW r \in Requests, Start(r) PROVE UmountSound'
  <2>1. w' = 0 /\ pc' \notin {"idle", "exit"}
    BY <1>0, <1>7, RequestTypes DEF Start, Control, FirstStep, Commands
  <2> QED BY <1>1, <1>2, <2>1
<1>8. ASSUME NEW r \in Requests, GenFs(r) PROVE UmountSound'
  BY <1>1, <1>8 DEF GenFs
<1>9. CASE BootLoader
  BY <1>0, <1>1, <1>2, <1>9 DEF BootLoader, Finish
<1>10. CASE UNCHANGED vars
  BY <1>0, <1>10 DEF vars, UmountSound
<1>11. CASE FmtBoot \/ FmtRoot \/ FmtZero \/ BootSect \/ Insert \/ Clear
  <2>1. w' = 0 /\ pc' \notin {"idle", "exit"}
    BY <1>0, <1>11 DEF FmtBoot, FmtRoot, FmtZero, BootSect, Insert, Clear, Control, Finish
  <2> QED BY <1>1, <1>2, <2>1
<1>12. CASE Found \/ SearchOn \/ NotFound \/ InsertOn \/ Extend \/ NoRoom \/ WalkDone
  <2>1. w' = 0 /\ pc' \notin {"idle", "exit"}
    BY <1>0, <1>12 DEF Found, SearchOn, NotFound, InsertOn, Extend, NoRoom, WalkDone, Control,
       Search, PathDone, AfterPath, Enter, EnterOrOpen, Reject, Follow, NextPart, Finish
  <2> QED BY <1>1, <1>2, <2>1
<1>13. CASE Write \/ SourceEnds \/ Record \/ Trim \/ List \/ Read
  <2>1. w' = 0 /\ pc' \notin {"idle", "exit"}
    BY <1>0, <1>13 DEF Write, SourceEnds, Record, Trim, List, Read, Control, Finish
  <2> QED BY <1>1, <1>2, <2>1
<1> QED BY <1>3, <1>4, <1>5, <1>6, <1>7, <1>8, <1>9, <1>10, <1>11, <1>12, <1>13 DEF Next, Step

-----------------------------------------------------------------------------
(* The ownership of blocks.                                                *)

(* A step that links a new block to the end of a fork adds one address.    *)
LEMMA LinkKeepsOwnership ==
  ASSUME Inv, Formatted, pc # "trim", NEW a \in Addr, NEW b \in Addr,
         NEW t \in {"FILE", "DIR"}, LinksTo(a, b, t), boot' = boot,
         \A c \in Addr, s \in Slots : disk'[c].recs[s] = disk[c].recs[s]
                                    \/ (map[c].type = "FILE"
                                          /\ disk'[c].recs[s] \in {JunkRec, NoRec})
  PROVE  Ownership'
<1> DEFINE n == <<"map", a, 0>>
<1>0. TypeOK /\ Ownership /\ map[0].type \notin {"FILE", "DIR"}
  BY InvTypes, NoForkAtZero
<1>1. /\ b # 0 /\ b >= FirstData /\ map[b].type = "EMPTY"
      /\ \A s \in Slots : ~InUse(disk[b].recs[s])
  BY FreeBlock DEF LinksTo
<1>2. n \in Sites /\ Target(n) = 0 /\ ForkType(n)' = t
  BY SiteKinds, TargetNow, TargetNext, Geometry DEF LinksTo
<1>6. InFork(map[a]) /\ ~InFork(map[b])
  BY DEF LinksTo, InFork
<1>3. \A c \in Addr : /\ map'[c].type = IF c = b THEN t ELSE map[c].type
                      /\ map'[c].next = IF c = b THEN 0 ELSE IF c = a THEN b ELSE map[c].next
  BY Geometry DEF LinksTo
<1>4. ASSUME NEW o \in Sites
      PROVE  /\ Target(o)' = IF o = n THEN b ELSE Target(o)
             /\ o # n /\ Target(o) # 0 => ForkType(o)' = ForkType(o)
  <2>1. CASE o = <<"boot", 0, 0>>
    BY <2>1, TargetNow, TargetNext, SitesDiffer
  <2>2. CASE \E c \in Addr : o = <<"map", c, 0>>
    <3> PICK c \in Addr : o = <<"map", c, 0>>
      BY <2>2
    <3>1. o = n <=> c = a
      BY SitesDiffer
    <3>2. /\ Target(o) = IF InFork(map[c]) THEN map[c].next ELSE 0
          /\ ForkType(o) = map[c].type
          /\ Target(o)' = IF InFork(map'[c]) THEN map'[c].next ELSE 0
          /\ ForkType(o)' = map'[c].type
      BY TargetNow, TargetNext
    <3> HIDE DEF n
    <3> QED BY <1>1, <1>3, <1>6, <3>1, <3>2 DEF LinksTo, InFork
  <2>3. CASE \E c \in Addr, s \in Slots : o = <<"rec", c, s>>
    <3> PICK c \in Addr, s \in Slots : o = <<"rec", c, s>>
      BY <2>3
    <3>1. o # n
      BY SitesDiffer
    <3>2. IsRecord(c, s)' <=> IsRecord(c, s)
      BY <1>1, <1>3 DEF IsRecord, InUse, JunkRec, NoRec
    <3>3. IsRecord(c, s) => disk'[c].recs[s] = disk[c].recs[s]
      BY DEF IsRecord
    <3> QED BY <3>1, <3>2, <3>3, TargetNow, TargetNext
  <2> QED BY <2>1, <2>2, <2>3, SiteKinds
<1>5. \A c \in Addr : map'[c].type = IF c = b THEN t ELSE map[c].type
  BY <1>3
<1> HIDE DEF n
<1> QED BY <1>0, <1>1, <1>2, <1>4, <1>5, AddKeepsOwnership, Geometry

(* cmd_mkfs allocates the root.                                            *)
LEMMA RootKeepsOwnership ==
  ASSUME Inv, FmtRoot PROVE Ownership'
<1> DEFINE n == <<"boot", 0, 0>>
<1>0. TypeOK /\ Ownership /\ map[0].type \notin {"FILE", "DIR"}
  BY InvTypes, NoForkAtZero
<1>1. PICK b \in Addr : /\ IsFirstFree(b) /\ map' = Allocated(b, "DIR")
                       /\ boot' = [boot EXCEPT !.root = b]
  BY DEF FmtRoot
<1>2. /\ b # 0 /\ b >= FirstData /\ map[b].type = "EMPTY"
  BY <1>1, FreeBlock DEF FmtRoot, IsFirstFree, Formatted
<1>3. \A c \in Addr : map'[c] = IF c = b THEN [type |-> "DIR", next |-> 0] ELSE map[c]
  BY <1>0, <1>1, AllocatedEntries, Geometry DEF Types
<1>4. boot.root = 0 /\ \A c \in Addr, s \in Slots : ~InUse(disk[c].recs[s])
  BY DEF Inv, Blank, FmtRoot
<1>5. boot'.root = b /\ disk' = disk
  BY <1>0, <1>1 DEF FmtRoot, TypeOK
<1>6. n \in Sites /\ Target(n) = 0 /\ ForkType(n)' = "DIR"
  BY <1>4, SiteKinds, TargetNow, TargetNext
<1>7. ASSUME NEW o \in Sites
      PROVE  /\ Target(o)' = IF o = n THEN b ELSE Target(o)
             /\ o # n /\ Target(o) # 0 => ForkType(o)' = ForkType(o)
  <2>1. CASE o = <<"boot", 0, 0>>
    BY <1>5, <2>1, TargetNext
  <2>2. CASE \E c \in Addr : o = <<"map", c, 0>>
    <3> PICK c \in Addr : o = <<"map", c, 0>>
      BY <2>2
    <3>1. CASE c = b
      <4>1. ~InFork(map[c]) /\ map'[c].next = 0
        BY <1>2, <1>3, <3>1 DEF InFork
      <4> QED BY <4>1, TargetNow, TargetNext, SitesDiffer
    <3>2. CASE c # b
      BY <1>3, <3>2, TargetNow, TargetNext, SitesDiffer
    <3> QED BY <3>1, <3>2
  <2>3. CASE \E c \in Addr, s \in Slots : o = <<"rec", c, s>>
    <3> PICK c \in Addr, s \in Slots : o = <<"rec", c, s>>
      BY <2>3
    <3>1. ~IsRecord(c, s) /\ ~IsRecord(c, s)'
      BY <1>4, <1>5 DEF IsRecord, InUse
    <3> QED BY <3>1, TargetNow, TargetNext, SitesDiffer
  <2> QED BY <2>1, <2>2, <2>3, SiteKinds
<1>8. \A c \in Addr : map'[c].type = IF c = b THEN "DIR" ELSE map[c].type
  BY <1>3
<1>9. pc # "trim"
  BY DEF FmtRoot
<1> HIDE DEF n
<1> QED BY <1>0, <1>2, <1>6, <1>7, <1>8, <1>9, AddKeepsOwnership, Geometry

(* mkdir and add insert a record with a new block.                         *)
LEMMA InsertKeepsOwnership ==
  ASSUME Inv, Insert PROVE Ownership'
<1>0. TypeOK /\ Ownership /\ map[0].type \notin {"FILE", "DIR"} /\ pc # "trim"
  BY InvTypes, NoForkAtZero DEF Insert
<1>1. PICK d \in Addr, i \in Slots, b \in Addr :
        /\ d = dir_address /\ Here[i].perm = "none" /\ map[b].type = "EMPTY"
        /\ map[d].type = "DIR" /\ b # d
        /\ NewType \in {"FILE", "DIR"}
        /\ \A e \in Entries :
             map'[e] = IF e = b THEN [type |-> NewType, next |-> 0] ELSE map[e]
        /\ \A a \in Addr, t \in Slots :
             disk'[a].recs[t] = IF a = d /\ t = i THEN NewRec(b)
                                ELSE disk[a].recs[t]
  BY InsertEffect
<1> DEFINE n == <<"rec", d, i>>
<1>2. /\ b # 0 /\ b >= FirstData /\ map[b].type = "EMPTY"
      /\ \A s \in Slots : ~InUse(disk[b].recs[s])
  BY <1>1, FreeBlock DEF Insert, Formatted
<1>3. \A c \in Addr : map'[c] = IF c = b THEN [type |-> NewType, next |-> 0] ELSE map[c]
  BY <1>1, Geometry
<1>4. /\ NewRec(b).addr = b /\ NewRec(b).type = NewType /\ InUse(NewRec(b))
  BY DEF NewRec, InUse
<1>5. n \in Sites /\ Target(n) = 0
  <2>1. ~IsRecord(d, i)
    BY <1>1 DEF IsRecord, InUse, Here
  <2> QED BY <1>1, <2>1, SiteKinds, TargetNow
<1>6. disk'[d].recs[i] = NewRec(b) /\ IsRecord(d, i)'
  <2>1. disk'[d].recs[i] = NewRec(b) /\ map'[d].type = "DIR"
    BY <1>1, <1>3
  <2> QED BY <1>4, <2>1 DEF IsRecord, InUse
<1>7. ForkType(n)' = NewType /\ Target(n)' = b
  BY <1>4, <1>6, TargetNext
<1>8. ASSUME NEW o \in Sites
      PROVE  /\ Target(o)' = IF o = n THEN b ELSE Target(o)
             /\ o # n /\ Target(o) # 0 => ForkType(o)' = ForkType(o)
  <2>1. CASE o = <<"boot", 0, 0>>
    <3>1. boot' = boot
      BY DEF Insert
    <3> QED BY <2>1, <3>1, TargetNow, TargetNext, SitesDiffer
  <2>2. CASE \E c \in Addr : o = <<"map", c, 0>>
    <3> PICK c \in Addr : o = <<"map", c, 0>>
      BY <2>2
    <3>1. CASE c = b
      <4>1. ~InFork(map[c]) /\ map'[c].next = 0
        BY <1>2, <1>3, <3>1 DEF InFork
      <4> QED BY <4>1, TargetNow, TargetNext, SitesDiffer
    <3>2. CASE c # b
      BY <1>3, <3>2, TargetNow, TargetNext, SitesDiffer
    <3> QED BY <3>1, <3>2
  <2>3. CASE \E c \in Addr, s \in Slots : o = <<"rec", c, s>>
    <3> PICK c \in Addr, s \in Slots : o = <<"rec", c, s>>
      BY <2>3
    <3>1. CASE c = d /\ s = i
      BY <1>7, <3>1
    <3>2. CASE ~(c = d /\ s = i)
      <4>1. o # n
        BY <3>2, SitesDiffer
      <4>2. disk'[c].recs[s] = disk[c].recs[s]
        BY <1>1, <3>2
      <4>3. IsRecord(c, s)' <=> IsRecord(c, s)
        BY <1>1, <1>2, <1>3, <4>2 DEF IsRecord, InUse
      <4> QED BY <4>1, <4>2, <4>3, TargetNow, TargetNext
    <3> QED BY <3>1, <3>2
  <2> QED BY <2>1, <2>2, <2>3, SiteKinds
<1>9. PICK t \in {"FILE", "DIR"} : t = NewType
  BY <1>1
<1>10. \A c \in Addr : map'[c].type = IF c = b THEN t ELSE map[c].type
  BY <1>3, <1>9
<1>11. ForkType(n)' = t /\ map[b].type = "EMPTY"
  BY <1>1, <1>7, <1>9
<1> HIDE DEF n
<1> QED BY <1>0, <1>2, <1>5, <1>8, <1>10, <1>11, AddKeepsOwnership, Geometry

(* add cuts the file's fork after the last block that it wrote, and frees  *)
(* what is cut off block by block.                                         *)
CutsAfter(a) ==
  /\ map[a].type = "FILE" /\ boot' = boot
  /\ \A e \in Entries :
       /\ map'[e].next = IF e = a THEN 0 ELSE map[e].next
       /\ e # a => map'[e].type = map[e].type
  /\ map'[a].type \in {"EMPTY", "FILE"}
  /\ \A c \in Addr, s \in Slots :
       /\ InUse(disk'[c].recs[s]) <=> InUse(disk[c].recs[s])
       /\ InUse(disk[c].recs[s]) => /\ disk'[c].recs[s].addr = disk[c].recs[s].addr
                                   /\ disk'[c].recs[s].type = disk[c].recs[s].type

LEMMA CutSites ==
  ASSUME NEW a \in Addr, CutsAfter(a), NEW o \in Sites
  PROVE  LET n == <<"map", a, 0>> IN
           /\ Target(o)' = IF o = n THEN 0 ELSE Target(o)
           /\ o # n /\ Target(o) # 0 => ForkType(o)' = ForkType(o)
<1> DEFINE n == <<"map", a, 0>>
<1> SUFFICES /\ Target(o)' = IF o = n THEN 0 ELSE Target(o)
             /\ o # n /\ Target(o) # 0 => ForkType(o)' = ForkType(o)
  OBVIOUS
<1>1. CASE o = <<"boot", 0, 0>>
  BY <1>1, TargetNow, TargetNext, SitesDiffer DEF CutsAfter
<1>2. CASE \E c \in Addr : o = <<"map", c, 0>>
  <2> PICK c \in Addr : o = <<"map", c, 0>>
    BY <1>2
  <2>1. o = n <=> c = a
    BY SitesDiffer
  <2>2. /\ Target(o) = IF InFork(map[c]) THEN map[c].next ELSE 0
        /\ ForkType(o) = map[c].type
        /\ Target(o)' = IF InFork(map'[c]) THEN map'[c].next ELSE 0
        /\ ForkType(o)' = map'[c].type
    BY TargetNow, TargetNext
  <2>3. c \in Entries
    BY Geometry
  <2> HIDE DEF n
  <2> QED BY <2>1, <2>2, <2>3 DEF CutsAfter, InFork
<1>3. CASE \E c \in Addr, s \in Slots : o = <<"rec", c, s>>
  <2> PICK c \in Addr, s \in Slots : o = <<"rec", c, s>>
    BY <1>3
  <2>1. o # n
    BY SitesDiffer
  <2>2. (map'[c].type = "DIR" <=> map[c].type = "DIR")
    BY Geometry DEF CutsAfter
  <2>3. IsRecord(c, s)' <=> IsRecord(c, s)
    BY <2>2 DEF CutsAfter, IsRecord, InUse
  <2>4. IsRecord(c, s) => /\ disk'[c].recs[s].addr = disk[c].recs[s].addr
                          /\ disk'[c].recs[s].type = disk[c].recs[s].type
    BY DEF CutsAfter, IsRecord
  <2> QED BY <2>1, <2>3, <2>4, TargetNow, TargetNext
<1> QED BY <1>1, <1>2, <1>3, SiteKinds

LEMMA RecordCuts ==
  ASSUME Inv, Record
  PROVE  \E a \in Addr :
           /\ CutsAfter(a) /\ map'[a].type = "FILE"
           /\ trim_address' = map[a].next
           /\ map[a].next # 0 => pc' = "trim"
           /\ map[a].next = 0 => pc' # "trim"
<1>1. file_address \in Addr /\ map[file_address].type = "FILE" /\ pc = "record"
  BY OpenFile DEF Record
<1>2. /\ boot' = boot /\ trim_address' = map[file_address].next
      /\ map[file_address].next # 0 => pc' = "trim"
      /\ map[file_address].next = 0 => pc' # "trim"
  BY DEF Record, Finish
<1>3. \A e \in Entries :
        /\ map'[e].type = map[e].type
        /\ map'[e].next = IF e = file_address THEN 0 ELSE map[e].next
  BY RecordEffect
<1>4. \A c \in Addr, s \in Slots :
        /\ InUse(disk'[c].recs[s]) <=> InUse(disk[c].recs[s])
        /\ InUse(disk[c].recs[s]) => /\ disk'[c].recs[s].addr = disk[c].recs[s].addr
                                    /\ disk'[c].recs[s].type = disk[c].recs[s].type
  BY RecordEffect DEF InUse
<1>5. map'[file_address].type = "FILE"
  BY <1>1, <1>3, Geometry
<1>6. CutsAfter(file_address)
  BY <1>1, <1>2, <1>3, <1>4, <1>5 DEF CutsAfter
<1> QED BY <1>1, <1>2, <1>5, <1>6

LEMMA TrimCuts ==
  ASSUME Inv, Trim
  PROVE  \E a \in Addr :
           /\ a = trim_address /\ CutsAfter(a) /\ map'[a].type = "EMPTY"
           /\ trim_address' = map[a].next
           /\ map[a].next # 0 => pc' = "trim"
           /\ map[a].next = 0 => pc' # "trim"
           /\ \A o \in Sites : Target(o) # a
<1>1. /\ disk' = disk /\ boot' = boot /\ map[trim_address].type = "FILE"
      /\ trim_address \in Addr /\ trim_address' = map[trim_address].next
      /\ \A e \in Entries : map'[e] = IF e = trim_address THEN EmptyPtr ELSE map[e]
      /\ \A o \in Sites : Target(o) # trim_address
  BY TrimEffect
<1>2. map'[trim_address].type = "EMPTY" /\ map'[trim_address].next = 0
  BY <1>1, Geometry DEF EmptyPtr
<1>3. CutsAfter(trim_address)
  BY <1>1, <1>2 DEF CutsAfter
<1>4. /\ map[trim_address].next # 0 => pc' = "trim"
      /\ map[trim_address].next = 0 => pc' # "trim"
  BY DEF Trim, Finish
<1> QED BY <1>1, <1>2, <1>3, <1>4

LEMMA CutStep ==
  ASSUME Inv, Record \/ Trim PROVE Ownership' /\ TrimSound'
<1>0. TypeOK /\ Ownership /\ map[0].type \notin {"FILE", "DIR"}
  BY InvTypes, NoForkAtZero
<1>1. PICK a \in Addr :
        /\ CutsAfter(a)
        /\ trim_address' = map[a].next
        /\ map[a].next # 0 => pc' = "trim"
        /\ map[a].next = 0 => pc' # "trim"
        /\ \/ pc # "trim" /\ map'[a].type = "FILE"
           \/ /\ pc = "trim" /\ a = trim_address /\ map'[a].type = "EMPTY"
              /\ \A o \in Sites : Target(o) # a
  BY RecordCuts, TrimCuts DEF Record, Trim
<1> DEFINE n == <<"map", a, 0>>
<1>2. n \in Sites /\ Target(n) = map[a].next /\ InFork(map[a])
  BY <1>1, SiteKinds, TargetNow DEF CutsAfter, InFork
<1>3. \A o \in Sites : /\ Target(o)' = IF o = n THEN 0 ELSE Target(o)
                       /\ o # n /\ Target(o) # 0 => ForkType(o)' = ForkType(o)
  BY <1>1, CutSites
<1>4. map[a].type = "FILE" /\ a # 0
  BY <1>0, <1>1 DEF CutsAfter
<1>5. \A c \in Addr : c # a => map'[c].type = map[c].type
  BY <1>1, Geometry DEF CutsAfter
<1>6. Ownership'
  <2> DEFINE f == IF map'[a].type = "EMPTY" THEN a ELSE 0
  <2>1. f \in Addr
    BY Geometry
  <2>2. (pc = "trim" => f = trim_address) /\ (pc # "trim" => f = 0)
    BY <1>1
  <2>3. \A o \in Sites : Target(o) # f \/ f = 0
    BY <1>1
  <2>4. \A c \in Addr :
          map'[c].type = IF c = f /\ f # 0 THEN "EMPTY" ELSE map[c].type
    BY <1>1, <1>4, <1>5
  <2>5. Target(n) # 0 => pc' = "trim" /\ trim_address' = Target(n)
    BY <1>1, <1>2
  <2>6. PICK g \in Addr : g = f
    BY <2>1
  <2> HIDE DEF f, n
  <2> QED BY <1>0, <1>2, <1>3, <2>2, <2>3, <2>4, <2>5, <2>6, CutKeepsOwnership, Geometry
<1>7. TrimSound'
  <2> SUFFICES ASSUME pc' = "trim"
               PROVE  /\ map'[trim_address'].type = "FILE"
                      /\ \A o \in Sites : Target(o)' # trim_address'
    BY DEF TrimSound
  <2> DEFINE x == map[a].next
  <2>1. trim_address' = x /\ x # 0
    BY <1>1
  <2>2. /\ x \in Addr /\ map[x].type = "FILE"
        /\ \A o \in Sites : Target(o) = x => o = n
    BY <1>2, <1>4, <2>1, NextBlock
  <2>3. x # a \/ map'[a].type = "FILE"
    <3>1. ASSUME x = a PROVE map'[a].type = "FILE"
      BY <1>1, <1>2, <3>1
    <3> QED BY <3>1
  <2>4. map'[x].type = "FILE"
    BY <1>5, <2>2, <2>3
  <2>5. ASSUME NEW o \in Sites PROVE Target(o)' # x
    BY <1>3, <2>1, <2>2
  <2> QED BY <2>1, <2>4, <2>5
<1> QED BY <1>6, <1>7

(* A step that writes only records that are not in use, over records that  *)
(* are not in use, leaves the ownership as it is.                          *)
LEMMA SameStep ==
  ASSUME Inv, TypeOK', pc # "trim", map' = map, boot'.root = boot.root,
         \A a \in Addr, s \in Slots :
            \/ disk'[a].recs[s] = disk[a].recs[s]
            \/ ~IsRecord(a, s) /\ ~InUse(disk'[a].recs[s])
  PROVE  Ownership'
<1>1. TypeOK /\ Ownership
  BY InvTypes
<1>2. SameMap
  BY DEF SameMap
<1>3. SameRecords
  BY DEF SameRecords, IsRecord, InUse
<1> QED BY <1>1, <1>2, <1>3, SameKeepsOwnership, Geometry

LEMMA EmptyNotInUse == ~InUse(NoRec) /\ ~InUse(JunkRec)
BY DEF InUse, NoRec, JunkRec

(* No block is in use and no place holds an address.                       *)
LEMMA NothingOwned ==
  ASSUME boot'.root = 0, \A e \in Entries : map'[e].type \notin {"FILE", "DIR"}
  PROVE  Ownership'
<1>1. ASSUME NEW o \in Sites PROVE Target(o)' = 0
  <2>1. CASE o = <<"boot", 0, 0>>
    BY <2>1, TargetNext
  <2>2. CASE \E c \in Addr : o = <<"map", c, 0>>
    BY <2>2, TargetNext, Geometry DEF InFork
  <2>3. CASE \E c \in Addr, s \in Slots : o = <<"rec", c, s>>
    <3> PICK c \in Addr, s \in Slots : o = <<"rec", c, s>>
      BY <2>3
    <3>1. ~IsRecord(c, s)'
      BY Geometry DEF IsRecord
    <3> QED BY <3>1, TargetNext
  <2> QED BY <2>1, <2>2, <2>3, SiteKinds
<1>2. TargetsLive' /\ NoSharedBlock'
  BY <1>1 DEF TargetsLive, NoSharedBlock
<1>3. NoLostBlock'
  BY Geometry DEF NoLostBlock
<1> QED BY <1>2, <1>3 DEF Ownership

LEMMA OwnershipStep ==
  ASSUME Inv, [Next]_vars PROVE Ownership' /\ TrimSound'
<1> USE DEF image, walk, rec, fork
<1>0. TypeOK /\ Control /\ Ownership /\ TypeOK'
  BY InvTypes, TypeStep
<1>1. ASSUME pc' # "trim" PROVE TrimSound'
  BY <1>1 DEF TrimSound
<1>2. CASE UNCHANGED vars
  <2>1. \A o \in Sites : Target(o)' = Target(o) /\ ForkType(o)' = ForkType(o)
    BY <1>2 DEF vars, Target, ForkType, IsRecord, InUse
  <2>2. TrimSound
    BY DEF Inv
  <2>3. TrimSound'
    BY <1>2, <2>1, <2>2 DEF vars, TrimSound
  <2>4. TargetsLive' /\ NoSharedBlock' /\ NoLostBlock'
    BY <1>0, <1>2, <2>1 DEF vars, Ownership, TargetsLive, NoSharedBlock, NoLostBlock
  <2> QED BY <2>3, <2>4 DEF Ownership
<1>3. CASE Quiet /\ ~UNCHANGED vars
  <2>1. /\ disk' = disk /\ map' = map /\ boot'.root = boot.root
        /\ pc # "trim" /\ pc' # "trim"
    BY <1>3, QuietSteps
  <2> QED BY <1>0, <1>1, <2>1, SameStep
<1>4. CASE FmtBoot
  <2>1. PICK stray \in [Addr \ OnHeap -> Heap] : map' = FreshMap(stray)
    BY <1>4 DEF FmtBoot
  <2>2. \A e \in Entries : map'[e].type \notin {"FILE", "DIR"}
    BY <2>1, FreshTypes
  <2>3. boot'.root = 0 /\ pc' # "trim"
    BY <1>0, <1>4 DEF FmtBoot, Inv, Blank, TypeOK
  <2> QED BY <1>1, <2>2, <2>3, NothingOwned
<1>5. ASSUME NEW r \in Requests, GenFs(r) PROVE Ownership' /\ TrimSound'
  <2>1. \A e \in Entries : map'[e].type \notin {"FILE", "DIR"}
    BY <1>5 DEF GenFs, ZeroMap, EmptyPtr
  <2>2. boot'.root = 0 /\ pc' # "trim"
    BY <1>5 DEF GenFs
  <2> QED BY <1>1, <2>1, <2>2, NothingOwned
<1>6. CASE FmtRoot
  BY <1>1, <1>6, RootKeepsOwnership DEF FmtRoot
<1>7. CASE FmtZero
  <2>1. /\ pc = "fmt_zero" /\ pc' # "trim" /\ map' = map /\ boot' = boot
        /\ disk' = [disk EXCEPT ![boot.root] = ZeroBlock]
    BY <1>7 DEF FmtZero, Finish
  <2>2. \A a \in Addr, s \in Slots : ~InUse(disk[a].recs[s])
    BY <2>1 DEF Inv, Blank
  <2>3. \A s \in Slots : ZeroBlock.recs[s] = NoRec
    BY DEF ZeroBlock
  <2>4. \A a \in Addr, s \in Slots :
          disk'[a].recs[s] = disk[a].recs[s] \/ disk'[a].recs[s] = NoRec
    BY <1>0, <2>1, <2>3 DEF TypeOK
  <2> QED BY <1>0, <1>1, <2>1, <2>2, <2>4, SameStep, EmptyNotInUse DEF IsRecord
<1>8. CASE BootLoader
  <2>1. pc = "bootloader" /\ pc' # "trim" /\ map' = map /\ boot' = boot
    BY <1>8 DEF BootLoader, Finish
  <2>2. \A a \in Addr, s \in Slots :
          \/ disk'[a].recs[s] = disk[a].recs[s]
          \/ disk'[a].recs[s] = JunkRec /\ ~IsRecord(a, s)
    <3>1. CASE disk' = disk
      BY <3>1
    <3>2. CASE /\ w + 1 < BootBlocks
               /\ disk' = [disk EXCEPT ![w + 1] = LoaderBlock(req.src, w * BlockBytes)]
      <4>1. w + 1 \in Addr /\ w + 1 < FirstData
        BY <1>0, <3>2, Geometry DEF TypeOK, Addr, FirstData
      <4>2. map[w + 1].type # "DIR"
        <5>1. MapSound /\ w + 1 \in Entries /\ w + 1 \in Nat
          BY <1>0, <4>1, Geometry DEF Inv, TypeOK
        <5>2. ~(w + 1 >= FirstData)
          BY <4>1, <5>1, Geometry
        <5> QED BY <5>1, <5>2 DEF MapSound
      <4>3. \A s \in Slots : LoaderBlock(req.src, w * BlockBytes).recs[s] = JunkRec
        BY DEF LoaderBlock
      <4> HIDE DEF LoaderBlock
      <4> QED BY <1>0, <3>2, <4>1, <4>2, <4>3 DEF TypeOK, IsRecord
    <3> QED BY <1>8, <3>1, <3>2 DEF BootLoader
  <2> QED BY <1>0, <1>1, <2>1, <2>2, SameStep, EmptyNotInUse
<1>9. CASE Insert
  BY <1>1, <1>9, InsertKeepsOwnership DEF Insert
<1>10. CASE Clear
  <2>1. /\ pc = "clear" /\ pc' # "trim" /\ map' = map /\ boot' = boot
        /\ disk' = [disk EXCEPT ![dir_first_address] = ZeroBlock]
    BY <1>10 DEF Clear
  <2>2. \A s \in Slots : ~InUse(disk[dir_first_address].recs[s])
    BY <2>1 DEF Inv, WalkSound
  <2>3. \A s \in Slots : ZeroBlock.recs[s] = NoRec
    BY DEF ZeroBlock
  <2>4. \A a \in Addr, s \in Slots :
          \/ disk'[a].recs[s] = disk[a].recs[s]
          \/ disk'[a].recs[s] = NoRec /\ ~IsRecord(a, s)
    BY <1>0, <2>1, <2>2, <2>3 DEF TypeOK, IsRecord
  <2> QED BY <1>0, <1>1, <2>1, <2>4, SameStep, EmptyNotInUse
<1>11. CASE Extend
  <2>1. PICK a \in Addr, b \in Addr : map[a].type = "DIR" /\ LinksTo(a, b, "DIR")
    BY <1>11, ExtendEffect
  <2>2. pc = "insert" /\ pc' # "trim" /\ boot' = boot /\ disk' = disk
    BY <1>11 DEF Extend, Finish
  <2> QED BY <1>1, <2>1, <2>2, LinkKeepsOwnership DEF Formatted
<1>12. CASE Write
  <2>1. /\ pc = "write" /\ pc' # "trim" /\ boot' = boot
        /\ file_address \in Addr /\ map[file_address].type = "FILE"
    BY <1>12, OpenFile DEF Write, Finish
  <2>2. \A a \in Addr, s \in Slots :
          \/ disk'[a].recs[s] = disk[a].recs[s]
          \/ map[a].type = "FILE" /\ disk'[a].recs[s] \in {JunkRec, NoRec}
    BY <1>12, <2>1, WriteEffect
  <2>3. CASE map' = map
    <3>1. \A a \in Addr, s \in Slots :
            \/ disk'[a].recs[s] = disk[a].recs[s]
            \/ ~IsRecord(a, s) /\ ~InUse(disk'[a].recs[s])
      BY <2>2, EmptyNotInUse DEF IsRecord
    <3> QED BY <1>0, <1>1, <2>1, <2>3, <3>1, SameStep
  <2>4. CASE \E b \in Addr : LinksTo(file_address, b, "FILE")
    <3>1. PICK a \in Addr, b \in Addr : LinksTo(a, b, "FILE")
      BY <2>1, <2>4
    <3> QED BY <1>1, <2>1, <2>2, <3>1, LinkKeepsOwnership DEF Formatted
  <2> QED BY <1>12, <2>3, <2>4, WriteEffect
<1>13. CASE Record \/ Trim
  BY <1>13, CutStep
<1> QED BY <1>2, <1>3, <1>4, <1>5, <1>6, <1>7, <1>8, <1>9, <1>10, <1>11, <1>12, <1>13,
           NextCases

-----------------------------------------------------------------------------
(* The theorems.                                                           *)

LEMMA InvInit == Init => Inv
<1> SUFFICES ASSUME Init PROVE Inv
  OBVIOUS
<1>1. TypeOK
  BY TypeInit
<1>2. /\ \A e \in Entries : map[e].type = "EMPTY" /\ map[e].next = 0
      /\ \A a \in Addr, s \in Slots : disk[a].recs[s] = NoRec
      /\ boot.root = 0 /\ ~boot.sig /\ pc = "idle" /\ w = 0 /\ part_i = 1
      /\ prim = map /\ back = map
  BY DEF Init, ZeroMap, EmptyPtr, ZeroBlock
<1>3. \A o \in Sites : Target(o) = 0
  <2> SUFFICES ASSUME NEW o \in Sites PROVE Target(o) = 0
    OBVIOUS
  <2>1. CASE o = <<"boot", 0, 0>>
    BY <1>2, <2>1, TargetNow
  <2>2. CASE \E c \in Addr : o = <<"map", c, 0>>
    BY <1>2, <2>2, TargetNow, Geometry
  <2>3. CASE \E c \in Addr, s \in Slots : o = <<"rec", c, s>>
    <3> PICK c \in Addr, s \in Slots : o = <<"rec", c, s>>
      BY <2>3
    <3>1. ~IsRecord(c, s)
      BY <1>2, Geometry DEF IsRecord
    <3> QED BY <3>1, TargetNow
  <2> QED BY <2>1, <2>2, <2>3, SiteKinds
<1>4. Control /\ Blank /\ MapSound
  BY <1>2, Geometry, EmptyNotInUse DEF Control, Formatted, Blank, MapSound
<1>5. RecordsSound
  BY <1>2, EmptyNotInUse DEF RecordsSound, NoRec
<1>6. WalkSound /\ BufferSound /\ TrimSound /\ UmountSound
  BY <1>2 DEF WalkSound, Walking, BufferSound, FileOpen, PathDone, TrimSound, UmountSound
<1>7. TargetsLive /\ NoSharedBlock /\ NoLostBlock
  BY <1>2, <1>3, Geometry DEF TargetsLive, NoSharedBlock, NoLostBlock
<1> QED BY <1>1, <1>4, <1>5, <1>6, <1>7 DEF Inv

LEMMA InvStep == Inv /\ [Next]_vars => Inv'
<1> SUFFICES ASSUME Inv, [Next]_vars PROVE Inv'
  OBVIOUS
<1>1. TypeOK' /\ Control'
  BY InvTypes, TypeStep, ControlStep
<1>2. Blank' /\ MapSound' /\ RecordsSound'
  BY BlankStep, MapStep, RecordsStep
<1>3. WalkSound' /\ BufferSound' /\ UmountSound'
  BY WalkStep, BufferStep, UmountStep
<1>4. TargetsLive' /\ NoSharedBlock' /\ NoLostBlock' /\ TrimSound'
  BY OwnershipStep DEF Ownership
<1> QED BY <1>1, <1>2, <1>3, <1>4 DEF Inv

(* The inductive invariant holds of every image and every sequence of      *)
(* commands that run to their end.                                         *)
THEOREM Invariance == Spec => []Inv
BY InvInit, InvStep, PTL DEF Spec

(* No two places of the image point to the same block (tfs_alloc and the   *)
(* trim loop of cmd_add).                                                  *)
THEOREM NoBlockShared == Spec => []NoSharedBlock
<1>1. Inv => NoSharedBlock
  BY DEF Inv
<1> QED BY <1>1, Invariance, PTL

(* What a place points to is in use, in the data area, as what it is used. *)
THEOREM TargetsAlwaysLive == Spec => []TargetsLive
<1>1. Inv => TargetsLive
  BY DEF Inv
<1> QED BY <1>1, Invariance, PTL

(* No block is lost: what is marked in use can be reached.                 *)
THEOREM NoBlockLost == Spec => []NoLostBlock
<1>1. Inv => NoLostBlock
  BY DEF Inv
<1> QED BY <1>1, Invariance, PTL

(* The boot sector, the loader and the map are never given away.           *)
THEOREM SystemAreaSafe == Spec => []SystemAreaReserved
<1>1. Inv => SystemAreaReserved
  <2> SUFFICES ASSUME Inv, NEW e \in 0 .. FirstData - 1
               PROVE  /\ pc \notin {"idle", "fmt_boot", "exit"} => map[e].type = "RESERVED"
                      /\ pc = "idle" /\ boot.sig => prim[e].type = "RESERVED"
    BY DEF SystemAreaReserved
  <2> QED BY DEF Inv, Control, Formatted, MapSound, UmountSound
<1> QED BY <1>1, Invariance, PTL

(* A tool that is not killed leaves an image that it mounts again.         *)
THEOREM MountsAgain == Spec => []AlwaysMountable
<1>1. Inv => AlwaysMountable
  BY DEF Inv, UmountSound, AlwaysMountable, Mountable
<1> QED BY <1>1, Invariance, PTL

(* mkdir and add write to data blocks only.                                *)
THEOREM WritesSafe == Spec => []WritesStayInDataArea
<1>1. Inv => WritesStayInDataArea
  <2> SUFFICES ASSUME Inv PROVE WritesStayInDataArea
    OBVIOUS
  <2>1. TypeOK /\ Control /\ WalkSound /\ MapSound
    BY DEF Inv
  <2>2. \A a \in Addr : map[a].type \in {"FILE", "DIR"} => a >= FirstData
    BY <2>1, Geometry DEF MapSound
  <2>3. pc = "insert" => dir_address >= FirstData
    BY <2>1, <2>2 DEF WalkSound, Walking, Control, TypeOK
  <2>4. pc = "clear" => dir_first_address >= FirstData
    BY <2>1, <2>2 DEF WalkSound, TypeOK, NewType
  <2>5. pc \in {"write", "record"} => dir_address >= FirstData /\ file_address >= FirstData
    BY <2>2, OpenFile
  <2> QED BY <2>3, <2>4, <2>5 DEF WritesStayInDataArea
<1> QED BY <1>1, Invariance, PTL
=============================================================================
