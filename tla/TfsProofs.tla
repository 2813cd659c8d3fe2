----------------------------- MODULE TfsProofs -----------------------------
(***************************************************************************)
(* Proofs about Tfs, for every disk size, every set of names and sources   *)
(* and every set of commands.                                              *)
(***************************************************************************)
EXTENDS TfsInv, TLAPS

(* Blocks have map entries, and the first data block is one of them.       *)
LEMMA Geometry ==
  /\ MapBlocks \in Nat /\ FirstData \in Nat /\ TotalBlocks \in Nat
  /\ BootBlocks \in Nat \ {0} /\ BlockBytes \in Nat \ {0}
  /\ EntriesPerBlock \in Nat \ {0} /\ DirSlots \in Nat \ {0}
  /\ 0 < FirstData /\ FirstData < TotalBlocks
  /\ 0 \in Addr /\ 1 \in Slots /\ TotalBlocks - 1 \in Addr
  /\ Addr \subseteq Entries /\ Addr \subseteq Nat /\ Entries \subseteq Nat
<1>1. /\ TotalBlocks \in Nat \ {0} /\ EntriesPerBlock \in Nat \ {0}
      /\ BootBlocks \in Nat \ {0} /\ BlockBytes \in Nat \ {0}
      /\ DirSlots \in Nat \ {0}
  BY GeometryAssumption
<1>2. MapBlocks \in Nat
  <2>1. TotalBlocks \div EntriesPerBlock \in Nat
    BY <1>1
  <2> QED BY <2>1 DEF MapBlocks
<1>3. FirstData \in Nat /\ 0 < FirstData
  BY <1>1, <1>2 DEF FirstData
<1>4. FirstData < TotalBlocks /\ TotalBlocks <= MapBlocks * EntriesPerBlock
  BY GeometryAssumption
<1>5. MapBlocks * EntriesPerBlock \in Nat
  BY <1>1, <1>2
<1>6. Addr \subseteq Entries /\ Addr \subseteq Nat /\ Entries \subseteq Nat
  BY <1>1, <1>4, <1>5 DEF Addr, Entries
<1> QED BY <1>1, <1>2, <1>3, <1>4, <1>6 DEF Addr, Slots

(* The constant values of the model have their types.                      *)
LEMMA ConstantTypes ==
  /\ EmptyPtr \in MapPtr /\ NoRec \in Rec /\ JunkRec \in Rec
  /\ ZeroBlock \in Block /\ ZeroMap \in [Entries -> MapPtr]
  /\ NoDir \in [Slots -> Rec]
  /\ \A recs \in [Slots -> Rec] : DirBlock(recs) \in Block
  /\ \A src \in Sources, n \in Nat : FileBlock(src, n) \in Block
  /\ \A src \in Sources, n \in Nat : LoaderBlock(src, n) \in Block
<1>1. EmptyPtr \in MapPtr
  BY Geometry DEF EmptyPtr, MapPtr, Types
<1>2. NoRec \in Rec
  BY Geometry DEF NoRec, Rec, Perms, Types
<1>3. JunkRec \in Rec
  BY Geometry DEF JunkRec, NoRec, Rec, Perms, Types
<1>4. ZeroBlock \in Block
  BY <1>2 DEF ZeroBlock, Block, Bytes
<1>5. ZeroMap \in [Entries -> MapPtr] /\ NoDir \in [Slots -> Rec]
  BY <1>1, <1>2 DEF ZeroMap, NoDir
<1>6. \A recs \in [Slots -> Rec] : DirBlock(recs) \in Block
  BY DEF DirBlock, Block, Bytes
<1>7. ASSUME NEW src \in Sources, NEW n \in Nat
      PROVE  FileBlock(src, n) \in Block /\ LoaderBlock(src, n) \in Block
  <2> DEFINE recs == [s \in Slots |->
                        IF (s - 1) * BlockBytes < (SourceBytes[src] - n) * DirSlots
                          THEN JunkRec ELSE NoRec]
  <2>1. recs \in [Slots -> Rec]
    BY <1>2, <1>3
  <2>2. FileBlock(src, n) = [recs |-> recs, bytes |-> [src |-> src, at |-> n]]
    BY DEF FileBlock
  <2> HIDE DEF recs
  <2>3. FileBlock(src, n) \in Block
    BY <2>1, <2>2 DEF Block, Bytes
  <2> QED BY <1>3, <2>3 DEF LoaderBlock, Block, Bytes
<1> QED BY <1>1, <1>2, <1>3, <1>4, <1>5, <1>6, <1>7

-----------------------------------------------------------------------------
(* Types.                                                                  *)

LEMMA TypeInit == Init => TypeOK
<1> SUFFICES ASSUME Init PROVE TypeOK
  OBVIOUS
<1>1. disk \in [Addr -> Block]
  BY ConstantTypes DEF Init
<1> QED BY <1>1, Geometry, ConstantTypes DEF Init, TypeOK, PCs

(* What r.op \in Commands and Requests say of a command line.              *)
LEMMA RequestTypes ==
  \A r \in Requests :
    /\ r.op \in Commands /\ r.path \in Seq(Names) /\ r.src \in Sources
    /\ SourceBytes[r.src] \in Nat
    /\ r.op \in {"add", "export"} => r.path # << >>
BY RequestsAssumption

(* The parts of the map and of the records.                                *)
LEMMA PartTypes ==
  ASSUME TypeOK
  PROVE  /\ \A e \in Entries : map[e].type \in Types /\ map[e].next \in Addr
         /\ \A a \in Addr : disk[a].recs \in [Slots -> Rec] /\ disk[a].bytes \in Bytes
         /\ \A a \in Addr, s \in Slots :
              LET r == disk[a].recs[s] IN
                r.perm \in Perms /\ r.type \in Types /\ r.addr \in Addr /\ r.size \in Nat
<1>1. \A e \in Entries : map[e].type \in Types /\ map[e].next \in Addr
  BY DEF TypeOK, MapPtr
<1>2. \A a \in Addr : disk[a].recs \in [Slots -> Rec] /\ disk[a].bytes \in Bytes
  BY DEF TypeOK, Block
<1>3. \A a \in Addr, s \in Slots : disk[a].recs[s] \in Rec
  BY <1>2
<1> QED BY <1>1, <1>2, <1>3 DEF Rec

(* What tfs_alloc and the formatting make of the map is a map.             *)
LEMMA MapTypes ==
  ASSUME TypeOK
  PROVE  /\ \A b \in Addr, t \in Types : Allocated(b, t) \in [Entries -> MapPtr]
         /\ \A a, b \in Addr, t \in Types : Linked(a, b, t) \in [Entries -> MapPtr]
         /\ \A stray \in [Addr \ OnHeap -> Heap] : FreshMap(stray) \in [Entries -> MapPtr]
<1>1. map \in [Entries -> MapPtr]
  BY DEF TypeOK
<1>2. \A b \in Addr, t \in Types : [type |-> t, next |-> 0] \in MapPtr
  BY Geometry DEF MapPtr
<1>3. \A b \in Addr, t \in Types : Allocated(b, t) \in [Entries -> MapPtr]
  BY <1>1, <1>2, Geometry DEF Allocated
<1>4. \A a, b \in Addr, t \in Types : Linked(a, b, t) \in [Entries -> MapPtr]
  <2> SUFFICES ASSUME NEW a \in Addr, NEW b \in Addr, NEW t \in Types
               PROVE  Linked(a, b, t) \in [Entries -> MapPtr]
    OBVIOUS
  <2>1. Allocated(b, t) \in [Entries -> MapPtr]
    BY <1>3
  <2> HIDE DEF Allocated
  <2>2. a \in Entries
    BY Geometry
  <2>3. [Allocated(b, t)[a] EXCEPT !.next = b] \in MapPtr
    BY <2>1, <2>2 DEF MapPtr
  <2> QED BY <2>1, <2>3 DEF Linked
<1>5. ASSUME NEW stray \in [Addr \ OnHeap -> Heap]
      PROVE  FreshMap(stray) \in [Entries -> MapPtr]
  <2>1. Heap \subseteq MapPtr
    BY HeapAssumption DEF MapPtr, Types
  <2>2. ReservedPtr \in MapPtr /\ EmptyPtr \in MapPtr
    BY Geometry DEF ReservedPtr, EmptyPtr, MapPtr, Types
  <2>3. \A e \in FirstData .. TotalBlocks - 1 : e \in Addr
    BY Geometry DEF Addr
  <2> QED BY <2>1, <2>2, <2>3 DEF FreshMap
<1> QED BY <1>3, <1>4, <1>5

(* The record that mkdir and add insert is a record.                       *)
LEMMA NewRecTypes ==
  ASSUME TypeOK, Control, pc \in {"insert", "clear"}, NEW b \in Addr
  PROVE  NewRec(b) \in Rec /\ NewType \in {"FILE", "DIR"} \intersect Types
<1>1. part_i \in 1 .. Len(req.path) /\ req.path \in Seq(Names)
  BY RequestTypes DEF Control, TypeOK
<1>2. Part \in Names
  BY <1>1 DEF Part
<1> QED BY <1>2 DEF NewRec, Rec, NewType, Perms, Types

(* A record whose size changes stays a record.                             *)
LEMMA SizedTypes ==
  ASSUME TypeOK, NEW n \in Nat
  PROVE  [dir EXCEPT ![slot].size = n] \in [Slots -> Rec]
<1>1. dir \in [Slots -> Rec] /\ slot \in Slots
  BY DEF TypeOK
<1>2. dir[slot] \in Rec
  BY <1>1
<1>3. [dir[slot] EXCEPT !.size = n] \in Rec
  BY <1>2 DEF Rec
<1> QED BY <1>1, <1>3

LEMMA TypeStep == TypeOK /\ Control /\ [Next]_vars => TypeOK'
<1> SUFFICES ASSUME TypeOK, Control, [Next]_vars PROVE TypeOK'
  OBVIOUS
<1> USE Geometry, ConstantTypes DEF image, walk, rec, fork
<1>1. CASE FmtBoot
  <2>1. map' \in [Entries -> MapPtr]
    BY <1>1, MapTypes DEF FmtBoot
  <2> QED BY <1>1, <2>1 DEF FmtBoot, TypeOK, PCs
<1>2. CASE FmtRoot
  <2>1. map' \in [Entries -> MapPtr]
    BY <1>2, MapTypes DEF FmtRoot, Types
  <2> QED BY <1>2, <2>1 DEF FmtRoot, TypeOK, PCs
<1>3. CASE FmtZero
  BY <1>3 DEF FmtZero, TypeOK, Control, PCs, Finish
<1>4. CASE BootSect
  <2>1. req.src \in Sources
    BY <1>4, RequestTypes DEF BootSect, Control
  <2> QED BY <1>4, <2>1 DEF BootSect, TypeOK, PCs, Finish
<1>5. CASE BootLoader
  <2>1. req.src \in Sources /\ w * BlockBytes \in Nat
    BY <1>5, RequestTypes, SMTT(30) DEF BootLoader, Control, TypeOK
  <2>2. LoaderBlock(req.src, w * BlockBytes) \in Block
    BY <2>1
  <2> QED BY <1>5, <2>2 DEF BootLoader, TypeOK, PCs, Finish
<1>6. CASE Found
  <2> PICK s \in Slots : Enter(Here[s]) \/ EnterOrOpen(Here[s], s)
                           \/ Reject(Here[s]) \/ Follow(Here[s])
    BY <1>6 DEF Found
  <2>1. Here \in [Slots -> Rec] /\ Here[s].addr \in Addr /\ Here[s].size \in Nat
    BY PartTypes DEF Here, TypeOK
  <2>2. /\ [Here EXCEPT ![s].perm = "ifdir"] \in [Slots -> Rec]
        /\ [Here EXCEPT ![s].perm = "ifreg"] \in [Slots -> Rec]
    BY <2>1 DEF Rec, Perms
  <2>3. UNCHANGED <<image, req, map, trim_address, out, w>>
    BY <1>6 DEF Found
  <2>4. CASE Enter(Here[s])
    BY <2>1, <2>3, <2>4 DEF Enter, NextPart, TypeOK
  <2>5. CASE EnterOrOpen(Here[s], s)
    BY <2>1, <2>2, <2>3, <2>5 DEF EnterOrOpen, NextPart, TypeOK
  <2>6. CASE Reject(Here[s])
    BY <2>3, <2>6 DEF Reject, Finish, TypeOK, PCs
  <2>7. CASE Follow(Here[s])
    BY <2>1, <2>3, <2>7 DEF Follow, NextPart, TypeOK
  <2> QED BY <2>4, <2>5, <2>6, <2>7
<1>7. CASE SearchOn
  <2>1. dir_address' \in Addr
    BY <1>7, PartTypes DEF SearchOn, TypeOK
  <2> QED BY <1>7, <2>1 DEF SearchOn, TypeOK
<1>8. CASE NotFound
  BY <1>8 DEF NotFound, TypeOK, Control, PCs, Finish
<1>9. CASE Insert
  <2> PICK s \in Slots, b \in Addr :
         /\ map' = Allocated(b, NewType)
         /\ dir' = [Here EXCEPT ![s] = NewRec(b)]
         /\ disk' = [disk EXCEPT ![dir_address] = DirBlock(dir')]
         /\ slot' = s /\ dir_first_address' = b /\ file_address' = b
    BY <1>9 DEF Insert
  <2>1. NewRec(b) \in Rec /\ NewType \in Types
    BY <1>9, NewRecTypes DEF Insert
  <2>2. dir' \in [Slots -> Rec]
    BY <2>1, PartTypes DEF Here, TypeOK, Block
  <2>3. DirBlock(dir') \in Block
    BY <2>2
  <2>4. map' \in [Entries -> MapPtr]
    BY <2>1, MapTypes
  <2> QED BY <1>9, <2>2, <2>3, <2>4 DEF Insert, TypeOK, PCs
<1>10. CASE Clear
  BY <1>10 DEF Clear, TypeOK, Control, PCs, Finish
<1>11. CASE InsertOn
  <2>1. dir_address' \in Addr
    BY <1>11, PartTypes DEF InsertOn, TypeOK
  <2> QED BY <1>11, <2>1 DEF InsertOn, TypeOK
<1>12. CASE Extend
  <2>1. map' \in [Entries -> MapPtr]
    BY <1>12, MapTypes, SMTT(30) DEF Extend, TypeOK, Types
  <2>2. dir_address' \in Addr
    BY <1>12 DEF Extend, TypeOK
  <2> QED BY <1>12, <2>1, <2>2 DEF Extend, TypeOK, Finish, PCs
<1>13. CASE NoRoom
  BY <1>13 DEF NoRoom, TypeOK, Control, PCs, Finish
<1>14. CASE WalkDone
  <2>1. AfterPath(req.op) \in PCs
    BY <1>14 DEF WalkDone, PathDone, Control, AfterPath, PCs
  <2>2. dir' \in [Slots -> Rec]
    BY <1>14, SizedTypes DEF WalkDone, TypeOK
  <2>3. left' \in Nat
    BY <1>14, RequestTypes DEF WalkDone, PathDone, TypeOK, Control
  <2> QED BY <1>14, <2>1, <2>2, <2>3 DEF WalkDone, TypeOK
<1>15. CASE Write
  <2>1. req.src \in Sources /\ SourceBytes[req.src] \in Nat /\ left <= SourceBytes[req.src]
    BY <1>15, RequestTypes DEF Write, Control
  <2>2. left \in Nat /\ ReadSize \in Nat /\ ReadSize <= left
    BY DEF TypeOK, ReadSize
  <2>3. disk' \in [Addr -> Block]
    BY <1>15, <2>1, <2>2 DEF Write, TypeOK
  <2>4. dir' \in [Slots -> Rec]
    <3> DEFINE n == dir[slot].size + ReadSize
    <3>1. n \in Nat
      <4>1. dir[slot] \in Rec
        BY DEF TypeOK
      <4>2. dir[slot].size \in Nat
        BY <4>1 DEF Rec
      <4> QED BY <4>2, <2>2
    <3>2. [dir EXCEPT ![slot].size = n] \in [Slots -> Rec]
      <4> HIDE DEF n
      <4> QED BY <3>1, SizedTypes
    <3>3. dir' = [dir EXCEPT ![slot].size = dir[slot].size + ReadSize]
      BY <1>15 DEF Write
    <3> QED BY <3>2, <3>3
  <2>5. map' \in [Entries -> MapPtr]
    <3>1. CASE map' = map
      BY <3>1 DEF TypeOK
    <3>2. CASE \E b \in Addr : map' = Linked(file_address, b, "FILE")
      BY <3>2, MapTypes, SMTT(30) DEF TypeOK, Types
    <3> QED BY <1>15, <3>1, <3>2 DEF Write
  <2>6. file_address' \in Addr
    BY <1>15, PartTypes DEF Write, TypeOK
  <2>7. pc' \in PCs /\ ret' \in {0, 1}
    BY <1>15 DEF Write, TypeOK, PCs, Finish
  <2>8. left' \in Nat
    BY <1>15, <2>2 DEF Write
  <2> QED BY <1>15, <2>3, <2>4, <2>5, <2>6, <2>7, <2>8 DEF Write, TypeOK
<1>16. CASE SourceEnds
  BY <1>16 DEF SourceEnds, TypeOK, Control, PCs, Finish
<1>17. CASE Record
  <2>1. DirBlock(dir) \in Block
    BY DEF TypeOK
  <2>2. trim_address' \in Addr
    BY <1>17, PartTypes DEF Record, TypeOK
  <2>3. map' \in [Entries -> MapPtr]
    BY <1>17 DEF Record, TypeOK, MapPtr
  <2> QED BY <1>17, <2>1, <2>2, <2>3 DEF Record, TypeOK, Finish, PCs
<1>18. CASE Trim
  <2>1. trim_address' \in Addr
    BY <1>18, PartTypes DEF Trim, TypeOK
  <2> QED BY <1>18, <2>1 DEF Trim, TypeOK, Finish, PCs
<1>19. CASE List
  <2>1. dir_address' \in Addr
    BY <1>19, PartTypes DEF List, TypeOK
  <2> QED BY <1>19, <2>1 DEF List, TypeOK, Finish, PCs
<1>20. CASE Read
  <2>1. file_address' \in Addr
    BY <1>20, PartTypes DEF Read, TypeOK
  <2>2. left' \in Nat
    BY <1>20 DEF Read, ReadSize, TypeOK
  <2> QED BY <1>20, <2>1, <2>2 DEF Read, TypeOK, Finish, PCs
<1>21. CASE Umount
  BY <1>21 DEF Umount, TypeOK, Control, PCs, Finish
<1>22. CASE Unmounted
  BY <1>22 DEF Unmounted, TypeOK, Control, PCs, Finish
<1>23. CASE Exit
  <2>1. NoDir \in [Slots -> Rec]
    OBVIOUS
  <2> HIDE DEF NoDir
  <2> QED BY <1>23, <2>1 DEF Exit, ProcessEnds, TypeOK, PCs
<1>24. ASSUME NEW r \in Requests, Start(r) PROVE TypeOK'
  BY <1>24, RequestTypes DEF Start, TypeOK, Control, PCs, FirstStep, Commands
<1>25. ASSUME NEW r \in Requests, MountFails(r) PROVE TypeOK'
  BY <1>25, RequestTypes DEF MountFails, TypeOK, Control, PCs, FirstStep, Commands
<1>26. ASSUME NEW r \in Requests, GenFs(r) PROVE TypeOK'
  BY <1>26, RequestTypes DEF GenFs, TypeOK, Control, PCs, FirstStep, Commands
<1>27. CASE UNCHANGED vars
  BY <1>27 DEF vars, image, walk, rec, fork, TypeOK
<1> QED BY <1>1, <1>2, <1>3, <1>4, <1>5, <1>6, <1>7, <1>8, <1>9, <1>10, <1>11, <1>12, <1>13, <1>14, <1>15, <1>16, <1>17, <1>18, <1>19, <1>20, <1>21, <1>22, <1>23, <1>24, <1>25, <1>26, <1>27 DEF Next, Step

LEMMA ControlStep == TypeOK /\ Control /\ [Next]_vars => Control'
<1> SUFFICES ASSUME TypeOK, Control, [Next]_vars PROVE Control'
  OBVIOUS
<1> USE Geometry DEF image, walk, rec, fork, Control, Formatted, Finish, Creates
<1>1. CASE FmtBoot
  BY <1>1 DEF FmtBoot
<1>2. CASE FmtRoot
  BY <1>2 DEF FmtRoot
<1>3. CASE FmtZero
  BY <1>3 DEF FmtZero
<1>4. CASE BootSect
  BY <1>4 DEF BootSect
<1>5. CASE BootLoader
  BY <1>5 DEF BootLoader
<1>6. CASE Found
  BY <1>6 DEF Found, Enter, EnterOrOpen, Reject, Follow, NextPart, Search
<1>7. CASE SearchOn
  BY <1>7 DEF SearchOn, Search
<1>8. CASE NotFound
  BY <1>8 DEF NotFound, Search
<1>9. CASE Insert
  BY <1>9 DEF Insert
<1>10. CASE Clear
  BY <1>10 DEF Clear
<1>11. CASE InsertOn
  BY <1>11 DEF InsertOn
<1>12. CASE Extend
  BY <1>12 DEF Extend
<1>13. CASE NoRoom
  BY <1>13 DEF NoRoom
<1>14. CASE WalkDone
  BY <1>14, RequestTypes DEF WalkDone, PathDone, AfterPath
<1>15. CASE Write
  <2>1. left' <= left /\ req' = req /\ pc' \in {"write", "record", "umount"}
    BY <1>15 DEF Write, ReadSize, TypeOK
  <2>2. left' \in Nat /\ left \in Nat /\ SourceBytes[req.src] \in Nat
    BY <1>15, TypeStep, RequestTypes DEF Write, TypeOK
  <2> QED BY <1>15, <2>1, <2>2, SMTT(30) DEF Write
<1>16. CASE SourceEnds
  BY <1>16 DEF SourceEnds
<1>17. CASE Record
  BY <1>17 DEF Record
<1>18. CASE Trim
  BY <1>18 DEF Trim
<1>19. CASE List
  BY <1>19 DEF List
<1>20. CASE Read
  BY <1>20 DEF Read
<1>21. CASE Umount
  BY <1>21 DEF Umount
<1>22. CASE Unmounted
  BY <1>22 DEF Unmounted
<1>23. CASE Exit
  BY <1>23 DEF Exit, ProcessEnds
<1>24. ASSUME NEW r \in Requests, Start(r) PROVE Control'
  BY <1>24, RequestTypes DEF Start, FirstStep, Commands, Mountable
<1>25. ASSUME NEW r \in Requests, MountFails(r) PROVE Control'
  BY <1>25, RequestTypes DEF MountFails, FirstStep, Commands, Mountable
<1>26. ASSUME NEW r \in Requests, GenFs(r) PROVE Control'
  BY <1>26, RequestTypes DEF GenFs, FirstStep, Commands, Mountable
<1>27. CASE UNCHANGED vars
  BY <1>27 DEF vars
<1> QED BY <1>1, <1>2, <1>3, <1>4, <1>5, <1>6, <1>7, <1>8, <1>9, <1>10, <1>11, <1>12, <1>13, <1>14, <1>15, <1>16, <1>17, <1>18, <1>19, <1>20, <1>21, <1>22, <1>23, <1>24, <1>25, <1>26, <1>27 DEF Next, Step

(* Type correctness, for every image and every sequence of commands.       *)
THEOREM TypeCorrect == Spec => []TypeOK
<1>1. Init => TypeOK /\ Control
  BY TypeInit DEF Init, Control, Formatted
<1>2. TypeOK /\ Control /\ [Next]_vars => TypeOK' /\ Control'
  BY TypeStep, ControlStep
<1> QED BY <1>1, <1>2, PTL DEF Spec

-----------------------------------------------------------------------------
(***************************************************************************)
(* Lemmas on the places that hold block addresses: what they point to,     *)
(* before and after a step, and why the three kinds of step there are (no  *)
(* change, one more address, one address less) keep every block in one     *)
(* fork.                                                                   *)
(***************************************************************************)

(* A site is the boot sector, a map entry or a record, and no two of these *)
(* are the same site.                                                      *)
LEMMA SiteKinds ==
  /\ <<"boot", 0, 0>> \in Sites
  /\ \A a \in Addr : <<"map", a, 0>> \in Sites
  /\ \A a \in Addr, s \in Slots : <<"rec", a, s>> \in Sites
  /\ \A o \in Sites : \/ o = <<"boot", 0, 0>>
                      \/ \E a \in Addr : o = <<"map", a, 0>>
                      \/ \E a \in Addr, s \in Slots : o = <<"rec", a, s>>
BY DEF Sites

LEMMA SitesDiffer ==
  /\ \A a : <<"map", a, 0>> # <<"boot", 0, 0>>
  /\ \A a, s : <<"rec", a, s>> # <<"boot", 0, 0>>
  /\ \A a, b, s : <<"rec", a, s>> # <<"map", b, 0>>
  /\ \A a, b : <<"map", a, 0>> = <<"map", b, 0>> => a = b
  /\ \A a, s, b, t : <<"rec", a, s>> = <<"rec", b, t>> => a = b /\ s = t
OBVIOUS

(* What a site points to, now and after a step.                            *)
LEMMA TargetNow ==
  /\ Target(<<"boot", 0, 0>>) = boot.root /\ ForkType(<<"boot", 0, 0>>) = "DIR"
  /\ \A a : /\ InFork(map[a]) => Target(<<"map", a, 0>>) = map[a].next
            /\ ~InFork(map[a]) => Target(<<"map", a, 0>>) = 0
            /\ ForkType(<<"map", a, 0>>) = map[a].type
  /\ \A a, s :
       /\ IsRecord(a, s) => Target(<<"rec", a, s>>) = disk[a].recs[s].addr
       /\ ~IsRecord(a, s) => Target(<<"rec", a, s>>) = 0
       /\ ForkType(<<"rec", a, s>>) = disk[a].recs[s].type
BY DEF Target, ForkType

LEMMA TargetNext ==
  /\ Target(<<"boot", 0, 0>>)' = boot'.root /\ ForkType(<<"boot", 0, 0>>)' = "DIR"
  /\ \A a : /\ InFork(map'[a]) => Target(<<"map", a, 0>>)' = map'[a].next
            /\ ~InFork(map'[a]) => Target(<<"map", a, 0>>)' = 0
            /\ ForkType(<<"map", a, 0>>)' = map'[a].type
  /\ \A a, s :
       /\ IsRecord(a, s)' => Target(<<"rec", a, s>>)' = disk'[a].recs[s].addr
       /\ ~IsRecord(a, s)' => Target(<<"rec", a, s>>)' = 0
       /\ ForkType(<<"rec", a, s>>)' = disk'[a].recs[s].type
BY DEF Target, ForkType

(* Every address that a site holds is one of a block.                      *)
LEMMA TargetTypes ==
  ASSUME TypeOK, Addr \subseteq Entries, 0 \in Addr
  PROVE  \A o \in Sites : Target(o) \in Addr
<1> SUFFICES ASSUME NEW o \in Sites PROVE Target(o) \in Addr
  OBVIOUS
<1>1. CASE o = <<"boot", 0, 0>>
  BY <1>1, TargetNow DEF TypeOK
<1>2. CASE \E a \in Addr : o = <<"map", a, 0>>
  <2> PICK a \in Addr : o = <<"map", a, 0>>
    BY <1>2
  <2>1. map[a].next \in Addr
    BY PartTypes
  <2> QED BY <2>1, TargetNow
<1>3. CASE \E a \in Addr, s \in Slots : o = <<"rec", a, s>>
  <2> PICK a \in Addr, s \in Slots : o = <<"rec", a, s>>
    BY <1>3
  <2>1. disk[a] \in Block
    BY DEF TypeOK
  <2>2. disk[a].recs[s] \in Rec
    BY <2>1 DEF Block
  <2>3. disk[a].recs[s].addr \in Addr
    BY <2>2 DEF Rec
  <2> QED BY <2>3, TargetNow
<1> QED BY <1>1, <1>2, <1>3, SiteKinds

Ownership == TargetsLive /\ NoSharedBlock /\ NoLostBlock

-----------------------------------------------------------------------------
(* A step that changes no address keeps the ownership of blocks.           *)

SameRecords ==      \* records in use keep their blocks
  \A a \in Addr, s \in Slots :
    /\ IsRecord(a, s)' <=> IsRecord(a, s)
    /\ IsRecord(a, s) => /\ disk'[a].recs[s].addr = disk[a].recs[s].addr
                         /\ disk'[a].recs[s].type = disk[a].recs[s].type
SameMap == \A a \in Addr : map'[a] = map[a]

LEMMA SameSites ==
  ASSUME SameRecords, SameMap, boot'.root = boot.root
  PROVE  \A o \in Sites : /\ Target(o)' = Target(o)
                          /\ Target(o) # 0 => ForkType(o)' = ForkType(o)
<1> SUFFICES ASSUME NEW o \in Sites
             PROVE  /\ Target(o)' = Target(o)
                    /\ Target(o) # 0 => ForkType(o)' = ForkType(o)
  OBVIOUS
<1>1. CASE o = <<"boot", 0, 0>>
  BY <1>1, TargetNow, TargetNext
<1>2. CASE \E a \in Addr : o = <<"map", a, 0>>
  BY <1>2, TargetNow, TargetNext DEF SameMap
<1>3. CASE \E a \in Addr, s \in Slots : o = <<"rec", a, s>>
  <2> PICK a \in Addr, s \in Slots : o = <<"rec", a, s>>
    BY <1>3
  <2>1. CASE IsRecord(a, s)
    BY <2>1, TargetNow, TargetNext DEF SameRecords
  <2>2. CASE ~IsRecord(a, s)
    BY <2>2, TargetNow, TargetNext DEF SameRecords
  <2> QED BY <2>1, <2>2
<1> QED BY <1>1, <1>2, <1>3, SiteKinds

LEMMA SameKeepsOwnership ==
  ASSUME TypeOK, TypeOK', Ownership, SameRecords, SameMap, boot'.root = boot.root,
         pc # "trim", Addr \subseteq Entries, 0 \in Addr
  PROVE  Ownership'
<1>1. \A o \in Sites : /\ Target(o)' = Target(o)
                       /\ Target(o) # 0 => ForkType(o)' = ForkType(o)
  BY SameSites
<1>2. \A o \in Sites : Target(o) \in Addr
  BY TargetTypes
<1>3. TargetsLive'
  BY <1>1, <1>2 DEF Ownership, TargetsLive, SameMap
<1>4. NoSharedBlock'
  BY <1>1 DEF Ownership, NoSharedBlock
<1>5. NoLostBlock'
  BY <1>1 DEF Ownership, NoLostBlock, SameMap
<1> QED BY <1>3, <1>4, <1>5 DEF Ownership

-----------------------------------------------------------------------------
(* A step that stores the address of a free block at a site that held none *)
(* (tfs_alloc with the assignment of its result).                          *)

LEMMA AddKeepsOwnership ==
  ASSUME TypeOK, Ownership, pc # "trim", Addr \subseteq Entries, 0 \in Addr,
         map[0].type \notin {"FILE", "DIR"},
         NEW n \in Sites, NEW b \in Addr, NEW t \in {"FILE", "DIR"},
         Target(n) = 0, b # 0, b >= FirstData, map[b].type = "EMPTY",
         ForkType(n)' = t,
         \A o \in Sites : Target(o)' = IF o = n THEN b ELSE Target(o),
         \A o \in Sites : o # n /\ Target(o) # 0 => ForkType(o)' = ForkType(o),
         \A a \in Addr : map'[a].type = IF a = b THEN t ELSE map[a].type
  PROVE  Ownership'
<1>1. \A o \in Sites : Target(o) \in Addr
  BY TargetTypes
<1>2. \A o \in Sites : Target(o) # b
  BY DEF Ownership, TargetsLive
<1>3. TargetsLive'
  <2> SUFFICES ASSUME NEW o \in Sites, Target(o)' # 0
               PROVE  /\ Target(o)' >= FirstData
                      /\ map'[Target(o)'].type = ForkType(o)'
                      /\ ForkType(o)' \in {"FILE", "DIR"}
    BY DEF TargetsLive
  <2>1. CASE o = n
    BY <2>1
  <2>2. CASE o # n
    BY <2>2, <1>1, <1>2 DEF Ownership, TargetsLive
  <2> QED BY <2>1, <2>2
<1>4. NoSharedBlock'
  BY <1>2 DEF Ownership, NoSharedBlock
<1>5. NoLostBlock'
  <2> SUFFICES ASSUME NEW a \in Addr, map'[a].type \in {"FILE", "DIR"}
               PROVE  \E o \in Sites : Target(o)' = a
    BY DEF NoLostBlock
  <2>1. CASE a = b
    BY <2>1
  <2>2. CASE a # b
    <3>1. map[a].type \in {"FILE", "DIR"} /\ a # 0
      BY <2>2
    <3>2. PICK o \in Sites : Target(o) = a
      BY <3>1 DEF Ownership, NoLostBlock
    <3> QED BY <3>1, <3>2
  <2> QED BY <2>1, <2>2
<1> QED BY <1>3, <1>4, <1>5 DEF Ownership

-----------------------------------------------------------------------------
(* A step that takes an address away: the block it named is the next one   *)
(* that the trim loop frees, or it is freed.                               *)

LEMMA CutKeepsOwnership ==
  ASSUME TypeOK, Ownership, Addr \subseteq Entries, 0 \in Addr,
         map[0].type \notin {"FILE", "DIR"},
         NEW n \in Sites, NEW f \in Addr,
         pc = "trim" => f = trim_address, pc # "trim" => f = 0,
         \A o \in Sites : Target(o) # f \/ f = 0,
         Target(n) # 0 => pc' = "trim" /\ trim_address' = Target(n),
         \A o \in Sites : Target(o)' = IF o = n THEN 0 ELSE Target(o),
         \A o \in Sites : o # n /\ Target(o) # 0 => ForkType(o)' = ForkType(o),
         \A a \in Addr : map'[a].type = IF a = f /\ f # 0 THEN "EMPTY" ELSE map[a].type
  PROVE  Ownership'
<1>1. \A o \in Sites : Target(o) \in Addr
  BY TargetTypes
<1>2. TargetsLive'
  <2> SUFFICES ASSUME NEW o \in Sites, Target(o)' # 0
               PROVE  /\ Target(o)' >= FirstData
                      /\ map'[Target(o)'].type = ForkType(o)'
                      /\ ForkType(o)' \in {"FILE", "DIR"}
    BY DEF TargetsLive
  <2>1. o # n /\ Target(o)' = Target(o) /\ Target(o) # 0
    OBVIOUS
  <2> QED BY <2>1, <1>1 DEF Ownership, TargetsLive
<1>3. NoSharedBlock'
  BY DEF Ownership, NoSharedBlock
<1>4. NoLostBlock'
  <2> SUFFICES ASSUME NEW a \in Addr, map'[a].type \in {"FILE", "DIR"}
               PROVE  \/ \E o \in Sites : Target(o)' = a
                      \/ pc' = "trim" /\ trim_address' = a
    BY DEF NoLostBlock
  <2>1. /\ map[a].type \in {"FILE", "DIR"} /\ a # 0
        /\ a # f \/ f = 0
    OBVIOUS
  <2>2. PICK o \in Sites : Target(o) = a
    BY <2>1 DEF Ownership, NoLostBlock
  <2>3. CASE o # n
    BY <2>2, <2>3
  <2>4. CASE o = n
    BY <2>1, <2>2, <2>4
  <2> QED BY <2>3, <2>4
<1> QED BY <1>2, <1>3, <1>4 DEF Ownership
=============================================================================
