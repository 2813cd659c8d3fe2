----------------------------- MODULE TfsFaults ------------------------------
(***************************************************************************)
(* What the tool keeps when it is killed between two block writes, while   *)
(* no format runs, and when mkfs formats an image that held files.  The    *)
(* ownership of blocks that Inv states is lost then: a map that was half   *)
(* written mixes two maps, and records may name blocks that are free.  The *)
(* proofs here use only what holds of every entry and record by itself.    *)
(***************************************************************************)
EXTENDS TfsSafety

-----------------------------------------------------------------------------
(* Types and the place of the process.                                     *)

LEMMA AnyCases ==
  ASSUME [AnyStep]_vars
  PROVE  [Next]_vars \/ (\E r \in Requests : MkFs(r)) \/ (Kill /\ ~Formatting)
BY DEF AnyStep

LEMMA FaultTypes ==
  ASSUME TypeOK, Control, [AnyStep]_vars PROVE TypeOK' /\ Control'
<1> USE Geometry, ConstantTypes DEF image, walk, rec, fork
<1>1. CASE [Next]_vars
  BY <1>1, TypeStep, ControlStep
<1>2. ASSUME NEW r \in Requests, MkFs(r) PROVE TypeOK' /\ Control'
  <2>1. disk' \in [Addr -> Block]
    <3> HIDE DEF ZeroBlock
    <3> QED BY <1>2 DEF MkFs, TypeOK
  <2>2. TypeOK'
    BY <1>2, <2>1 DEF MkFs, TypeOK, PCs
  <2>3. Control'
    BY <1>2 DEF MkFs, Control, Formatted, Creates
  <2> QED BY <2>2, <2>3
<1>3. CASE Kill
  <2>1. NoDir \in [Slots -> Rec]
    OBVIOUS
  <2> HIDE DEF NoDir
  <2>2. TypeOK'
    BY <1>3, <2>1 DEF Kill, ProcessEnds, TypeOK, PCs
  <2>3. Control'
    BY <1>3 DEF Kill, ProcessEnds, Control, Formatted, Creates
  <2> QED BY <2>2, <2>3
<1> QED BY <1>1, <1>2, <1>3, AnyCases

(* What r.op says of a command that is not under way.                      *)
LEMMA NoRequestFormats == NoRequest.op = "none"
BY DEF NoRequest

(* The steps after which the maps, and what they must satisfy, are as they *)
(* were.                                                                   *)
Calm == \/ BootSect \/ BootLoader \/ Found \/ SearchOn \/ NotFound \/ InsertOn
        \/ NoRoom \/ WalkDone \/ SourceEnds \/ List \/ Read \/ Clear \/ FmtZero
        \/ Exit \/ (\E r \in Requests : MountFails(r)) \/ UNCHANGED vars

LEMMA CalmCases ==
  ASSUME [Next]_vars
  PROVE  \/ Calm \/ FmtBoot \/ FmtRoot \/ Insert \/ Extend \/ Write \/ Record \/ Trim
         \/ Umount \/ Unmounted \/ (\E r \in Requests : Start(r) \/ GenFs(r))
BY DEF Next, Step, Calm

LEMMA CalmSteps ==
  ASSUME TypeOK, Control, FormatControl, Calm
  PROVE  /\ map' = map /\ prim' = prim /\ back' = back
         /\ boot'.sig = boot.sig /\ boot'.root = boot.root
         /\ pc' \in {"fmt_boot", "fmt_root", "fmt_zero"} => pc' = pc
         /\ pc \in {"fmt_boot", "fmt_root"} => pc' = pc
         /\ Formatted' => Formatted
         /\ ~Formatting' \/ pc' = "exit" => ~Formatting \/ pc = "exit"
         /\ pc' = "trim" => pc = "trim" /\ trim_address' = trim_address
         /\ Formatting' =>
              \/ pc' = pc /\ w' = w /\ Formatting /\ disk' = disk
              \/ /\ pc = "fmt_zero" /\ pc' = "umount" /\ w' = 0 /\ Formatting
                 /\ disk' = [disk EXCEPT ![boot.root] = ZeroBlock]
<1> USE DEF image, walk, rec, fork, Formatting, Formatted, FormatControl, Control
<1>1. CASE BootSect
  <2>1. boot'.root = boot.root /\ boot'.sig = boot.sig
    BY <1>1 DEF BootSect, TypeOK
  <2> QED BY <1>1, <2>1 DEF BootSect, Finish
<1>2. CASE Found
  BY <1>2 DEF Found, Enter, EnterOrOpen, Reject, Follow, NextPart, Finish, Search
<1>3. CASE SearchOn \/ NotFound \/ InsertOn \/ NoRoom
  BY <1>3 DEF SearchOn, NotFound, InsertOn, NoRoom, Search, Finish
<1>4. CASE WalkDone
  BY <1>4 DEF WalkDone, PathDone, AfterPath
<1>5. CASE BootLoader \/ SourceEnds \/ List \/ Read \/ Clear
  BY <1>5 DEF BootLoader, SourceEnds, List, Read, Clear, Finish
<1>6. CASE FmtZero
  BY <1>6 DEF FmtZero, Finish
<1>7. CASE Exit
  BY <1>7, NoRequestFormats DEF Exit, ProcessEnds
<1>8. CASE \E r \in Requests : MountFails(r)
  BY <1>8 DEF MountFails
<1>9. CASE UNCHANGED vars
  BY <1>9 DEF vars
<1> QED BY <1>1, <1>2, <1>3, <1>4, <1>5, <1>6, <1>7, <1>8, <1>9 DEF Calm

(* Block 0 to FirstData - 1 have entries.                                  *)
LEMMA SystemEntries == 0 .. FirstData - 1 \subseteq Entries
BY Geometry DEF Addr

(* tfs_alloc gives away a data block while the map reserves the others.    *)
LEMMA FreeIsData ==
  ASSUME NEW b \in Addr, IsFirstFree(b), Reserves(map)
  PROVE  b >= FirstData /\ b # 0 /\ map[b].type = "EMPTY" /\ b \in Entries
BY Geometry DEF IsFirstFree, Reserves

(* The first data block, when it is free, is the first free one.           *)
LEMMA FirstFreeData ==
  ASSUME NEW b \in Addr, IsFirstFree(b), Reserves(map), map[FirstData].type = "EMPTY"
  PROVE  b = FirstData
<1>1. b >= FirstData
  BY FreeIsData
<1>2. FirstData \in 0 .. b - 1 => map[FirstData].type # "EMPTY"
  BY DEF IsFirstFree
<1> QED BY <1>1, <1>2, Geometry

LEMMA FormatControlStep ==
  ASSUME FormatInv, pc = "fmt_root" => Reserves(map), [AnyStep]_vars
  PROVE  FormatControl'
<1> USE DEF image, walk, rec, fork, Formatting, FormatControl
<1>0. TypeOK /\ Control /\ FormatControl
  BY DEF FormatInv
<1>1. CASE Calm
  <2>1. /\ pc' \in {"fmt_boot", "fmt_root", "fmt_zero"} => Formatting'
        /\ Formatting' => pc' \in {"fmt_boot", "fmt_root", "fmt_zero", "umount", "exit"}
    <3>1. CASE \E r \in Requests : MountFails(r)
      BY <1>0, <3>1 DEF MountFails
    <3>2. CASE Exit
      BY <3>2, NoRequestFormats DEF Exit, ProcessEnds
    <3>3. CASE UNCHANGED vars
      BY <1>0, <3>3 DEF vars
    <3>4. CASE \/ BootSect \/ BootLoader \/ SearchOn \/ NotFound \/ InsertOn \/ NoRoom
               \/ SourceEnds \/ List \/ Read \/ Clear \/ FmtZero
      BY <1>0, <3>4 DEF BootSect, BootLoader, SearchOn, NotFound, InsertOn, NoRoom,
         SourceEnds, List, Read, Clear, FmtZero, Search, Finish
    <3>5. CASE Found \/ WalkDone
      BY <1>0, <3>5 DEF Found, Enter, EnterOrOpen, Reject, Follow, NextPart, Finish, Search,
         WalkDone, PathDone, AfterPath, Control
    <3> QED BY <1>1, <3>1, <3>2, <3>3, <3>4, <3>5 DEF Calm
  <2> QED BY <1>0, <1>1, <2>1, CalmSteps
<1>2. CASE FmtBoot
  BY <1>0, <1>2 DEF FmtBoot
<1>3. CASE FmtRoot
  <2>1. PICK b \in Addr : IsFirstFree(b) /\ boot' = [boot EXCEPT !.root = b]
    BY <1>3 DEF FmtRoot
  <2>2. b >= FirstData
    BY <1>3, <2>1, FreeIsData DEF FmtRoot
  <2>3. boot'.root = b
    BY <1>0, <2>1 DEF TypeOK
  <2> QED BY <1>0, <1>3, <2>2, <2>3 DEF FmtRoot
<1>4. CASE Insert \/ Extend \/ Write \/ Record \/ Trim \/ Umount \/ Unmounted
  BY <1>0, <1>4 DEF Insert, Extend, Write, Record, Trim, Umount, Unmounted, Finish
<1>5. ASSUME NEW r \in Requests, Start(r) PROVE FormatControl'
  BY <1>0, <1>5, RequestTypes DEF Start, FirstStep, Commands
<1>6. ASSUME NEW r \in Requests, GenFs(r) PROVE FormatControl'
  BY <1>6 DEF GenFs
<1>7. CASE Kill /\ ~Formatting
  <2>1. pc \notin {"fmt_boot", "fmt_root"}
    BY <1>0, <1>7
  <2> QED BY <1>0, <1>7, <2>1, NoRequestFormats DEF Kill, ProcessEnds
<1>8. ASSUME NEW r \in Requests, MkFs(r) PROVE FormatControl'
  BY <1>8 DEF MkFs
<1> QED BY <1>1, <1>2, <1>3, <1>4, <1>5, <1>6, <1>7, <1>8, AnyCases, CalmCases

-----------------------------------------------------------------------------
(* The maps.                                                               *)

(* Every block of the map or of its mirror that umount writes takes over   *)
(* the entries in memory: an entry is then that of one map or the other.   *)
LEMMA UmountMixes ==
  ASSUME Umount
  PROVE  \A e \in Entries : /\ prim'[e] \in {prim[e], map[e]}
                            /\ back'[e] \in {back[e], map[e]}
<1>1. CASE w % 2 = 0 /\ back' = back /\ prim' = [e \in Entries |->
             IF e \in Chunk(w \div 2) THEN map[e] ELSE prim[e]]
  BY <1>1
<1>2. CASE w % 2 = 1 /\ prim' = prim /\ back' = [e \in Entries |->
             IF e \in Chunk(w \div 2) THEN map[e] ELSE back[e]]
  BY <1>2
<1> QED BY <1>1, <1>2 DEF Umount

LEMMA CopiedStep ==
  ASSUME FormatInv, [AnyStep]_vars PROVE FormatCopied'
<1> USE DEF image, walk, rec, fork
<1>0. TypeOK /\ Control /\ FormatControl /\ FormatCopied
  BY DEF FormatInv
<1>1. ASSUME pc' \notin {"umount", "exit"} \/ ~Formatting' PROVE FormatCopied'
  BY <1>1 DEF FormatCopied
<1>2. CASE Calm
  <2>1. map' = map /\ prim' = prim /\ back' = back
    BY <1>0, <1>2, CalmSteps
  <2>2. CASE Formatting' /\ pc' = pc /\ w' = w /\ Formatting
    BY <1>0, <2>1, <2>2 DEF FormatCopied
  <2>3. CASE pc' = "umount" /\ w' = 0
    <3>1. \A e \in Entries : e \div EntriesPerBlock \in Nat
      BY EntryBlock, Geometry
    <3> QED BY <2>3, <3>1, Geometry DEF FormatCopied
  <2> QED BY <1>0, <1>1, <1>2, <2>2, <2>3, CalmSteps
<1>3. CASE Umount
  <2>1. /\ w \in Nat /\ w < 2 * MapBlocks /\ w' = w + 1 /\ pc = "umount" /\ pc' = "umount"
        /\ map' = map /\ req' = req
    BY <1>0, <1>3 DEF Umount, TypeOK
  <2>2. ASSUME NEW e \in Entries, Formatting
        PROVE  /\ 2 * (e \div EntriesPerBlock) < w + 1 => prim'[e] = map[e]
               /\ 2 * (e \div EntriesPerBlock) + 1 < w + 1 => back'[e] = map[e]
    <3> DEFINE q == e \div EntriesPerBlock
    <3>1. q \in Nat
      BY EntryBlock, Geometry
    <3>2. (2 * q < w => prim[e] = map[e]) /\ (2 * q + 1 < w => back[e] = map[e])
      BY <1>0, <2>1, <2>2 DEF FormatCopied
    <3>3. e \in Chunk(w \div 2) <=> q = w \div 2
      BY DEF Chunk
    <3>4. CASE w % 2 = 0
      <4>1. /\ prim'[e] = IF e \in Chunk(w \div 2) THEN map[e] ELSE prim[e]
            /\ back' = back
        BY <1>3, <3>4 DEF Umount
      <4> HIDE DEF q
      <4>2. w = 2 * (w \div 2)
        BY <2>1, <3>4
      <4> QED BY <2>1, <3>1, <3>2, <3>3, <4>1, <4>2 DEF q
    <3>5. CASE w % 2 = 1
      <4>1. /\ back'[e] = IF e \in Chunk(w \div 2) THEN map[e] ELSE back[e]
            /\ prim' = prim
        BY <1>3, <3>5 DEF Umount
      <4> HIDE DEF q
      <4>2. w = 2 * (w \div 2) + 1
        BY <2>1, <3>5
      <4> QED BY <2>1, <3>1, <3>2, <3>3, <4>1, <4>2 DEF q
    <3> QED BY <1>3, <3>4, <3>5 DEF Umount
  <2> QED BY <2>1, <2>2, Geometry DEF FormatCopied, Formatting
<1>4. CASE Unmounted
  <2>1. Formatting => \A e \in Entries : prim[e] = map[e] /\ back[e] = map[e]
    BY <1>0, <1>4, EntryBlock, Geometry DEF Unmounted, FormatCopied
  <2> QED BY <1>4, <2>1 DEF Unmounted, FormatCopied, Formatting
<1>5. CASE FmtBoot \/ FmtRoot \/ Record \/ Trim \/ Insert
  BY <1>0, <1>1, <1>5 DEF FmtBoot, FmtRoot, Record, Trim, Insert, FormatControl, Formatting
<1>6. CASE Extend \/ Write
  BY <1>0, <1>1, <1>6 DEF Extend, Write, FormatControl, Formatting
<1>7. ASSUME NEW r \in Requests, Start(r) \/ GenFs(r) \/ MkFs(r) PROVE FormatCopied'
  BY <1>1, <1>7 DEF Start, GenFs, MkFs, Formatting
<1>8. CASE Kill
  BY <1>1, <1>8 DEF Kill, ProcessEnds
<1> QED BY <1>2, <1>3, <1>4, <1>5, <1>6, <1>7, <1>8, AnyCases, CalmCases

(* The entries of a map that cmd_mkfs starts from.                         *)
LEMMA FreshEntries ==
  ASSUME NEW stray \in [Addr \ OnHeap -> Heap], map' = FreshMap(stray)
  PROVE  /\ Reserves(map') /\ Cleared(map') /\ map'[FirstData] = EmptyPtr
         /\ \A e \in Entries : map'[e].next = 0 \/ \E p \in Heap : map'[e].next = p.next
<1>1. FirstData \in OnHeap /\ FirstData \in Addr /\ FirstData \in Entries
  <2>1. HeapPerBlock * MapBlocks \in Nat /\ FirstData < HeapPerBlock * MapBlocks
    BY Geometry, GeometryAssumption
  <2> QED BY <2>1, Geometry DEF OnHeap, Addr
<1>2. \A e \in OnHeap \intersect Addr : e >= FirstData => map'[e] = EmptyPtr
  BY FreshTypes
<1>3. Cleared(map') /\ map'[FirstData] = EmptyPtr
  BY <1>1, <1>2, Geometry DEF Cleared, Addr
<1>4. Reserves(map')
  BY SystemEntries, FreshTypes, Geometry DEF Reserves, ReservedPtr
<1>5. \A e \in Addr \ OnHeap : stray[e] \in Heap
  OBVIOUS
<1>6. ASSUME NEW e \in Entries
      PROVE  map'[e].next = 0 \/ \E p \in Heap : map'[e].next = p.next
  <2>1. map'[e] \in {ReservedPtr, EmptyPtr} \/ (e \in Addr \ OnHeap /\ map'[e] = stray[e])
    BY Geometry DEF FreshMap, Addr
  <2> QED BY <1>5, <2>1 DEF ReservedPtr, EmptyPtr
<1> QED BY <1>3, <1>4, <1>6

LEMMA MapsStepAny ==
  ASSUME HeapInData, DataInv, [AnyStep]_vars PROVE MapsSound'
<1> USE DEF image, walk, rec, fork, LinksData, Reserves
<1>0. TypeOK /\ Control /\ FormatControl /\ MapsSound /\ FormatCopied /\ WalkData
  BY DEF DataInv
<1>e. 0 .. FirstData - 1 \subseteq Entries
  BY SystemEntries
<1>1. CASE Calm
  BY <1>0, <1>1, CalmSteps DEF MapsSound
<1>2. ASSUME prim' = prim, back' = back, boot'.sig = boot.sig, Formatted, Formatting' = Formatting,
             pc' # "exit", LinksData(map'), Reserves(map')
      PROVE  MapsSound'
  BY <1>0, <1>2 DEF MapsSound
<1>3. CASE FmtBoot
  <2>1. PICK stray \in [Addr \ OnHeap -> Heap] : map' = FreshMap(stray)
    BY <1>3 DEF FmtBoot
  <2>2. /\ Reserves(map')
        /\ \A e \in Entries : map'[e].next = 0 \/ \E p \in Heap : map'[e].next = p.next
    BY <2>1, FreshEntries
  <2>3. LinksData(map')
    BY <2>2 DEF HeapInData
  <2>4. LinksData(map') /\ Reserves(map')
    BY <2>2, <2>3
  <2>5. Formatting' /\ pc' = "fmt_root" /\ prim' = prim /\ back' = back
    BY <1>0, <1>3 DEF FmtBoot, FormatControl, Formatting
  <2> QED BY <1>0, <2>4, <2>5 DEF MapsSound
<1>4. ASSUME NEW b \in Addr, IsFirstFree(b), NEW t \in Types, map' = Allocated(b, t), Formatted
      PROVE  LinksData(map') /\ Reserves(map')
  <2>1. b >= FirstData /\ Reserves(map) /\ LinksData(map)
    BY <1>0, <1>4, FreeIsData DEF MapsSound
  <2>2. \A e \in Entries : map'[e] = IF e = b THEN [type |-> t, next |-> 0] ELSE map[e]
    BY <1>0, <1>4, AllocatedEntries
  <2> QED BY <1>e, <2>1, <2>2, Geometry
<1>5. ASSUME NEW a \in Addr, NEW b \in Addr, IsFirstFree(b), NEW t \in Types,
             map' = Linked(a, b, t), Formatted, a # b
      PROVE  LinksData(map') /\ Reserves(map')
  <2>1. b >= FirstData /\ Reserves(map) /\ LinksData(map)
    BY <1>0, <1>5, FreeIsData DEF MapsSound
  <2>2. \A e \in Entries :
           /\ map'[e].type = IF e = b THEN t ELSE map[e].type
           /\ map'[e].next = IF e = b THEN 0 ELSE IF e = a THEN b ELSE map[e].next
    BY <1>0, <1>5, LinkedEntries
  <2> QED BY <1>e, <2>1, <2>2, Geometry
<1>6. CASE FmtRoot
  <2>1. LinksData(map') /\ Reserves(map')
    BY <1>4, <1>6 DEF FmtRoot, Formatted, Types
  <2>2. boot'.sig = boot.sig
    BY <1>0, <1>6 DEF FmtRoot, TypeOK
  <2> QED BY <1>2, <1>6, <2>1, <2>2 DEF FmtRoot, Formatted, Formatting
<1>7. CASE Insert
  <2>1. NewType \in Types
    BY <1>0, <1>7, NewRecTypes DEF Insert
  <2>2. LinksData(map') /\ Reserves(map')
    BY <1>4, <1>7, <2>1 DEF Insert, Formatted
  <2> QED BY <1>2, <1>7, <2>2 DEF Insert, Formatted, Formatting
<1>8. ASSUME NEW a \in Addr, NEW b \in Addr, IsFirstFree(b), NEW t \in Types,
             map' = Linked(a, b, t), Formatted
      PROVE  LinksData(map') /\ Reserves(map')
  <2>1. CASE a # b
    BY <1>5, <1>8, <2>1
  <2>2. CASE a = b
    <3>1. b >= FirstData /\ Reserves(map) /\ LinksData(map)
      BY <1>0, <1>8, FreeIsData DEF MapsSound
    <3>2. Allocated(b, t) \in [Entries -> MapPtr]
      BY <1>0, MapTypes
    <3>3. \A e \in Entries : Allocated(b, t)[e] = IF e = b THEN [type |-> t, next |-> 0] ELSE map[e]
      BY <1>0, AllocatedEntries
    <3> DEFINE m == Allocated(b, t)
    <3>4. map' = [m EXCEPT ![b].next = b]
      BY <1>8, <2>2 DEF Linked
    <3> HIDE DEF m
    <3>5. \A e \in Entries : /\ map'[e].type = m[e].type
                             /\ map'[e].next = IF e = b THEN b ELSE m[e].next
      BY <3>2, <3>4 DEF MapPtr, m
    <3> QED BY <1>e, <3>1, <3>3, <3>5, Geometry DEF m
  <2> QED BY <2>1, <2>2
<1>9. CASE Extend
  <2>1. PICK b \in Addr : IsFirstFree(b) /\ map' = Linked(dir_address, b, "DIR")
    BY <1>9 DEF Extend
  <2>2. LinksData(map') /\ Reserves(map')
    BY <1>0, <1>8, <1>9, <2>1 DEF Extend, Formatted, Types, TypeOK
  <2> QED BY <1>2, <1>9, <2>2 DEF Extend, Formatted, Formatting, Finish
<1>10. CASE Write
  <2>1. LinksData(map') /\ Reserves(map')
    <3>1. CASE map' = map
      BY <1>0, <1>10, <3>1 DEF Write, Formatted, MapsSound
    <3>2. CASE \E b \in Addr : IsFirstFree(b) /\ map' = Linked(file_address, b, "FILE")
      BY <1>0, <1>8, <1>10, <3>2 DEF Write, Formatted, Types, TypeOK
    <3> QED BY <1>10, <3>1, <3>2 DEF Write
  <2> QED BY <1>2, <1>10, <2>1 DEF Write, Formatted, Formatting, Finish
<1>11. CASE Record
  <2>1. map \in [Entries -> MapPtr] /\ map' = [map EXCEPT ![file_address].next = 0]
    BY <1>0, <1>11 DEF Record, TypeOK
  <2>2. \A e \in Entries : /\ map'[e].type = map[e].type
                           /\ map'[e].next \in {0, map[e].next}
    BY <2>1 DEF MapPtr
  <2>3. LinksData(map') /\ Reserves(map')
    BY <1>0, <1>e, <1>11, <2>2 DEF Record, Formatted, MapsSound
  <2> QED BY <1>2, <1>11, <2>3 DEF Record, Formatted, Formatting, Finish
<1>12. CASE Trim
  <2>1. trim_address >= FirstData /\ trim_address \in Entries
    BY <1>0, <1>12, Geometry DEF Trim, WalkData, TypeOK
  <2>2. \A e \in Entries : map'[e] = IF e = trim_address THEN EmptyPtr ELSE map[e]
    BY <1>0, <1>12 DEF Trim, TypeOK
  <2>3. LinksData(map') /\ Reserves(map')
    BY <1>0, <1>e, <1>12, <2>1, <2>2, Geometry DEF Trim, Formatted, MapsSound, EmptyPtr
  <2> QED BY <1>2, <1>12, <2>3 DEF Trim, Formatted, Formatting, Finish
<1>13. CASE Umount
  <2>1. \A e \in Entries : prim'[e] \in {prim[e], map[e]} /\ back'[e] \in {back[e], map[e]}
    BY <1>13, UmountMixes
  <2>2. /\ pc = "umount" /\ pc' = "umount" /\ map' = map /\ boot' = boot
        /\ Formatting' = Formatting
    BY <1>13 DEF Umount, Formatting
  <2>3. LinksData(prim') /\ LinksData(back')
    BY <1>0, <2>1 DEF MapsSound
  <2>4. boot.sig /\ ~Formatting => Reserves(prim') /\ Reserves(back')
    BY <1>0, <1>e, <2>1, <2>2 DEF MapsSound, Formatted
  <2>5. Reserves(map) /\ LinksData(map)
    BY <1>0, <2>2 DEF MapsSound, Formatted
  <2> HIDE DEF LinksData, Reserves
  <2> QED BY <2>2, <2>3, <2>4, <2>5 DEF MapsSound
<1>14. CASE Unmounted
  <2>1. /\ pc = "umount" /\ pc' = "exit" /\ map' = map /\ prim' = prim /\ back' = back
        /\ boot' = boot /\ w = 2 * MapBlocks /\ ~Formatted' /\ Formatting' = Formatting
    BY <1>14 DEF Unmounted, Formatted, Formatting
  <2>2. Formatting => \A e \in Entries : prim[e] = map[e] /\ back[e] = map[e]
    BY <1>0, <2>1, EntryBlock, Geometry DEF FormatCopied
  <2>3. LinksData(map) /\ LinksData(prim) /\ LinksData(back) /\ Reserves(map)
    BY <1>0, <2>1 DEF MapsSound, Formatted
  <2>4. boot.sig => Reserves(prim) /\ Reserves(back)
    BY <1>0, <1>e, <2>2, <2>3 DEF MapsSound
  <2> HIDE DEF LinksData, Reserves
  <2> QED BY <2>1, <2>3, <2>4 DEF MapsSound
<1>15. ASSUME NEW r \in Requests, Start(r) PROVE MapsSound'
  <2>1. /\ map' = prim /\ prim' = prim /\ back' = back /\ boot' = boot /\ boot.sig
        /\ pc = "idle"
    BY <1>15 DEF Start, Mountable
  <2>2. ~Formatting
    BY <1>0, <2>1 DEF FormatControl
  <2> QED BY <1>0, <2>1, <2>2 DEF MapsSound
<1>16. ASSUME NEW r \in Requests, GenFs(r) PROVE MapsSound'
  BY <1>16 DEF GenFs, MapsSound, ZeroMap, EmptyPtr, Formatted
<1>17. CASE Kill /\ ~Formatting
  BY <1>0, <1>17 DEF Kill, ProcessEnds, MapsSound, Formatted
<1>18. ASSUME NEW r \in Requests, MkFs(r) PROVE MapsSound'
  BY <1>0, <1>18 DEF MkFs, MapsSound, Formatted, Formatting
<1> QED BY <1>1, <1>3, <1>6, <1>7, <1>9, <1>10, <1>11, <1>12, <1>13, <1>14, <1>15, <1>16,
           <1>17, <1>18, AnyCases, CalmCases

-----------------------------------------------------------------------------
(* The records and the walk.                                               *)

LEMMA NamesOfBlocks ==
  /\ \A s \in Slots : ZeroBlock.recs[s].name = NoName /\ NoDir[s].name = NoName
  /\ \A src, n : \A s \in Slots : /\ FileBlock(src, n).recs[s].name = NoName
                                  /\ LoaderBlock(src, n).recs[s].name = NoName
<1>1. ASSUME NEW src, NEW n, NEW s \in Slots
      PROVE  /\ FileBlock(src, n).recs[s].name = NoName
             /\ LoaderBlock(src, n).recs[s].name = NoName
  BY DataRecords DEF NoRec, JunkRec
<1> QED BY <1>1 DEF ZeroBlock, NoRec, NoDir

(* A command that matches a record has its name.                           *)
LEMMA MatchedName ==
  ASSUME TypeOK, Control, Search, NEW s \in Slots, Matches(Here[s])
  PROVE  Here[s].name # NoName
<1>1. part_i \in 1 .. Len(req.path) /\ req.path \in Seq(Names)
  BY RequestTypes DEF Control, TypeOK, Search
<1>2. Part \in Names
  BY <1>1 DEF Part
<1> QED BY <1>2, RequestsAssumption DEF Matches

LEMMA WalkDataStep ==
  ASSUME DataInv, [AnyStep]_vars PROVE WalkData'
<1> USE DEF image, walk, rec, fork, NamesData
<1>0. TypeOK /\ Control /\ FormatControl /\ MapsSound /\ WalkData /\ TypeOK'
  BY FaultTypes DEF DataInv
<1>h. /\ dir_address \in Addr /\ dir_first_address \in Addr /\ file_address \in Addr
      /\ Here \in [Slots -> Rec] /\ dir \in [Slots -> Rec]
      /\ NamesData(Here) /\ NamesData(dir)
  BY <1>0, PartTypes DEF TypeOK, Here, WalkData
<1>n. \A a \in Addr : map[a].next # 0 => map[a].next >= FirstData
  BY <1>0, Geometry DEF MapsSound, LinksData
<1>1. ASSUME \A a \in Addr : NamesData(disk'[a].recs), NamesData(dir'),
             pc' \notin {"search", "insert", "clear", "write", "record", "trim"}
      PROVE  WalkData'
  BY <1>1 DEF WalkData
<1>2. ASSUME \A a \in Addr : NamesData(disk'[a].recs), NamesData(dir'), pc' # "trim",
             dir_address' >= FirstData, dir_first_address' >= FirstData,
             pc' \in {"clear", "write", "record"} \/ (pc' = "search" /\ part_i' > 1)
                => file_address' >= FirstData
      PROVE  WalkData'
  BY <1>2 DEF WalkData
<1>3. ASSUME disk' = disk, dir' = dir
      PROVE  (\A a \in Addr : NamesData(disk'[a].recs)) /\ NamesData(dir')
  BY <1>0, <1>3 DEF WalkData
<1>4. CASE \/ FmtBoot \/ FmtRoot \/ BootSect \/ NoRoom \/ List \/ Read \/ Umount \/ Unmounted
           \/ (\E r \in Requests : MountFails(r))
  <2>1. disk' = disk /\ dir' = dir
    BY <1>4 DEF FmtBoot, FmtRoot, BootSect, NoRoom, List, Read, Umount, Unmounted, MountFails
  <2>2. pc' \notin {"search", "insert", "clear", "write", "record", "trim"} \/ pc' = pc
    BY <1>4 DEF FmtBoot, FmtRoot, BootSect, NoRoom, List, Read, Umount, Unmounted, MountFails,
       Finish
  <2>3. pc' \notin {"search", "insert", "clear", "write", "record", "trim"}
    BY <1>4, <2>2 DEF FmtBoot, FmtRoot, BootSect, NoRoom, List, Read, Umount, Unmounted,
       MountFails, Finish
  <2> QED BY <1>1, <1>3, <2>1, <2>3
<1>5. CASE FmtZero \/ BootLoader \/ (\E r \in Requests : MkFs(r) \/ GenFs(r))
  <2>1. \A a \in Addr : NamesData(disk'[a].recs)
    <3>1. CASE FmtZero \/ (\E r \in Requests : MkFs(r))
      <4>1. PICK d \in Addr : disk' = [disk EXCEPT ![d] = ZeroBlock]
        BY <1>0, <3>1, Geometry DEF FmtZero, MkFs, TypeOK
      <4> QED BY <1>0, <4>1, NamesOfBlocks DEF TypeOK, WalkData
    <3>2. CASE BootLoader
      <4>1. CASE disk' = disk
        BY <1>0, <4>1 DEF WalkData
      <4>2. CASE disk' = [disk EXCEPT ![w + 1] = LoaderBlock(req.src, w * BlockBytes)]
        <5> DEFINE x == LoaderBlock(req.src, w * BlockBytes)
        <5>1. \A s \in Slots : x.recs[s].name = NoName
          BY NamesOfBlocks
        <5>2. disk' = [disk EXCEPT ![w + 1] = x]
          BY <4>2
        <5> HIDE DEF x
        <5>3. \A a \in Addr : disk'[a] = disk[a] \/ disk'[a] = x
          BY <1>0, <5>2 DEF TypeOK
        <5> QED BY <1>0, <5>1, <5>3 DEF WalkData
      <4> QED BY <3>2, <4>1, <4>2 DEF BootLoader
    <3>3. CASE \E r \in Requests : GenFs(r)
      BY <3>3, NamesOfBlocks DEF GenFs
    <3> QED BY <1>5, <3>1, <3>2, <3>3
  <2>2. dir' = dir /\ pc' \notin {"search", "insert", "clear", "write", "record", "trim"}
    BY <1>5 DEF FmtZero, BootLoader, MkFs, GenFs, Finish
  <2> QED BY <1>1, <1>h, <2>1, <2>2
<1>6. CASE Exit \/ Kill
  <2>1. disk' = disk /\ dir' = NoDir /\ pc' = "idle"
    BY <1>6 DEF Exit, Kill, ProcessEnds
  <2> QED BY <1>0, <1>1, <2>1, NamesOfBlocks DEF WalkData
<1>7. CASE UNCHANGED vars
  BY <1>0, <1>7 DEF vars, WalkData, Creates
<1>8. CASE Found
  <2>1. PICK s \in Slots :
          /\ Matches(Here[s])
          /\ Enter(Here[s]) \/ EnterOrOpen(Here[s], s) \/ Reject(Here[s]) \/ Follow(Here[s])
    BY <1>8 DEF Found, FirstMatch
  <2>2. Here[s].name # NoName /\ Here[s].addr >= FirstData
    BY <1>0, <1>8, <1>h, <2>1, MatchedName DEF Found
  <2>3. disk' = disk /\ req' = req /\ pc = "search" /\ trim_address' = trim_address
    BY <1>8 DEF Found, Search
  <2>4. CASE Enter(Here[s])
    <3>1. req.op # "add" /\ pc' = "search" /\ dir' = dir /\ dir_address' >= FirstData
      BY <2>2, <2>3, <2>4 DEF Enter, NextPart
    <3>2. Creates => dir_first_address' >= FirstData
      BY <1>0, <2>2, <2>3, <2>4 DEF Enter, WalkData
    <3>3. Creates' => Creates
      BY <2>3 DEF Creates
    <3> QED BY <1>0, <1>h, <2>3, <3>1, <3>2, <3>3 DEF WalkData
  <2>5. CASE EnterOrOpen(Here[s], s)
    <3>1. /\ dir' = [Here EXCEPT ![s].perm = "ifdir"] \/ dir' = [Here EXCEPT ![s].perm = "ifreg"]
          /\ req.op = "add" /\ pc' = "search" /\ file_address' = Here[s].addr
          /\ dir_address' \in {dir_address, Here[s].addr}
          /\ dir_first_address' \in {dir_first_address, Here[s].addr}
      BY <2>3, <2>5 DEF EnterOrOpen, NextPart
    <3>2. \A t \in Slots : dir'[t].name = Here[t].name /\ dir'[t].addr = Here[t].addr
      BY <1>h, <3>1 DEF Rec
    <3>3. dir_address >= FirstData /\ dir_first_address >= FirstData
      BY <1>0, <2>3, <3>1 DEF WalkData, Creates
    <3>4. NamesData(dir')
      BY <1>h, <3>2
    <3>5. dir_address' >= FirstData /\ dir_first_address' >= FirstData
      BY <2>2, <3>1, <3>3
    <3> QED BY <1>0, <1>2, <2>2, <2>3, <3>1, <3>4, <3>5 DEF WalkData
  <2>6. CASE Reject(Here[s])
    BY <1>1, <1>3, <2>3, <2>6 DEF Reject, Finish
  <2>7. CASE Follow(Here[s])
    <3>1. ~Creates' /\ pc' = "search" /\ dir' = dir /\ req'.op # "add"
      BY <2>3, <2>7 DEF Follow, NextPart, Creates
    <3> QED BY <1>0, <1>h, <2>3, <3>1 DEF WalkData
  <2> QED BY <2>1, <2>4, <2>5, <2>6, <2>7
<1>9. CASE SearchOn \/ InsertOn
  <2>1. /\ disk' = disk /\ dir' = dir /\ req' = req /\ pc' = pc /\ pc \in {"search", "insert"}
        /\ dir_address' = map[dir_address].next /\ map[dir_address].next # 0
        /\ dir_first_address' = dir_first_address /\ file_address' = file_address
        /\ part_i' = part_i
    BY <1>9 DEF SearchOn, InsertOn, Search, HasNext
  <2>2. dir_address' >= FirstData
    BY <1>h, <1>n, <2>1
  <2> QED BY <1>0, <2>1, <2>2 DEF WalkData, Creates
<1>10. CASE NotFound
  <2>1. /\ disk' = disk /\ dir' = dir /\ req' = req /\ pc = "search" /\ pc' \in {"insert", "umount"}
        /\ dir_address' \in {dir_first_address, dir_address}
        /\ dir_first_address' = dir_first_address
    BY <1>10 DEF NotFound, Search, Finish
  <2> QED BY <1>0, <2>1 DEF WalkData, Creates
<1>11. CASE Insert
  <2>1. PICK s \in Slots, b \in Addr :
          /\ IsFirstFree(b)
          /\ dir' = [Here EXCEPT ![s] = NewRec(b)]
          /\ disk' = [disk EXCEPT ![dir_address] = DirBlock(dir')]
          /\ dir_first_address' = b /\ file_address' = b
    BY <1>11 DEF Insert
  <2>2. b >= FirstData
    BY <1>0, <1>11, <2>1, FreeIsData DEF Insert, Formatted, MapsSound
  <2>3. pc = "insert" /\ pc' = "clear" /\ dir_address' = dir_address /\ Creates
    BY <1>0, <1>11 DEF Insert, Control
  <2>4. dir_address >= FirstData
    BY <1>0, <2>3 DEF WalkData
  <2>5. NewRec(b).addr = b
    BY DEF NewRec
  <2>6. NamesData(dir')
    BY <1>h, <2>1, <2>2, <2>5
  <2>7. DirBlock(dir').recs = dir'
    BY DEF DirBlock
  <2>8. \A a \in Addr : NamesData(disk'[a].recs)
    BY <1>0, <2>1, <2>6, <2>7 DEF TypeOK, WalkData
  <2> QED BY <1>2, <2>1, <2>2, <2>3, <2>4, <2>6, <2>8
<1>12. CASE Clear
  <2>1. /\ disk' = [disk EXCEPT ![dir_first_address] = ZeroBlock] /\ dir' = dir /\ req' = req
        /\ pc = "clear" /\ pc' = "search" /\ Creates
        /\ dir_address' = dir_address /\ dir_first_address' = dir_first_address
        /\ file_address' = file_address
    BY <1>0, <1>12 DEF Clear, Control
  <2>2. \A a \in Addr : NamesData(disk'[a].recs)
    BY <1>0, <2>1, NamesOfBlocks DEF TypeOK, WalkData
  <2> QED BY <1>0, <1>h, <2>1, <2>2 DEF WalkData, Creates
<1>13. CASE Extend
  <2>1. PICK b \in Addr : IsFirstFree(b) /\ dir_address' \in {dir_address, b}
    BY <1>13 DEF Extend
  <2>2. b >= FirstData
    BY <1>0, <1>13, <2>1, FreeIsData DEF Extend, Formatted, MapsSound
  <2>3. /\ disk' = disk /\ dir' = dir /\ pc = "insert" /\ pc' \in {"insert", "umount"}
        /\ Creates /\ dir_first_address' = dir_first_address
    BY <1>0, <1>13 DEF Extend, Control, Finish
  <2>4. dir_address >= FirstData /\ dir_first_address >= FirstData
    BY <1>0, <2>3 DEF WalkData
  <2> QED BY <1>2, <1>3, <2>1, <2>2, <2>3, <2>4
<1>14. CASE WalkDone
  <2>1. CASE req.op = "add"
    <3>1. /\ disk' = disk /\ dir' = [dir EXCEPT ![slot].size = 0]
          /\ pc = "search" /\ part_i > Len(req.path) /\ pc' = "write"
          /\ dir_address' = dir_address /\ dir_first_address' = dir_first_address
          /\ file_address' = file_address
      BY <1>14, <2>1 DEF WalkDone, PathDone, AfterPath
    <3>2. part_i > 1
      <4>1. req \in Requests
        BY <1>0, <3>1 DEF Control
      <4>2. req.path # << >> /\ req.path \in Seq(Names) /\ part_i \in Nat
        BY <1>0, <2>1, <4>1, RequestTypes DEF TypeOK
      <4>3. Len(req.path) >= 1
        BY <4>2
      <4> QED BY <3>1, <4>2, <4>3
    <3>3. \A t \in Slots : dir'[t].name = dir[t].name /\ dir'[t].addr = dir[t].addr
      <4>1. slot \in Slots /\ dir[slot] \in Rec
        BY <1>0, <1>h DEF TypeOK
      <4> QED BY <1>h, <3>1, <4>1 DEF Rec
    <3>4. NamesData(dir') /\ \A a \in Addr : NamesData(disk'[a].recs)
      BY <1>0, <1>h, <3>1, <3>3 DEF WalkData
    <3>5. /\ dir_address >= FirstData /\ dir_first_address >= FirstData
          /\ file_address >= FirstData
      BY <1>0, <2>1, <3>1, <3>2 DEF WalkData, Creates
    <3> QED BY <1>2, <3>1, <3>4, <3>5
  <2>2. CASE req.op # "add"
    BY <1>0, <1>1, <1>3, <1>14, <2>2 DEF WalkDone, PathDone, AfterPath, Control
  <2> QED BY <2>1, <2>2
<1>15. CASE Write
  <2>1. /\ disk' = [disk EXCEPT ![file_address] =
                       FileBlock(req.src, SourceBytes[req.src] - left)]
        /\ dir' = [dir EXCEPT ![slot].size = dir[slot].size + ReadSize]
        /\ pc = "write" /\ pc' \in {"write", "record", "umount"} /\ req.op = "add"
        /\ dir_address' = dir_address /\ dir_first_address' = dir_first_address
    BY <1>0, <1>15 DEF Write, Control, Finish
  <2>2. /\ dir_address >= FirstData /\ dir_first_address >= FirstData
        /\ file_address >= FirstData
    BY <1>0, <2>1 DEF WalkData, Creates
  <2>3. \A t \in Slots : dir'[t].name = dir[t].name /\ dir'[t].addr = dir[t].addr
    <3>1. slot \in Slots /\ dir[slot] \in Rec
      BY <1>0, <1>h DEF TypeOK
    <3> QED BY <1>h, <2>1, <3>1 DEF Rec
  <2>4. \A a \in Addr : NamesData(disk'[a].recs)
    <3> HIDE DEF FileBlock
    <3> QED BY <1>0, <2>1, NamesOfBlocks DEF TypeOK, WalkData
  <2>5. file_address' >= FirstData
    <3>1. CASE file_address' = file_address
      BY <2>2, <3>1
    <3>2. CASE map[file_address].next # 0 /\ file_address' = map[file_address].next
      BY <1>h, <1>n, <3>2
    <3>3. CASE \E b \in Addr : IsFirstFree(b) /\ file_address' = b
      BY <1>0, <2>1, <3>3, FreeIsData DEF Formatted, MapsSound
    <3> QED BY <1>15, <3>1, <3>2, <3>3 DEF Write, HasNext
  <2>6. NamesData(dir')
    BY <1>h, <2>3
  <2> QED BY <1>2, <2>1, <2>2, <2>4, <2>5, <2>6
<1>16. CASE SourceEnds
  BY <1>0, <1>16 DEF SourceEnds, WalkData, Creates
<1>17. CASE Record
  <2>1. /\ disk' = [disk EXCEPT ![dir_address] = DirBlock(dir)] /\ dir' = dir
        /\ pc' \in {"trim", "umount"}
        /\ trim_address' = map[file_address].next /\ (pc' = "trim" => trim_address' # 0)
    BY <1>17 DEF Record, Finish
  <2>2. DirBlock(dir).recs = dir
    BY DEF DirBlock
  <2>3. \A a \in Addr : NamesData(disk'[a].recs)
    BY <1>0, <1>h, <2>1, <2>2 DEF TypeOK, WalkData
  <2>4. pc' = "trim" => trim_address' >= FirstData
    BY <1>h, <1>n, <2>1
  <2> QED BY <1>h, <2>1, <2>3, <2>4 DEF WalkData
<1>18. CASE Trim
  <2>1. /\ disk' = disk /\ dir' = dir /\ pc' \in {"trim", "umount"} /\ trim_address \in Addr
        /\ trim_address' = map[trim_address].next /\ (pc' = "trim" => trim_address' # 0)
    BY <1>0, <1>18 DEF Trim, Finish, TypeOK
  <2>2. pc' = "trim" => trim_address' >= FirstData
    BY <1>n, <2>1
  <2> QED BY <1>0, <1>h, <2>1, <2>2 DEF WalkData
<1>19. ASSUME NEW r \in Requests, Start(r) PROVE WalkData'
  <2>1. /\ disk' = disk /\ dir' = dir /\ boot.sig /\ pc = "idle"
        /\ pc' \in {"search", "bootsect", "bootloader", "umount"} /\ part_i' = 1
        /\ dir_address' = boot.root /\ dir_first_address' = boot.root
    BY <1>0, <1>19, RequestTypes DEF Start, Mountable, FirstStep, Commands, Control
  <2>2. boot.root >= FirstData
    BY <1>0, <2>1 DEF FormatControl
  <2> QED BY <1>2, <1>3, <2>1, <2>2
<1> QED BY <1>4, <1>5, <1>6, <1>7, <1>8, <1>9, <1>10, <1>11, <1>12, <1>13, <1>14, <1>15,
           <1>16, <1>17, <1>18, <1>19 DEF AnyStep, Next, Step

-----------------------------------------------------------------------------
(* The system area under faults.                                           *)

LEMMA DataInit == Init => DataInv
<1> SUFFICES ASSUME Init PROVE DataInv
  OBVIOUS
<1>1. TypeOK
  BY TypeInit
<1>2. /\ \A e \in Entries : map[e].next = 0 /\ prim[e].next = 0 /\ back[e].next = 0
      /\ pc = "idle" /\ ~boot.sig /\ req.op = "none" /\ w = 0 /\ part_i = 1
      /\ \A a \in Addr, s \in Slots : disk[a].recs[s].name = NoName
      /\ \A s \in Slots : dir[s].name = NoName
  BY NamesOfBlocks, NoRequestFormats DEF Init, ZeroMap, EmptyPtr
<1>3. Control /\ FormatControl /\ MapsSound /\ FormatCopied /\ WalkData
  BY <1>2 DEF Control, Formatted, FormatControl, Formatting, MapsSound, LinksData,
     FormatCopied, WalkData, NamesData, Creates
<1> QED BY <1>1, <1>3 DEF DataInv

LEMMA DataStep == HeapInData /\ DataInv /\ [AnyStep]_vars => DataInv'
<1> SUFFICES ASSUME HeapInData, DataInv, [AnyStep]_vars PROVE DataInv'
  OBVIOUS
<1>1. FormatInv /\ (pc = "fmt_root" => Reserves(map))
  BY DEF DataInv, FormatInv, MapsSound, Formatted
<1>2. TypeOK' /\ Control' /\ FormatControl' /\ FormatCopied'
  BY <1>1, FaultTypes, FormatControlStep, CopiedStep DEF FormatInv
<1> QED BY <1>2, MapsStepAny, WalkDataStep DEF DataInv

LEMMA DataInvWrites == DataInv => WritesStayInDataArea
<1> SUFFICES ASSUME DataInv PROVE WritesStayInDataArea
  OBVIOUS
<1>1. Control /\ WalkData
  BY DEF DataInv
<1> QED BY <1>1 DEF WritesStayInDataArea, WalkData, Control, Creates

(* The area before the first data block is written by the format and by    *)
(* bootloader alone, wherever the tool was killed before (block_write in   *)
(* mkdir and add, after the mount check of tfs_mount), if the heap behind  *)
(* the cleared part of the first map held no link into that area.          *)
THEOREM KilledWritesSafe ==
  ASSUME HeapInData PROVE KillSpec => []WritesStayInDataArea
<1>1. [Next \/ (Kill /\ ~Formatting)]_vars => [AnyStep]_vars
  BY DEF AnyStep
<1>2. DataInv /\ [Next \/ (Kill /\ ~Formatting)]_vars => DataInv'
  BY <1>1, DataStep
<1> QED BY <1>2, DataInit, DataInvWrites, PTL DEF KillSpec

(* The same of images that mkfs formats again, with the records of the     *)
(* files that they held left on their blocks.                              *)
THEOREM ReformattedWritesSafe ==
  ASSUME HeapInData PROVE ReformatSpec => []WritesStayInDataArea
<1>1. [Next \/ \E r \in Requests : MkFs(r)]_vars => [AnyStep]_vars
  BY DEF AnyStep
<1>2. DataInv /\ [Next \/ \E r \in Requests : MkFs(r)]_vars => DataInv'
  BY <1>1, DataStep
<1> QED BY <1>2, DataInit, DataInvWrites, PTL DEF ReformatSpec

-----------------------------------------------------------------------------
(* The root under kills.                                                   *)

LEMMA RootStep ==
  ASSUME HeapOffRoot, DataInv, RootInv, [Next \/ (Kill /\ ~Formatting)]_vars
  PROVE  RootInv'
<1> USE DEF image, walk, rec, fork, NoLinkTo
<1>0. TypeOK /\ Control /\ FormatControl /\ MapsSound /\ FormatCopied /\ WalkData /\ TypeOK'
  <2>1. [AnyStep]_vars
    BY DEF AnyStep
  <2> QED BY <2>1, FaultTypes DEF DataInv
<1>r. boot.root \in Entries /\ boot.root \in Addr
  BY <1>0, Geometry DEF TypeOK
<1>1. CASE Calm
  BY <1>0, <1>1, CalmSteps DEF RootInv
<1>2. ASSUME boot' = boot, prim' = prim, back' = back, Formatting' = Formatting, boot.sig,
             pc \notin {"fmt_boot", "fmt_root", "idle", "exit"},
             pc' \notin {"fmt_boot", "fmt_root", "exit"},
             NoLinkTo(boot.root, map'), map'[boot.root].type = "DIR",
             pc' = "trim" => trim_address' # boot.root
      PROVE  RootInv'
  BY <1>2 DEF RootInv
<1>3. ASSUME pc \notin {"fmt_boot", "fmt_root", "idle", "exit"}
      PROVE  /\ boot.sig /\ Reserves(map) /\ map[boot.root].type = "DIR"
             /\ NoLinkTo(boot.root, map)
  BY <1>0, <1>3 DEF Control, Formatted, MapsSound, RootInv
<1>4. CASE FmtBoot
  <2>1. PICK stray \in [Addr \ OnHeap -> Heap] : map' = FreshMap(stray)
    BY <1>4 DEF FmtBoot
  <2>2. /\ map'[FirstData] = EmptyPtr
        /\ \A e \in Entries : map'[e].next = 0 \/ \E p \in Heap : map'[e].next = p.next
    BY <2>1, FreshEntries
  <2>3. NoLinkTo(FirstData, map')
    BY <2>2 DEF HeapOffRoot
  <2>4. /\ Formatting' /\ pc' = "fmt_root" /\ prim' = prim /\ back' = back /\ pc = "fmt_boot"
        /\ boot'.root = boot.root /\ boot.root = 0
    BY <1>0, <1>4 DEF FmtBoot, FormatControl, Formatting, TypeOK, RootInv
  <2> QED BY <2>2, <2>3, <2>4 DEF RootInv
<1>5. CASE FmtRoot
  <2>1. PICK b \in Addr : /\ IsFirstFree(b) /\ boot' = [boot EXCEPT !.root = b]
                          /\ map' = Allocated(b, "DIR")
    BY <1>5 DEF FmtRoot
  <2>2. \A e \in Entries : map'[e] = IF e = b THEN [type |-> "DIR", next |-> 0] ELSE map[e]
    BY <1>0, <2>1, AllocatedEntries DEF Types
  <2>3. /\ NoLinkTo(FirstData, map) /\ NoLinkTo(FirstData, prim) /\ NoLinkTo(FirstData, back)
        /\ map[FirstData].type = "EMPTY" /\ Reserves(map)
    BY <1>0, <1>5 DEF RootInv, FmtRoot, EmptyPtr, MapsSound, Formatted
  <2>b. b = FirstData
    BY <2>1, <2>3, FirstFreeData
  <2>4. boot'.root = b /\ b \in Entries /\ boot'.sig /\ boot.sig
    BY <1>0, <1>5, <2>1, Geometry DEF TypeOK, FmtRoot, Control, Formatted
  <2>5. Formatting' /\ pc' = "fmt_zero" /\ prim' = prim /\ back' = back
    BY <1>0, <1>5 DEF FmtRoot, FormatControl, Formatting
  <2>6. map'[b].type = "DIR" /\ NoLinkTo(b, map')
    BY <2>2, <2>3, <2>4, <2>b
  <2> QED BY <2>3, <2>4, <2>5, <2>6, <2>b DEF RootInv
<1>6. CASE Insert
  <2>1. PICK b \in Addr : IsFirstFree(b) /\ map' = Allocated(b, NewType)
    BY <1>6 DEF Insert
  <2>2. NewType \in Types
    BY <1>0, <1>6, NewRecTypes DEF Insert
  <2>3. \A e \in Entries : map'[e] = IF e = b THEN [type |-> NewType, next |-> 0] ELSE map[e]
    BY <1>0, <2>1, <2>2, AllocatedEntries
  <2>4. pc = "insert" /\ pc' = "clear" /\ UNCHANGED <<boot, prim, back>> /\ req' = req
    BY <1>6 DEF Insert
  <2>5. map[b].type = "EMPTY" /\ map[boot.root].type = "DIR" /\ NoLinkTo(boot.root, map) /\ boot.sig
    BY <1>3, <2>1, <2>4 DEF IsFirstFree
  <2> QED BY <1>2, <1>r, <2>3, <2>4, <2>5 DEF Formatting
<1>7. ASSUME NEW a \in Addr, NEW b \in Addr, IsFirstFree(b), NEW t \in Types,
             map' = Linked(a, b, t), map[boot.root].type = "DIR", NoLinkTo(boot.root, map)
      PROVE  map'[boot.root].type = "DIR" /\ NoLinkTo(boot.root, map')
  <2>1. map[b].type = "EMPTY" /\ b # boot.root
    BY <1>7 DEF IsFirstFree
  <2>2. Allocated(b, t) \in [Entries -> MapPtr]
    BY <1>0, MapTypes
  <2>3. \A e \in Entries : Allocated(b, t)[e] = IF e = b THEN [type |-> t, next |-> 0] ELSE map[e]
    BY <1>0, AllocatedEntries
  <2> DEFINE m == Allocated(b, t)
  <2>4. map' = [m EXCEPT ![a].next = b]
    BY <1>7 DEF Linked
  <2> HIDE DEF m
  <2>5. \A e \in Entries : /\ map'[e].type = m[e].type
                           /\ map'[e].next = IF e = a THEN b ELSE m[e].next
    BY <2>2, <2>4 DEF MapPtr, m
  <2> QED BY <1>7, <1>r, <2>1, <2>3, <2>5 DEF m
<1>8. CASE Extend
  <2>1. PICK b \in Addr : IsFirstFree(b) /\ map' = Linked(dir_address, b, "DIR")
    BY <1>8 DEF Extend
  <2>2. /\ pc = "insert" /\ pc' \in {"insert", "umount"} /\ UNCHANGED <<boot, prim, back>>
        /\ req' = req
    BY <1>8 DEF Extend, Finish
  <2>3. map'[boot.root].type = "DIR" /\ NoLinkTo(boot.root, map') /\ boot.sig
    BY <1>0, <1>3, <1>7, <2>1, <2>2 DEF TypeOK, Types
  <2> QED BY <1>2, <2>2, <2>3 DEF Formatting
<1>9. CASE Write
  <2>1. /\ pc = "write" /\ pc' \in {"write", "record", "umount"} /\ UNCHANGED <<boot, prim, back>>
        /\ req' = req
    BY <1>9 DEF Write, Finish
  <2>2. map'[boot.root].type = "DIR" /\ NoLinkTo(boot.root, map') /\ boot.sig
    <3>1. CASE map' = map
      BY <1>3, <2>1, <3>1
    <3>2. CASE \E b \in Addr : IsFirstFree(b) /\ map' = Linked(file_address, b, "FILE")
      BY <1>0, <1>3, <1>7, <2>1, <3>2 DEF TypeOK, Types
    <3> QED BY <1>9, <3>1, <3>2 DEF Write
  <2> QED BY <1>2, <2>1, <2>2 DEF Formatting
<1>10. CASE Record
  <2>1. map \in [Entries -> MapPtr] /\ map' = [map EXCEPT ![file_address].next = 0]
    BY <1>0, <1>10 DEF Record, TypeOK
  <2>2. \A e \in Entries : /\ map'[e].type = map[e].type
                           /\ map'[e].next \in {0, map[e].next}
    BY <2>1 DEF MapPtr
  <2>3. /\ pc = "record" /\ pc' \in {"trim", "umount"} /\ UNCHANGED <<boot, prim, back>>
        /\ req' = req /\ trim_address' = map[file_address].next
        /\ pc' = "trim" => trim_address' # 0
    BY <1>10 DEF Record, Finish
  <2>4. map[boot.root].type = "DIR" /\ NoLinkTo(boot.root, map) /\ boot.sig
    BY <1>3, <2>3
  <2>5. file_address \in Entries
    BY <1>0, Geometry DEF TypeOK
  <2> QED BY <1>2, <1>r, <2>2, <2>3, <2>4, <2>5 DEF Formatting
<1>11. CASE Trim
  <2>1. \A e \in Entries : map'[e] = IF e = trim_address THEN EmptyPtr ELSE map[e]
    BY <1>0, <1>11 DEF Trim, TypeOK
  <2>2. /\ pc = "trim" /\ pc' \in {"trim", "umount"} /\ UNCHANGED <<boot, prim, back>>
        /\ req' = req /\ trim_address' = map[trim_address].next
        /\ pc' = "trim" => trim_address' # 0
    BY <1>11 DEF Trim, Finish
  <2>3. map[boot.root].type = "DIR" /\ NoLinkTo(boot.root, map) /\ boot.sig
    BY <1>3, <2>2
  <2>4. trim_address \in Entries /\ trim_address # boot.root
    BY <1>0, <2>2, Geometry DEF TypeOK, RootInv
  <2> QED BY <1>2, <1>r, <2>1, <2>2, <2>3, <2>4 DEF Formatting, EmptyPtr
<1>12. CASE Umount
  <2>1. \A e \in Entries : prim'[e] \in {prim[e], map[e]} /\ back'[e] \in {back[e], map[e]}
    BY <1>12, UmountMixes
  <2>2. /\ pc = "umount" /\ pc' = "umount" /\ map' = map /\ boot' = boot
        /\ Formatting' = Formatting
    BY <1>12 DEF Umount, Formatting
  <2>3. map[boot.root].type = "DIR" /\ NoLinkTo(boot.root, map) /\ boot.sig
    BY <1>3, <2>2
  <2>4. NoLinkTo(boot.root, prim') /\ NoLinkTo(boot.root, back')
    BY <2>1, <2>3 DEF RootInv
  <2>5. ~Formatting => prim'[boot.root].type = "DIR" /\ back'[boot.root].type = "DIR"
    BY <1>r, <2>1, <2>3 DEF RootInv
  <2> HIDE DEF NoLinkTo
  <2> QED BY <2>2, <2>3, <2>4, <2>5 DEF RootInv
<1>13. CASE Unmounted
  <2>1. /\ pc = "umount" /\ pc' = "exit" /\ map' = map /\ prim' = prim /\ back' = back
        /\ boot' = boot /\ w = 2 * MapBlocks /\ Formatting' = Formatting
    BY <1>13 DEF Unmounted, Formatting
  <2>2. Formatting => \A e \in Entries : prim[e] = map[e] /\ back[e] = map[e]
    BY <1>0, <2>1, EntryBlock, Geometry DEF FormatCopied
  <2>3. map[boot.root].type = "DIR" /\ boot.sig
    BY <1>3, <2>1
  <2>4. prim[boot.root].type = "DIR" /\ back[boot.root].type = "DIR"
    BY <1>r, <2>2, <2>3 DEF RootInv
  <2> HIDE DEF NoLinkTo
  <2> QED BY <2>1, <2>3, <2>4 DEF RootInv
<1>14. ASSUME NEW r \in Requests, Start(r) PROVE RootInv'
  <2>1. /\ map' = prim /\ prim' = prim /\ back' = back /\ boot' = boot /\ boot.sig
        /\ pc = "idle" /\ pc' \notin {"fmt_boot", "fmt_root", "trim", "exit"}
    BY <1>14, RequestTypes DEF Start, Mountable, FirstStep, Commands
  <2>2. ~Formatting
    BY <1>0, <2>1 DEF FormatControl
  <2> QED BY <2>1, <2>2 DEF RootInv
<1>15. ASSUME NEW r \in Requests, GenFs(r) PROVE RootInv'
  BY <1>15 DEF GenFs, RootInv, ZeroMap, EmptyPtr, Formatted, Formatting
<1>16. CASE Kill /\ ~Formatting
  <2>1. pc \notin {"fmt_boot", "fmt_root"} /\ pc' = "idle" /\ map' = prim /\ prim' = prim
        /\ back' = back /\ boot' = boot
    BY <1>0, <1>16 DEF Kill, ProcessEnds, FormatControl
  <2> QED BY <1>16, <2>1, NoRequestFormats DEF RootInv, Formatted
<1> QED BY <1>1, <1>4, <1>5, <1>6, <1>8, <1>9, <1>10, <1>11, <1>12, <1>13, <1>14, <1>15,
           <1>16, CalmCases

(* The root's block is a directory block of every map that the tool reads  *)
(* or writes, wherever it was killed before: neither tfs_alloc nor the     *)
(* trim loop of cmd_add can reach it, if the heap behind the cleared part  *)
(* of the first map held no link to it and none to the area before it.     *)
THEOREM RootKept ==
  ASSUME HeapInData, HeapOffRoot PROVE KillSpec => []RootSurvives
<1>1. Init => RootInv
  BY DEF Init, RootInv, NoLinkTo, ZeroMap, EmptyPtr, Formatted
<1>2. [Next \/ (Kill /\ ~Formatting)]_vars => [AnyStep]_vars
  BY DEF AnyStep
<1>3. RootInv => RootSurvives
  BY DEF RootInv, RootSurvives, Mountable
<1>4. DataInv /\ RootInv /\ [Next \/ (Kill /\ ~Formatting)]_vars => DataInv' /\ RootInv'
  BY <1>2, DataStep, RootStep
<1> QED BY <1>1, <1>3, <1>4, DataInit, PTL DEF KillSpec

-----------------------------------------------------------------------------
(* A format of an image that held files: this rests on nothing that the    *)
(* heap or the image may have held.                                        *)

LEMMA FreshStep ==
  ASSUME FormatInv, FreshInv, [Next \/ \E r \in Requests : MkFs(r)]_vars
  PROVE  FormatInv' /\ FreshInv'
<1> USE DEF image, walk, rec, fork
<1>a. [AnyStep]_vars
  BY DEF AnyStep
<1>0. TypeOK /\ Control /\ FormatControl /\ FormatCopied /\ FormatInv'
  BY <1>a, FaultTypes, FormatControlStep, CopiedStep DEF FormatInv, FreshInv
<1>1. ASSUME ~Formatting', pc' # "fmt_root" PROVE FreshInv'
  BY <1>1 DEF FreshInv
<1>2. CASE Calm
  <2>1. map' = map /\ boot'.root = boot.root
    BY <1>0, <1>2, CalmSteps
  <2>2. CASE Formatting' /\ pc' = pc /\ Formatting /\ disk' = disk
    BY <1>0, <2>1, <2>2 DEF FreshInv, Cleared
  <2>3. CASE /\ pc = "fmt_zero" /\ pc' = "umount" /\ Formatting
             /\ disk' = [disk EXCEPT ![boot.root] = ZeroBlock]
    <3>1. boot.root = FirstData
      BY <2>3 DEF FreshInv
    <3>2. \A s \in Slots : disk'[boot.root].recs[s].perm = "none"
      BY <1>0, <2>3 DEF TypeOK, ZeroBlock, NoRec
    <3>3. Cleared(map') /\ map'[FirstData] = [type |-> "DIR", next |-> 0]
      BY <2>1, <2>3 DEF FreshInv
    <3> QED BY <1>0, <2>1, <2>3, <3>1, <3>2, <3>3 DEF FreshInv
  <2>4. CASE ~Formatting'
    BY <1>0, <1>1, <1>2, <2>4, CalmSteps DEF FormatControl
  <2> QED BY <1>0, <1>2, <2>2, <2>3, <2>4, CalmSteps
<1>3. CASE FmtBoot
  <2>1. PICK stray \in [Addr \ OnHeap -> Heap] : map' = FreshMap(stray)
    BY <1>3 DEF FmtBoot
  <2> QED BY <1>0, <1>3, <2>1, FreshEntries DEF FmtBoot, FreshInv
<1>4. CASE FmtRoot
  <2>1. PICK b \in Addr : /\ IsFirstFree(b) /\ boot' = [boot EXCEPT !.root = b]
                          /\ map' = Allocated(b, "DIR")
    BY <1>4 DEF FmtRoot
  <2>2. \A e \in Entries : map'[e] = IF e = b THEN [type |-> "DIR", next |-> 0] ELSE map[e]
    BY <1>0, <2>1, AllocatedEntries DEF Types
  <2>3. boot'.root = b /\ pc = "fmt_root" /\ pc' = "fmt_zero" /\ Formatting
    BY <1>0, <1>4, <2>1 DEF TypeOK, FmtRoot, FormatControl
  <2>4. map[FirstData].type = "EMPTY" /\ Reserves(map) /\ Cleared(map)
    BY <2>3 DEF FreshInv, EmptyPtr
  <2>5. b = FirstData /\ b \in Entries
    BY <2>1, <2>4, FirstFreeData, Geometry
  <2>6. Cleared(map')
    BY <2>2, <2>4, <2>5, Geometry DEF Cleared
  <2> QED BY <1>0, <2>2, <2>3, <2>5, <2>6 DEF FreshInv
<1>5. CASE Insert \/ Extend \/ Write \/ Record \/ Trim
  <2>1. ~Formatting
    BY <1>0, <1>5 DEF Insert, Extend, Write, Record, Trim, FormatControl
  <2>2. req' = req /\ pc' # "fmt_root"
    BY <1>5 DEF Insert, Extend, Write, Record, Trim, Finish
  <2> QED BY <1>0, <1>1, <2>1, <2>2 DEF Formatting
<1>6. CASE Umount \/ Unmounted
  BY <1>0, <1>6 DEF Umount, Unmounted, FreshInv, Formatting, Cleared
<1>7. ASSUME NEW r \in Requests, Start(r) PROVE FreshInv'
  <2>1. pc' # "fmt_root" /\ ~Formatting'
    BY <1>7, RequestTypes DEF Start, FirstStep, Commands, Formatting
  <2> QED BY <1>1, <2>1
<1>8. ASSUME NEW r \in Requests, GenFs(r) \/ MkFs(r) PROVE FreshInv'
  BY <1>8 DEF GenFs, MkFs, FreshInv
<1> QED BY <1>0, <1>2, <1>3, <1>4, <1>5, <1>6, <1>7, <1>8, CalmCases

(* A format leaves a root without entries in the first data block, and of  *)
(* the other blocks those free whose entries it has cleared, in both       *)
(* copies of the map, whatever the image and the heap held (cmd_mkfs).     *)
THEOREM FormatLeavesRoot == ReformatSpec => []FormatEmpties
<1>1. Init => FormatInv /\ FreshInv
  BY NoRequestFormats, TypeInit, DataInit DEF Init, FreshInv, Formatting, DataInv, FormatInv
<1>2. FormatInv /\ FreshInv => FormatEmpties
  <2> SUFFICES ASSUME FormatInv, FreshInv, pc = "exit", Formatting PROVE FormatEmpties
    BY DEF FormatEmpties
  <2>1. \A e \in Entries : prim[e] = map[e] /\ back[e] = map[e]
    BY DEF FormatInv, FormatCopied
  <2>2. prim = back
    BY <2>1 DEF FormatInv, TypeOK
  <2>3. FirstData \in Entries /\ \A a \in Addr : a \in Entries
    BY Geometry DEF Addr
  <2>4. /\ boot.root = FirstData /\ map[FirstData] = [type |-> "DIR", next |-> 0]
        /\ \A s \in Slots : disk[FirstData].recs[s].perm = "none"
        /\ \A a \in OnHeap \intersect Addr : a > FirstData => map[a] = EmptyPtr
    BY DEF FreshInv, Cleared
  <2> QED BY <2>1, <2>2, <2>3, <2>4 DEF FormatEmpties
<1> QED BY <1>1, <1>2, FreshStep, PTL DEF ReformatSpec
=============================================================================
