---------------------------- MODULE LoaderProofs ----------------------------
(***************************************************************************)
(* Proofs about Loader on the images that Tfs makes, for every disk and    *)
(* drive, every set of names and sources and every set of commands, and    *)
(* whatever reads fail.                                                    *)
(***************************************************************************)
EXTENDS Loader, TfsForks

LInv == Inv /\ LoaderTypeOK /\ LoaderSound

-----------------------------------------------------------------------------
(* Splitting an address and putting it together.                           *)

(* A number is determined by its quotient and its remainder.               *)
LEMMA QuotientUnique ==
  ASSUME NEW n \in Nat \ {0}, NEW p \in Nat, NEW r \in Nat, r < n
  PROVE  (p * n + r) \div n = p
<1> DEFINE a == p * n + r  q == a \div n
<1>1. p * n \in Nat /\ a \in Nat
  OBVIOUS
<1>2. q \in Nat /\ n * q <= a /\ a < n * q + n
  BY <1>1
<1> HIDE DEF q
<1>3. a = p * n + r
  OBVIOUS
<1> HIDE DEF a
<1>4. ~(q < p)
  <2> SUFFICES ASSUME q < p PROVE FALSE
    OBVIOUS
  <2>1. p - q - 1 \in Nat
    BY <1>2
  <2>2. n * (p - q - 1) \in Nat
    BY <2>1
  <2>3. p * n = n * (p - q - 1) + n * q + n
    BY <1>2, <2>1
  <2>4. n * q \in Nat
    BY <1>2
  <2> QED BY <1>1, <1>2, <1>3, <2>2, <2>3, <2>4
<1>5. ~(p < q)
  <2> SUFFICES ASSUME p < q PROVE FALSE
    OBVIOUS
  <2>1. q - p - 1 \in Nat
    BY <1>2
  <2>2. n * (q - p - 1) \in Nat
    BY <2>1
  <2>3. n * q = n * (q - p - 1) + p * n + n
    BY <1>2, <2>1
  <2> QED BY <1>1, <1>2, <1>3, <2>2, <2>3
<1>6. q = p
  BY <1>2, <1>4, <1>5
<1> QED BY <1>6 DEF q, a

LEMMA QuotientRemainder ==
  ASSUME NEW a \in Nat, NEW n \in Nat \ {0}
  PROVE  /\ a \div n \in Nat /\ a % n \in Nat /\ a % n < n
         /\ a = (a \div n) * n + (a % n)
OBVIOUS

(* A cylinder, head and sector made from an address are that address, if   *)
(* the disk has the cylinder.                                              *)
LEMMA SplitExact ==
  ASSUME NEW s \in Nat \ {0}, NEW h \in Nat \ {0}, NEW c \in Nat \ {0},
         NEW a \in Nat, a < c * h * s
  PROVE  (((a \div (s * h)) % c) * h + ((a \div s) % h)) * s + (a % s) = a
<1> DEFINE q == a \div s  r == a % s  p == q \div h  t == q % h
<1>1. q \in Nat /\ r \in Nat /\ r < s /\ a = q * s + r
  BY QuotientRemainder
<1>2. p \in Nat /\ t \in Nat /\ t < h /\ q = p * h + t
  BY <1>1, QuotientRemainder
<1> HIDE DEF p, t
<1> DEFINE n == s * h  u == t * s + r
<1>3. n \in Nat \ {0}
  <2>1. (s - 1) * (h - 1) \in Nat
    OBVIOUS
  <2>2. s * h = (s - 1) * (h - 1) + (s - 1) + (h - 1) + 1
    OBVIOUS
  <2> QED BY <2>1, <2>2
<1>4. u \in Nat /\ u < n
  <2>1. t * s \in Nat
    BY <1>2
  <2>2. h - t - 1 \in Nat /\ (h - t - 1) * s \in Nat
    BY <1>2
  <2>3. n = (h - t - 1) * s + t * s + s
    BY <1>2, <2>2
  <2> QED BY <1>1, <2>1, <2>2, <2>3
<1>5. a = p * n + u
  <2>1. (p * h + t) * s = p * (s * h) + t * s
    BY <1>2
  <2>2. q * s = p * (s * h) + t * s
    BY <1>2, <2>1
  <2>3. p * (s * h) \in Nat /\ t * s \in Nat
    BY <1>2
  <2> HIDE DEF q, r
  <2> QED BY <1>1, <2>2, <2>3
<1> HIDE DEF n, u
<1>6. a \div n = p
  BY <1>2, <1>3, <1>4, <1>5, QuotientUnique
<1>7. p < c
  <2> SUFFICES ASSUME ~(p < c) PROVE FALSE
    OBVIOUS
  <2>1. p - c \in Nat
    BY <1>2
  <2>2. (p - c) * n \in Nat /\ c * n \in Nat
    BY <1>3, <2>1
  <2>3. p * n = (p - c) * n + c * n
    BY <1>2, <1>3, <2>1
  <2>4. c * n = c * h * s
    BY DEF n
  <2> QED BY <1>4, <1>5, <2>2, <2>3, <2>4
<1>8. p % c = p
  BY <1>2, <1>7
<1>9. (a \div (s * h)) % c = p
  BY <1>6, <1>8 DEF n
<1>10. (p * h + t) * s + r = a
  BY <1>1, <1>2
<1> QED BY <1>9, <1>10 DEF t, q, r

-----------------------------------------------------------------------------
(* The tool under the loader.                                              *)

(* A step of the loader leaves the image alone, and the tool runs as it    *)
(* does without one.                                                       *)
LEMMA ToolSteps ==
  ASSUME [BootNext]_<<vars, lvars>> PROVE [Next]_vars
BY DEF BootNext

LEMMA RecordNames == Nameless(NoRec) /\ Nameless(JunkRec)
BY DEF Nameless, NoRec, JunkRec

(* Unused records have no name, and an image with a boot sector is         *)
(* formatted, whatever the commands.                                       *)
LEMMA ImageInit == Init => ImageSound
BY RecordNames DEF Init, ImageSound, ZeroBlock, NoDir

(* What a block that is written holds.                                     *)
LEMMA WrittenBlocks ==
  /\ \A s \in Slots : Nameless(ZeroBlock.recs[s])
  /\ \A src, n : \A s \in Slots : /\ Nameless(FileBlock(src, n).recs[s])
                                  /\ Nameless(LoaderBlock(src, n).recs[s])
  /\ \A recs : DirBlock(recs).recs = recs
<1>1. ASSUME NEW src, NEW n, NEW s \in Slots
      PROVE  Nameless(FileBlock(src, n).recs[s]) /\ Nameless(LoaderBlock(src, n).recs[s])
  BY DataRecords, RecordNames
<1> QED BY <1>1, RecordNames DEF ZeroBlock, DirBlock

LEMMA HereTypes == TypeOK => Here \in [Slots -> Rec]
BY PartTypes DEF Here, TypeOK

LEMMA ImageStep ==
  ASSUME Inv, ImageSound, [Next]_vars PROVE ImageSound'
<1> USE DEF image, walk, rec, fork
<1> DEFINE Clean(b) == \A s \in Slots : Nameless(b.recs[s])
<1>0. /\ TypeOK /\ Control
      /\ \A a \in Addr : Clean(disk[a])
      /\ \A s \in Slots : Nameless(dir[s]) /\ Nameless(Here[s])
  BY DEF Inv, ImageSound, TypeOK, Here
<1>1. CASE FmtBoot
  BY <1>0, <1>1 DEF FmtBoot, ImageSound, Inv, TypeOK
<1>2. CASE FmtRoot
  BY <1>0, <1>2 DEF FmtRoot, ImageSound, Inv, TypeOK
<1>3. CASE FmtZero
  BY <1>0, <1>3, WrittenBlocks DEF FmtZero, ImageSound, TypeOK
<1>4. CASE BootSect
  BY <1>0, <1>4 DEF BootSect, ImageSound, Control, Formatted, TypeOK
<1>5. CASE BootLoader
  <2>1. CASE disk' = disk
    BY <1>0, <1>5, <2>1 DEF BootLoader, ImageSound
  <2>2. CASE disk' = [disk EXCEPT ![w + 1] = LoaderBlock(req.src, w * BlockBytes)]
    <3> DEFINE x == LoaderBlock(req.src, w * BlockBytes)
    <3>1. Clean(x)
      BY WrittenBlocks
    <3> HIDE DEF x
    <3>2. \A a \in Addr : disk'[a] = disk[a] \/ disk'[a] = x
      BY <1>0, <2>2 DEF TypeOK, x
    <3>3. \A a \in Addr : Clean(disk'[a])
      BY <1>0, <3>1, <3>2
    <3> QED BY <1>0, <1>5, <3>3 DEF BootLoader, ImageSound
  <2> QED BY <1>5, <2>1, <2>2 DEF BootLoader
<1>6. CASE Found
  <2>1. PICK s \in Slots :
          Enter(Here[s]) \/ EnterOrOpen(Here[s], s) \/ Reject(Here[s]) \/ Follow(Here[s])
    BY <1>6 DEF Found
  <2>2. UNCHANGED <<disk, boot>>
    BY <1>6 DEF Found
  <2>3. \A n, t \in Slots : /\ Nameless([Here EXCEPT ![n].perm = "ifdir"][t])
                           /\ Nameless([Here EXCEPT ![n].perm = "ifreg"][t])
    BY <1>0, HereTypes DEF Rec, Nameless
  <2>4. \A t \in Slots : Nameless(dir'[t])
    BY <1>0, <2>1, <2>3 DEF Enter, EnterOrOpen, Reject, Follow
  <2> QED BY <1>0, <2>2, <2>4 DEF ImageSound
<1>7. CASE Insert
  <2>1. PICK s \in Slots, b \in Addr :
          /\ dir' = [Here EXCEPT ![s] = NewRec(b)]
          /\ disk' = [disk EXCEPT ![dir_address] = DirBlock(dir')]
    BY <1>7 DEF Insert
  <2>2. Nameless(NewRec(b))
    BY DEF NewRec, Nameless
  <2>3. \A t \in Slots : Nameless(dir'[t])
    BY <1>0, <2>1, <2>2, HereTypes
  <2>4. \A a \in Addr : Clean(disk'[a])
    BY <1>0, <2>1, <2>3, WrittenBlocks DEF TypeOK
  <2> QED BY <1>7, <1>0, <2>3, <2>4 DEF ImageSound, Insert
<1>8. CASE Clear
  BY <1>0, <1>8, WrittenBlocks DEF Clear, ImageSound, TypeOK
<1>9. CASE WalkDone
  <2>1. \A s, t \in Slots : Nameless([dir EXCEPT ![s].size = 0][t])
    BY <1>0 DEF Nameless, TypeOK, Rec
  <2> QED BY <1>0, <1>9, <2>1 DEF WalkDone, ImageSound, TypeOK
<1>10. CASE Write
  BY <1>0, <1>10, WrittenBlocks DEF Write, ImageSound, Nameless, TypeOK
<1>11. CASE Record
  BY <1>0, <1>11, WrittenBlocks DEF Record, ImageSound, TypeOK
<1>12. CASE SearchOn \/ NotFound \/ InsertOn \/ Extend \/ NoRoom
  BY <1>0, <1>12 DEF SearchOn, NotFound, InsertOn, Extend, NoRoom, ImageSound
<1>13. CASE SourceEnds \/ Trim \/ List \/ Read
  BY <1>0, <1>13 DEF SourceEnds, Trim, List, Read, ImageSound
<1>14. CASE Umount \/ Unmounted \/ Exit
  BY <1>0, <1>14, RecordNames DEF Umount, Unmounted, Exit, ProcessEnds, NoDir, ImageSound
<1>15. ASSUME NEW q \in Requests, Start(q) \/ MountFails(q) PROVE ImageSound'
  BY <1>0, <1>15 DEF Start, MountFails, ImageSound
<1>16. ASSUME NEW q \in Requests, GenFs(q) PROVE ImageSound'
  BY <1>0, <1>16, WrittenBlocks DEF GenFs, ImageSound
<1>17. CASE UNCHANGED vars
  BY <1>0, <1>17 DEF vars, ImageSound
<1> QED BY <1>1, <1>2, <1>3, <1>4, <1>5, <1>6, <1>7, <1>8, <1>9, <1>10, <1>11,
           <1>12, <1>13, <1>14, <1>15, <1>16, <1>17 DEF Next, Step

-----------------------------------------------------------------------------
(* The loader's steps.                                                     *)

(* What a read puts in the buffer.                                         *)
LEMMA DataTypes ==
  ASSUME TypeOK, NEW a
  PROVE  /\ DataAt(a).recs \in [Slots -> Rec] /\ DataAt(a).bytes \in Bytes
         /\ \/ DataAt(a) = ZeroBlock
            \/ \E b \in Addr : DataAt(a) = disk[b]
<1>1. ZeroBlock.recs \in [Slots -> Rec] /\ ZeroBlock.bytes \in Bytes
  BY ConstantTypes DEF ZeroBlock, Bytes, NoDir
<1>2. DataKnown(a) => Sector(a) \in Addr
  BY Geometry DEF DataKnown, Addr
<1> QED BY <1>1, <1>2, PartTypes DEF DataAt

(* When the loader looks at the image, no command has changed it since the *)
(* last one ended: what the root, the records in use and the links lead to *)
(* is in use by the map on the image.                                      *)
InUseNow(a) == a \in Addr /\ prim[a].type \in {"FILE", "DIR"}

LEMMA LinksInUse ==
  ASSUME Inv, pc = "idle", boot.sig
  PROVE  /\ InUseNow(boot.root)
         /\ \A a \in Addr : InUseNow(a) /\ prim[a].next # 0 => InUseNow(prim[a].next)
         /\ \A a \in Addr, s \in Slots :
              InUse(disk[a].recs[s]) => InUseNow(disk[a].recs[s].addr)
<1>1. prim = map /\ TypeOK
  BY DEF Inv, UmountSound
<1>2. InUseNow(boot.root)
  <2>1. boot.root # 0
    BY DEF Inv, Blank
  <2>2. map[boot.root].type = "DIR"
    BY <2>1, SiteKinds, TargetNow DEF Inv, TargetsLive
  <2> QED BY <1>1, <2>2 DEF InUseNow, TypeOK
<1>3. ASSUME NEW a \in Addr, InUseNow(a), prim[a].next # 0 PROVE InUseNow(prim[a].next)
  <2>1. InFork(map[a])
    BY <1>1, <1>3 DEF InUseNow, InFork
  <2> QED BY <1>1, <1>3, <2>1, NextBlock DEF InUseNow, InFork
<1>4. ASSUME NEW a \in Addr, NEW s \in Slots, InUse(disk[a].recs[s])
      PROVE  InUseNow(disk[a].recs[s].addr)
  <2>1. disk[a].recs[s].type \in {"FILE", "DIR"}
    BY <1>4 DEF Inv, RecordsSound
  <2> QED BY <1>1, <1>4, <2>1, RecordBlock DEF InUseNow
<1> QED BY <1>2, <1>3, <1>4

(* The record that tfs_find stops at is in use.                            *)
LEMMA FoundInUse ==
  ASSUME LInv, lpc # "off", NEW s \in Slots, Named(s)
  PROVE  InUseNow(Block0[s].addr)
<1>1. TypeOK /\ RecordsSound /\ ImageSound /\ pc = "idle" /\ boot.sig
  BY DEF LInv, Inv, LoaderSound, ImageSound
<1>2. Names2[item] \in Names
  BY LoaderAssumption DEF LInv, LoaderTypeOK, Names2
<1>3. Block0[s].name # NoName
  BY <1>2, RequestsAssumption DEF Named
<1>4. Block0 # ZeroBlock.recs
  BY <1>3 DEF ZeroBlock, NoRec
<1>5. PICK b \in Addr : Block0 = disk[b].recs
  BY <1>1, <1>4, DataTypes DEF Block0
<1>6. disk[b].recs[s].perm \notin {"none", "junk"}
  BY <1>1, <1>3, <1>5 DEF ImageSound, Nameless, RecordsSound
<1>7. InUse(disk[b].recs[s])
  BY <1>1, <1>6, PartTypes DEF Perms, InUse
<1> QED BY <1>1, <1>5, <1>7, LinksInUse DEF LInv

LEMMA DriveTypes ==
  /\ Attempts \in Nat \ {0} /\ {SystemName, KernelName} \subseteq Names
  /\ \A d \in Drives \union {NoDrive} : d.heads \in Nat \ {0} /\ d.sects \in Nat \ {0}
  /\ \A i \in 1 .. Len(FloppyTypes) : FloppyTypes[i] \in Nat \ {0}
<1>1. \A d \in Drives \union {NoDrive} : d.heads \in Nat \ {0} /\ d.sects \in Nat \ {0}
  BY LoaderAssumption DEF NoDrive
<1>2. \A i \in 1 .. Len(FloppyTypes) : FloppyTypes[i] \in Nat \ {0}
  BY DEF FloppyTypes
<1> QED BY <1>1, <1>2, LoaderAssumption

(* The types of the loader's variables.                                    *)
LEMMA LoaderTypeStep ==
  ASSUME LInv, [BootNext]_<<vars, lvars>> PROVE LoaderTypeOK'
<1> USE DEF geometry, lookup, kernel
<1>0. TypeOK /\ LoaderTypeOK
  BY DEF LInv, Inv
<1>1. CASE lvars' = lvars
  BY <1>0, <1>1 DEF lvars, LoaderTypeOK
<1>2. CASE PowerOn
  BY <1>0, <1>2 DEF PowerOn, LoaderTypeOK, Stages
<1>3. CASE Stage1 \/ Enter32
  BY <1>0, <1>3 DEF Stage1, Enter32, Goes, LoaderTypeOK, Stages
<1>4. CASE HardDisk
  BY <1>0, <1>4, DriveTypes DEF HardDisk, LoaderTypeOK, Stages
<1>5. CASE FloppyStart
  BY <1>0, <1>5, DriveTypes DEF FloppyStart, LoaderTypeOK, Stages, FloppyTypes
<1>6. CASE FloppyTry
  <2>1. lpc' \in {lpc, "tfs_init"} /\ sects' \in Nat \ {0}
    BY <1>0, <1>6, DriveTypes DEF FloppyTry, LoaderTypeOK
  <2> QED BY <1>0, <1>6, <2>1 DEF FloppyTry, LoaderTypeOK, Stages
<1>7. ASSUME TfsInit \/ Find \/ NextOfDir \/ NextOfFile \/ ReadDir \/ Load \/ ReadFile
      PROVE  tries' \in 1 .. Attempts /\ gaveup' \in BOOLEAN /\ UNCHANGED geometry
  <2>1. \/ tries' = Attempts /\ gaveup' = gaveup
        \/ tries > 1 /\ tries' = tries - 1 /\ gaveup' = gaveup
        \/ tries' = Attempts /\ gaveup' = TRUE
    BY <1>7 DEF TfsInit, Find, NextOfDir, NextOfFile, NextOf, ReadDir, Load, ReadFile, DiskRead
  <2>2. tries' \in 1 .. Attempts
    BY <1>0, <2>1, DriveTypes DEF LoaderTypeOK
  <2>3. gaveup' \in BOOLEAN
    BY <1>0, <2>1 DEF LoaderTypeOK
  <2>4. UNCHANGED geometry
    BY <1>7 DEF TfsInit, Find, NextOfDir, NextOfFile, NextOf, ReadDir, Load, ReadFile
  <2> QED BY <2>2, <2>3, <2>4
<1>8. CASE TfsInit
  <2>1. lpc' \in Stages /\ addr' \in Addr /\ UNCHANGED <<item, edi, dest, loaded>>
    BY <1>0, <1>8, Geometry DEF TfsInit, DiskRead, LoaderTypeOK, Stages, TypeOK
  <2> QED BY <1>0, <1>7, <1>8, <2>1 DEF LoaderTypeOK
<1>9. CASE Find
  <2>1. lpc' \in Stages /\ edi' \in {edi, "buffer"} /\ UNCHANGED <<item, addr, dest, loaded>>
    BY <1>0, <1>9 DEF Find, DiskRead, Goes, LoaderTypeOK, Stages
  <2> QED BY <1>0, <1>7, <1>9, <2>1 DEF LoaderTypeOK
<1>10. CASE Match
  <2>1. addr' \in Addr
    BY <1>0, <1>10, DataTypes DEF Match, Block0, Rec
  <2> QED BY <1>0, <1>10, <2>1 DEF Match, LoaderTypeOK, Stages
<1>11. CASE NoMatchHere
  BY <1>0, <1>11 DEF NoMatchHere, LoaderTypeOK, Stages
<1>12. CASE NextOfDir \/ NextOfFile
  <2>1. prim[addr].next \in Addr
    BY <1>0, Geometry DEF TypeOK, MapPtr, LoaderTypeOK
  <2>2. lpc' \in Stages /\ addr' \in Addr /\ UNCHANGED <<item, edi, dest, loaded>>
    BY <1>0, <1>12, <2>1
       DEF NextOfDir, NextOfFile, NextOf, DiskRead, Goes, LoaderTypeOK, Stages
  <2> QED BY <1>0, <1>7, <1>12, <2>2 DEF LoaderTypeOK
<1>13. CASE ReadDir
  <2>1. /\ lpc' \in Stages /\ edi' \in {edi, "buffer"} /\ dest' \in {dest, FALSE}
        /\ UNCHANGED <<item, addr, loaded>>
    BY <1>0, <1>13 DEF ReadDir, DiskRead, Goes, LoaderTypeOK, Stages
  <2>2. dest' \in BOOLEAN
    BY <1>0, <2>1 DEF LoaderTypeOK
  <2> QED BY <1>0, <1>7, <1>13, <2>1, <2>2 DEF LoaderTypeOK
<1>14. CASE Load \/ ReadFile
  <2>1. /\ Append(loaded, DataAt(addr).bytes) \in Seq(Bytes) /\ loaded \in Seq(Bytes)
        /\ <<DataAt(addr).bytes>> \in Seq(Bytes) /\ <<ZeroBlock.bytes>> \in Seq(Bytes)
    BY <1>0, DataTypes, ConstantTypes DEF LoaderTypeOK, Block
  <2>2. /\ loaded' \in {loaded, <<DataAt(addr).bytes>>, <<ZeroBlock.bytes>>,
                        Append(loaded, DataAt(addr).bytes)}
        /\ lpc' \in Stages /\ UNCHANGED <<item, addr, edi, dest>>
    BY <1>0, <1>14 DEF Load, ReadFile, DiskRead, Goes, LoaderTypeOK, Stages
  <2>3. loaded' \in Seq(Bytes)
    BY <2>1, <2>2
  <2> QED BY <1>0, <1>7, <1>14, <2>2, <2>3 DEF LoaderTypeOK
<1>15. CASE PowerOff
  <2>1. loaded' \in Seq(Bytes) /\ Attempts \in 1 .. Attempts /\ 0 \in Addr
    BY <1>15, DriveTypes, Geometry DEF PowerOff
  <2>2. gaveup' \in BOOLEAN /\ dest' \in BOOLEAN
    BY <1>15 DEF PowerOff
  <2>3. lpc' \in Stages /\ drive' = NoDrive /\ heads' = 1 /\ sects' = 1
        /\ tries' = Attempts /\ item' = 1 /\ addr' = 0 /\ edi' = "buffer"
    BY <1>15 DEF PowerOff, Stages
  <2> QED BY <2>1, <2>2, <2>3 DEF LoaderTypeOK
<1> QED BY <1>1, <1>2, <1>3, <1>4, <1>5, <1>6, <1>8, <1>9, <1>10, <1>11, <1>12,
           <1>13, <1>14, <1>15 DEF BootNext, LoaderStep, lvars

(* Address 0 ends a chain.                                                 *)
LEMMA ZeroEnds == Ends(0)
BY LoaderAssumption DEF Ends

(* The loader follows blocks in use, of an image that stays as it is.      *)
LEMMA LoaderSoundStep ==
  ASSUME LInv, [BootNext]_<<vars, lvars>> PROVE LoaderSound'
<1> USE DEF geometry, lookup, kernel, Following, OnHardDisk
<1>0. Inv /\ TypeOK /\ LoaderTypeOK /\ LoaderSound
  BY DEF LInv, Inv
<1>1. ImageSound'
  BY <1>0, ToolSteps, ImageStep DEF LoaderSound
<1>2. CASE lpc = "off" /\ Next /\ UNCHANGED lvars
  BY <1>0, <1>1, <1>2 DEF lvars, LoaderSound, LoaderTypeOK
<1>3. CASE UNCHANGED <<vars, lvars>>
  BY <1>0, <1>1, <1>3 DEF vars, image, lvars, LoaderSound
<1>4. ASSUME PowerOn \/ LoaderStep \/ PowerOff, UNCHANGED vars PROVE LoaderSound'
  <2>1. UNCHANGED <<boot, disk, prim, pc>>
    BY <1>4 DEF vars, image
  <2>2. CASE PowerOn
    BY <1>0, <1>1, <2>1, <2>2 DEF PowerOn, Bootable, LoaderSound
  <2>3. CASE Stage1 \/ HardDisk
    BY <1>0, <1>1, <2>1, <2>3 DEF Stage1, HardDisk, LoaderSound
  <2>4. CASE FloppyStart \/ FloppyTry
    <3>1. drive.kind # "hard" /\ drive' = drive /\ lpc' \in {"floppy", "tfs_init"}
      BY <1>0, <2>4 DEF FloppyStart, FloppyTry, LoaderSound
    <3>2. pc = "idle" /\ boot.loader # NoSource
      BY <1>0, <2>4 DEF FloppyStart, FloppyTry, LoaderSound
    <3> QED BY <1>1, <2>1, <3>1, <3>2 DEF LoaderSound
  <2>5. CASE Enter32 \/ PowerOff
    BY <1>0, <1>1, <2>1, <2>5 DEF Enter32, Goes, PowerOff, LoaderSound, NoDrive
  \* The geometry stays, and what is followed next is in use.
  <2>6. SUFFICES ASSUME TfsInit \/ Find \/ Match \/ NoMatchHere \/ NextOfDir \/ ReadDir
                          \/ Load \/ NextOfFile \/ ReadFile,
                        Following' /\ ~gaveup' 
                 PROVE  InUseNow(addr')
    <3>1. ASSUME TfsInit \/ Find \/ Match \/ NoMatchHere \/ NextOfDir \/ ReadDir
                   \/ Load \/ NextOfFile \/ ReadFile
          PROVE  UNCHANGED <<drive, heads, sects>> /\ lpc' # "floppy"
                 /\ lpc \notin {"off", "stage1", "disk_init"}
      BY <3>1 DEF TfsInit, Find, Match, NoMatchHere, NextOfDir, NextOfFile, NextOf,
                  ReadDir, Load, ReadFile, DiskRead, Goes
    <3> QED BY <1>0, <1>1, <1>4, <2>1, <2>2, <2>3, <2>4, <2>5, <3>1
            DEF LoaderSound, LoaderStep, InUseNow
  <2>7. lpc # "off" /\ pc = "idle" /\ boot.sig /\ ~gaveup /\ 0 \in Addr
    <3>1. lpc # "off" /\ ~gaveup
      BY <2>6 DEF TfsInit, Find, Match, NoMatchHere, NextOfDir, NextOfFile, NextOf,
                  ReadDir, Load, ReadFile, DiskRead
    <3> QED BY <1>0, <3>1, Geometry DEF LoaderSound, ImageSound
  <2>8. Following => InUseNow(addr)
    BY <1>0, <2>7 DEF LoaderSound, LoaderTypeOK, InUseNow
  <2>9. CASE TfsInit
    <3>1. addr' = boot.root
      BY <2>6, <2>7, <2>9 DEF TfsInit, DiskRead
    <3> QED BY <1>0, <2>7, <3>1, LinksInUse
  <2>10. CASE Match
    BY <1>0, <2>7, <2>10, FoundInUse DEF Match
  <2>11. CASE Find \/ NoMatchHere \/ ReadDir \/ Load \/ ReadFile
    BY <2>6, <2>8, <2>11 DEF Find, NoMatchHere, ReadDir, Load, ReadFile, DiskRead, Goes
  <2>12. CASE NextOfDir \/ NextOfFile
    <3>1. addr \in Addr /\ InUseNow(addr)
      BY <1>0, <2>8, <2>12 DEF NextOfDir, NextOfFile, NextOf, LoaderTypeOK
    <3>2. addr' = addr \/ (addr' = prim[addr].next /\ ~Ends(addr'))
      BY <2>12 DEF NextOfDir, NextOfFile, NextOf, DiskRead
    <3>3. addr' = addr \/ (addr' = prim[addr].next /\ prim[addr].next # 0)
      BY <3>2, ZeroEnds
    <3> QED BY <1>0, <2>7, <3>1, <3>3, LinksInUse
  <2> QED BY <2>6, <2>9, <2>10, <2>11, <2>12
<1> QED BY <1>2, <1>3, <1>4 DEF BootNext

-----------------------------------------------------------------------------
LEMMA LInvInit == BootInit => LInv
<1> SUFFICES ASSUME Init, Off PROVE LInv
  BY DEF BootInit
<1>1. Inv /\ ImageSound
  BY InvInit, ImageInit
<1>2. loaded \in Seq(Bytes) /\ Attempts \in 1 .. Attempts /\ 0 \in Addr
  BY DriveTypes, Geometry DEF Off
<1>3. LoaderTypeOK
  <2>1. gaveup \in BOOLEAN /\ dest \in BOOLEAN
    BY DEF Off
  <2>2. lpc \in Stages /\ drive = NoDrive /\ heads = 1 /\ sects = 1
        /\ tries = Attempts /\ item = 1 /\ addr = 0 /\ edi = "buffer"
    BY DEF Off, Stages
  <2> QED BY <1>2, <2>1, <2>2 DEF LoaderTypeOK
<1>4. LoaderSound
  BY <1>1 DEF Off, LoaderSound, NoDrive, OnHardDisk, Following
<1> QED BY <1>1, <1>3, <1>4 DEF LInv

LEMMA LInvStep == LInv /\ [BootNext]_<<vars, lvars>> => LInv'
<1> SUFFICES ASSUME LInv, [BootNext]_<<vars, lvars>> PROVE LInv'
  OBVIOUS
<1>1. Inv'
  BY ToolSteps, InvStep DEF LInv
<1> QED BY <1>1, LoaderTypeStep, LoaderSoundStep DEF LInv

THEOREM LoaderInvariance == BootSpec => []LInv
BY LInvInit, LInvStep, PTL DEF BootSpec

(* While machines are booted from it, an image changes only as the tool    *)
(* changes it, so that all that holds of the tool's images holds here.     *)
THEOREM BootRefinesTool == BootSpec => Spec
<1>1. BootInit => Init
  BY DEF BootInit
<1>2. [BootNext]_<<vars, lvars>> => [Next]_vars
  BY ToolSteps
<1> QED BY <1>1, <1>2, PTL DEF BootSpec, Spec

(* The types of the loader's variables, whichever reads fail: what it goes *)
(* by is an address that it has read from the image, or it has gone astray.*)
THEOREM LoaderTypes == BootSpec => []LoaderTypeOK
<1>1. LInv => LoaderTypeOK
  BY DEF LInv
<1> QED BY <1>1, LoaderInvariance, PTL

(* While the machine is on, no command of the tool runs; the loader has    *)
(* the geometry of a hard disk, and until a read gives up it follows       *)
(* directories and files that the map has in use, never a free block.      *)
THEOREM LoaderStaysSound == BootSpec => []LoaderSound
<1>1. LInv => LoaderSound
  BY DEF LInv
<1> QED BY <1>1, LoaderInvariance, PTL

-----------------------------------------------------------------------------
(* A disk that can be read: disk_read delivers what is at the address.     *)
Reading == OnHardDisk /\ ~gaveup /\ TotalBlocks <= Cylinders * heads * sects
Located == lpc \notin {"off", "stage1", "disk_init"}

LEMMA SectorExact ==
  ASSUME LInv, Reading, Located, NEW a \in Addr
  PROVE  Sector(a) = a
<1>1. /\ heads = drive.heads /\ sects = drive.sects
      /\ heads \in Nat \ {0} /\ sects \in Nat \ {0}
  BY DEF LInv, LoaderSound, LoaderTypeOK, Reading, Located
<1>2. Cylinders \in Nat \ {0} /\ a \in Nat /\ a < TotalBlocks
  BY LoaderAssumption, Geometry DEF Addr
<1>3. a < Cylinders * heads * sects
  <2>1. Cylinders * heads \in Nat
    BY <1>1, <1>2
  <2>2. Cylinders * heads * sects \in Nat
    BY <1>1, <2>1
  <2> QED BY <1>2, <2>2, Geometry DEF Reading
<1>4. Sector(a) = ((((a \div (sects * heads)) % Cylinders) * heads
                       + ((a \div sects) % heads)) * sects + (a % sects))
  BY <1>1 DEF Sector, Chs
<1> QED BY <1>1, <1>2, <1>3, <1>4, SplitExact

(* The block of the map that has the entry of a block on the image.        *)
LEMMA MapBlockOnDisk ==
  ASSUME NEW a \in Addr PROVE MapBlock(a) \in Addr
<1> DEFINE E == EntriesPerBlock  M == MapBlocks  q == a \div E
<1>1. /\ E \in Nat \ {0} /\ M \in Nat /\ BootBlocks \in Nat /\ a \in Nat /\ a < M * E
      /\ FirstData = BootBlocks + 2 * M /\ FirstData < TotalBlocks /\ TotalBlocks \in Nat
  <2>1. M \in Nat /\ E \in Nat /\ M * E \in Nat
    BY Geometry
  <2> QED BY <2>1, Geometry, GeometryAssumption DEF Addr, FirstData
<1>2. q \in Nat /\ a % E \in Nat /\ a = q * E + (a % E)
  BY <1>1, QuotientRemainder
<1> HIDE DEF E, M, q
<1>3. q < M
  <2> SUFFICES ASSUME ~(q < M) PROVE FALSE
    OBVIOUS
  <2>1. q - M \in Nat
    BY <1>1, <1>2
  <2>2. (q - M) * E \in Nat /\ M * E \in Nat
    BY <1>1, <2>1
  <2>3. q * E = (q - M) * E + M * E
    BY <1>1, <1>2, <2>1
  <2> QED BY <1>1, <1>2, <2>2, <2>3
<1>4. MapBlock(a) = BootBlocks + 2 * q
  BY DEF MapBlock, q, E
<1> QED BY <1>1, <1>2, <1>3, <1>4 DEF Addr

LEMMA DiskAt ==
  ASSUME LInv, Reading, Located
  PROVE  /\ \A a \in Addr : EntryKnown(a) /\ prim[a] = map[a]
         /\ Following => DataKnown(addr) /\ DataAt(addr) = disk[addr]
<1>1. ASSUME NEW a \in Addr PROVE EntryKnown(a)
  BY MapBlockOnDisk, SectorExact DEF EntryKnown
<1>2. prim = map
  BY DEF LInv, LoaderSound, Located, Inv, UmountSound
<1>3. ASSUME Following PROVE DataKnown(addr) /\ DataAt(addr) = disk[addr]
  <2>1. addr \in Addr /\ map[addr].type \in {"FILE", "DIR"}
    BY <1>2, <1>3 DEF LInv, LoaderSound, LoaderTypeOK, Reading
  <2>2. addr \in FirstData .. TotalBlocks - 1
    <3>1. addr >= FirstData
      BY <2>1, Geometry DEF LInv, Inv, MapSound
    <3> QED BY <2>1, <3>1, Geometry DEF Addr
  <2>3. Sector(addr) = addr
    BY <2>1, SectorExact
  <2> QED BY <2>2, <2>3 DEF DataKnown, DataAt
<1> QED BY <1>1, <1>2, <1>3

-----------------------------------------------------------------------------
(* What else the records of the tool keep: within a block, those in use    *)
(* come first.  Unused looks at the first one only.                        *)
RecordsPacked ==
  \A a \in Addr, s \in Slots :
    disk[a].recs[s].perm # "none" => disk[a].recs[1].perm # "none"

LEMMA PackedInit == Init => RecordsPacked
BY Geometry DEF Init, RecordsPacked, ZeroBlock, NoRec

LEMMA PackedStep ==
  ASSUME Inv, RecordsPacked, [Next]_vars PROVE RecordsPacked'
<1> DEFINE Packed(b) == \A s \in Slots : b.recs[s].perm # "none" => b.recs[1].perm # "none"
<1>0. TypeOK /\ BufferSound /\ 1 \in Slots /\ \A a \in Addr : Packed(disk[a])
  BY Geometry DEF Inv, RecordsPacked
<1>1. /\ Packed(ZeroBlock) /\ (\A src, n : Packed(LoaderBlock(src, n)))
      /\ \A src \in Sources, n \in Int : Packed(FileBlock(src, n))
  <2>1. ASSUME NEW src \in Sources, NEW n \in Int PROVE Packed(FileBlock(src, n))
    <3> SUFFICES ASSUME NEW s \in Slots, FileBlock(src, n).recs[s].perm # "none"
                 PROVE  FileBlock(src, n).recs[1].perm # "none"
      OBVIOUS
    <3> DEFINE l == (SourceBytes[src] - n) * DirSlots
    <3>1. /\ (s - 1) * BlockBytes < l
          /\ FileBlock(src, n).recs[1] = IF (1 - 1) * BlockBytes < l THEN JunkRec ELSE NoRec
      BY <1>0 DEF FileBlock, NoRec
    <3>2. (s - 1) * BlockBytes \in Nat /\ (1 - 1) * BlockBytes = 0
      BY Geometry DEF Slots
    <3>3. l \in Int
      BY Geometry, RequestsAssumption
    <3> HIDE DEF l
    <3>4. 0 < l
      BY <3>1, <3>2, <3>3
    <3> QED BY <3>1, <3>2, <3>4 DEF JunkRec
  <2> QED BY <1>0, <2>1 DEF ZeroBlock, LoaderBlock, NoRec, JunkRec
<1>2. ASSUME disk' = disk PROVE RecordsPacked'
  BY <1>2 DEF RecordsPacked
<1>3. ASSUME NEW a, NEW b, disk' = [disk EXCEPT ![a] = b], Packed(b) PROVE RecordsPacked'
  <2>1. \A c \in Addr : disk'[c] = disk[c] \/ disk'[c] = b
    BY <1>0, <1>3 DEF TypeOK
  <2>2. \A c \in Addr : Packed(disk'[c])
    BY <1>0, <1>3, <2>1
  <2> QED BY <2>2 DEF RecordsPacked
<1>4. CASE Insert
  <2>1. PICK s \in Slots, b \in Addr :
          /\ FirstHole(s) /\ dir' = [Here EXCEPT ![s] = NewRec(b)]
          /\ disk' = [disk EXCEPT ![dir_address] = DirBlock(dir')]
    BY <1>4 DEF Insert
  <2>2. Here \in [Slots -> Rec]
    BY <1>0, HereTypes
  <2>3. \A t \in Slots : dir'[t] = IF t = s THEN NewRec(b) ELSE Here[t]
    BY <2>1, <2>2
  <2>4. NewRec(b).perm # "none"
    BY DEF NewRec
  <2>5. s = 1 \/ Here[1].perm # "none"
    BY <2>1, Geometry DEF FirstHole, Slots
  <2>6. dir'[1].perm # "none"
    BY <1>0, <2>3, <2>4, <2>5
  <2>7. Packed(DirBlock(dir'))
    BY <2>6 DEF DirBlock
  <2> QED BY <1>3, <2>1, <2>7
<1>5. CASE Record
  <2>1. /\ disk' = [disk EXCEPT ![dir_address] = DirBlock(dir)] /\ pc = "record"
        /\ dir_address \in Addr
    BY <1>0, <1>5 DEF Record, TypeOK
  <2>2. /\ \A s \in Slots : s # slot => dir[s] = Here[s]
        /\ dir[slot].perm # "none" /\ Here[slot].perm # "none"
    BY <1>0, <2>1 DEF BufferSound, FileOpen, InUse
  <2>3. Here[1].perm # "none" => dir[1].perm # "none"
    BY <1>0, <2>2
  <2>4. \A s \in Slots : dir[s].perm # "none" => Here[s].perm # "none"
    BY <2>2
  <2>5. \A s \in Slots : Here[s].perm # "none" => Here[1].perm # "none"
    BY <1>0, <2>1 DEF Here
  <2>6. Packed(DirBlock(dir))
    BY <2>3, <2>4, <2>5 DEF DirBlock
  <2> QED BY <1>3, <2>1, <2>6
<1>6. CASE Quiet
  BY <1>2, <1>6, QuietSteps
<1>7. CASE FmtBoot \/ FmtRoot \/ Extend \/ Trim
  BY <1>2, <1>7 DEF FmtBoot, FmtRoot, Extend, Trim, image
<1>8. CASE FmtZero \/ Clear
  BY <1>1, <1>3, <1>8 DEF FmtZero, Clear
<1>9. CASE BootLoader
  <2>1. CASE w + 1 < BootBlocks
    <3>1. PICK b, n : n = w * BlockBytes /\ b = LoaderBlock(req.src, n)
      OBVIOUS
    <3>2. disk' = [disk EXCEPT ![w + 1] = b]
      BY <1>9, <2>1, <3>1 DEF BootLoader
    <3> QED BY <1>1, <1>3, <3>1, <3>2
  <2>2. CASE ~(w + 1 < BootBlocks)
    BY <1>2, <1>9, <2>2 DEF BootLoader
  <2> QED BY <2>1, <2>2
<1>10. CASE Write
  <2>1. req.src \in Sources /\ SourceBytes[req.src] - left \in Int
    BY <1>0, <1>10, RequestTypes, RequestsAssumption DEF Write, Inv, Control, TypeOK
  <2>2. PICK b : b = FileBlock(req.src, SourceBytes[req.src] - left)
    OBVIOUS
  <2>3. Packed(b)
    BY <1>1, <2>1, <2>2
  <2> QED BY <1>3, <1>10, <2>2, <2>3 DEF Write
<1>11. ASSUME NEW r \in Requests, GenFs(r) PROVE RecordsPacked'
  BY <1>1, <1>11 DEF GenFs, RecordsPacked
<1> QED BY <1>4, <1>5, <1>6, <1>7, <1>8, <1>9, <1>10, <1>11, NextCases

-----------------------------------------------------------------------------
(* The way to the kernel.                                                  *)

(* No chain that the two names lead through has a later block whose        *)
(* address has a low word of 0.                                            *)
Whole(f) == \A i \in 2 .. Len(f) : f[i] % LowWord # 0
WholeTrails ==
  \A S, f, n : n \in 0 .. 2 /\ Trail(S, Names2, AnyPerm, n) /\ IsChain(f, S[n].addr, map)
                 => Whole(f)

(* The lookup is at a block of the record that its trail has come to, and  *)
(* no block before it has the name.                                        *)
NoneIn(a) == \A t \in Slots : ~IsHit(disk[a].recs[t], Names2[item], AnyPerm)
LookAt(d) ==
  IF d.type = "DIR"
    THEN \E f : /\ IsChain(f, d.addr, map)
                /\ \E k \in 1 .. Len(f) : f[k] = addr /\ \A i \in 1 .. k - 1 : NoneIn(f[i])
    ELSE map[addr].type = "FILE"
Looks ==
  lpc \in {"find", "compare", "next_dir", "read_dir"} =>
    /\ \E S : Trail(S, Names2, AnyPerm, item - 1) /\ LookAt(S[item - 1])
    /\ lpc = "next_dir" => NoneIn(addr)

(* What is loaded are the blocks of the chain of the record that both      *)
(* names lead to, up to the block that the loader is at.                   *)
Loaded(f, k) == loaded = [i \in 1 .. k |-> disk[f[i]].bytes]
LoadAt(f) ==
  \E k \in 1 .. Len(f) :
    /\ lpc \in {"load", "next_file", "read_file"} => f[k] = addr
    /\ lpc = "load" => k = 1
    /\ lpc = "read_file" => Loaded(f, k - 1)
    /\ lpc \in {"next_file", "enter", "kernel"} => Loaded(f, k)
    /\ lpc \in {"enter", "kernel"} => k = Len(f)
Loads ==
  lpc \in {"load", "next_file", "read_file", "enter", "kernel"} =>
    \E S, f : Trail(S, Names2, AnyPerm, 2) /\ IsChain(f, S[2].addr, map) /\ LoadAt(f)

(* The failure message: the trail ends before the kernel.                  *)
Fails ==
  lpc = "fail" =>
    \E S, n : n \in 1 .. 2 /\ Trail(S, Names2, AnyPerm, n - 1)
                           /\ Misses(S[n - 1], Names2[n], AnyPerm)

Early == {"off", "stage1", "disk_init", "floppy", "tfs_init"}
KernelInv ==
  /\ lpc \in Early => item = 1
  /\ Reading /\ WholeTrails => Looks /\ Loads /\ Fails

(* The steps from tfs_init on, on a disk that can be read.                 *)
Progress ==
  \/ UNCHANGED <<lpc, lookup, kernel>>
  \/ /\ lpc = "tfs_init" /\ lpc' = "find" /\ addr' = boot.root /\ UNCHANGED <<item, kernel>>
  \/ /\ lpc = "find" /\ lpc' = "compare" /\ UNCHANGED <<item, addr, kernel>>
  \/ Match
  \/ NoMatchHere
  \/ /\ lpc = "next_dir"
     /\ IF Ends(map[addr].next) THEN lpc' = "fail" ELSE lpc' = "read_dir" /\ addr' = map[addr].next
     /\ UNCHANGED <<item, kernel>>
  \/ /\ lpc = "read_dir" /\ lpc' = "compare" /\ dest' = (dest /\ edi = "buffer")
     /\ UNCHANGED <<item, addr, loaded>>
  \/ /\ lpc = "load" /\ Goes(dest, "next_file") /\ loaded' = <<disk[addr].bytes>>
     /\ UNCHANGED <<lookup, dest>>
  \/ /\ lpc = "next_file"
     /\ IF Ends(map[addr].next) THEN lpc' = "enter" ELSE lpc' = "read_file" /\ addr' = map[addr].next
     /\ UNCHANGED <<item, kernel>>
  \/ /\ lpc = "read_file" /\ Goes(dest, "next_file")
     /\ loaded' = Append(loaded, disk[addr].bytes)
     /\ UNCHANGED <<lookup, dest>>
  \/ lpc = "enter" /\ Goes(dest, "kernel") /\ UNCHANGED <<lookup, kernel>>

LEMMA LoaderProgress ==
  ASSUME LInv, [BootNext]_<<vars, lvars>>, Reading', lpc' \notin Early
  PROVE  UNCHANGED vars /\ Reading /\ Located /\ Progress
<1> USE DEF geometry, lookup, kernel
<1>0. LoaderTypeOK
  BY DEF LInv
<1>1. /\ UNCHANGED vars
      /\ \/ UNCHANGED lvars \/ Enter32
         \/ TfsInit \/ Find \/ Match \/ NoMatchHere \/ NextOfDir \/ ReadDir
         \/ Load \/ NextOfFile \/ ReadFile
  BY DEF BootNext, LoaderStep, Early, lvars, PowerOn, Stage1, HardDisk, FloppyStart, FloppyTry,
         PowerOff
<1>2. UNCHANGED geometry /\ Located
  BY <1>1 DEF lvars, Enter32, TfsInit, Find, Match, NoMatchHere, NextOfDir, NextOfFile, NextOf,
              ReadDir, Load, ReadFile, Located, Early
<1>3. ~gaveup' /\ ~gaveup
  <2>1. ~gaveup'
    BY DEF Reading
  <2> QED BY <1>0, <1>1, <2>1 DEF lvars, Enter32, TfsInit, Find, Match, NoMatchHere, NextOfDir,
       NextOfFile, NextOf, ReadDir, Load, ReadFile, DiskRead, LoaderTypeOK
<1>4. Reading
  BY <1>2, <1>3 DEF Reading, OnHardDisk
<1>5. /\ EntryKnown(addr) /\ prim[addr].next = map[addr].next
      /\ Following => DataKnown(addr) /\ DataAt(addr) = disk[addr]
  BY <1>0, <1>2, <1>4, DiskAt DEF LoaderTypeOK
<1>6. CASE UNCHANGED lvars \/ Enter32 \/ Match \/ NoMatchHere
  BY <1>1, <1>2, <1>4, <1>6 DEF Progress, lvars, Enter32
<1>7. CASE TfsInit
  <2>1. \/ UNCHANGED <<lpc, lookup, kernel>>
        \/ /\ lpc = "tfs_init" /\ lpc' = "find" /\ addr' = boot.root /\ UNCHANGED <<item, kernel>>
    BY <1>3, <1>7 DEF TfsInit, DiskRead
  <2> QED BY <1>1, <1>2, <1>4, <2>1 DEF Progress
<1>8. CASE Find
  <2>1. \/ UNCHANGED <<lpc, lookup, kernel>>
        \/ lpc = "find" /\ lpc' = "compare" /\ UNCHANGED <<item, addr, kernel>>
    BY <1>3, <1>5, <1>8 DEF Find, DiskRead, Goes, Following
  <2> QED BY <1>1, <1>2, <1>4, <2>1 DEF Progress
<1>9. CASE NextOfDir
  <2>1. \/ UNCHANGED <<lpc, lookup, kernel>>
        \/ /\ lpc = "next_dir"
           /\ IF Ends(map[addr].next) THEN lpc' = "fail"
                                      ELSE lpc' = "read_dir" /\ addr' = map[addr].next
           /\ UNCHANGED <<item, kernel>>
    BY <1>3, <1>5, <1>9 DEF NextOfDir, NextOf, DiskRead, Goes
  <2> QED BY <1>1, <1>2, <1>4, <2>1 DEF Progress
<1>10. CASE ReadDir
  <2>1. \/ UNCHANGED <<lpc, lookup, kernel>>
        \/ /\ lpc = "read_dir" /\ lpc' = "compare" /\ dest' = (dest /\ edi = "buffer")
           /\ UNCHANGED <<item, addr, loaded>>
    BY <1>3, <1>5, <1>10 DEF ReadDir, DiskRead, Goes, Following
  <2> QED BY <1>1, <1>2, <1>4, <2>1 DEF Progress
<1>11. CASE Load
  <2>1. \/ UNCHANGED <<lpc, lookup, kernel>>
        \/ /\ lpc = "load" /\ Goes(dest, "next_file") /\ loaded' = <<disk[addr].bytes>>
           /\ UNCHANGED <<lookup, dest>>
    BY <1>3, <1>5, <1>11 DEF Load, DiskRead, Goes, Following
  <2> QED BY <1>1, <1>2, <1>4, <2>1 DEF Progress
<1>12. CASE NextOfFile
  <2>1. \/ UNCHANGED <<lpc, lookup, kernel>>
        \/ /\ lpc = "next_file"
           /\ IF Ends(map[addr].next) THEN lpc' = "enter"
                                      ELSE lpc' = "read_file" /\ addr' = map[addr].next
           /\ UNCHANGED <<item, kernel>>
    BY <1>3, <1>5, <1>12 DEF NextOfFile, NextOf, DiskRead, Goes
  <2> QED BY <1>1, <1>2, <1>4, <2>1 DEF Progress
<1>13. CASE ReadFile
  <2>1. \/ UNCHANGED <<lpc, lookup, kernel>>
        \/ /\ lpc = "read_file" /\ Goes(dest, "next_file")
           /\ loaded' = Append(loaded, disk[addr].bytes)
           /\ UNCHANGED <<lookup, dest>>
    BY <1>3, <1>5, <1>13 DEF ReadFile, DiskRead, Goes, Following
  <2> QED BY <1>1, <1>2, <1>4, <2>1 DEF Progress
<1> QED BY <1>1, <1>6, <1>7, <1>8, <1>9, <1>10, <1>11, <1>12, <1>13

(* While the image stays as it is, so does all that is said of it.         *)
LEMMA StaticImage ==
  ASSUME UNCHANGED vars
  PROVE  /\ disk' = disk /\ map' = map /\ boot' = boot
         /\ \A S, n : Trail(S, Names2, AnyPerm, n)' = Trail(S, Names2, AnyPerm, n)
         /\ \A d, name : Misses(d, name, AnyPerm)' = Misses(d, name, AnyPerm)
         /\ WholeTrails' = WholeTrails
<1>1. disk' = disk /\ map' = map /\ boot' = boot
  BY DEF vars, image
<1>2. RootRec' = RootRec
  BY <1>1 DEF RootRec, NoRec
<1>3. \A d, name, r : LeadsTo(d, name, AnyPerm, r)' = LeadsTo(d, name, AnyPerm, r)
  BY <1>1 DEF LeadsTo, FirstAt, IsHit
<1>4. \A S, n : Trail(S, Names2, AnyPerm, n)' = Trail(S, Names2, AnyPerm, n)
  BY <1>2, <1>3 DEF Trail
<1>5. \A d, name : Misses(d, name, AnyPerm)' = Misses(d, name, AnyPerm)
  BY <1>1 DEF Misses, IsHit
<1>6. WholeTrails' = WholeTrails
  BY <1>1, <1>4 DEF WholeTrails
<1> QED BY <1>1, <1>4, <1>5, <1>6

(* What tfs_find takes for the name is what the tool would take.           *)
LEMMA NamedHits ==
  ASSUME LInv, RecordsPacked, Reading, lpc = "compare", NEW s \in Slots
  PROVE  /\ Block0[s] = disk[addr].recs[s]
         /\ Named(s) <=> IsHit(disk[addr].recs[s], Names2[item], AnyPerm)
<1>1. addr \in Addr /\ TypeOK /\ ImageSound /\ Names2[item] \in Names /\ 1 \in Slots
  BY LoaderAssumption, Geometry DEF LInv, Inv, LoaderSound, LoaderTypeOK, Names2
<1>2. Block0 = disk[addr].recs
  BY <1>1, DiskAt DEF Located, Block0, Following
<1>3. Names2[item] # NoName
  BY <1>1, RequestsAssumption
<1>4. disk[addr].recs[s].perm \in Perms
  BY <1>1, PartTypes
<1>5. disk[addr].recs[s].perm = "none" => disk[addr].recs[s].name = NoName
  BY <1>1 DEF ImageSound, Nameless
<1>6. disk[addr].recs[s].perm # "none" => disk[addr].recs[1].perm # "none"
  BY <1>1 DEF RecordsPacked
<1>7. Named(s) <=> /\ disk[addr].recs[1].perm # "none"
                   /\ disk[addr].recs[s].name = Names2[item]
  BY <1>2 DEF Named, Unused
<1> QED BY <1>2, <1>3, <1>4, <1>5, <1>6, <1>7 DEF IsHit, AnyPerm

(* The blocks that the names lead through are in use.                      *)
LEMMA TrailUsed ==
  ASSUME Inv, NEW n \in 0 .. 2, NEW S, Trail(S, Names2, AnyPerm, n),
         NEW f, IsChain(f, S[n].addr, map)
  PROVE  /\ InFork(map[S[n].addr]) /\ map[S[n].addr].type = S[n].type
         /\ \A k \in 1 .. Len(f) : map[f[k]].next = Link(map, f[k])
<1>1. Names2 \in Seq(Names) /\ Len(Names2) = 2
  BY LoaderAssumption DEF Names2
<1>2. S[n].addr # 0
  BY ChainTypes
<1>3. InFork(map[S[n].addr]) /\ map[S[n].addr].type = S[n].type
  BY <1>1, <1>2, TrailHead
<1>4. PICK a : a = S[n].addr
  OBVIOUS
<1>5. \A k \in 1 .. Len(f) : map[f[k]].next = Link(map, f[k])
  BY <1>3, <1>4, ChainInUse
<1> QED BY <1>3, <1>5

(* On a chain that the names lead through, the low word of a next address  *)
(* is 0 just where the chain ends.                                         *)
LEMMA ChainEnds ==
  ASSUME Inv, WholeTrails, NEW n \in 0 .. 2, NEW S, Trail(S, Names2, AnyPerm, n),
         NEW f, IsChain(f, S[n].addr, map), NEW k \in 1 .. Len(f)
  PROVE  IF k = Len(f) THEN Ends(map[f[k]].next)
         ELSE map[f[k]].next = f[k + 1] /\ ~Ends(map[f[k]].next) /\ k + 1 \in 1 .. Len(f)
<1>1. Len(f) \in Nat /\ Whole(f)
  BY ChainTypes DEF WholeTrails
<1>u. map[f[k]].next = Link(map, f[k])
  BY TrailUsed
<1>2. CASE k = Len(f)
  <2>1. map[f[k]].next = 0
    BY <1>2, <1>u DEF IsChain
  <2> QED BY <1>2, <2>1, ZeroEnds
<1>3. CASE k # Len(f)
  <2>1. k \in 1 .. Len(f) - 1 /\ k + 1 \in 2 .. Len(f) /\ k + 1 \in 1 .. Len(f)
    BY <1>1, <1>3
  <2>2. map[f[k]].next = f[k + 1]
    BY <1>u, <2>1 DEF IsChain
  <2>3. f[k + 1] % LowWord # 0
    BY <1>1, <2>1 DEF Whole
  <2> QED BY <1>3, <2>1, <2>2, <2>3 DEF Ends
<1> QED BY <1>2, <1>3

(* The lookup begins with the root.                                        *)
LEMMA LookBegins ==
  ASSUME LInv, ForkInv, UNCHANGED vars, lpc = "tfs_init", lpc' = "find",
         item = 1, item' = item, addr' = boot.root
  PROVE  Looks'
<1>root. PICK S : S = [i \in {0} |-> RootRec]
  OBVIOUS
<1>1. disk' = disk /\ map' = map
  BY StaticImage
<1>2. boot.root \in Addr \ {0}
  BY DEF LInv, LoaderSound, ImageSound, Inv, Blank, TypeOK
<1>3. PICK f : IsChain(f, boot.root, map)
  BY <1>2 DEF ForkInv, Chained
<1>4. RootRec.type = "DIR" /\ RootRec.addr = boot.root
  BY DEF RootRec, NoRec
<1>5. PICK r : r = RootRec
  OBVIOUS
<1>6. 1 \in 1 .. Len(f) /\ f[1] = addr'
  BY <1>3, ChainTypes
<1>7. LookAt(r)'
  BY <1>1, <1>3, <1>4, <1>5, <1>6 DEF LookAt
<1>8. S[0] = r /\ Trail(S, Names2, AnyPerm, 0)
  BY <1>root, <1>5 DEF Trail
<1>9. Trail(S, Names2, AnyPerm, 0)'
  BY <1>8, StaticImage
<1>10. PICK n : n = 0 /\ n = item' - 1
  OBVIOUS
<1>11. Trail(S, Names2, AnyPerm, item - 1)' /\ LookAt(S[item - 1])'
  <2>1. Trail(S, Names2, AnyPerm, n)' /\ LookAt(S[n])'
    BY <1>7, <1>8, <1>9, <1>10
  <2> QED BY <1>10, <2>1
<1> QED BY <1>11 DEF Looks

LEMMA LookAtSame ==
  ASSUME UNCHANGED vars, item' = item, addr' = addr
  PROVE  /\ \A d : LookAt(d)' = LookAt(d)
         /\ NoneIn(addr)' = NoneIn(addr)
<1>1. disk' = disk /\ map' = map
  BY StaticImage
<1>2. \A a : NoneIn(a)' = NoneIn(a)
  BY <1>1 DEF NoneIn, IsHit
<1>3. \A d : LookAt(d)' = LookAt(d)
  BY <1>1, <1>2 DEF LookAt
<1> QED BY <1>2, <1>3

(* A block is read, and its records are compared in vain.                  *)
LEMMA LookStays ==
  ASSUME Looks, UNCHANGED vars, item' = item, addr' = addr,
         lpc \in {"find", "compare", "next_dir", "read_dir"},
         lpc' = "next_dir" => NoneIn(addr)
  PROVE  Looks'
<1>1. PICK S : Trail(S, Names2, AnyPerm, item - 1) /\ LookAt(S[item - 1])
  BY DEF Looks
<1>2. PICK n, d : n = item - 1 /\ d = S[n]
  OBVIOUS
<1>3. Trail(S, Names2, AnyPerm, n)' /\ LookAt(d)'
  BY <1>1, <1>2, StaticImage, LookAtSame
<1>4. n = item' - 1
  BY <1>2
<1>5. Trail(S, Names2, AnyPerm, item - 1)' /\ LookAt(S[item - 1])'
  BY <1>2, <1>3, <1>4
<1> QED BY <1>5, LookAtSame DEF Looks

LEMMA NothingHere ==
  ASSUME LInv, RecordsPacked, Reading, NoMatchHere
  PROVE  lpc = "compare" /\ lpc' = "next_dir" /\ item' = item /\ addr' = addr /\ NoneIn(addr)
<1>1. lpc = "compare" /\ lpc' = "next_dir" /\ item' = item /\ addr' = addr
  BY DEF NoMatchHere
<1>2. \A s \in Slots : ~IsHit(disk[addr].recs[s], Names2[item], AnyPerm)
  BY <1>1, NamedHits DEF NoMatchHere
<1> QED BY <1>1, <1>2 DEF NoneIn

(* The directory goes on with its next block, or it has none.              *)
LEMMA NextDirStep ==
  ASSUME LInv, WholeTrails, Looks, UNCHANGED vars, lpc = "next_dir", item' = item,
         IF Ends(map[addr].next) THEN lpc' = "fail"
                                 ELSE lpc' = "read_dir" /\ addr' = map[addr].next
  PROVE  Looks' /\ Fails'
<1>0. /\ disk' = disk /\ map' = map /\ item \in 1 .. 2 /\ addr \in Addr /\ NoneIn(addr)
      /\ \A a : NoneIn(a)' = NoneIn(a)
  <2>1. disk' = disk /\ map' = map
    BY StaticImage
  <2> QED BY <2>1 DEF LInv, LoaderTypeOK, Looks, NoneIn, IsHit
<1>1. PICK S : Trail(S, Names2, AnyPerm, item - 1) /\ LookAt(S[item - 1])
  BY DEF Looks
<1>2. PICK m \in 1 .. 2, n \in 0 .. 2 : m = item /\ n = item - 1 /\ n = m - 1
  BY <1>0
<1>3. PICK d : d = S[n]
  OBVIOUS
<1>4. Trail(S, Names2, AnyPerm, n) /\ LookAt(d)
  BY <1>1, <1>2, <1>3
<1>5. Trail(S, Names2, AnyPerm, n)'
  BY <1>4, StaticImage
<1>6. ASSUME Ends(map[addr].next), Misses(d, Names2[m], AnyPerm) PROVE Looks' /\ Fails'
  <2>1. Misses(S[m - 1], Names2[m], AnyPerm)' /\ Trail(S, Names2, AnyPerm, m - 1)'
    BY <1>2, <1>3, <1>5, <1>6, StaticImage
  <2> QED BY <1>6, <2>1 DEF Looks, Fails
<1>7. ASSUME ~Ends(map[addr].next), LookAt(d)' PROVE Looks' /\ Fails'
  <2>1. n = item' - 1
    BY <1>2
  <2>2. Trail(S, Names2, AnyPerm, item - 1)' /\ LookAt(S[item - 1])'
    BY <1>3, <1>5, <1>7, <2>1
  <2> QED BY <1>7, <2>2 DEF Looks, Fails
<1>8. CASE d.type = "DIR"
  <2>1. PICK f : /\ IsChain(f, d.addr, map)
                 /\ \E k \in 1 .. Len(f) : f[k] = addr /\ \A i \in 1 .. k - 1 : NoneIn(f[i])
    BY <1>4, <1>8 DEF LookAt
  <2>2. PICK k \in 1 .. Len(f) : f[k] = addr /\ \A i \in 1 .. k - 1 : NoneIn(f[i])
    BY <2>1
  <2>3. Len(f) \in Nat
    BY <2>1, ChainTypes
  <2>4. \A i \in 1 .. k : NoneIn(f[i])
    <3> TAKE i \in 1 .. k
    <3>1. i = k \/ i \in 1 .. k - 1
      BY <2>3
    <3> QED BY <1>0, <2>2, <3>1
  <2>5. IF k = Len(f) THEN Ends(map[f[k]].next)
        ELSE map[f[k]].next = f[k + 1] /\ ~Ends(map[f[k]].next) /\ k + 1 \in 1 .. Len(f)
    BY <1>3, <1>4, <2>1, ChainEnds DEF LInv
  <2>6. CASE k = Len(f)
    <3>1. Misses(d, Names2[m], AnyPerm)
      <4>1. InFork(map[d.addr])
        BY <1>3, <1>4, <2>1, TrailUsed DEF LInv
      <4> QED BY <1>2, <2>1, <2>4, <2>6, <4>1 DEF Misses, NoneIn
    <3> QED BY <1>6, <2>2, <2>5, <2>6, <3>1
  <2>7. CASE k # Len(f)
    <3>1. PICK l \in 1 .. Len(f) : l = k + 1 /\ l - 1 = k
      BY <2>3, <2>5, <2>7
    <3>2. f[l] = addr' /\ ~Ends(map[addr].next)
      BY <2>2, <2>5, <2>7, <3>1
    <3>3. \A i \in 1 .. l - 1 : NoneIn(f[i])'
      BY <1>0, <2>4, <3>1
    <3>4. IsChain(f, d.addr, map)'
      BY <1>0, <2>1
    <3>5. LookAt(d)'
      BY <1>8, <3>1, <3>2, <3>3, <3>4 DEF LookAt
    <3> QED BY <1>7, <3>2, <3>5
  <2> QED BY <2>6, <2>7
<1>9. CASE d.type # "DIR"
  <2>1. CASE Ends(map[addr].next)
    BY <1>6, <1>9, <2>1 DEF Misses
  <2>2. CASE ~Ends(map[addr].next)
    <3>1. addr' = map[addr].next /\ map[addr].next # 0
      BY <2>2, ZeroEnds
    <3>2. map[addr].type = "FILE"
      BY <1>4, <1>9 DEF LookAt
    <3>3. map[map[addr].next].type = "FILE"
      BY <1>0, <3>1, <3>2, NextBlock DEF LInv, InFork
    <3>4. LookAt(d)'
      BY <1>0, <1>9, <3>1, <3>3 DEF LookAt
    <3> QED BY <1>7, <2>2, <3>4
  <2> QED BY <2>1, <2>2
<1> QED BY <1>8, <1>9

(* A name is found: the trail is longer by its record.                     *)
LEMMA MatchLeads ==
  ASSUME LInv, RecordsPacked, Reading, Looks, Match
  PROVE  /\ item \in 1 .. 2 /\ lpc = "compare"
         /\ \E T : /\ Trail(T, Names2, AnyPerm, item) /\ addr' = T[item].addr
                   /\ T[item].addr \in Addr \ {0}
                   /\ map[T[item].addr].type = T[item].type /\ T[item].type \in {"FILE", "DIR"}
<1>1. lpc = "compare" /\ item \in 1 .. 2 /\ addr \in Addr /\ Inv /\ Names2[item] \in Names
  BY LoaderAssumption DEF Match, LInv, LoaderTypeOK, Names2
<1>2. PICK s \in Slots : /\ Named(s) /\ \A t \in 1 .. s - 1 : ~Named(t)
                         /\ addr' = Block0[s].addr
  BY DEF Match
<1>3. PICK name \in Names, m \in 1 .. 2 : name = Names2[item] /\ m = item
  BY <1>1
<1>4. PICK a \in Addr : a = addr
  BY <1>1
<1>5. PICK r : r = disk[a].recs[s]
  OBVIOUS
<1>6. IsHit(r, name, AnyPerm) /\ addr' = r.addr
  BY <1>1, <1>2, <1>3, <1>4, <1>5, NamedHits
<1>7. \A t \in 1 .. s - 1 : ~IsHit(disk[a].recs[t], name, AnyPerm)
  <2> TAKE t \in 1 .. s - 1
  <2>1. t \in Slots
    BY Geometry DEF Slots
  <2> QED BY <1>1, <1>2, <1>3, <1>4, <2>1, NamedHits
<1>8. /\ IsRecord(a, s) /\ r \in Rec /\ r.addr \in Addr \ {0}
      /\ map[r.addr].type = r.type /\ r.type \in {"FILE", "DIR"}
  BY <1>1, <1>5, <1>6, HitRecord
<1>9. PICK S : Trail(S, Names2, AnyPerm, item - 1) /\ LookAt(S[item - 1])
  BY <1>1 DEF Looks
<1>10. PICK d : d = S[m - 1]
  OBVIOUS
<1>11. Trail(S, Names2, AnyPerm, m - 1) /\ LookAt(d)
  BY <1>3, <1>9, <1>10
<1>12. d.type = "DIR"
  BY <1>4, <1>8, <1>11 DEF LookAt, IsRecord
<1>13. PICK f : /\ IsChain(f, d.addr, map)
                /\ \E k \in 1 .. Len(f) : f[k] = a /\ \A i \in 1 .. k - 1 : NoneIn(f[i])
  BY <1>4, <1>11, <1>12 DEF LookAt
<1>14. PICK k \in 1 .. Len(f) : f[k] = a /\ \A i \in 1 .. k - 1 : NoneIn(f[i])
  BY <1>13
<1>15. FirstAt(f, k, s, name, AnyPerm)
  <2>1. SUFFICES ASSUME NEW i \in 1 .. Len(f), NEW t \in Slots,
                        IsHit(disk[f[i]].recs[t], name, AnyPerm)
                 PROVE  k < i \/ (k = i /\ s <= t)
    BY <1>5, <1>6, <1>14 DEF FirstAt
  <2>2. i \in Nat /\ k \in Nat /\ s \in Nat /\ t \in Nat /\ 1 <= t /\ 1 <= i /\ Len(f) \in Nat
    BY <1>13, ChainTypes, Geometry DEF Slots
  <2>3. ~(i < k)
    BY <1>3, <1>14, <2>1, <2>2 DEF NoneIn
  <2>4. i = k => ~(t < s)
    BY <1>7, <1>14, <2>1, <2>2
  <2> QED BY <2>2, <2>3, <2>4
<1>16. LeadsTo(d, name, AnyPerm, r)
  <2>1. InFork(map[d.addr])
    <3>1. m - 1 \in 0 .. 2
      OBVIOUS
    <3> QED BY <1>1, <1>10, <1>11, <1>13, <3>1, TrailUsed
  <2> QED BY <1>5, <1>12, <1>13, <1>14, <1>15, <2>1 DEF LeadsTo
<1>17. PICK T : Trail(T, Names2, AnyPerm, m) /\ T[m] = r
  <2>1. LeadsTo(S[m - 1], Names2[m], AnyPerm, r)
    BY <1>3, <1>10, <1>16
  <2>2. m \in Nat \ {0}
    OBVIOUS
  <2> QED BY <1>11, <2>1, <2>2, LongerTrail
<1> QED BY <1>1, <1>3, <1>6, <1>8, <1>17

LEMMA MatchStep ==
  ASSUME LInv, ForkInv, RecordsPacked, Reading, Looks, UNCHANGED vars, Match
  PROVE  Looks' /\ Loads' /\ Fails'
<1>1. disk' = disk /\ map' = map
  BY StaticImage
<1>2. item \in 1 .. 2 /\ lpc = "compare"
  BY MatchLeads
<1>3. PICK T : /\ Trail(T, Names2, AnyPerm, item) /\ addr' = T[item].addr
               /\ T[item].addr \in Addr \ {0}
               /\ map[T[item].addr].type = T[item].type /\ T[item].type \in {"FILE", "DIR"}
  BY MatchLeads
<1>part. PICK m \in 1 .. 2 : m = item
  BY <1>2
<1>4. PICK r : m = item /\ r = T[m]
  BY <1>part
<1>5. Trail(T, Names2, AnyPerm, m)'
  BY <1>3, <1>4, StaticImage
<1>6. PICK f : IsChain(f, r.addr, map)
  BY <1>3, <1>4 DEF ForkInv, Chained
<1>7. IsChain(f, r.addr, map)' /\ 1 \in 1 .. Len(f) /\ f[1] = addr'
  BY <1>1, <1>3, <1>4, <1>6, ChainTypes
<1>8. CASE item = 1
  <2>1. item' = 2 /\ lpc' = "find" /\ item' - 1 = m
    BY <1>4, <1>8 DEF Match
  <2>2. LookAt(r)'
    BY <1>1, <1>3, <1>4, <1>7 DEF LookAt
  <2>3. Trail(T, Names2, AnyPerm, item - 1)' /\ LookAt(T[item - 1])'
    BY <1>4, <1>5, <2>1, <2>2
  <2> QED BY <2>1, <2>3 DEF Looks, Loads, Fails
<1>9. CASE item = 2
  <2>1. lpc' = "load" /\ m = 2
    BY <1>4, <1>9 DEF Match
  <2>2. LoadAt(f)'
    BY <1>7, <2>1 DEF LoadAt
  <2>3. Trail(T, Names2, AnyPerm, 2)' /\ IsChain(f, T[2].addr, map)'
    BY <1>4, <1>5, <1>7, <2>1
  <2>4. Loads'
    BY <2>2, <2>3 DEF Loads
  <2> QED BY <2>1, <2>4 DEF Looks, Fails
<1> QED BY <1>2, <1>8, <1>9

(* The loop of stage 2: a block is loaded, and the next one is looked up.  *)
LEMMA LoadStep ==
  ASSUME LInv, WholeTrails, Loads, UNCHANGED vars,
         lpc \in {"load", "next_file", "read_file", "enter"},
         \/ /\ lpc = "load" /\ lpc' = "next_file" /\ loaded' = <<disk[addr].bytes>>
            /\ addr' = addr
         \/ /\ lpc = "next_file"
            /\ IF Ends(map[addr].next) THEN lpc' = "enter"
                                       ELSE lpc' = "read_file" /\ addr' = map[addr].next
            /\ loaded' = loaded
         \/ /\ lpc = "read_file" /\ lpc' = "next_file"
            /\ loaded' = Append(loaded, disk[addr].bytes) /\ addr' = addr
         \/ lpc = "enter" /\ lpc' = "kernel" /\ loaded' = loaded
  PROVE  Loads'
<1>0. TypeOK /\ disk' = disk /\ map' = map
  BY StaticImage DEF LInv, Inv
<1>1. PICK S, f : Trail(S, Names2, AnyPerm, 2) /\ IsChain(f, S[2].addr, map) /\ LoadAt(f)
  BY DEF Loads
<1>2. PICK k \in 1 .. Len(f) :
        /\ lpc \in {"load", "next_file", "read_file"} => f[k] = addr
        /\ lpc = "load" => k = 1
        /\ lpc = "read_file" => Loaded(f, k - 1)
        /\ lpc \in {"next_file", "enter", "kernel"} => Loaded(f, k)
        /\ lpc \in {"enter", "kernel"} => k = Len(f)
  BY <1>1 DEF LoadAt
<1>3. /\ Len(f) \in Nat /\ k \in Nat \ {0} /\ k <= Len(f) /\ 1 \in 1 .. Len(f)
      /\ \A i \in 1 .. k : f[i] \in Addr /\ disk[f[i]].bytes \in Bytes
  <2>1. Len(f) \in Nat \ {0} /\ \A i \in 1 .. Len(f) : f[i] \in Addr
    BY <1>1, ChainTypes
  <2> QED BY <1>0, <2>1, PartTypes
<1>4. SUFFICES LoadAt(f)'
  <2>1. Trail(S, Names2, AnyPerm, 2)' /\ IsChain(f, S[2].addr, map)'
    BY <1>0, <1>1, StaticImage
  <2> QED BY <2>1 DEF Loads
<1>5. CASE lpc = "load"
  <2>1. k = 1 /\ f[1] = addr' /\ lpc' = "next_file"
    BY <1>2, <1>5
  <2>2. loaded' = [i \in 1 .. 1 |-> disk'[f[i]].bytes]
    <3>1. loaded' = <<disk[f[1]].bytes>>
      BY <1>2, <1>5
    <3> QED BY <1>0, <3>1
  <2> QED BY <1>3, <2>1, <2>2 DEF LoadAt, Loaded
<1>6. CASE lpc = "next_file"
  <2>1. f[k] = addr /\ Loaded(f, k)
    BY <1>2, <1>6
  <2>2. Loaded(f, k)'
    BY <1>0, <1>6, <2>1 DEF Loaded
  <2>3. 2 \in 0 .. 2
    OBVIOUS
  <2>4. IF k = Len(f) THEN Ends(map[f[k]].next)
        ELSE map[f[k]].next = f[k + 1] /\ ~Ends(map[f[k]].next) /\ k + 1 \in 1 .. Len(f)
    BY <1>1, <2>3, ChainEnds DEF LInv
  <2>5. CASE k = Len(f)
    <3>1. lpc' = "enter"
      BY <1>6, <2>1, <2>4, <2>5
    <3> QED BY <2>2, <2>5, <3>1 DEF LoadAt
  <2>6. CASE k # Len(f)
    <3>1. lpc' = "read_file" /\ addr' = map[addr].next
      BY <1>6, <2>1, <2>4, <2>6
    <3>2. PICK l \in 1 .. Len(f) : l = k + 1 /\ l - 1 = k
      BY <1>3, <2>4, <2>6
    <3>3. f[l] = addr' /\ Loaded(f, l - 1)'
      BY <2>1, <2>2, <2>4, <2>6, <3>1, <3>2
    <3> QED BY <3>1, <3>3 DEF LoadAt
  <2> QED BY <2>5, <2>6
<1>7. CASE lpc = "read_file"
  <2>1. lpc' = "next_file" /\ f[k] = addr' /\ loaded' = Append(loaded, disk[f[k]].bytes)
    BY <1>2, <1>7
  <2> DEFINE g == [i \in 1 .. k |-> disk[f[i]].bytes]
  <2>2. loaded = [i \in 1 .. k - 1 |-> disk[f[i]].bytes]
    BY <1>2, <1>7 DEF Loaded
  <2>3. PICK x : x = disk[f[k]].bytes
    OBVIOUS
  <2>4. loaded \in Seq(Bytes) /\ Len(loaded) = k - 1
        /\ \A i \in 1 .. k - 1 : loaded[i] = disk[f[i]].bytes
    BY <1>3, <2>2
  <2>5. x \in Bytes
    BY <1>3, <2>3
  <2>6. loaded' \in Seq(Bytes) /\ Len(loaded') = k
        /\ \A i \in 1 .. k : loaded'[i] = IF i = k THEN x ELSE loaded[i]
    BY <1>3, <2>1, <2>3, <2>4, <2>5
  <2>7. \A i \in 1 .. k : loaded'[i] = disk[f[i]].bytes
    BY <1>3, <2>3, <2>4, <2>6
  <2>8. g \in Seq(Bytes) /\ Len(g) = k /\ \A i \in 1 .. k : g[i] = disk[f[i]].bytes
    BY <1>3
  <2> HIDE DEF g
  <2>9. loaded' = g
    BY <1>3, <2>6, <2>7, <2>8
  <2>10. Loaded(f, k)'
    BY <1>0, <2>9 DEF Loaded, g
  <2> QED BY <2>1, <2>10 DEF LoadAt
<1>8. CASE lpc = "enter"
  <2>1. lpc' = "kernel" /\ k = Len(f) /\ Loaded(f, k)'
    BY <1>0, <1>2, <1>8 DEF Loaded
  <2> QED BY <2>1 DEF LoadAt
<1> QED BY <1>5, <1>6, <1>7, <1>8

(* A read that is repeated.                                                *)
LEMMA KernelSame ==
  ASSUME Looks, Loads, Fails, UNCHANGED vars, UNCHANGED <<lpc, lookup, kernel>>
  PROVE  Looks' /\ Loads' /\ Fails'
<1> USE DEF lookup, kernel
<1>0. disk' = disk /\ map' = map
  BY StaticImage
<1>1. Looks'
  <2>1. CASE lpc \in {"find", "compare", "next_dir", "read_dir"}
    <3>1. lpc' = "next_dir" => NoneIn(addr)
      BY <2>1 DEF Looks
    <3> QED BY <2>1, <3>1, LookStays
  <2>2. CASE lpc \notin {"find", "compare", "next_dir", "read_dir"}
    BY <2>2 DEF Looks
  <2> QED BY <2>1, <2>2
<1>2. Loads'
  <2>1. SUFFICES ASSUME lpc \in {"load", "next_file", "read_file", "enter", "kernel"}
                 PROVE  Loads'
    BY DEF Loads
  <2>2. PICK S, f : Trail(S, Names2, AnyPerm, 2) /\ IsChain(f, S[2].addr, map) /\ LoadAt(f)
    BY <2>1 DEF Loads
  <2>3. LoadAt(f)'
    BY <1>0, <2>2 DEF LoadAt, Loaded
  <2>4. Trail(S, Names2, AnyPerm, 2)' /\ IsChain(f, S[2].addr, map)'
    BY <1>0, <2>2, StaticImage
  <2> QED BY <2>3, <2>4 DEF Loads
<1>3. Fails'
  <2>1. SUFFICES ASSUME lpc = "fail" PROVE Fails'
    BY DEF Fails
  <2>2. PICK S, n : n \in 1 .. 2 /\ Trail(S, Names2, AnyPerm, n - 1)
                                 /\ Misses(S[n - 1], Names2[n], AnyPerm)
    BY <2>1 DEF Fails
  <2>3. Trail(S, Names2, AnyPerm, n - 1)' /\ Misses(S[n - 1], Names2[n], AnyPerm)'
    BY <2>2, StaticImage
  <2> QED BY <2>2, <2>3 DEF Fails
<1> QED BY <1>1, <1>2, <1>3

LEMMA KernelStep ==
  ASSUME LInv, ForkInv, RecordsPacked, KernelInv, [BootNext]_<<vars, lvars>>
  PROVE  KernelInv'
<1> USE DEF lookup, kernel
<1>1. ASSUME lpc' \in Early PROVE item' = 1
  <2>1. ASSUME LoaderStep PROVE item' = 1
    BY <1>1, <2>1 DEF KernelInv, Early, LoaderStep, Stage1, HardDisk, FloppyStart, FloppyTry, TfsInit,
         Find, Match, NoMatchHere, NextOfDir, NextOfFile, NextOf, ReadDir, Load, ReadFile,
         Enter32, DiskRead, Goes
  <2> QED BY <1>1, <2>1 DEF KernelInv, Early, BootNext, lvars, PowerOn, PowerOff
<1>2. ASSUME Reading', WholeTrails', lpc' \in Early PROVE Looks' /\ Loads' /\ Fails'
  BY <1>2 DEF Early, Looks, Loads, Fails
<1>3. ASSUME Reading', WholeTrails', lpc' \notin Early PROVE Looks' /\ Loads' /\ Fails'
  <2>1. UNCHANGED vars /\ Reading /\ Progress
    BY <1>3, LoaderProgress
  <2>2. WholeTrails /\ Looks /\ Loads /\ Fails
    BY <1>3, <2>1, StaticImage DEF KernelInv
  <2>3. CASE UNCHANGED <<lpc, lookup, kernel>>
    BY <2>1, <2>2, <2>3, KernelSame
  <2>4. CASE lpc = "tfs_init" /\ lpc' = "find" /\ addr' = boot.root /\ UNCHANGED <<item, kernel>>
    <3>1. item = 1
      BY <2>4 DEF KernelInv, Early
    <3>2. Looks'
      BY <2>1, <2>4, <3>1, LookBegins
    <3> QED BY <2>4, <3>2 DEF Loads, Fails
  <2>5. CASE lpc = "find" /\ lpc' = "compare" /\ UNCHANGED <<item, addr, kernel>>
    <3>1. Looks'
      BY <2>1, <2>2, <2>5, LookStays
    <3> QED BY <2>5, <3>1 DEF Loads, Fails
  <2>6. CASE Match
    BY <2>1, <2>2, <2>6, MatchStep
  <2>7. CASE NoMatchHere
    <3>1. /\ lpc = "compare" /\ lpc' = "next_dir" /\ item' = item /\ addr' = addr
          /\ NoneIn(addr)
      BY <2>1, <2>7, NothingHere
    <3>2. Looks'
      BY <2>1, <2>2, <3>1, LookStays
    <3> QED BY <3>1, <3>2 DEF Loads, Fails
  <2>8. CASE /\ lpc = "next_dir"
             /\ IF Ends(map[addr].next) THEN lpc' = "fail"
                                        ELSE lpc' = "read_dir" /\ addr' = map[addr].next
             /\ UNCHANGED <<item, kernel>>
    <3>1. Looks' /\ Fails'
      BY <2>1, <2>2, <2>8, NextDirStep
    <3> QED BY <2>8, <3>1 DEF Loads
  <2>9. CASE /\ lpc = "read_dir" /\ lpc' = "compare" /\ dest' = (dest /\ edi = "buffer")
             /\ UNCHANGED <<item, addr, loaded>>
    <3>1. Looks'
      BY <2>1, <2>2, <2>9, LookStays
    <3> QED BY <2>9, <3>1 DEF Loads, Fails
  <2>astray. CASE lpc' = "astray"
    BY <2>astray DEF Looks, Loads, Fails
  <2>10. CASE /\ lpc = "load" /\ lpc' = "next_file" /\ loaded' = <<disk[addr].bytes>>
              /\ UNCHANGED <<lookup, dest>>
    BY <2>1, <2>2, <2>10, LoadStep DEF Looks, Fails
  <2>11. CASE /\ lpc = "next_file"
              /\ IF Ends(map[addr].next) THEN lpc' = "enter"
                                         ELSE lpc' = "read_file" /\ addr' = map[addr].next
              /\ UNCHANGED <<item, kernel>>
    BY <2>1, <2>2, <2>11, LoadStep DEF Looks, Fails
  <2>12. CASE /\ lpc = "read_file" /\ lpc' = "next_file"
              /\ loaded' = Append(loaded, disk[addr].bytes)
              /\ UNCHANGED <<lookup, dest>>
    BY <2>1, <2>2, <2>12, LoadStep DEF Looks, Fails
  <2>13. CASE lpc = "enter" /\ lpc' = "kernel" /\ UNCHANGED <<lookup, kernel>>
    BY <2>1, <2>2, <2>13, LoadStep DEF Looks, Fails
  <2> QED BY <2>1, <2>3, <2>4, <2>5, <2>6, <2>7, <2>8, <2>9, <2>10, <2>11, <2>12, <2>13,
             <2>astray DEF Progress, Goes
<1> QED BY <1>1, <1>2, <1>3 DEF KernelInv

-----------------------------------------------------------------------------
(* Where the kernel is loaded to: while both names are in first blocks, no *)
(* second block of a directory is read.                                    *)
FirstNames ==
  /\ InFirstBlock(boot.root, SystemName)
  /\ \A S : Trail(S, Names2, AnyPerm, 1) => InFirstBlock(S[1].addr, KernelName)
FirstBlocks ==
  /\ dest /\ lpc \notin {"next_dir", "read_dir", "astray"}
  /\ lpc \in {"find", "compare"} =>
       \E S : Trail(S, Names2, AnyPerm, item - 1) /\ addr = S[item - 1].addr
DestInv ==
  /\ lpc \in Early => dest
  /\ Reading /\ WholeTrails /\ FirstNames /\ lpc \notin Early => FirstBlocks

(* In the first block of its directory, the name is found.                 *)
LEMMA FoundFirst ==
  ASSUME LInv, RecordsPacked, Reading, FirstNames, FirstBlocks, lpc = "compare"
  PROVE  \E s \in Slots : Named(s)
<1>1. item \in 1 .. 2 /\ ImageSound /\ Inv
  BY DEF LInv, LoaderTypeOK, LoaderSound
<1>2. PICK S : Trail(S, Names2, AnyPerm, item - 1) /\ addr = S[item - 1].addr
  BY DEF FirstBlocks
<1>3. InFirstBlock(addr, Names2[item])
  <2>1. CASE item = 1
    <3>1. item - 1 = 0 /\ S[0].addr = boot.root
      BY <1>2, <2>1 DEF Trail, RootRec, NoRec
    <3> QED BY <1>2, <2>1, <3>1 DEF FirstNames, Names2
  <2>2. CASE item = 2
    <3>1. item - 1 = 1
      BY <2>2
    <3> QED BY <1>2, <2>2, <3>1 DEF FirstNames, Names2
  <2> QED BY <1>1, <2>1, <2>2
<1>4. PICK s \in Slots : disk[addr].recs[s].name = Names2[item]
  BY <1>3 DEF InFirstBlock
<1>5. addr \in Addr /\ Names2[item] \in Names /\ Names2[item] # NoName
  BY <1>1, LoaderAssumption, RequestsAssumption DEF LInv, LoaderTypeOK, Names2
<1>6. disk[addr].recs[s].perm \in Perms /\ disk[addr].recs[s].perm # "none"
  BY <1>1, <1>4, <1>5, PartTypes DEF Inv, ImageSound, Nameless
<1>7. IsHit(disk[addr].recs[s], Names2[item], AnyPerm)
  BY <1>4, <1>6 DEF IsHit, AnyPerm
<1> QED BY <1>7, NamedHits

LEMMA DestStep ==
  ASSUME LInv, RecordsPacked, KernelInv, DestInv, [BootNext]_<<vars, lvars>>
  PROVE  DestInv'
<1> USE DEF lookup, kernel
<1>1. ASSUME lpc' \in Early PROVE dest'
  <2>1. ASSUME LoaderStep PROVE dest'
    BY <1>1, <2>1 DEF DestInv, Early, LoaderStep, Stage1, HardDisk, FloppyStart, FloppyTry, TfsInit,
         Find, Match, NoMatchHere, NextOfDir, NextOfFile, NextOf, ReadDir, Load, ReadFile,
         Enter32, DiskRead, Goes
  <2> QED BY <1>1, <2>1 DEF DestInv, Early, BootNext, lvars, PowerOn, PowerOff
<1>2. SUFFICES ASSUME Reading', WholeTrails', FirstNames', lpc' \notin Early
               PROVE  FirstBlocks'
  BY <1>1 DEF DestInv
<1>3. UNCHANGED vars /\ Reading /\ Progress
  BY <1>2, LoaderProgress
<1>4. WholeTrails /\ FirstNames
  BY <1>2, <1>3, StaticImage DEF FirstNames, InFirstBlock
<1>5. lpc \notin Early => FirstBlocks /\ Looks
  BY <1>3, <1>4 DEF DestInv, KernelInv
<1>6. CASE UNCHANGED <<lpc, lookup, kernel>>
  <2>1. FirstBlocks
    BY <1>2, <1>5, <1>6
  <2>2. ASSUME lpc \in {"find", "compare"}
        PROVE  \E S, n : n = item' - 1 /\ Trail(S, Names2, AnyPerm, n)' /\ addr' = S[n].addr
    <3>1. PICK S, n : n = item - 1 /\ Trail(S, Names2, AnyPerm, n) /\ addr = S[n].addr
      BY <2>1, <2>2 DEF FirstBlocks
    <3>2. Trail(S, Names2, AnyPerm, n)' /\ n = item' - 1
      BY <1>3, <1>6, <3>1, StaticImage
    <3> QED BY <1>6, <3>1, <3>2
  <2> QED BY <1>6, <2>1, <2>2 DEF FirstBlocks
<1>7. CASE lpc = "tfs_init" /\ lpc' = "find" /\ addr' = boot.root /\ UNCHANGED <<item, kernel>>
  <2>1. item' - 1 = 0 /\ dest'
    BY <1>7 DEF KernelInv, DestInv, Early
  <2>root. PICK S : S = [i \in {0} |-> RootRec]
    OBVIOUS
  <2>2. Trail(S, Names2, AnyPerm, 0) /\ S[0].addr = boot.root
    <3>1. S[0] = RootRec
      BY <2>root
    <3>2. RootRec.addr = boot.root
      BY DEF RootRec, NoRec
    <3> QED BY <3>1, <3>2 DEF Trail
  <2>3. PICK n : n = 0
    OBVIOUS
  <2>4. Trail(S, Names2, AnyPerm, n)' /\ n = item' - 1 /\ addr' = S[n].addr
    <3>1. Trail(S, Names2, AnyPerm, n)
      BY <2>2, <2>3
    <3>2. Trail(S, Names2, AnyPerm, n)'
      BY <1>3, <3>1, StaticImage
    <3> QED BY <1>7, <2>1, <2>2, <2>3, <3>2
  <2> QED BY <1>7, <2>1, <2>4 DEF FirstBlocks
<1>8. CASE lpc = "find" /\ lpc' = "compare" /\ UNCHANGED <<item, addr, kernel>>
  <2>1. FirstBlocks
    BY <1>5, <1>8 DEF Early
  <2>2. PICK S, n : n = item - 1 /\ Trail(S, Names2, AnyPerm, n) /\ addr = S[n].addr
    BY <1>8, <2>1 DEF FirstBlocks
  <2>3. Trail(S, Names2, AnyPerm, n)' /\ n = item' - 1
    BY <1>3, <1>8, <2>2, StaticImage
  <2> QED BY <1>8, <2>1, <2>2, <2>3 DEF FirstBlocks
<1>9. CASE Match
  <2>1. lpc = "compare" /\ FirstBlocks /\ Looks
    BY <1>5, <1>9 DEF Match, Early
  <2>2. item \in 1 .. 2
    BY <1>3, <1>9, <2>1, MatchLeads
  <2>3. PICK T : Trail(T, Names2, AnyPerm, item) /\ addr' = T[item].addr
    BY <1>3, <1>9, <2>1, MatchLeads
  <2>4. dest'
    BY <1>9, <2>1 DEF Match, FirstBlocks
  <2>5. CASE item = 1
    <3>1. lpc' = "find" /\ item' - 1 = 1
      BY <1>9, <2>5 DEF Match
    <3>2. Trail(T, Names2, AnyPerm, 1)'
      BY <1>3, <2>3, <2>5, StaticImage
    <3> QED BY <2>3, <2>4, <2>5, <3>1, <3>2 DEF FirstBlocks
  <2>6. CASE item = 2
    BY <1>9, <2>4, <2>6 DEF Match, FirstBlocks
  <2> QED BY <2>2, <2>5, <2>6
<1>10. CASE NoMatchHere
  <2>1. lpc = "compare" /\ FirstBlocks
    BY <1>5, <1>10 DEF NoMatchHere, Early
  <2>2. \E s \in Slots : Named(s)
    BY <1>3, <1>4, <2>1, FoundFirst
  <2> QED BY <1>10, <2>2 DEF NoMatchHere
<1>11. CASE lpc \in {"next_dir", "read_dir"}
  BY <1>5, <1>11 DEF FirstBlocks, Early
<1>12. CASE /\ lpc \in {"load", "next_file", "read_file", "enter"}
            /\ lpc' \in {"next_file", "read_file", "enter", "kernel"} /\ dest' = dest
  BY <1>5, <1>12 DEF FirstBlocks, Early
<1>13. lpc \in {"load", "read_file", "enter"} => dest
  BY <1>5 DEF FirstBlocks, Early
<1> QED BY <1>3, <1>6, <1>7, <1>8, <1>9, <1>10, <1>11, <1>12, <1>13 DEF Progress, Goes

-----------------------------------------------------------------------------
(* All of it together.                                                     *)
ReaderInv == LInv /\ ForkInv /\ RecordsPacked /\ KernelInv /\ DestInv

LEMMA ReaderInit == BootInit => ReaderInv
<1> SUFFICES ASSUME Init, Off PROVE ReaderInv
  BY DEF BootInit
<1>1. LInv
  BY LInvInit DEF BootInit
<1>2. KernelInv /\ DestInv
  BY DEF Off, Early, KernelInv, DestInv, Looks, Loads, Fails
<1> QED BY <1>1, <1>2, ForkInvInit, PackedInit DEF ReaderInv

LEMMA ReaderStep == ReaderInv /\ [BootNext]_<<vars, lvars>> => ReaderInv'
<1> SUFFICES ASSUME ReaderInv, [BootNext]_<<vars, lvars>> PROVE ReaderInv'
  OBVIOUS
<1>1. LInv /\ LInv' /\ Inv /\ Inv' /\ [Next]_vars
  BY LInvStep, ToolSteps DEF ReaderInv, LInv
<1>2. ForkInv' /\ RecordsPacked'
  BY <1>1, ForkInvStep, PackedStep DEF ReaderInv
<1>3. KernelInv' /\ DestInv'
  BY KernelStep, DestStep DEF ReaderInv
<1> QED BY <1>1, <1>2, <1>3 DEF ReaderInv

LEMMA ReaderInvariance == BootSpec => []ReaderInv
BY ReaderInit, ReaderStep, PTL DEF BootSpec

(* Where the names lead, and what the blocks there are.                    *)
LEMMA TrailResolves ==
  ASSUME Inv, NEW S, NEW n \in 0 .. 2, Trail(S, Names2, AnyPerm, n)
  PROVE  /\ S[n] \in Rec
         /\ n = 0 => S[n] = RootRec
         /\ n = 1 => S[n] = Resolve(<<SystemName>>)
         /\ n = 2 => S[n] = KernelFile
<1>1. Len(Names2) = 2 /\ Names2[1] = SystemName
  BY DEF Names2
<1>2. n \in 0 .. Len(Names2) /\ Len(Names2) \in Nat
  BY <1>1
<1>3. Steps(Names2, AnyPerm)[n] = S[n] /\ S[n] \in Rec
  <2>1. \A i \in 0 .. n : Steps(Names2, AnyPerm)[i] = S[i] /\ S[i] \in Rec
    BY <1>2, TrailSteps
  <2> QED BY <2>1
<1>4. n = 0 => S[n] = RootRec
  BY DEF Trail
<1>5. n = 2 => S[n] = KernelFile
  BY <1>1, <1>3 DEF KernelFile, Resolve, Walk, AnyPerm
<1>6. ASSUME n = 1 PROVE S[n] = Resolve(<<SystemName>>)
  <2>1. PICK p : p = <<SystemName>>
    OBVIOUS
  <2>2. Len(p) = 1 /\ p[1] = SystemName
    BY <2>1
  <2>3. Trail(S, p, AnyPerm, 1)
    <3> SUFFICES ASSUME NEW i \in 1 .. 1 PROVE LeadsTo(S[i - 1], p[i], AnyPerm, S[i])
      BY DEF Trail
    <3>1. i = 1
      OBVIOUS
    <3> QED BY <1>1, <1>6, <2>2, <3>1 DEF Trail
  <2>4. 1 \in 0 .. Len(p) /\ Len(p) \in Nat
    BY <2>2
  <2>5. \A i \in 0 .. 1 : Steps(p, AnyPerm)[i] = S[i] /\ S[i] \in Rec
    BY <2>3, <2>4, TrailSteps
  <2> QED BY <1>6, <2>1, <2>2, <2>5 DEF Resolve, Walk, AnyPerm
<1> QED BY <1>3, <1>4, <1>5, <1>6

LEMMA ReadableTrails == Inv /\ Readable => Reading /\ WholeTrails
<1> SUFFICES ASSUME Inv, Readable PROVE Reading /\ WholeTrails
  OBVIOUS
<1>1. SUFFICES ASSUME NEW S, NEW f, NEW n \in 0 .. 2, Trail(S, Names2, AnyPerm, n),
                      IsChain(f, S[n].addr, map)
               PROVE  Whole(f)
  BY DEF Readable, Reading, WholeTrails
<1>2. S[n] \in {RootRec, Resolve(<<SystemName>>), KernelFile}
  BY <1>1, TrailResolves
<1>3. WholeAddresses(S[n])
  BY <1>2 DEF Readable
<1>4. PICK a : a = S[n].addr
  OBVIOUS
<1>5. Blocks(a) = f
  <2>1. InFork(map[a])
    BY <1>1, <1>4, TrailUsed
  <2> QED BY <1>1, <1>4, <2>1, BlocksOfChain
<1> QED BY <1>3, <1>4, <1>5 DEF WholeAddresses, Whole

(* What a chain of blocks holds is what the tool has stored there.         *)
LEMMA StoredChain ==
  ASSUME Inv, ForkInv, NEW S, Trail(S, Names2, AnyPerm, 2),
         NEW f, IsChain(f, S[2].addr, map), S[2].type = "FILE"
  PROVE  LET l == BlocksOf(S[2].size) IN
           /\ l \in Nat /\ l <= Len(f)
           /\ Stored(S[2]).data = [i \in 1 .. l |-> disk[f[i]].bytes]
<1>0. TypeOK /\ SystemName \in Names /\ KernelName \in Names /\ Names2[2] = KernelName
  BY LoaderAssumption DEF Inv, Names2
<1>1. PICK d : d = S[2]
  OBVIOUS
<1>2. LeadsTo(S[1], KernelName, AnyPerm, d)
  <2>1. 2 \in 1 .. 2 /\ 2 - 1 = 1
    OBVIOUS
  <2>2. LeadsTo(S[2 - 1], Names2[2], AnyPerm, S[2])
    BY <2>1 DEF Trail
  <2> QED BY <1>0, <1>1, <2>2
<1>3. PICK a \in Addr, s \in Slots :
        IsRecord(a, s) /\ d = disk[a].recs[s] /\ d \in Rec /\ d.addr \in Addr \ {0}
  BY <1>0, <1>2, LedRecord
<1>4. PICK g : IsChain(g, d.addr, map) /\ d.size <= Len(g) * BlockBytes
  BY <1>1, <1>3 DEF ForkInv, Covers, CoveredBy
<1>u. InFork(map[d.addr])
  BY <1>0, <1>2, LedRecord DEF InFork
<1>5. g = f
  BY <1>0, <1>1, <1>4, <1>u, BlocksOfChain
<1>6. f \in Seq(Addr) /\ Len(f) \in Nat /\ d.size \in Nat
  BY <1>1, <1>3, ChainTypes DEF Rec
<1>7. PICK l : l = BlocksOf(d.size)
  OBVIOUS
<1>8. l \in Nat /\ l <= Len(f)
  <2>1. BlocksOf(d.size) <= Len(f)
    BY <1>4, <1>5, <1>6, BlocksTaken
  <2>2. BlocksOf(d.size) \in Nat
    BY <1>6, Geometry DEF BlocksOf
  <2> QED BY <1>7, <2>1, <2>2
<1>9. l \in 0 .. TotalBlocks
  BY <1>1, <1>8, <1>6, ChainLength, Geometry
<1>10. Fork[l][d.addr] = SubSeq(f, 1, l)
  <2>1. Fork[l][d.addr] = SubSeq(f, 1, IF l < Len(f) THEN l ELSE Len(f))
    BY <1>0, <1>1, <1>9, <1>u, ForkOfChain
  <2>2. (IF l < Len(f) THEN l ELSE Len(f)) = l
    BY <1>6, <1>8
  <2> QED BY <2>1, <2>2
<1>11. PICK h : h = SubSeq(f, 1, l)
  OBVIOUS
<1>12. DOMAIN h = 1 .. l /\ \A i \in 1 .. l : h[i] = f[i]
  BY <1>6, <1>8, <1>11
<1>13. Stored(d).data = [i \in DOMAIN h |-> disk[h[i]].bytes]
  BY <1>7, <1>10, <1>11 DEF Stored
<1>14. Stored(d).data = [i \in 1 .. l |-> disk[f[i]].bytes]
  BY <1>12, <1>13
<1> QED BY <1>1, <1>7, <1>8, <1>14

(* The kernel that is entered has been loaded whole, in its order, for     *)
(* every geometry and every image that commands which run to their end     *)
(* can make: tfs_find takes the record that the tool takes, and the loop   *)
(* of stage 2 ends where the chain ends.                                   *)
THEOREM KernelWhole == BootSpec => []EntersWhole
<1>1. ReaderInv => EntersWhole
  <2> SUFFICES ASSUME ReaderInv, lpc = "kernel", Readable PROVE EntersWhole
    BY DEF EntersWhole
  <2>0. Inv /\ TypeOK /\ ForkInv /\ Loads
    BY ReadableTrails DEF ReaderInv, LInv, Inv, KernelInv
  <2>1. PICK S, f : Trail(S, Names2, AnyPerm, 2) /\ IsChain(f, S[2].addr, map) /\ LoadAt(f)
    BY <2>0 DEF Loads
  <2>2. 2 \in 0 .. 2
    OBVIOUS
  <2>3. KernelFile = S[2]
    BY <2>0, <2>1, <2>2, TrailResolves
  <2>4. PICK r : r = S[2]
    OBVIOUS
  <2>5. loaded = [i \in 1 .. Len(f) |-> disk[f[i]].bytes]
    BY <2>1 DEF LoadAt, Loaded
  <2>6. KernelFile.type \in {"FILE", "DIR"}
    <3>1. LeadsTo(S[2 - 1], Names2[2], AnyPerm, S[2])
      BY <2>1 DEF Trail
    <3>2. Names2[2] \in Names
      BY LoaderAssumption DEF Names2
    <3> QED BY <2>0, <2>3, <3>1, <3>2, LedRecord
  <2>7. ASSUME r.type = "FILE"
        PROVE  /\ Len(loaded) >= BlocksOf(r.size)
               /\ SubSeq(loaded, 1, BlocksOf(r.size)) = Stored(r).data
    <3>1. PICK l : /\ l = BlocksOf(r.size) /\ l \in Nat /\ l <= Len(f)
                   /\ Stored(r).data = [i \in 1 .. l |-> disk[f[i]].bytes]
      BY <2>0, <2>1, <2>4, <2>7, StoredChain
    <3>2. /\ Len(f) \in Nat /\ \A i \in 1 .. Len(f) : disk[f[i]].bytes \in Bytes
      <4>1. Len(f) \in Nat /\ \A i \in 1 .. Len(f) : f[i] \in Addr
        BY <2>1, ChainTypes
      <4> QED BY <2>0, <4>1, PartTypes
    <3>3. /\ loaded \in Seq(Bytes) /\ Len(loaded) = Len(f)
          /\ \A i \in 1 .. Len(f) : loaded[i] = disk[f[i]].bytes
      BY <2>5, <3>2
    <3> DEFINE h == SubSeq(loaded, 1, l)  g == [i \in 1 .. l |-> disk[f[i]].bytes]
    <3>4. h \in Seq(Bytes) /\ Len(h) = l /\ \A i \in 1 .. l : h[i] = loaded[i]
      BY <3>1, <3>2, <3>3
    <3>5. g \in Seq(Bytes) /\ Len(g) = l /\ \A i \in 1 .. l : g[i] = disk[f[i]].bytes
      BY <3>1, <3>2
    <3> HIDE DEF h, g
    <3>6. \A i \in 1 .. l : h[i] = g[i]
      <4> TAKE i \in 1 .. l
      <4>1. i \in 1 .. Len(f)
        BY <3>1, <3>2
      <4>2. loaded[i] = disk[f[i]].bytes
        BY <3>3, <4>1
      <4> QED BY <3>4, <3>5, <4>2
    <3>7. h = g
      BY <3>1, <3>4, <3>5, <3>6
    <3> QED BY <3>1, <3>3, <3>7 DEF h, g
  <2> QED BY <2>3, <2>4, <2>6, <2>7 DEF EntersWhole
<1> QED BY <1>1, ReaderInvariance, PTL

(* A kernel that the tool has stored is found: the loader fails only where *)
(* the names lead to no file.                                              *)
THEOREM KernelFound == BootSpec => []FindsStoredKernel
<1>1. ReaderInv => FindsStoredKernel
  <2> SUFFICES ASSUME ReaderInv, lpc = "fail", Readable PROVE KernelFile.type # "FILE"
    BY DEF FindsStoredKernel
  <2>0. Inv /\ TypeOK /\ Fails
    BY ReadableTrails DEF ReaderInv, LInv, Inv, KernelInv
  <2>1. PICK S, n : n \in 1 .. 2 /\ Trail(S, Names2, AnyPerm, n - 1)
                                 /\ Misses(S[n - 1], Names2[n], AnyPerm)
    BY <2>0 DEF Fails
  <2>2. Len(Names2) = 2 /\ Len(Names2) \in Nat /\ NoRec.type # "FILE"
    BY DEF Names2, NoRec
  <2>3. PICK k \in 0 .. 2 : k = n - 1
    BY <2>1
  <2>4. Steps(Names2, AnyPerm)[k] = S[k] /\ S[k] \in Rec
    <3>1. k \in 0 .. Len(Names2) /\ Trail(S, Names2, AnyPerm, k)
      BY <2>1, <2>2, <2>3
    <3>2. \A i \in 0 .. k : Steps(Names2, AnyPerm)[i] = S[i] /\ S[i] \in Rec
      BY <2>0, <2>2, <3>1, TrailSteps
    <3> QED BY <3>2
  <2>5. Child(Names2[n], AnyPerm)[S[k]] = NoRec
    BY <2>0, <2>1, <2>3, <2>4, ChildMissed
  <2>6. n \in 0 .. Len(Names2) /\ n # 0
    BY <2>1, <2>2
  <2>7. Steps(Names2, AnyPerm)[n] = NoRec
    BY <2>3, <2>4, <2>5, <2>6, StepsUnfold
  <2>8. CASE n = 2
    BY <2>2, <2>7, <2>8 DEF KernelFile, Resolve, Walk, AnyPerm
  <2>9. CASE n = 1
    <3>1. 2 \in 0 .. Len(Names2) /\ 2 # 0 /\ 2 - 1 = 1
      BY <2>2
    <3>2. Steps(Names2, AnyPerm)[2] = Child(Names2[2], AnyPerm)[NoRec]
      BY <2>7, <2>9, <3>1, StepsUnfold
    <3>3. NoRec \in Rec /\ NoRec.type # "DIR"
      BY ConstantTypes DEF NoRec
    <3>4. Child(Names2[2], AnyPerm)[NoRec] = NoRec
      BY <3>3 DEF Child
    <3> QED BY <2>2, <3>2, <3>4 DEF KernelFile, Resolve, Walk, AnyPerm
  <2> QED BY <2>1, <2>8, <2>9
<1> QED BY <1>1, ReaderInvariance, PTL

(* The variables of the destination are not overwritten, and the loader    *)
(* does not go astray, as long as both names are in the first blocks of    *)
(* their directories.                                                      *)
THEOREM DestinationKept == BootSpec => []DestKept
<1>1. ReaderInv => DestKept
  <2> SUFFICES ASSUME ReaderInv, Readable, InFirstBlock(boot.root, SystemName),
                      InFirstBlock(Resolve(<<SystemName>>).addr, KernelName)
               PROVE  dest /\ lpc # "astray"
    BY DEF DestKept
  <2>1. Inv /\ Reading /\ WholeTrails
    BY ReadableTrails DEF ReaderInv, LInv
  <2>2. ASSUME NEW S, Trail(S, Names2, AnyPerm, 1) PROVE InFirstBlock(S[1].addr, KernelName)
    <3>1. 1 \in 0 .. 2
      OBVIOUS
    <3>2. S[1] = Resolve(<<SystemName>>)
      BY <2>1, <2>2, <3>1, TrailResolves
    <3>3. PICK r : r = S[1]
      OBVIOUS
    <3> QED BY <3>2, <3>3
  <2>3. FirstNames
    BY <2>2 DEF FirstNames
  <2> QED BY <2>1, <2>3 DEF ReaderInv, DestInv, FirstBlocks, Early
<1> QED BY <1>1, ReaderInvariance, PTL

(* Of a disk that can be read, the loader reads blocks in use as what it   *)
(* follows, for every geometry: tfs_find and tfs_read_next never lead it   *)
(* to a free block or into the system area, and disk_read never to another *)
(* block than it was asked for.                                            *)
THEOREM InUseRead == BootSpec => []ReadsBlocksInUse
<1>1. LInv => ReadsBlocksInUse
  <2> SUFFICES ASSUME LInv, Following, OnHardDisk, ~gaveup,
                      TotalBlocks <= Cylinders * heads * sects
               PROVE  Sector(addr) \in Addr /\ prim[Sector(addr)].type \in {"FILE", "DIR"}
    BY DEF ReadsBlocksInUse
  <2>1. addr \in Addr /\ prim[addr].type \in {"FILE", "DIR"} /\ Located
    BY DEF LInv, LoaderSound, LoaderTypeOK, Following, Located
  <2>2. Sector(addr) = addr
    BY <2>1, SectorExact DEF Reading
  <2> QED BY <2>1, <2>2
<1> QED BY <1>1, LoaderInvariance, PTL
=============================================================================
