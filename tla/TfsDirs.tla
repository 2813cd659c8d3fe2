------------------------------ MODULE TfsDirs -------------------------------
(***************************************************************************)
(* The directories that mkdir and add make.  After they create a part of a *)
(* path, they look for the next part in the block that holds the new       *)
(* record, so that a directory can be taken for one of the same name a     *)
(* level up.  As long as the command lines use no name at two depths, the  *)
(* walk of mkdir and add stays on the path, and mkdir makes what it is     *)
(* asked for.                                                              *)
(***************************************************************************)
EXTENDS TfsForks

(* The depth at which the command lines that create use a name.            *)
AtDepth(name, i) ==
  \E r \in Requests : r.op \in {"mkdir", "add"} /\ i \in 1 .. Len(r.path) /\ r.path[i] = name
Layered == \A name, i, j : AtDepth(name, i) /\ AtDepth(name, j) => i = j

-----------------------------------------------------------------------------
(* The invariant: the level of each block, and where the walk is.          *)

(* A fork lies at one level; a record leads one level down, and its name   *)
(* is one of its level.                                                    *)
Levels(lev) ==
  /\ boot.root # 0 => lev[boot.root] = 1
  /\ \A a \in Addr : Link(map, a) # 0 => lev[Link(map, a)] = lev[a]
  /\ \A a \in Addr, s \in Slots :
       LET r == disk[a].recs[s] IN
         InUse(r) => AtDepth(r.name, lev[a]) /\ lev[r.addr] = lev[a] + 1

(* The level of the walk is the number of the part that it is at.          *)
WalkLevel(lev) ==
  /\ Walking => lev[dir_first_address] = part_i
  /\ pc = "insert" => lev[dir_address] = part_i
  /\ pc = "clear" => lev[dir_address] = part_i /\ lev[dir_first_address] = part_i + 1

(* What mkdir and add take for a part of their path.                       *)
Taken == IF req.op = "mkdir" THEN {"ifdir"} ELSE AnyPerm
Clean(f, n) == \A i \in 1 .. n, t \in Slots : ~IsHit(disk[f[i]].recs[t], Part, Taken)
Following(S, n) == Trail(S, req.path, Taken, n)

(* The walk is in the directory d, and the blocks of d before the one that *)
(* it reads do not have the part; or it still reads a block of a level up. *)
Looking(lev, d) ==
  /\ d.type = "DIR" /\ d.addr = dir_first_address
  /\ \E f : /\ IsChain(f, dir_first_address, map)
            /\ \/ \E k \in 1 .. Len(f) : f[k] = dir_address /\ Clean(f, k - 1)
               \/ Clean(f, Len(f)) /\ lev[dir_address] < part_i
Searching(lev) ==
  pc = "search" /\ Creates =>
    /\ part_i - 1 \in 0 .. Len(req.path)
    /\ \E S : /\ Following(S, part_i - 1)
              /\ part_i <= Len(req.path) => Looking(lev, S[part_i - 1])

(* The directory d does not have the part.                                 *)
Lacking(d) ==
  /\ d.type = "DIR" /\ d.addr = dir_first_address
  /\ \E f : /\ IsChain(f, dir_first_address, map) /\ Clean(f, Len(f))
            /\ \E k \in 1 .. Len(f) : f[k] = dir_address
Inserting == pc = "insert" => \E S : Following(S, part_i - 1) /\ Lacking(S[part_i - 1])
Clearing ==
  pc = "clear" =>
    /\ Link(map, dir_first_address) = 0
    /\ \E S : /\ Following(S, part_i)
              /\ S[part_i].addr = dir_first_address /\ S[part_i].type = NewType

MkdirControl == req.op = "mkdir" => pc \in {"search", "insert", "clear", "umount", "exit"}
Made ==
  req.op = "mkdir" /\ pc \in {"umount", "exit"} /\ ret = 0 =>
    \E S : Following(S, Len(req.path))

LevelInv == \E lev \in [Addr -> Nat] : Levels(lev) /\ WalkLevel(lev) /\ Searching(lev)
DirInv   == LevelInv /\ Inserting /\ Clearing /\ MkdirControl /\ Made

-----------------------------------------------------------------------------
(* The levels.                                                             *)

(* A path that mkdir or add walks.                                         *)
LEMMA WalkPath ==
  ASSUME Inv, pc # "idle", Creates
  PROVE  /\ req \in Requests /\ req.path \in Seq(Names) /\ Len(req.path) \in Nat
         /\ \A i \in 1 .. Len(req.path) : req.path[i] \in Names /\ AtDepth(req.path[i], i)
         /\ part_i \in Nat \ {0}
         /\ part_i <= Len(req.path) =>
              Part = req.path[part_i] /\ Part \in Names /\ AtDepth(Part, part_i)
<1>1. req \in Requests /\ part_i \in Nat \ {0}
  BY DEF Inv, Control, TypeOK
<1>2. req.path \in Seq(Names) /\ Len(req.path) \in Nat
  BY <1>1, RequestTypes
<1>3. \A i \in 1 .. Len(req.path) : req.path[i] \in Names /\ AtDepth(req.path[i], i)
  BY <1>1, <1>2 DEF Creates, AtDepth
<1> QED BY <1>1, <1>2, <1>3 DEF Part

(* No record and no link is new.                                           *)
SameOrFewer ==
  /\ boot'.root \in {0, boot.root}
  /\ \A a \in Addr : Link(map', a) \in {0, Link(map, a)}
  /\ \A a \in Addr, s \in Slots :
       InUse(disk'[a].recs[s]) => /\ InUse(disk[a].recs[s])
                                  /\ disk'[a].recs[s].addr = disk[a].recs[s].addr
                                  /\ disk'[a].recs[s].name = disk[a].recs[s].name
LEMMA SameLevels ==
  ASSUME NEW lev, Levels(lev), SameOrFewer
  PROVE  Levels(lev)'
BY DEF Levels, SameOrFewer

(* A block at the end of a fork is at the level of the fork.               *)
LEMMA GrownLevels ==
  ASSUME Inv, Formatted, NEW lev \in [Addr -> Nat], Levels(lev),
         NEW x \in Addr, NEW b \in Addr, NEW t \in {"FILE", "DIR"}, LinksTo(x, b, t),
         boot'.root = boot.root,
         \A a \in Addr, s \in Slots :
           InUse(disk'[a].recs[s]) => disk'[a].recs[s] = disk[a].recs[s]
  PROVE  Levels([lev EXCEPT ![b] = lev[x]])'
<1> DEFINE new == [lev EXCEPT ![b] = lev[x]]
<1>1. /\ x # b /\ boot.root # b
      /\ \A a \in Addr, s \in Slots : IsRecord(a, s) => disk[a].recs[s].addr # b
      /\ \A c \in Addr : Link(map, c) # b
      /\ \A s \in Slots : ~InUse(disk[b].recs[s])
      /\ \A c \in Addr : Link(map', c) = IF c = x THEN b ELSE IF c = b THEN 0 ELSE Link(map, c)
  BY LinkFacts
<1>2. \A a \in Addr : new[a] = IF a = b THEN lev[x] ELSE lev[a]
  OBVIOUS
<1>3. boot.root \in Addr /\ \A a \in Addr : Link(map, a) \in Addr
  BY PartTypes, Geometry DEF Inv, TypeOK, Link
<1> HIDE DEF new
<1>4. boot'.root # 0 => new[boot'.root] = 1
  BY <1>1, <1>2, <1>3 DEF Levels
<1>5. ASSUME NEW a \in Addr, Link(map', a) # 0 PROVE new[Link(map', a)] = new[a]
  BY <1>1, <1>2, <1>3, <1>5 DEF Levels
<1>6. ASSUME NEW a \in Addr, NEW s \in Slots, InUse(disk'[a].recs[s])
      PROVE  LET r == disk'[a].recs[s] IN
               AtDepth(r.name, new[a]) /\ new[r.addr] = new[a] + 1
  <2>1. disk'[a].recs[s] = disk[a].recs[s] /\ InUse(disk[a].recs[s]) /\ a # b
    BY <1>1, <1>6
  <2>2. disk[a].recs[s].addr \in Addr /\ disk[a].recs[s].addr # b
    BY <1>1, <2>1, RecordHead
  <2> QED BY <1>2, <2>1, <2>2 DEF Levels
<1>7. Levels(new)'
  BY <1>4, <1>5, <1>6 DEF Levels
<1> QED BY <1>7 DEF new

(* The block of a new record is one level down.                            *)
LEMMA InsertLevels ==
  ASSUME Inv, Insert, NEW lev \in [Addr -> Nat], Levels(lev), lev[dir_address] = part_i
  PROVE  \E new \in [Addr -> Nat] :
           /\ Levels(new)'
           /\ new[dir_address] = part_i /\ new[dir_first_address'] = part_i + 1
<1>1. PICK i \in Slots, b \in Addr :
        /\ Here[i].perm = "none" /\ map[b].type = "EMPTY"
        /\ dir_address \in Addr /\ b # dir_address
        /\ \A e \in Entries :
             map'[e] = IF e = b THEN [type |-> NewType, next |-> 0] ELSE map[e]
        /\ \A a \in Addr, t \in Slots :
             disk'[a].recs[t] = IF a = dir_address /\ t = i THEN NewRec(b)
                                ELSE disk[a].recs[t]
        /\ dir_first_address' = b
  BY InsertEffect
<1>0. PICK new : new = [lev EXCEPT ![b] = part_i + 1]
  OBVIOUS
<1>2. part_i \in Nat /\ boot.root \in Addr /\ \A a \in Addr : Link(map, a) \in Addr
  BY PartTypes, Geometry DEF Inv, TypeOK, Link
<1>3. /\ \A a \in Addr : new[a] = IF a = b THEN part_i + 1 ELSE lev[a]
      /\ new \in [Addr -> Nat]
  BY <1>0, <1>2
<1>4. Formatted /\ pc # "idle" /\ Creates /\ part_i <= Len(req.path) /\ boot' = boot
  BY DEF Insert, Formatted, Inv, Control
<1>5. \A o \in Sites : Target(o) # b
  BY <1>1, <1>4, FreeBlock
<1>6. /\ boot.root # b /\ b # 0 /\ \A c \in Addr : Link(map, c) # b
      /\ \A a \in Addr, s \in Slots : IsRecord(a, s) => disk[a].recs[s].addr # b
      /\ \A s \in Slots : ~InUse(disk[b].recs[s])
  <2>1. b # 0 /\ \A s \in Slots : ~InUse(disk[b].recs[s])
    BY <1>1, <1>4, FreeBlock
  <2>2. boot.root # b /\ \A c \in Addr : Link(map, c) # b
    BY <1>5, SiteKinds, TargetNow, LinkTarget
  <2>3. \A a \in Addr, s \in Slots : IsRecord(a, s) => disk[a].recs[s].addr # b
    BY <1>5, SiteKinds, TargetNow
  <2> QED BY <2>1, <2>2, <2>3
<1>7. boot'.root # 0 => new[boot'.root] = 1
  BY <1>2, <1>3, <1>4, <1>6 DEF Levels
<1>8. ASSUME NEW a \in Addr, Link(map', a) # 0 PROVE new[Link(map', a)] = new[a]
  <2>1. a # b /\ Link(map', a) = Link(map, a)
    BY <1>1, <1>8, Geometry DEF Link
  <2> QED BY <1>2, <1>3, <1>6, <1>8, <2>1 DEF Levels
<1>9. ASSUME NEW a \in Addr, NEW s \in Slots, InUse(disk'[a].recs[s])
      PROVE  LET r == disk'[a].recs[s] IN
               AtDepth(r.name, new[a]) /\ new[r.addr] = new[a] + 1
  <2>1. CASE a = dir_address /\ s = i
    <3>1. disk'[a].recs[s].name = Part /\ disk'[a].recs[s].addr = b
      BY <1>1, <2>1 DEF NewRec
    <3>2. new[a] = part_i /\ new[b] = part_i + 1
      BY <1>1, <1>3, <2>1
    <3> QED BY <1>4, <3>1, <3>2, WalkPath
  <2>2. CASE ~(a = dir_address /\ s = i)
    <3>1. disk'[a].recs[s] = disk[a].recs[s]
      BY <1>1, <2>2
    <3>2. InUse(disk[a].recs[s]) /\ a # b
      BY <1>6, <1>9, <3>1
    <3>3. disk[a].recs[s].addr \in Addr /\ disk[a].recs[s].addr # b
      BY <1>6, <3>2, RecordHead
    <3> QED BY <1>3, <3>1, <3>2, <3>3 DEF Levels
  <2> QED BY <2>1, <2>2
<1>10. Levels(new)'
  BY <1>7, <1>8, <1>9 DEF Levels
<1>11. new[dir_address] = part_i /\ new[dir_first_address'] = part_i + 1
  BY <1>1, <1>3
<1> QED BY <1>3, <1>10, <1>11

-----------------------------------------------------------------------------
(* Trails, after a step that writes.                                       *)

LEMMA TrailKept ==
  ASSUME NEW S, NEW p, NEW perms, NEW n, Trail(S, p, perms, n), boot'.root = boot.root,
         \A d, r : \A i \in 1 .. n : LeadsTo(d, p[i], perms, r) => LeadsTo(d, p[i], perms, r)'
  PROVE  Trail(S, p, perms, n)'
<1>1. RootRec' = RootRec
  BY DEF RootRec, NoRec
<1> QED BY <1>1 DEF Trail

(* The records of one name are the same ones as before.                    *)
SameHits(name, perms) ==
  \A a \in Addr, s \in Slots :
    /\ IsHit(disk[a].recs[s], name, perms) => disk'[a].recs[s] = disk[a].recs[s]
    /\ IsHit(disk'[a].recs[s], name, perms) => IsHit(disk[a].recs[s], name, perms)

LEMMA StillLeads ==
  ASSUME NEW d, NEW name, NEW perms, NEW r, LeadsTo(d, name, perms, r),
         SameHits(name, perms),
         \A c \in Addr : Link(map', c) = Link(map, c) /\ (InFork(map[c]) => InFork(map'[c]))
  PROVE  LeadsTo(d, name, perms, r)'
<1>1. PICK f : /\ IsChain(f, d.addr, map)
               /\ \E j \in 1 .. Len(f), s \in Slots :
                    FirstAt(f, j, s, name, perms) /\ r = disk[f[j]].recs[s]
  BY DEF LeadsTo
<1>2. PICK j \in 1 .. Len(f), s \in Slots :
        FirstAt(f, j, s, name, perms) /\ r = disk[f[j]].recs[s]
  BY <1>1
<1>3. \A i \in 1 .. Len(f) : f[i] \in Addr
  BY <1>1, ChainTypes
<1>4. IsChain(f, d.addr, map')
  <2>1. PICK m : m = map
    OBVIOUS
  <2>2. PICK n : n = map'
    OBVIOUS
  <2>3. \A i \in 1 .. Len(f) : Link(n, f[i]) = Link(m, f[i])
    BY <1>3, <2>1, <2>2
  <2>4. IsChain(f, d.addr, n)
    BY <1>1, <2>1, <2>3, SameChain
  <2> QED BY <2>2, <2>4
<1>5. disk'[f[j]].recs[s] = r /\ IsHit(r, name, perms)
  BY <1>2, <1>3 DEF SameHits, FirstAt
<1>6. FirstAt(f, j, s, name, perms)'
  <2>1. \A i \in 1 .. Len(f), t \in Slots :
          IsHit(disk'[f[i]].recs[t], name, perms) => j < i \/ (j = i /\ s <= t)
    BY <1>2, <1>3 DEF SameHits, FirstAt
  <2> QED BY <1>5, <2>1 DEF FirstAt, IsHit
<1>7. IsChain(f, d.addr, map)'
  BY <1>4 DEF IsChain
<1>8. d.type = "DIR" /\ InFork(map'[d.addr])
  <2>1. d.addr \in Addr
    BY <1>1, ChainTypes
  <2> QED BY <2>1 DEF LeadsTo
<1> QED BY <1>5, <1>6, <1>7, <1>8 DEF LeadsTo, InFork

(* A block that is linked to the end of a fork has no record in use.       *)
LEMMA LeadsAfterLink ==
  ASSUME Inv, Formatted, NEW x \in Addr, NEW b \in Addr, NEW t \in {"FILE", "DIR"},
         LinksTo(x, b, t), disk' = disk,
         NEW d, NEW name \in Names, NEW perms \in SUBSET AnyPerm, NEW r,
         LeadsTo(d, name, perms, r)
  PROVE  LeadsTo(d, name, perms, r)'
<1>1. PICK f : /\ IsChain(f, d.addr, map)
               /\ \E j \in 1 .. Len(f), s \in Slots :
                    FirstAt(f, j, s, name, perms) /\ r = disk[f[j]].recs[s]
  BY DEF LeadsTo
<1>2. PICK j \in 1 .. Len(f), s \in Slots :
        FirstAt(f, j, s, name, perms) /\ r = disk[f[j]].recs[s]
  BY <1>1
<1>3. /\ b \in Addr \ {0} /\ x # b /\ Link(map, x) = 0
      /\ \A c \in Addr : Link(map, c) # b
      /\ \A c \in Addr : Link(map', c) = IF c = x THEN b ELSE IF c = b THEN 0 ELSE Link(map, c)
  BY LinkFacts
<1>4. \A u \in Slots : ~IsHit(disk[b].recs[u], name, perms)
  <2> SUFFICES ASSUME NEW u \in Slots, IsHit(disk[b].recs[u], name, perms) PROVE FALSE
    OBVIOUS
  <2>1. IsHit(disk[b].recs[u], name, AnyPerm)
    BY DEF IsHit
  <2>2. IsRecord(b, u)
    BY <2>1, HitRecord
  <2> QED BY <2>2, LinkFacts DEF IsRecord
<1>5. /\ Len(f) \in Nat \ {0} /\ f \in Seq(Addr) /\ d.addr = f[1]
      /\ \A i \in 1 .. Len(f) : f[i] \in Addr /\ f[i] # 0
  BY <1>1, ChainTypes
<1>6. d.addr # b
  <2> SUFFICES ASSUME f[1] = b PROVE FALSE
    BY <1>5
  <2>1. Link(map, b) = 0
    BY DEF LinksTo, Link, InFork
  <2>2. Len(f) = 1
    <3>0. SUFFICES ASSUME Len(f) # 1 PROVE FALSE
      OBVIOUS
    <3>a. PICK l \in Nat : l = Len(f) /\ l # 0
      BY <1>5
    <3>b. 1 \in 1 .. l - 1 /\ 2 \in 1 .. l
      BY <3>0, <3>a
    <3>1. 1 \in 1 .. Len(f) - 1 /\ 2 \in 1 .. Len(f)
      BY <3>a, <3>b
    <3>2. Link(map, f[1]) = f[2]
      BY <1>1, <3>1 DEF IsChain
    <3> QED BY <1>5, <2>1, <3>1, <3>2
  <2>3. f[j] = b
    BY <2>2
  <2> QED BY <1>2, <1>4, <2>3 DEF FirstAt
<1>13. d.type = "DIR" /\ InFork(map'[d.addr])
  <2>1. d.addr \in Addr /\ d.addr \in Entries /\ d.type = "DIR" /\ InFork(map[d.addr])
    <3>1. d.addr \in Addr
      BY <1>1, ChainTypes
    <3> QED BY <3>1, Geometry DEF LeadsTo
  <2>2. d.addr # b
    <3>1. map[b].type = "EMPTY"
      BY DEF LinksTo
    <3> QED BY <2>1, <3>1 DEF InFork
  <2>3. map'[d.addr].type = map[d.addr].type
    BY <2>1, <2>2 DEF LinksTo
  <2> QED BY <2>1, <2>3 DEF InFork
<1>7. PICK g : /\ IsChain(g, d.addr, map')
               /\ g = f \/ g = Append(f, b)
  <2>1. PICK m : m = map
    OBVIOUS
  <2>2. PICK n : n = map'
    OBVIOUS
  <2>3. PICK a : a = d.addr
    OBVIOUS
  <2>4. /\ IsChain(f, a, m) /\ a # b /\ Link(m, x) = 0 /\ \A c \in Addr : Link(m, c) # b
        /\ \A c \in Addr : Link(n, c) = IF c = x THEN b ELSE IF c = b THEN 0 ELSE Link(m, c)
    BY <1>1, <1>3, <1>6, <2>1, <2>2, <2>3
  <2>5. IF f[Len(f)] = x THEN IsChain(Append(f, b), a, n) ELSE IsChain(f, a, n)
    BY <1>3, <2>4, LinkedChain
  <2> QED BY <2>2, <2>3, <2>5
<1>8. Len(f) <= Len(g) /\ Len(g) \in Nat /\ \A i \in 1 .. Len(f) : g[i] = f[i]
  BY <1>5, <1>7
<1>9. \A i \in 1 .. Len(g) : i \in 1 .. Len(f) \/ g[i] = b
  BY <1>5, <1>7
<1>10. FirstAt(g, j, s, name, perms)'
  <2>1. IsHit(disk'[g[j]].recs[s], name, perms)
    BY <1>2, <1>8 DEF FirstAt
  <2>2. ASSUME NEW i \in 1 .. Len(g), NEW u \in Slots, IsHit(disk'[g[i]].recs[u], name, perms)
        PROVE  j < i \/ (j = i /\ s <= u)
    <3>1. i \in 1 .. Len(f) /\ g[i] = f[i]
      BY <1>4, <1>8, <1>9, <2>2
    <3> QED BY <1>2, <2>2, <3>1 DEF FirstAt
  <2> QED BY <2>1, <2>2 DEF FirstAt, IsHit
<1>11. r = disk'[g[j]].recs[s] /\ j \in 1 .. Len(g)
  BY <1>2, <1>5, <1>8
<1>12. IsChain(g, d.addr, map)' /\ d.type = "DIR"
  BY <1>7 DEF IsChain, LeadsTo
<1> QED BY <1>10, <1>11, <1>12, <1>13 DEF LeadsTo, InFork

LEMMA SameFollowing ==
  ASSUME disk' = disk, map' = map, boot'.root = boot.root, req' = req,
         NEW S, NEW n, Following(S, n)
  PROVE  Following(S, n)'
<1>1. PICK p : p = req.path
  OBVIOUS
<1>2. PICK perms : perms = Taken
  OBVIOUS
<1>3. Trail(S, p, perms, n)'
  BY <1>1, <1>2, SameTrail DEF Following
<1> QED BY <1>1, <1>2, <1>3 DEF Following, Taken, AnyPerm, Trail

-----------------------------------------------------------------------------
(* The steps that do not walk for mkdir or add.                            *)

LEMMA OutsideWalk ==
  ASSUME NEW lev \in [Addr -> Nat], Levels(lev)', ~(pc' = "search" /\ Creates'),
         pc' \notin {"insert", "clear"}, MkdirControl', Made'
  PROVE  DirInv'
<1>1. WalkLevel(lev)' /\ Searching(lev)'
  BY DEF WalkLevel, Searching, Walking
<1>2. LevelInv'
  BY <1>1 DEF LevelInv
<1> QED BY <1>2 DEF DirInv, Inserting, Clearing

LEMMA NoMkdir ==
  ASSUME NEW lev \in [Addr -> Nat], Levels(lev)', ~(pc' = "search" /\ Creates'),
         pc' \notin {"insert", "clear"}, req'.op # "mkdir"
  PROVE  DirInv'
BY OutsideWalk DEF MkdirControl, Made

LEMMA QuietFewer ==
  ASSUME Inv, Quiet PROVE SameOrFewer
BY QuietSteps DEF SameOrFewer

(* A map that a format has set up holds no fork.                           *)
LEMMA FormatLinks ==
  ASSUME FmtBoot \/ \E r \in Requests : GenFs(r)
  PROVE  \A c \in Addr : Link(map', c) = 0
<1>1. CASE FmtBoot
  <2> PICK stray \in [Addr \ OnHeap -> Heap] : map' = FreshMap(stray)
    BY <1>1 DEF FmtBoot
  <2> QED BY FreshTypes, Geometry DEF Link
<1>2. CASE \E r \in Requests : GenFs(r)
  BY <1>2, Geometry DEF GenFs, ZeroMap, EmptyPtr, Link
<1> QED BY <1>1, <1>2

LEMMA DataSteps ==
  ASSUME Inv, DirInv,
         \/ FmtBoot \/ FmtRoot \/ FmtZero \/ BootLoader \/ Write \/ Record \/ Trim
         \/ \E r \in Requests : GenFs(r)
  PROVE  DirInv'
<1>0. TypeOK /\ Control /\ MkdirControl
  BY DEF Inv, DirInv
<1>1. /\ pc' \notin {"search", "insert", "clear"}
      /\ req'.op # "mkdir"
  BY <1>0 DEF FmtBoot, FmtRoot, FmtZero, BootLoader, Write, Record, Trim, GenFs, Finish, MkdirControl
<1>2. PICK lev \in [Addr -> Nat] : Levels(lev)
  BY DEF DirInv, LevelInv
<1>3. ASSUME SameOrFewer PROVE DirInv'
  <2>1. Levels(lev)'
    BY <1>2, <1>3, SameLevels
  <2> QED BY <1>1, <2>1, NoMkdir
<1>4. CASE FmtBoot \/ \E r \in Requests : GenFs(r)
  <2>1. \A c \in Addr : Link(map', c) = 0
    BY <1>4, FormatLinks
  <2>2. \A s \in Slots : ~InUse(ZeroBlock.recs[s])
    BY DEF ZeroBlock, NoRec, InUse
  <2>3. boot'.root \in {0, boot.root}
    BY <1>0, <1>4 DEF FmtBoot, GenFs, TypeOK
  <2>4. \A a \in Addr : disk'[a] \in {disk[a], ZeroBlock}
    BY <1>4 DEF FmtBoot, GenFs
  <2> QED BY <1>3, <2>1, <2>2, <2>3, <2>4 DEF SameOrFewer
<1>5. CASE FmtZero \/ BootLoader
  <2>1. \A src, n : \A s \in Slots : /\ ~InUse(ZeroBlock.recs[s])
                                      /\ ~InUse(LoaderBlock(src, n).recs[s])
    BY DEF ZeroBlock, LoaderBlock, NoRec, JunkRec, InUse
  <2>2. map' = map /\ boot' = boot
    BY <1>5 DEF FmtZero, BootLoader
  <2>3. \A a \in Addr : \/ disk'[a] = disk[a] \/ disk'[a] = ZeroBlock
                        \/ \E src, n : disk'[a] = LoaderBlock(src, n)
    BY <1>0, <1>5 DEF FmtZero, BootLoader, TypeOK
  <2> QED BY <1>3, <2>1, <2>2, <2>3 DEF SameOrFewer
<1>6. CASE Record
  <2>1. boot' = boot
    BY <1>6 DEF Record
  <2>2. \A c \in Addr : Link(map', c) \in {0, Link(map, c)}
    BY <1>6, RecordEffect, Geometry DEF Link, InFork
  <2> QED BY <1>3, <1>6, <2>1, <2>2, RecordEffect, Geometry DEF SameOrFewer
<1>7. CASE Trim
  <2>1. EmptyPtr.next = 0
    BY DEF EmptyPtr
  <2>2. \A c \in Addr : Link(map', c) \in {0, Link(map, c)}
    BY <1>7, <2>1, TrimEffect, Geometry DEF Link
  <2> QED BY <1>3, <1>7, <2>2, TrimEffect, Geometry DEF SameOrFewer
<1>8. CASE FmtRoot
  <2>1. PICK b \in Addr : /\ IsFirstFree(b) /\ map' = Allocated(b, "DIR")
                          /\ boot' = [boot EXCEPT !.root = b]
    BY <1>8 DEF FmtRoot
  <2>2. \A c \in Addr : Link(map', c) = 0
    <3>1. \A e \in Entries : ~InFork(map[e])
      BY <1>8 DEF FmtRoot, Inv, Blank, InFork
    <3>2. \A e \in Entries : map'[e] = IF e = b THEN [type |-> "DIR", next |-> 0] ELSE map[e]
      BY <1>0, <2>1, AllocatedEntries DEF Types
    <3> QED BY <3>1, <3>2, Geometry DEF Link
  <2>3. boot'.root = b /\ disk' = disk
    BY <1>0, <1>8, <2>1 DEF FmtRoot, TypeOK
  <2>4. \A a \in Addr, s \in Slots : ~InUse(disk'[a].recs[s])
    BY <1>8, <2>3 DEF FmtRoot, Inv, Blank
  <2>5. PICK new : new = [a \in Addr |-> 1]
    OBVIOUS
  <2>6. Levels(new)'
    BY <2>2, <2>3, <2>4, <2>5 DEF Levels
  <2> QED BY <1>1, <2>5, <2>6, NoMkdir
<1>9. CASE Write
  <2>1. /\ boot' = boot /\ Formatted /\ file_address \in Addr
    BY <1>0, <1>9 DEF Write, Formatted, TypeOK
  <2>2. \A a \in Addr, s \in Slots :
          InUse(disk'[a].recs[s]) => disk'[a].recs[s] = disk[a].recs[s]
    BY <1>9, WriteEffect, EmptyNotInUse
  <2>3. CASE map' = map
    BY <1>3, <2>1, <2>2, <2>3 DEF SameOrFewer
  <2>4. CASE \E b \in Addr : LinksTo(file_address, b, "FILE")
    <3>1. PICK b \in Addr, x \in Addr, t \in {"FILE", "DIR"} :
             LinksTo(x, b, t) /\ x = file_address /\ t = "FILE"
      BY <2>1, <2>4
    <3>2. Levels([lev EXCEPT ![b] = lev[x]])'
      BY <1>2, <2>1, <2>2, <3>1, GrownLevels
    <3>3. PICK new \in [Addr -> Nat] : new = [lev EXCEPT ![b] = lev[x]]
      OBVIOUS
    <3>4. Levels(new)'
      BY <3>2, <3>3
    <3> QED BY <1>1, <3>4, NoMkdir
  <2> QED BY <1>9, <2>3, <2>4, WriteEffect
<1> QED BY <1>4, <1>5, <1>6, <1>7, <1>8, <1>9

(* The steps that neither write nor lead the walk of mkdir or add on.      *)
LEMMA QuietOutside ==
  ASSUME Inv, DirInv, Quiet, ~(pc' = "search" /\ Creates'), pc' \notin {"insert", "clear"}
  PROVE  DirInv'
<1> USE DEF image, walk, rec, fork
<1>0. TypeOK /\ Control /\ MkdirControl
  BY DEF Inv, DirInv
<1>1. /\ disk' = disk /\ map' = map /\ boot'.root = boot.root
  BY QuietSteps
<1>2. PICK lev \in [Addr -> Nat] : Levels(lev) /\ Searching(lev)
  BY DEF DirInv, LevelInv
<1>3. Levels(lev)'
  BY <1>2, QuietFewer, SameLevels
<1>4. CASE req'.op # "mkdir"
  BY <1>3, <1>4, NoMkdir
<1>5. CASE req'.op = "mkdir" /\ pc # "idle"
  <2>1. \/ UNCHANGED vars \/ Umount \/ Unmounted
        \/ (WalkDone /\ req' = req) \/ (pc' = "umount" /\ ret' = 1)
    <3>1. pc \in {"search", "insert", "clear", "umount", "exit"} \/ Exit
      <4>1. UNCHANGED req \/ UNCHANGED vars \/ Exit \/ \E r \in Requests : Start(r) \/ MountFails(r)
        BY DEF Quiet, BootSect, Found, SearchOn, NotFound, InsertOn, NoRoom, WalkDone, SourceEnds,
           List, Read, Umount, Unmounted
      <4> QED BY <1>0, <1>5, <4>1 DEF MkdirControl, Start, MountFails, vars
    <3>2. ~Exit
      BY <1>5 DEF Exit, ProcessEnds, NoRequest
    <3>3. SearchOn => pc' = "search" /\ req' = req
      BY DEF SearchOn, Search
    <3>4. NotFound \/ NoRoom => pc' = "insert" \/ (pc' = "umount" /\ ret' = 1)
      BY DEF NotFound, NoRoom, Finish
    <3>5. Found => (pc' = "search" /\ req' = req) \/ (pc' = "umount" /\ ret' = 1)
      BY DEF Found, Search, Enter, EnterOrOpen, Reject, Follow, NextPart, Finish
    <3>6. InsertOn => pc' = "insert"
      BY DEF InsertOn
    <3>7. WalkDone => req' = req
      BY DEF WalkDone
    <3>8. ~BootSect /\ ~SourceEnds /\ ~List /\ ~Read /\ \A r \in Requests : ~Start(r) /\ ~MountFails(r)
      BY <1>5, <3>1, <3>2 DEF BootSect, SourceEnds, List, Read, Start, MountFails, vars
    <3> QED BY <1>5, <3>2, <3>3, <3>4, <3>5, <3>6, <3>7, <3>8 DEF Quiet, Creates
  <2>2. pc' \in {"umount", "exit"}
    BY <1>0, <1>5, <2>1 DEF vars, Umount, Unmounted, WalkDone, AfterPath, MkdirControl, Creates
  <2>3. CASE (pc' = "umount" /\ ret' = 1)
    BY <1>3, <2>3, OutsideWalk DEF MkdirControl, Made
  <2>4. CASE UNCHANGED vars \/ Umount \/ Unmounted
    <3>1. req' = req /\ ret' = ret /\ pc \in {"umount", "exit"}
      BY <2>2, <2>4 DEF vars, Umount, Unmounted
    <3>2. Made'
      <4> SUFFICES ASSUME ret = 0 PROVE Made'
        BY <3>1 DEF Made
      <4>1. PICK S : Following(S, Len(req.path))
        BY <1>5, <3>1 DEF DirInv, Made
      <4> QED BY <1>1, <3>1, <4>1, SameFollowing DEF Made
    <3> QED BY <1>3, <2>2, <3>2, OutsideWalk DEF MkdirControl
  <2>5. CASE WalkDone /\ req' = req
    <3>1. PathDone /\ ret' = ret /\ Creates
      BY <1>5, <2>5 DEF WalkDone, Creates
    <3>2. PICK S : Following(S, part_i - 1)
      BY <1>2, <3>1 DEF Searching, PathDone
    <3>3. part_i - 1 = Len(req.path)
      BY <1>2, <3>1, WalkPath DEF Searching, PathDone
    <3>4. Made'
      BY <1>1, <2>5, <3>2, <3>3, SameFollowing DEF Made
    <3> QED BY <1>3, <2>2, <3>4, OutsideWalk DEF MkdirControl
  <2> QED BY <2>1, <2>3, <2>4, <2>5
<1>6. CASE req'.op = "mkdir" /\ pc = "idle"
  <2>1. PICK r \in Requests : Start(r) \/ MountFails(r)
    BY <1>0, <1>6 DEF Quiet, BootSect, Found, SearchOn, NotFound, Search, InsertOn, NoRoom, WalkDone, PathDone,
       SourceEnds, List, Read, Umount, Unmounted, Exit, MkdirControl, vars
  <2>2. ~Start(r)
    BY <1>6 DEF Start, FirstStep, Creates
  <2>3. MountFails(r)
    BY <2>1, <2>2
  <2> QED BY <1>3, <2>3, OutsideWalk DEF MountFails, MkdirControl, Made
<1> QED BY <1>4, <1>5, <1>6

-----------------------------------------------------------------------------
(* The walk of mkdir and add.                                              *)

LEMMA WalkGoesOn ==
  ASSUME NEW lev \in [Addr -> Nat], Levels(lev)', WalkLevel(lev)',
         \/ pc' = "search" /\ Searching(lev)'
         \/ pc' = "insert" /\ Inserting'
         \/ pc' = "clear" /\ Clearing'
  PROVE  DirInv'
<1>1. LevelInv'
  BY DEF LevelInv, Searching
<1> QED BY <1>1 DEF DirInv, Inserting, Clearing, MkdirControl, Made

(* A walk that enters a directory reads the first of its blocks.           *)
LEMMA LooksFirst ==
  ASSUME Inv, ForkInv, NEW lev, NEW d, d.type = "DIR", d.addr \in Addr \ {0},
         d.addr = dir_first_address', d.addr = dir_address', map' = map
  PROVE  Looking(lev, d)'
<1>1. PICK f : IsChain(f, d.addr, map)
  BY DEF ForkInv, Chained
<1>2. /\ IsChain(f, dir_first_address, map)'
      /\ 1 \in 1 .. Len(f) /\ f[1] = dir_address'
  BY <1>1, ChainTypes DEF IsChain
<1>3. Clean(f, 1 - 1)'
  BY DEF Clean
<1> QED BY <1>2, <1>3 DEF Looking

(* The part as mkdir and add look for it.                                  *)
LEMMA MatchIsHit ==
  ASSUME TypeOK, Creates
  PROVE  \A t \in Slots : Matches(Here[t]) <=> IsHit(disk[dir_address].recs[t], Part, Taken)
<1>1. \A t \in Slots : Here[t] = disk[dir_address].recs[t] /\ Here[t].perm \in Perms
  BY PartTypes DEF Here, TypeOK
<1>2. CASE req.op = "mkdir"
  BY <1>1, <1>2 DEF Matches, IsHit, Taken
<1>3. CASE req.op = "add"
  BY <1>1, <1>3 DEF Matches, IsHit, Taken, AnyPerm
<1> QED BY <1>2, <1>3 DEF Creates

LEMMA WalkStarts ==
  ASSUME Inv, ForkInv, DirInv, NEW r \in Requests, Start(r), r.op \in {"mkdir", "add"}
  PROVE  DirInv'
<1> USE DEF image, walk, rec, fork
<1>1. PICK lev \in [Addr -> Nat] : Levels(lev)
  BY DEF DirInv, LevelInv
<1>2. Levels(lev)'
  BY <1>1, QuietFewer, SameLevels DEF Quiet
<1>3. /\ pc = "idle" /\ pc' = "search" /\ req' = r /\ map' = map /\ boot' = boot /\ disk' = disk
      /\ part_i' = 1 /\ dir_address' = boot.root /\ dir_first_address' = boot.root
  BY DEF Start, FirstStep, Inv, Control, UmountSound
<1>4. boot.root \in Addr /\ boot.root # 0
  BY <1>3 DEF Start, Mountable, Inv, Blank, TypeOK
<1>5. WalkLevel(lev)'
  BY <1>1, <1>3, <1>4 DEF WalkLevel, Levels
<1>6. PICK d : d = RootRec
  OBVIOUS
<1>7. RootRec' = d /\ d.type = "DIR" /\ d.addr = boot.root
  BY <1>3, <1>6 DEF RootRec, NoRec
<1>8. PICK S : S = [i \in {0} |-> d]
  OBVIOUS
<1>9. S[0] = d /\ part_i' - 1 = 0
  BY <1>3, <1>8
<1>10. Following(S, part_i - 1)'
  BY <1>7, <1>9 DEF Following, Trail
<1>11. Looking(lev, d)'
  BY <1>3, <1>4, <1>7, LooksFirst
<1>12. Len(r.path) \in Nat
  BY RequestTypes
<1>13. Searching(lev)'
  BY <1>3, <1>9, <1>10, <1>11, <1>12 DEF Searching
<1> QED BY <1>2, <1>3, <1>5, <1>13, WalkGoesOn

LEMMA WalkFinds ==
  ASSUME Inv, ForkInv, DirInv, Layered, Found, Creates, pc' = "search"
  PROVE  DirInv'
<1> USE DEF image, walk, rec, fork
<1>0. /\ TypeOK /\ disk' = disk /\ map' = map /\ boot' = boot /\ req' = req
      /\ Search /\ pc = "search"
  BY DEF Inv, Found, Search
<1>1. PICK lev \in [Addr -> Nat] : Levels(lev) /\ Searching(lev)
  BY DEF DirInv, LevelInv
<1>2. Levels(lev)'
  BY <1>1, QuietFewer, SameLevels DEF Quiet
<1>3. PICK s \in Slots :
        /\ FirstMatch(s)
        /\ Enter(Here[s]) \/ EnterOrOpen(Here[s], s) \/ Reject(Here[s]) \/ Follow(Here[s])
  BY DEF Found
<1>4. PICK a \in Addr : a = dir_address
  BY <1>0 DEF TypeOK
<1>5. PICK r : r = disk[a].recs[s] /\ r = Here[s]
  BY <1>4 DEF Here
<1>6. /\ InUse(r) /\ r.addr \in Addr \ {0} /\ r.type \in {"FILE", "DIR"}
      /\ r.perm = "ifdir" => r.type = "DIR"
  BY <1>0, <1>3, <1>5, FoundRecord DEF FirstMatch
<1>7. /\ part_i' = part_i + 1
      /\ part_i < Len(req.path) => /\ r.type = "DIR"
                                   /\ dir_address' = r.addr /\ dir_first_address' = r.addr
  <2>1. ~Reject(r) /\ ~Follow(r)
    BY DEF Reject, Finish, Follow, Creates
  <2>2. CASE Enter(r)
    <3>1. req.op = "mkdir"
      BY <2>2 DEF Enter, Creates
    <3>2. r.perm = "ifdir"
      BY <1>3, <1>5, <3>1 DEF FirstMatch, Matches
    <3> QED BY <1>6, <2>2, <3>1, <3>2 DEF Enter, NextPart
  <2>3. CASE EnterOrOpen(r, s)
    BY <1>6, <2>3 DEF EnterOrOpen, PathMisused, MoreParts, NextPart
  <2> QED BY <1>3, <1>5, <2>1, <2>2, <2>3
<1>8. /\ part_i \in 1 .. Len(req.path) /\ Len(req.path) \in Nat
      /\ Part = req.path[part_i] /\ AtDepth(Part, part_i)
  BY <1>0, WalkPath DEF Search
<1>9. /\ IsHit(r, Part, Taken)
      /\ \A t \in 1 .. s - 1 : ~IsHit(disk[a].recs[t], Part, Taken)
  <2>1. \A t \in 1 .. s - 1 : t \in Slots
    BY Geometry DEF Slots
  <2> QED BY <1>0, <1>3, <1>4, <1>5, <2>1, MatchIsHit DEF FirstMatch
<1>10. lev[a] = part_i /\ lev[r.addr] = part_i + 1
  <2>1. AtDepth(r.name, lev[a]) /\ lev[r.addr] = lev[a] + 1
    BY <1>1, <1>5, <1>6 DEF Levels
  <2>2. r.name = Part
    BY <1>9 DEF IsHit
  <2> QED BY <1>8, <2>1, <2>2 DEF Layered
<1>11. PICK S : Following(S, part_i - 1) /\ Looking(lev, S[part_i - 1])
  BY <1>0, <1>1, <1>8 DEF Searching
<1>12. PICK d : d = S[part_i - 1]
  OBVIOUS
<1>13. PICK f : /\ IsChain(f, d.addr, map)
                /\ \E k \in 1 .. Len(f) : f[k] = a /\ Clean(f, k - 1)
  BY <1>4, <1>8, <1>10, <1>11, <1>12 DEF Looking
<1>14. PICK k \in 1 .. Len(f) : f[k] = a /\ Clean(f, k - 1)
  BY <1>13
<1>15. FirstAt(f, k, s, Part, Taken)
  <2>1. SUFFICES ASSUME NEW i \in 1 .. Len(f), NEW t \in Slots,
                        IsHit(disk[f[i]].recs[t], Part, Taken)
                 PROVE  k < i \/ (k = i /\ s <= t)
    BY <1>5, <1>9, <1>14 DEF FirstAt
  <2>2. i \in Nat /\ k \in Nat /\ s \in Nat /\ t \in Nat /\ 1 <= t /\ 1 <= i /\ Len(f) \in Nat
    BY <1>13, ChainTypes, Geometry DEF Slots
  <2>3. ~(i < k)
    BY <1>14, <2>1, <2>2 DEF Clean
  <2>4. i = k => ~(t < s)
    BY <1>9, <1>14, <2>1, <2>2
  <2> QED BY <2>2, <2>3, <2>4
<1>16. LeadsTo(d, Part, Taken, r)
  <2>1. InFork(map[d.addr])
    BY <1>0, <1>8, <1>11, <1>12 DEF Looking, Inv, WalkSound, Walking, InFork
  <2> QED BY <1>5, <1>11, <1>12, <1>13, <1>14, <1>15, <2>1 DEF LeadsTo, Looking
<1>17. PICK T : Following(T, part_i) /\ T[part_i] = r
  <2>1. part_i \in Nat \ {0} /\ Part = req.path[part_i]
    BY <1>8
  <2>2. LeadsTo(S[part_i - 1], req.path[part_i], Taken, r)
    BY <1>12, <1>16, <2>1
  <2>3. Trail(S, req.path, Taken, part_i - 1)
    BY <1>11 DEF Following
  <2>4. PICK p, perms, n : p = req.path /\ perms = Taken /\ n = part_i
    OBVIOUS
  <2>5. n \in Nat \ {0} /\ Trail(S, p, perms, n - 1) /\ LeadsTo(S[n - 1], p[n], perms, r)
    BY <2>1, <2>2, <2>3, <2>4
  <2>6. \E T : Trail(T, p, perms, n) /\ T[n] = r
    BY <2>5, LongerTrail
  <2> QED BY <2>4, <2>6 DEF Following
<1>18. PICK m : m = part_i /\ m = part_i' - 1
  BY <1>7, <1>8
<1>19. Following(T, part_i - 1)'
  <2>1. Following(T, m)'
    BY <1>0, <1>17, <1>18, SameFollowing
  <2> QED BY <1>18, <2>1 DEF Following
<1>20. part_i' <= Len(req'.path) => Looking(lev, T[part_i - 1])'
  <2> SUFFICES ASSUME part_i' <= Len(req'.path) PROVE Looking(lev, T[part_i - 1])'
    OBVIOUS
  <2>1. part_i < Len(req.path)
    BY <1>0, <1>7, <1>8
  <2>2. Looking(lev, r)'
    BY <1>0, <1>6, <1>7, <2>1, LooksFirst
  <2>3. T[part_i' - 1] = r
    BY <1>17, <1>18
  <2> QED BY <2>2, <2>3 DEF Looking
<1>21. Searching(lev)'
  BY <1>0, <1>7, <1>8, <1>19, <1>20 DEF Searching
<1>22. WalkLevel(lev)'
  BY <1>0, <1>7, <1>8, <1>10 DEF WalkLevel, Walking
<1> QED BY <1>2, <1>21, <1>22, WalkGoesOn

(* The next block of a chain.                                              *)
LEMMA ChainNext ==
  ASSUME TypeOK, NEW f, NEW a, IsChain(f, a, map), NEW k \in 1 .. Len(f), Link(map, f[k]) # 0
  PROVE  \E l \in 1 .. Len(f) : l = k + 1 /\ l - 1 = k /\ f[l] = Link(map, f[k])
<1>1. Len(f) \in Nat /\ k # Len(f)
  BY ChainTypes DEF IsChain
<1>2. PICK l \in 1 .. Len(f) : l = k + 1 /\ l - 1 = k
  BY <1>1
<1>3. k \in 1 .. Len(f) - 1
  BY <1>1
<1>4. f[l] = Link(map, f[k])
  BY <1>2, <1>3 DEF IsChain
<1> QED BY <1>2, <1>4

LEMMA ChainLast ==
  ASSUME NEW f, NEW a, IsChain(f, a, map), NEW k \in 1 .. Len(f), Link(map, f[k]) = 0
  PROVE  k = Len(f)
<1>1. Len(f) \in Nat \ {0} /\ \A i \in 1 .. Len(f) : f[i] # 0
  BY ChainTypes
<1>2. SUFFICES ASSUME k \in 1 .. Len(f) - 1 PROVE FALSE
  BY <1>1
<1>3. k + 1 \in 1 .. Len(f) /\ Link(map, f[k]) = f[k + 1]
  BY <1>1, <1>2 DEF IsChain
<1> QED BY <1>1, <1>3

LEMMA WalkSearchesOn ==
  ASSUME Inv, DirInv, SearchOn, Creates
  PROVE  DirInv'
<1> USE DEF image, walk, rec, fork
<1>0. /\ TypeOK /\ disk' = disk /\ map' = map /\ boot' = boot /\ req' = req /\ part_i' = part_i
      /\ dir_first_address' = dir_first_address
      /\ Search /\ pc = "search" /\ pc' = "search" /\ NoMatch
  BY DEF Inv, SearchOn, Search
<1>1. PICK lev \in [Addr -> Nat] : Levels(lev) /\ WalkLevel(lev) /\ Searching(lev)
  BY DEF DirInv, LevelInv
<1>2. Levels(lev)'
  BY <1>1, QuietFewer, SameLevels DEF Quiet
<1>3. PICK a \in Addr : a = dir_address
  BY <1>0 DEF TypeOK
<1>4. Link(map, a) # 0 /\ dir_address' = Link(map, a)
  <2>1. InFork(map[a])
    BY <1>0, <1>3 DEF Inv, WalkSound, Walking, Search, InFork
  <2> QED BY <1>3, <2>1 DEF SearchOn, HasNext, Link
<1>5. lev[dir_address'] = lev[a]
  BY <1>1, <1>4 DEF Levels
<1>6. WalkLevel(lev)'
  BY <1>0, <1>1 DEF WalkLevel, Walking, Creates
<1>7. \A t \in Slots : ~IsHit(disk[a].recs[t], Part, Taken)
  BY <1>0, <1>3, MatchIsHit DEF NoMatch
<1>8. part_i - 1 \in 0 .. Len(req.path) /\ part_i <= Len(req.path)
  BY <1>0, <1>1 DEF Searching, Search
<1>9. PICK S : Following(S, part_i - 1) /\ Looking(lev, S[part_i - 1])
  BY <1>0, <1>1, <1>8 DEF Searching
<1>10. PICK m, d : m = part_i - 1 /\ d = S[m]
  OBVIOUS
<1>11. Following(S, m)'
  BY <1>0, <1>9, <1>10, SameFollowing
<1>12. PICK f : /\ IsChain(f, dir_first_address, map)
                /\ \/ \E k \in 1 .. Len(f) : f[k] = dir_address /\ Clean(f, k - 1)
                   \/ Clean(f, Len(f)) /\ lev[dir_address] < part_i
  BY <1>9 DEF Looking
<1>13. IsChain(f, dir_first_address, map)'
  BY <1>0, <1>12 DEF IsChain
<1>14. \/ \E k \in 1 .. Len(f) : f[k] = dir_address' /\ Clean(f, k - 1)'
       \/ Clean(f, Len(f))' /\ lev[dir_address'] < part_i'
  <2>1. CASE Clean(f, Len(f)) /\ lev[dir_address] < part_i
    BY <1>0, <1>3, <1>5, <2>1 DEF Clean, Part, Taken, IsHit, AnyPerm
  <2>2. CASE \E k \in 1 .. Len(f) : f[k] = dir_address /\ Clean(f, k - 1)
    <3>1. PICK k \in 1 .. Len(f) : f[k] = a /\ Clean(f, k - 1)
      BY <1>3, <2>2
    <3>2. PICK l \in 1 .. Len(f) : l = k + 1 /\ l - 1 = k /\ f[l] = Link(map, a)
      BY <1>0, <1>4, <1>12, <3>1, ChainNext
    <3>3. Clean(f, k)
      <4> SUFFICES ASSUME NEW i \in 1 .. k, NEW t \in Slots
                   PROVE  ~IsHit(disk[f[i]].recs[t], Part, Taken)
        BY DEF Clean
      <4>1. k \in Nat
        BY <1>12, ChainTypes
      <4>2. i = k \/ i \in 1 .. k - 1
        BY <4>1
      <4> QED BY <1>7, <3>1, <4>2 DEF Clean
    <3>4. Clean(f, l - 1)'
      BY <1>0, <3>2, <3>3 DEF Clean, Part, Taken, IsHit, AnyPerm
    <3> QED BY <1>4, <3>2, <3>4
  <2> QED BY <1>12, <2>1, <2>2
<1>15. Looking(lev, d)'
  BY <1>0, <1>9, <1>10, <1>13, <1>14 DEF Looking
<1>16. Searching(lev)'
  <2>1. m = part_i' - 1 /\ part_i' - 1 \in 0 .. Len(req'.path)
    BY <1>0, <1>8, <1>10
  <2> QED BY <1>0, <1>10, <1>11, <1>15, <2>1 DEF Searching
<1> QED BY <1>0, <1>2, <1>6, <1>16, WalkGoesOn

(* The walk has read all blocks of the directory.                          *)
LEMMA WalkMisses ==
  ASSUME Inv, DirInv, NotFound, Creates
  PROVE  DirInv'
<1> USE DEF image, walk, rec, fork
<1>0. /\ TypeOK /\ disk' = disk /\ map' = map /\ boot' = boot /\ req' = req /\ part_i' = part_i
      /\ dir_first_address' = dir_first_address /\ dir_address' = dir_first_address
      /\ Search /\ pc = "search" /\ pc' = "insert" /\ NoMatch
  BY DEF Inv, NotFound, Search
<1>1. PICK lev \in [Addr -> Nat] : Levels(lev) /\ WalkLevel(lev) /\ Searching(lev)
  BY DEF DirInv, LevelInv
<1>2. Levels(lev)'
  BY <1>1, QuietFewer, SameLevels DEF Quiet
<1>3. PICK a \in Addr : a = dir_address
  BY <1>0 DEF TypeOK
<1>4. Link(map, a) = 0
  <2>1. map[a].type = "DIR"
    BY <1>0, <1>3 DEF Inv, WalkSound, Walking, Search
  <2>2. a # 0 /\ a < TotalBlocks
    BY <2>1, InUseNotZero, Geometry DEF Addr
  <2> QED BY <1>3, <2>2 DEF NotFound, HasNext, Link
<1>5. part_i \in Nat /\ part_i <= Len(req.path)
  BY <1>0 DEF TypeOK, Search
<1>6. WalkLevel(lev)'
  BY <1>0, <1>1, <1>5 DEF WalkLevel, Walking, Creates
<1>7. \A t \in Slots : ~IsHit(disk[a].recs[t], Part, Taken)
  BY <1>0, <1>3, MatchIsHit DEF NoMatch
<1>8. PICK S : Following(S, part_i - 1) /\ Looking(lev, S[part_i - 1])
  BY <1>0, <1>1, <1>5 DEF Searching
<1>9. PICK m, d : m = part_i - 1 /\ d = S[m]
  OBVIOUS
<1>10. Following(S, m)'
  BY <1>0, <1>8, <1>9, SameFollowing
<1>11. PICK f : /\ IsChain(f, dir_first_address, map)
                /\ \/ \E k \in 1 .. Len(f) : f[k] = dir_address /\ Clean(f, k - 1)
                   \/ Clean(f, Len(f)) /\ lev[dir_address] < part_i
  BY <1>8 DEF Looking
<1>12. Clean(f, Len(f))
  <2>1. CASE \E k \in 1 .. Len(f) : f[k] = dir_address /\ Clean(f, k - 1)
    <3>1. PICK k \in 1 .. Len(f) : f[k] = a /\ Clean(f, k - 1)
      BY <1>3, <2>1
    <3>2. Len(f) \in Nat \ {0}
      BY <1>11, ChainTypes
    <3>3. k = Len(f)
      BY <1>4, <1>11, <3>1, ChainLast
    <3>4. \A i \in 1 .. Len(f) : i = k \/ i \in 1 .. k - 1
      BY <3>2, <3>3
    <3> QED BY <1>7, <3>1, <3>4 DEF Clean
  <2> QED BY <1>11, <2>1
<1>13. Lacking(d)'
  <2>1. IsChain(f, dir_first_address, map)'
    BY <1>0, <1>11 DEF IsChain
  <2>2. Clean(f, Len(f))'
    BY <1>0, <1>12 DEF Clean, Part, Taken, IsHit, AnyPerm
  <2>3. f[1] = dir_address' /\ 1 \in 1 .. Len(f)
    BY <1>0, <1>11, ChainTypes
  <2> QED BY <1>0, <1>8, <1>9, <2>1, <2>2, <2>3 DEF Lacking, Looking
<1>14. Inserting'
  BY <1>0, <1>9, <1>10, <1>13 DEF Inserting
<1> QED BY <1>0, <1>2, <1>6, <1>14, WalkGoesOn

LEMMA WalkInsertsOn ==
  ASSUME Inv, DirInv, InsertOn
  PROVE  DirInv'
<1> USE DEF image, walk, rec, fork
<1>0. /\ TypeOK /\ disk' = disk /\ map' = map /\ boot' = boot /\ req' = req /\ part_i' = part_i
      /\ dir_first_address' = dir_first_address /\ pc = "insert" /\ pc' = "insert"
  BY DEF Inv, InsertOn
<1>1. PICK lev \in [Addr -> Nat] : Levels(lev) /\ WalkLevel(lev)
  BY DEF DirInv, LevelInv
<1>2. Levels(lev)'
  BY <1>1, QuietFewer, SameLevels DEF Quiet
<1>3. PICK a \in Addr : a = dir_address
  BY <1>0 DEF TypeOK
<1>4. Link(map, a) # 0 /\ dir_address' = Link(map, a)
  <2>1. InFork(map[a])
    BY <1>0, <1>3 DEF Inv, Control, WalkSound, Walking, InFork
  <2> QED BY <1>3, <2>1 DEF InsertOn, HasNext, Link
<1>5. lev[dir_address'] = lev[a]
  BY <1>1, <1>4 DEF Levels
<1>6. WalkLevel(lev)'
  BY <1>0, <1>1, <1>3, <1>5 DEF WalkLevel, Walking, Creates
<1>7. PICK S : Following(S, part_i - 1) /\ Lacking(S[part_i - 1])
  BY <1>0 DEF DirInv, Inserting
<1>8. PICK m, d : m = part_i - 1 /\ d = S[m]
  OBVIOUS
<1>9. Following(S, m)'
  BY <1>0, <1>7, <1>8, SameFollowing
<1>10. PICK f : /\ IsChain(f, dir_first_address, map) /\ Clean(f, Len(f))
                /\ \E k \in 1 .. Len(f) : f[k] = dir_address
  BY <1>7 DEF Lacking
<1>11. PICK k \in 1 .. Len(f) : f[k] = a
  BY <1>3, <1>10
<1>12. PICK l \in 1 .. Len(f) : f[l] = Link(map, a)
  BY <1>0, <1>4, <1>10, <1>11, ChainNext
<1>13. Lacking(d)'
  <2>1. IsChain(f, dir_first_address, map)'
    BY <1>0, <1>10 DEF IsChain
  <2>2. Clean(f, Len(f))'
    BY <1>0, <1>10 DEF Clean, Part, Taken, IsHit, AnyPerm
  <2> QED BY <1>0, <1>4, <1>7, <1>8, <1>12, <2>1, <2>2 DEF Lacking
<1>14. Inserting'
  BY <1>0, <1>8, <1>9, <1>13 DEF Inserting
<1> QED BY <1>0, <1>2, <1>6, <1>14, WalkGoesOn

(* What a walk has followed stays, when the records of its parts do.       *)
LEMMA FollowingKept ==
  ASSUME NEW S, NEW n, NEW p, NEW perms, p = req.path, perms = Taken, Following(S, n),
         boot'.root = boot.root, req' = req,
         \A d, r : \A i \in 1 .. n : LeadsTo(d, p[i], perms, r) => LeadsTo(d, p[i], perms, r)'
  PROVE  Following(S, n)'
<1>1. Trail(S, p, perms, n)'
  BY TrailKept DEF Following
<1> QED BY <1>1 DEF Following, Taken, AnyPerm, Trail

LEMMA TakenPerms == Taken \in SUBSET AnyPerm
BY DEF Taken, AnyPerm, Perms

LEMMA WalkExtends ==
  ASSUME Inv, DirInv, Extend
  PROVE  DirInv'
<1> USE DEF image, walk, rec, fork
<1>0. /\ TypeOK /\ disk' = disk /\ boot' = boot /\ req' = req /\ part_i' = part_i
      /\ dir_first_address' = dir_first_address /\ pc = "insert"
      /\ Formatted /\ pc # "idle" /\ Creates /\ part_i <= Len(req.path)
  BY DEF Inv, Extend, Formatted, Control
<1>1. PICK lev \in [Addr -> Nat] : Levels(lev) /\ WalkLevel(lev)
  BY DEF DirInv, LevelInv
<1>2. PICK x \in Addr, b \in Addr, t \in {"FILE", "DIR"} :
        /\ x = dir_address /\ LinksTo(x, b, t)
        /\ dir_address' = b \/ (dir_address' = dir_address /\ pc' = "umount")
  BY ExtendEffect
<1>3. PICK new \in [Addr -> Nat] : new = [lev EXCEPT ![b] = lev[x]]
  OBVIOUS
<1>4. Levels(new)'
  <2>1. Levels([lev EXCEPT ![b] = lev[x]])'
    BY <1>0, <1>1, <1>2, GrownLevels
  <2> QED BY <1>3, <2>1
<1>5. /\ b \in Addr \ {0} /\ x # b /\ Link(map, x) = 0 /\ map[b].type = "EMPTY"
      /\ \A c \in Addr : Link(map, c) # b
      /\ \A c \in Addr : Link(map', c) = IF c = x THEN b ELSE IF c = b THEN 0 ELSE Link(map, c)
      /\ \A s \in Slots : ~InUse(disk[b].recs[s])
  BY <1>0, <1>2, LinkFacts DEF LinksTo
<1>6. \/ pc' = "insert" /\ dir_address' = b
      \/ pc' = "umount" /\ ret' = 1
  BY <1>0, <1>2, <1>5 DEF Extend, Finish
<1>7. CASE pc' = "umount" /\ ret' = 1
  BY <1>4, <1>7, OutsideWalk DEF MkdirControl, Made
<1>8. CASE pc' = "insert" /\ dir_address' = b
  <2>1. PICK a : a = dir_first_address /\ a # b
    BY <1>0, <1>5 DEF Inv, WalkSound, Walking
  <2>2. a \in Addr /\ lev[a] = part_i /\ lev[x] = part_i
    BY <1>0, <1>1, <1>2, <2>1 DEF WalkLevel, Walking, TypeOK
  <2>3. WalkLevel(new)'
    BY <1>0, <1>3, <1>8, <2>1, <2>2 DEF WalkLevel, Walking
  <2>4. PICK S : Following(S, part_i - 1) /\ Lacking(S[part_i - 1])
    BY <1>0 DEF DirInv, Inserting
  <2>5. PICK m, d : m = part_i - 1 /\ d = S[m]
    OBVIOUS
  <2>6. PICK p, perms : p = req.path /\ perms = Taken
    OBVIOUS
  <2>7. /\ perms \in SUBSET AnyPerm
        /\ \A i \in 1 .. m : p[i] \in Names
        /\ Part \in Names
    BY <1>0, <2>5, <2>6, TakenPerms, WalkPath
  <2>8. ASSUME NEW e, NEW r, NEW i \in 1 .. m, LeadsTo(e, p[i], perms, r)
        PROVE  LeadsTo(e, p[i], perms, r)'
    <3>1. PICK name \in Names : name = p[i]
      BY <2>7
    <3>2. LeadsTo(e, name, perms, r)'
      BY <1>0, <1>2, <2>7, <2>8, <3>1, LeadsAfterLink
    <3> QED BY <3>1, <3>2
  <2>9. Following(S, m)'
    BY <1>0, <2>4, <2>5, <2>6, <2>8, FollowingKept
  <2>10. PICK f : /\ IsChain(f, a, map) /\ Clean(f, Len(f))
                  /\ \E k \in 1 .. Len(f) : f[k] = x
    BY <1>2, <2>1, <2>4 DEF Lacking
  <2>11. Len(f) \in Nat \ {0} /\ f \in Seq(Addr) /\ f[Len(f)] = x
    BY <1>5, <2>10, ChainLast, ChainTypes
  <2>12. PICK g : g = Append(f, b)
    OBVIOUS
  <2>13. IsChain(g, a, map')
    <3>1. PICK q : q = map
      OBVIOUS
    <3>2. PICK n : n = map'
      OBVIOUS
    <3>3. /\ IsChain(f, a, q) /\ Link(q, x) = 0 /\ \A c \in Addr : Link(q, c) # b
          /\ \A c \in Addr : Link(n, c) = IF c = x THEN b ELSE IF c = b THEN 0 ELSE Link(q, c)
      BY <1>5, <2>10, <3>1, <3>2
    <3>4. b \in Addr \ {0} /\ a # b /\ x # b
      BY <1>5, <2>1
    <3>5. IF f[Len(f)] = x THEN IsChain(Append(f, b), a, n) ELSE IsChain(f, a, n)
      BY <3>3, <3>4, LinkedChain
    <3>6. IsChain(g, a, n)
      BY <2>11, <2>12, <3>5
    <3> QED BY <3>2, <3>6
  <2>14. /\ Len(g) = Len(f) + 1 /\ g[Len(g)] = b /\ Len(g) \in 1 .. Len(g)
         /\ \A i \in 1 .. Len(g) : g[i] = b \/ (i \in 1 .. Len(f) /\ g[i] = f[i])
    BY <2>11, <2>12
  <2>15. \A u \in Slots : ~IsHit(disk[b].recs[u], Part, Taken)
    <3> SUFFICES ASSUME NEW u \in Slots, IsHit(disk[b].recs[u], Part, Taken) PROVE FALSE
      OBVIOUS
    <3>1. PICK name \in Names : name = Part
      BY <2>7
    <3>2. IsHit(disk[b].recs[u], name, AnyPerm)
      BY <3>1, TakenPerms DEF IsHit
    <3>3. IsRecord(b, u)
      BY <3>2, HitRecord
    <3> QED BY <1>5, <3>3 DEF IsRecord
  <2>16. Clean(g, Len(g))
    BY <2>10, <2>14, <2>15 DEF Clean
  <2>17. Lacking(d)'
    <3>1. IsChain(g, dir_first_address, map)'
      BY <1>0, <2>1, <2>13 DEF IsChain
    <3>2. Clean(g, Len(g))'
      BY <1>0, <2>16 DEF Clean, Part, Taken, IsHit, AnyPerm
    <3> QED BY <1>0, <1>8, <2>4, <2>5, <2>14, <3>1, <3>2 DEF Lacking
  <2>18. Inserting'
    BY <1>0, <2>5, <2>9, <2>17 DEF Inserting
  <2> QED BY <1>4, <1>8, <2>3, <2>18, WalkGoesOn
<1> QED BY <1>6, <1>7, <1>8

(* A block without a record in use has no part of a path.                  *)
LEMMA NothingTaken ==
  ASSUME Inv, NEW b \in Addr, \A s \in Slots : ~InUse(disk[b].recs[s]), NEW name \in Names
  PROVE  \A s \in Slots : ~IsHit(disk[b].recs[s], name, Taken)
<1> SUFFICES ASSUME NEW s \in Slots, IsHit(disk[b].recs[s], name, Taken) PROVE FALSE
  OBVIOUS
<1>1. IsHit(disk[b].recs[s], name, AnyPerm)
  BY TakenPerms DEF IsHit
<1>2. IsRecord(b, s)
  BY <1>1, HitRecord
<1> QED BY <1>2 DEF IsRecord

(* The new record is the only one of its name in the directory, and the    *)
(* names of the parts before it are others.                                *)
LEMMA WalkInserts ==
  ASSUME Inv, DirInv, Layered, Insert
  PROVE  DirInv'
<1>0. /\ TypeOK /\ boot' = boot /\ req' = req /\ part_i' = part_i /\ dir_address' = dir_address
      /\ pc = "insert" /\ pc' = "clear" /\ Formatted /\ pc # "idle"
      /\ Creates /\ part_i <= Len(req.path)
  BY DEF Inv, Insert, Formatted, Control
<1>1. PICK lev \in [Addr -> Nat] : Levels(lev) /\ WalkLevel(lev)
  BY DEF DirInv, LevelInv
<1>2. PICK new \in [Addr -> Nat] :
        /\ Levels(new)'
        /\ new[dir_address] = part_i /\ new[dir_first_address'] = part_i + 1
  BY <1>0, <1>1, InsertLevels DEF WalkLevel
<1>3. WalkLevel(new)'
  BY <1>0, <1>2 DEF WalkLevel, Walking
<1>4. PICK h \in Slots, b \in Addr :
        /\ Here[h].perm = "none" /\ map[b].type = "EMPTY"
        /\ dir_address \in Addr /\ map[dir_address].type = "DIR" /\ b # dir_address
        /\ NewType \in {"FILE", "DIR"}
        /\ \A e \in Entries :
             map'[e] = IF e = b THEN [type |-> NewType, next |-> 0] ELSE map[e]
        /\ \A a \in Addr, t \in Slots :
             disk'[a].recs[t] = IF a = dir_address /\ t = h THEN NewRec(b)
                                ELSE disk[a].recs[t]
        /\ dir' = disk'[dir_address].recs
        /\ slot' = h /\ dir_first_address' = b /\ file_address' = b
  <2>1. Inv /\ Insert
    OBVIOUS
  <2> QED BY <2>1, InsertEffect
<1>5. PICK x \in Addr : x = dir_address
  BY <1>4
<1>6. PICK p, perms : p = req.path /\ perms = Taken
  OBVIOUS
<1>7. PICK name \in Names : name = Part
  BY <1>0, WalkPath
<1>8. PICK m, n : m = part_i - 1 /\ n = part_i
  OBVIOUS
<1>9. /\ n \in Nat \ {0} /\ n - 1 = m /\ perms \in SUBSET AnyPerm /\ p[n] = name
      /\ AtDepth(name, n) /\ n \in 1 .. Len(p)
      /\ \A i \in 1 .. m : p[i] \in Names /\ AtDepth(p[i], i)
  <2>1. /\ Len(req.path) \in Nat /\ part_i \in Nat \ {0}
        /\ Part = req.path[part_i] /\ AtDepth(Part, part_i)
        /\ \A i \in 1 .. Len(req.path) : req.path[i] \in Names /\ AtDepth(req.path[i], i)
    BY <1>0, WalkPath
  <2>2. perms \in SUBSET AnyPerm
    BY <1>6, TakenPerms
  <2>3. \A i \in 1 .. m : i \in 1 .. Len(req.path)
    BY <1>0, <1>8, <2>1
  <2>4. n \in Nat \ {0} /\ n - 1 = m /\ n \in 1 .. Len(p)
    BY <1>0, <1>6, <1>8, <2>1
  <2> QED BY <1>6, <1>7, <1>8, <2>1, <2>2, <2>3, <2>4
<1>10. PICK r : r = NewRec(b)
  OBVIOUS
<1>11. /\ IsHit(r, name, perms) /\ r.addr = b /\ r.type = NewType
  BY <1>0, <1>6, <1>7, <1>10 DEF NewRec, IsHit, Creates, Taken, AnyPerm, Perms
<1>12. /\ disk[x].recs[h].perm = "none"
       /\ \A a \in Addr, t \in Slots :
            disk'[a].recs[t] = IF a = x /\ t = h THEN r ELSE disk[a].recs[t]
  BY <1>4, <1>5, <1>10 DEF Here
<1>13. \A c \in Addr : Link(map', c) = Link(map, c) /\ (InFork(map[c]) => InFork(map'[c]))
  <2>1. ~InFork(map[b])
    BY <1>4 DEF InFork
  <2> QED BY <1>4, <2>1, Geometry DEF Link
<1>14. PICK S : Following(S, m) /\ Lacking(S[m])
  BY <1>0, <1>8 DEF DirInv, Inserting
<1>15. Trail(S, p, perms, m)'
  <2>1. ASSUME NEW e, NEW q, NEW i \in 1 .. m, LeadsTo(e, p[i], perms, q)
        PROVE  LeadsTo(e, p[i], perms, q)'
    <3>1. p[i] # name
      <4>1. i # n
        BY <1>9
      <4> QED BY <1>9, <4>1 DEF Layered
    <3>2. SameHits(p[i], perms)
      <4>1. "none" \notin perms
        BY <1>9 DEF AnyPerm
      <4>2. r.name = name
        BY <1>11 DEF IsHit
      <4> QED BY <1>12, <3>1, <4>1, <4>2 DEF SameHits, IsHit
    <3> QED BY <1>13, <2>1, <3>2, StillLeads
  <2>2. Trail(S, p, perms, m)
    BY <1>6, <1>14 DEF Following
  <2> QED BY <1>0, <2>1, <2>2, TrailKept
<1>16. PICK d : d = S[m]
  OBVIOUS
<1>17. PICK f : /\ IsChain(f, d.addr, map) /\ Clean(f, Len(f))
                /\ \E k \in 1 .. Len(f) : f[k] = x
  BY <1>5, <1>14, <1>16 DEF Lacking
<1>18. PICK k \in 1 .. Len(f) : f[k] = x
  BY <1>17
<1>19. /\ \A i \in 1 .. Len(f) : f[i] \in Addr
       /\ \A i \in 1 .. Len(f) : f[i] = x => i = k
  BY <1>17, <1>18, ChainTypes DEF IsChain
<1>20. LeadsTo(d, name, perms, r)'
  <2>1. IsChain(f, d.addr, map)'
    <3>1. PICK c : c = map
      OBVIOUS
    <3>2. PICK g : g = map'
      OBVIOUS
    <3>3. \A i \in 1 .. Len(f) : Link(g, f[i]) = Link(c, f[i])
      BY <1>13, <1>19, <3>1, <3>2
    <3>4. IsChain(f, d.addr, g)
      BY <1>17, <3>1, <3>3, SameChain
    <3> QED BY <3>2, <3>4 DEF IsChain
  <2>2. disk'[f[k]].recs[h] = r
    BY <1>12, <1>18
  <2>3. ASSUME NEW i \in 1 .. Len(f), NEW t \in Slots, IsHit(disk'[f[i]].recs[t], name, perms)
        PROVE  k < i \/ (k = i /\ h <= t)
    <3>1. ~IsHit(disk[f[i]].recs[t], name, perms)
      BY <1>6, <1>7, <1>17 DEF Clean
    <3>2. f[i] = x /\ t = h
      BY <1>12, <1>19, <2>3, <3>1
    <3>3. h \in Nat
      BY Geometry DEF Slots
    <3> QED BY <1>19, <3>2, <3>3
  <2>4. FirstAt(f, k, h, name, perms)'
    BY <1>11, <2>2, <2>3 DEF FirstAt, IsHit
  <2>5. d.type = "DIR" /\ d.addr \in Addr /\ d.addr = dir_first_address
    <3>1. d.addr \in Addr
      BY <1>17, ChainTypes, SMTT(30)
    <3>2. Lacking(d)
      BY <1>14, <1>16
    <3> QED BY <3>1, <3>2 DEF Lacking
  <2>6. InFork(map'[d.addr])
    BY <1>0, <1>13, <2>5 DEF Inv, WalkSound, Walking, InFork
  <2> QED BY <2>1, <2>2, <2>4, <2>5, <2>6 DEF LeadsTo, InFork
<1>21. PICK T : T = [i \in 0 .. n |-> IF i = n THEN r ELSE S[i]]
  OBVIOUS
<1>22. T[n] = r /\ \A i \in 0 .. m : T[i] = S[i]
  BY <1>9, <1>21
<1>23. Trail(T, p, perms, n)'
  <2>1. T[0] = RootRec'
    <3>1. T[0] = S[0]
      BY <1>9, <1>22
    <3> QED BY <1>15, <3>1 DEF Trail
  <2>2. ASSUME NEW i \in 1 .. n PROVE LeadsTo(T[i - 1], p[i], perms, T[i])'
    <3>1. T[i - 1] = S[i - 1]
      BY <1>9, <1>22
    <3>2. CASE i = n
      <4>1. T[i - 1] = d /\ p[i] = name /\ T[i] = r
        BY <1>9, <1>16, <1>22, <3>1, <3>2
      <4> QED BY <1>20, <4>1
    <3>3. CASE i # n
      <4>1. i \in 1 .. m /\ T[i] = S[i]
        BY <1>9, <1>22, <3>3
      <4>2. LeadsTo(S[i - 1], p[i], perms, S[i])'
        BY <1>15, <4>1 DEF Trail
      <4> QED BY <3>1, <4>1, <4>2
    <3> QED BY <3>2, <3>3
  <2> QED BY <2>1, <2>2 DEF Trail
<1>24. Following(T, n)'
  <2>1. req'.path = p /\ Taken' = perms
    BY <1>0, <1>6 DEF Taken, AnyPerm
  <2> QED BY <1>23, <2>1 DEF Following, Trail
<1>25. Clearing'
  <2>1. Link(map', b) = 0
    <3>1. b \in Entries
      BY Geometry
    <3>2. map'[b] = [type |-> NewType, next |-> 0]
      BY <1>4, <3>1
    <3> QED BY <3>2 DEF Link
  <2>2. NewType' = NewType
    BY <1>0 DEF NewType, MoreParts
  <2>3. n = part_i'
    BY <1>0, <1>8
  <2> QED BY <1>4, <1>11, <1>22, <1>24, <2>1, <2>2, <2>3 DEF Clearing
<1> QED BY <1>0, <1>2, <1>3, <1>25, WalkGoesOn

(* The new block is written as zeros; the next part is not looked for in   *)
(* it before the rest of the directory of the part.                        *)
LEMMA WalkClears ==
  ASSUME Inv, DirInv, Clear
  PROVE  DirInv'
<1>0. /\ TypeOK /\ map' = map /\ boot' = boot /\ req' = req /\ dir_address' = dir_address
      /\ dir_first_address' = dir_first_address /\ part_i' = part_i + 1
      /\ disk' = [disk EXCEPT ![dir_first_address] = ZeroBlock]
      /\ pc = "clear" /\ pc' = "search" /\ pc # "idle"
      /\ Creates /\ part_i <= Len(req.path)
  BY DEF Inv, Clear, Control
<1>1. PICK lev \in [Addr -> Nat] : Levels(lev) /\ WalkLevel(lev)
  BY DEF DirInv, LevelInv
<1>2. PICK b \in Addr : b = dir_first_address
  BY <1>0 DEF TypeOK
<1>3. \A a \in Addr : disk'[a] = IF a = b THEN ZeroBlock ELSE disk[a]
  BY <1>0, <1>2 DEF TypeOK
<1>4. /\ \A s \in Slots : ZeroBlock.recs[s].perm = "none" /\ ~InUse(ZeroBlock.recs[s])
      /\ \A s \in Slots : ~InUse(disk[b].recs[s])
  BY <1>0, <1>2 DEF ZeroBlock, NoRec, InUse, Inv, WalkSound
<1>5. Levels(lev)'
  <2>1. SameOrFewer
    BY <1>0, <1>3, <1>4 DEF SameOrFewer
  <2> QED BY <1>1, <2>1, SameLevels
<1>6. PICK n : n = part_i
  OBVIOUS
<1>7. n \in Nat \ {0} /\ part_i' - 1 = n /\ part_i' = n + 1
  BY <1>0, <1>6 DEF TypeOK
<1>8. lev[dir_address] = n /\ lev[b] = n + 1
  BY <1>0, <1>1, <1>2, <1>6 DEF WalkLevel
<1>9. WalkLevel(lev)'
  BY <1>0, <1>2, <1>7, <1>8 DEF WalkLevel, Walking
<1>10. PICK p, perms : p = req.path /\ perms = Taken
  OBVIOUS
<1>11. /\ perms \in SUBSET AnyPerm /\ n \in 1 .. Len(p) /\ Len(p) \in Nat
       /\ \A i \in 1 .. n : p[i] \in Names
  BY <1>0, <1>6, <1>7, <1>10, TakenPerms, WalkPath
<1>12. PICK S : Following(S, n) /\ S[n].addr = b /\ S[n].type = NewType /\ Link(map, b) = 0
  BY <1>0, <1>2, <1>6 DEF DirInv, Clearing
<1>13. Following(S, n)'
  <2>1. ASSUME NEW e, NEW q, NEW i \in 1 .. n, LeadsTo(e, p[i], perms, q)
        PROVE  LeadsTo(e, p[i], perms, q)'
    <3>1. PICK name \in Names : name = p[i]
      BY <1>11
    <3>2. \A s \in Slots : ~IsHit(disk[b].recs[s], name, perms)
      BY <1>4, <1>10, NothingTaken
    <3>3. \A s \in Slots : ~IsHit(ZeroBlock.recs[s], name, perms)
      BY <1>4, <1>11 DEF IsHit, AnyPerm
    <3>4. SameHits(name, perms)
      BY <1>3, <3>2, <3>3 DEF SameHits
    <3>5. LeadsTo(e, name, perms, q)'
      BY <1>0, <2>1, <3>1, <3>4, StillLeads
    <3> QED BY <3>1, <3>5
  <2> QED BY <1>0, <1>10, <1>12, <2>1, FollowingKept
<1>14. PICK d : d = S[n]
  OBVIOUS
<1>15. part_i' <= Len(req'.path) => Looking(lev, d)'
  <2> SUFFICES ASSUME part_i' <= Len(req'.path) PROVE Looking(lev, d)'
    OBVIOUS
  <2>1. d.type = "DIR" /\ d.addr = b
    BY <1>0, <1>6, <1>7, <1>10, <1>11, <1>12, <1>14 DEF NewType, MoreParts
  <2>2. b # 0
    BY <1>0, <1>2, InUseNotZero, NewRecTypes DEF Inv, WalkSound
  <2>3. PICK f : f = <<b>>
    OBVIOUS
  <2>4. IsChain(f, dir_first_address, map)'
    <3>1. PICK c : c = map
      OBVIOUS
    <3>2. IsChain(f, b, c)
      BY <1>12, <2>2, <2>3, <3>1, LoneChain
    <3> QED BY <1>0, <1>2, <3>1, <3>2 DEF IsChain
  <2>5. Clean(f, Len(f))'
    <3>1. \A i \in 1 .. Len(f) : f[i] = b
      BY <2>3
    <3>2. \A s \in Slots : disk'[b].recs[s].perm = "none"
      BY <1>3, <1>4
    <3>3. "none" \notin Taken'
      BY DEF Taken, AnyPerm
    <3> QED BY <3>1, <3>2, <3>3 DEF Clean, IsHit
  <2>6. lev[dir_address'] < part_i'
    BY <1>0, <1>7, <1>8
  <2> QED BY <1>0, <1>2, <2>1, <2>4, <2>5, <2>6 DEF Looking
<1>16. Searching(lev)'
  <2>1. part_i' - 1 \in 0 .. Len(req'.path)
    BY <1>0, <1>7, <1>10, <1>11
  <2> QED BY <1>7, <1>13, <1>14, <1>15, <2>1 DEF Searching
<1> QED BY <1>0, <1>5, <1>9, <1>16, WalkGoesOn

-----------------------------------------------------------------------------
(* Every step keeps the invariant, and mkdir makes its directory.          *)

LEMMA DirInit == Init => DirInv
<1> SUFFICES ASSUME Init PROVE DirInv
  OBVIOUS
<1>1. /\ boot.root = 0 /\ \A a \in Addr : Link(map, a) = 0
      /\ \A a \in Addr, s \in Slots : ~InUse(disk[a].recs[s])
  BY Geometry DEF Init, ZeroMap, EmptyPtr, ZeroBlock, NoRec, InUse, Link
<1>2. PICK lev \in [Addr -> Nat] : lev = [a \in Addr |-> 0]
  OBVIOUS
<1>3. Levels(lev)
  BY <1>1 DEF Levels
<1>4. pc = "idle" /\ req.op = "none"
  BY DEF Init, NoRequest
<1>5. WalkLevel(lev) /\ Searching(lev)
  BY <1>4 DEF WalkLevel, Walking, Searching
<1>6. LevelInv
  BY <1>3, <1>5 DEF LevelInv
<1> QED BY <1>4, <1>6 DEF DirInv, Inserting, Clearing, MkdirControl, Made

LEMMA WalkStays ==
  ASSUME Inv, DirInv, UNCHANGED vars
  PROVE  DirInv'
<1>0. /\ disk' = disk /\ map' = map /\ boot'.root = boot.root /\ req' = req /\ part_i' = part_i
      /\ dir_address' = dir_address /\ dir_first_address' = dir_first_address
      /\ pc' = pc /\ ret' = ret
  BY DEF vars, image, walk
<1>1. CASE ~(pc' = "search" /\ Creates') /\ pc' \notin {"insert", "clear"}
  BY <1>1, QuietOutside DEF Quiet
<1>2. PICK lev \in [Addr -> Nat] : Levels(lev) /\ WalkLevel(lev) /\ Searching(lev)
  BY DEF DirInv, LevelInv
<1>3. Levels(lev)'
  BY <1>2, QuietFewer, SameLevels DEF Quiet
<1>4. WalkLevel(lev)'
  BY <1>0, <1>2 DEF WalkLevel, Walking, Creates
<1>5. PICK m : m = part_i - 1
  OBVIOUS
<1>6. \A f, n : Clean(f, n)' = Clean(f, n)
  BY <1>0 DEF Clean, Part, Taken, AnyPerm, IsHit
<1>7. \A f : IsChain(f, dir_first_address, map)' = IsChain(f, dir_first_address, map)
  BY <1>0
<1>8. CASE pc' = "search" /\ Creates'
  <2>1. PICK S : /\ Following(S, m)
                 /\ part_i <= Len(req.path) => Looking(lev, S[m])
    BY <1>0, <1>2, <1>5, <1>8 DEF Searching, Creates
  <2>2. Following(S, m)'
    BY <1>0, <2>1, SameFollowing
  <2>3. part_i <= Len(req.path) => Looking(lev, S[m])'
    BY <1>0, <1>6, <1>7, <2>1 DEF Looking
  <2>4. Searching(lev)'
    BY <1>0, <1>2, <1>5, <1>8, <2>2, <2>3 DEF Searching, Creates
  <2> QED BY <1>3, <1>4, <1>8, <2>4, WalkGoesOn
<1>9. CASE pc' = "insert"
  <2>1. PICK S : Following(S, m) /\ Lacking(S[m])
    BY <1>0, <1>5, <1>9 DEF DirInv, Inserting
  <2>2. Following(S, m)'
    BY <1>0, <2>1, SameFollowing
  <2>3. Lacking(S[m])'
    BY <1>0, <1>6, <1>7, <2>1 DEF Lacking
  <2>4. Inserting'
    BY <1>0, <1>5, <2>2, <2>3 DEF Inserting
  <2> QED BY <1>3, <1>4, <1>9, <2>4, WalkGoesOn
<1>10. CASE pc' = "clear"
  <2>1. PICK n : n = part_i
    OBVIOUS
  <2>2. PICK S : /\ Link(map, dir_first_address) = 0 /\ Following(S, n)
                 /\ S[n].addr = dir_first_address /\ S[n].type = NewType
    BY <1>0, <1>10, <2>1 DEF DirInv, Clearing
  <2>3. Following(S, n)'
    BY <1>0, <2>2, SameFollowing
  <2>4. Clearing'
    BY <1>0, <2>1, <2>2, <2>3 DEF Clearing, NewType, MoreParts
  <2> QED BY <1>3, <1>4, <1>10, <2>4, WalkGoesOn
<1> QED BY <1>1, <1>8, <1>9, <1>10

LEMMA DirStep ==
  ASSUME Inv, ForkInv, DirInv, Layered, [Next]_vars
  PROVE  DirInv'
<1>1. CASE \/ FmtBoot \/ FmtRoot \/ FmtZero \/ BootLoader \/ Write \/ Record \/ Trim
           \/ \E r \in Requests : GenFs(r)
  BY <1>1, DataSteps
<1>2. CASE Insert
  BY <1>2, WalkInserts
<1>3. CASE Clear
  BY <1>3, WalkClears
<1>4. CASE Extend
  BY <1>4, WalkExtends
<1>5. CASE Quiet /\ ~((pc' = "search" /\ Creates') \/ pc' \in {"insert", "clear"})
  BY <1>5, QuietOutside
<1>6. CASE UNCHANGED vars
  BY <1>6, WalkStays
<1>7. CASE /\ Quiet /\ ~UNCHANGED vars
           /\ (pc' = "search" /\ Creates') \/ pc' \in {"insert", "clear"}
  <2>1. \/ (Found /\ req' = req) \/ (SearchOn /\ req' = req) \/ (NotFound /\ req' = req)
        \/ InsertOn \/ \E r \in Requests : Start(r)
    <3>1. ~BootSect /\ ~NoRoom /\ ~Unmounted /\ ~Exit /\ ~SourceEnds
          /\ \A r \in Requests : ~MountFails(r)
      BY <1>7 DEF BootSect, NoRoom, Unmounted, Exit, ProcessEnds, SourceEnds, MountFails, Finish
    <3>2. ~WalkDone /\ ~List /\ ~Read /\ ~Umount
      BY <1>7 DEF WalkDone, PathDone, AfterPath, List, Read, Umount, Finish, Inv, Control
    <3> QED BY <1>7, <3>1, <3>2 DEF Quiet, Found, SearchOn, NotFound
  <2>2. CASE Found /\ req' = req
    <3>1. pc' \in {"search", "umount"}
      BY <2>2 DEF Found, Search, Enter, EnterOrOpen, Reject, Follow, NextPart, Finish
    <3> QED BY <1>7, <2>2, <3>1, WalkFinds DEF Creates
  <2>3. CASE SearchOn /\ req' = req
    <3>1. pc' = "search"
      BY <2>3 DEF SearchOn, Search
    <3> QED BY <1>7, <2>3, <3>1, WalkSearchesOn DEF Creates
  <2>4. CASE NotFound /\ req' = req
    <3>1. Creates
      BY <1>7, <2>4 DEF NotFound, Finish
    <3> QED BY <2>4, <3>1, WalkMisses
  <2>5. CASE InsertOn
    BY <2>5, WalkInsertsOn
  <2>6. ASSUME NEW r \in Requests, Start(r) PROVE DirInv'
    <3>1. pc' = FirstStep(r.op) /\ req' = r /\ r.op \in Commands \ {"genfs", "mkfs"}
      BY <2>6, RequestTypes DEF Start
    <3>2. r.op \in {"mkdir", "add"}
      BY <1>7, <3>1 DEF FirstStep, Creates, Commands
    <3> QED BY <2>6, <3>2, WalkStarts
  <2> QED BY <2>1, <2>2, <2>3, <2>4, <2>5, <2>6
<1> QED BY <1>1, <1>2, <1>3, <1>4, <1>5, <1>6, <1>7, NextCases

LEMMA MadeIsListed ==
  ASSUME Inv, DirInv PROVE MkdirMakes
<1> SUFFICES ASSUME Succeeded("mkdir") PROVE Lists(req.path)
  BY DEF MkdirMakes
<1>1. pc = "exit" /\ req.op = "mkdir" /\ ret = 0 /\ Creates /\ TypeOK
  BY DEF Succeeded, Creates, Inv
<1>2. PICK p, perms : p = req.path /\ perms = {"ifdir"}
  OBVIOUS
<1>3. Len(p) \in Nat
  BY <1>1, <1>2, WalkPath
<1>4. PICK S : Trail(S, p, perms, Len(p))
  BY <1>1, <1>2 DEF DirInv, Made, Following, Taken
<1>5. Steps(p, perms)[Len(p)] = S[Len(p)]
  BY <1>1, <1>3, <1>4, TrailSteps
<1>6. S[Len(p)].perm = "ifdir"
  <2>1. CASE Len(p) = 0
    BY <1>4, <2>1 DEF Trail, RootRec, NoRec
  <2>2. CASE Len(p) # 0
    <3>1. PICK n, r, d : n = Len(p) /\ r = S[n] /\ d = S[n - 1]
      OBVIOUS
    <3>2. LeadsTo(d, p[n], perms, r)
      BY <1>3, <1>4, <2>2, <3>1 DEF Trail
    <3>3. r.perm \in perms
      BY <3>2 DEF LeadsTo, FirstAt, IsHit
    <3> QED BY <1>2, <3>1, <3>3
  <2> QED BY <2>1, <2>2
<1>7. NoRec.perm = "none"
  BY DEF NoRec
<1> QED BY <1>2, <1>5, <1>6, <1>7 DEF Lists, Walk

(* After mkdir reports success, ls lists the directory, on every image     *)
(* that commands make whose paths use no name at two depths (the walk of   *)
(* cmd_mkdir, which goes on in the block of the new record).               *)
THEOREM MkdirMade == ASSUME Layered PROVE Spec => []MkdirMakes
<1>1. Init => DirInv
  BY DirInit
<1>2. Inv /\ ForkInv /\ DirInv /\ [Next]_vars => DirInv'
  BY DirStep
<1>3. Inv /\ DirInv => MkdirMakes
  BY MadeIsListed
<1> QED BY <1>1, <1>2, <1>3, Invariance, ForkInvariance, PTL DEF Spec
=============================================================================
