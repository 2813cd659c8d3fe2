------------------------------ MODULE Geometry ------------------------------
(***************************************************************************)
(* The sizes that cmd_mkfs computes and what tfs_alloc makes of them, with *)
(* the constants of the code: 128 entries in a block of the map, 8 blocks  *)
(* before it.  Tfs takes one size that fits; this module takes any.        *)
(***************************************************************************)
EXTENDS Integers, TLAPS

CONSTANT Sizes           \* the sizes in KiB that mkfs is called with

VARIABLES
  total_disk_blocks, total_map_blocks,
  entry                  \* i in tfs_alloc: the entry of _map looked at last

gvars == <<total_disk_blocks, total_map_blocks, entry>>

(* size / 128 | (size % 128 > 0): an odd quotient is not rounded up.       *)
MapBlocksOf(size) ==
  IF size % 128 > 0 /\ (size \div 128) % 2 = 0 THEN size \div 128 + 1 ELSE size \div 128
FirstDataBlock(m) == 8 + 2 * m

GeometryInit == total_disk_blocks = 0 /\ total_map_blocks = 0 /\ entry = -1

(* cmd_mkfs with its tfs_alloc for the root, which looks at the reserved   *)
(* entries until it comes to the first one behind them.                    *)
MkFs(kib) ==
  /\ total_disk_blocks' = 2 * kib
  /\ total_map_blocks' = MapBlocksOf(2 * kib)
  /\ entry' = IF FirstDataBlock(total_map_blocks') < 2 * kib
                THEN FirstDataBlock(total_map_blocks') ELSE 2 * kib - 1

(* A tfs_alloc finds the entries taken up to the last one it looked at; it *)
(* goes on as far as the disk reaches.                                     *)
Alloc ==
  /\ entry + 1 < total_disk_blocks /\ entry' = entry + 1
  /\ UNCHANGED <<total_disk_blocks, total_map_blocks>>

GeometryNext == Alloc \/ \E kib \in Sizes : MkFs(kib)
GeometrySpec == GeometryInit /\ [][GeometryNext]_gvars

-----------------------------------------------------------------------------
(* tfs_alloc looks at entries of the map only, as long as there is a block *)
(* left on the disk to give away (tfs.c:110-124, with the sizes of 152).   *)
AllocInMap == entry < total_map_blocks * 128

-----------------------------------------------------------------------------
(* The sizes that come out right: whole blocks of the map, or a quotient   *)
(* that the bitwise or can add 1 to.                                       *)
Fits(size) == size % 128 = 0 \/ (size \div 128) % 2 = 0

(* The map has an entry for every block of a disk exactly for the sizes    *)
(* that fit (tfs.c:153).                                                   *)
THEOREM MapCoversFitting ==
  \A size \in Nat : size <= MapBlocksOf(size) * 128 <=> Fits(size)
<1>1. ASSUME NEW size \in Nat
      PROVE  size <= MapBlocksOf(size) * 128 <=> Fits(size)
  <2> DEFINE q == size \div 128
             r == size % 128
  <2>1. q \in Nat /\ r \in 0 .. 127 /\ size = 128 * q + r
    OBVIOUS
  <2>2. size <= MapBlocksOf(size) * 128 <=> r = 0 \/ (r > 0 /\ q % 2 = 0)
    <3>1. CASE r > 0 /\ q % 2 = 0
      BY <2>1, <3>1 DEF MapBlocksOf
    <3>2. CASE ~(r > 0 /\ q % 2 = 0)
      <4>1. MapBlocksOf(size) = q
        BY <3>2 DEF MapBlocksOf
      <4> HIDE DEF q, r
      <4> QED BY <2>1, <3>2, <4>1
    <3> QED BY <3>1, <3>2
  <2> QED BY <2>1, <2>2 DEF Fits
<1> QED BY <1>1

GeometryInv ==
  \/ total_disk_blocks = 0 /\ total_map_blocks = 0 /\ entry = -1
  \/ \E kib \in Sizes :
       /\ total_disk_blocks = 2 * kib /\ total_map_blocks = MapBlocksOf(2 * kib)
       /\ entry \in Int /\ entry < 2 * kib

(* If every size that is asked for fits, however large, the map is never   *)
(* read beyond its end (tfs.c:110-124).                                    *)
THEOREM FittingSizesAlloc ==
  ASSUME Sizes \subseteq Nat \ {0}, \A kib \in Sizes : Fits(2 * kib)
  PROVE  GeometrySpec => []AllocInMap
<1>1. GeometryInit => GeometryInv
  BY DEF GeometryInit, GeometryInv
<1>2. GeometryInv /\ [GeometryNext]_gvars => GeometryInv'
  <2> SUFFICES ASSUME GeometryInv, [GeometryNext]_gvars
               PROVE  GeometryInv'
    OBVIOUS
  <2>1. CASE Alloc
    BY <2>1 DEF Alloc, GeometryInv
  <2>2. ASSUME NEW kib \in Sizes, MkFs(kib) PROVE GeometryInv'
    <3> DEFINE m == MapBlocksOf(2 * kib)
    <3>1. m \in Int
      BY DEF MapBlocksOf
    <3>2. total_disk_blocks' = 2 * kib /\ total_map_blocks' = m
      BY <2>2 DEF MkFs
    <3>3. entry' \in Int /\ entry' < 2 * kib
      <4> HIDE DEF m
      <4> QED BY <2>2, <3>1, <3>2 DEF MkFs, FirstDataBlock
    <3> QED BY <3>2, <3>3 DEF GeometryInv
  <2>3. CASE UNCHANGED gvars
    BY <2>3 DEF gvars, GeometryInv
  <2> QED BY <2>1, <2>2, <2>3 DEF GeometryNext
<1>3. GeometryInv => AllocInMap
  <2>1. ASSUME NEW kib \in Sizes,
               total_map_blocks = MapBlocksOf(2 * kib), entry \in Int, entry < 2 * kib
        PROVE  AllocInMap
    <3> DEFINE m == MapBlocksOf(2 * kib)
    <3>1. m \in Int
      BY DEF MapBlocksOf
    <3>2. 2 * kib <= m * 128
      BY MapCoversFitting
    <3> HIDE DEF m
    <3> QED BY <2>1, <3>1, <3>2 DEF AllocInMap, m
  <2>2. total_map_blocks = 0 /\ entry = -1 => AllocInMap
    BY DEF AllocInMap
  <2> QED BY <2>1, <2>2 DEF GeometryInv
<1> QED BY <1>1, <1>2, <1>3, PTL DEF GeometrySpec
=============================================================================
