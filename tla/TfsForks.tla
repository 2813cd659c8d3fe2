------------------------------ MODULE TfsForks ------------------------------
(***************************************************************************)
(* The files of an image that commands make which run to their end: the    *)
(* blocks of a fork form a chain without a cycle, that Fork of TfsFiles    *)
(* reads off the map; the chain of a file is as long as its record says,   *)
(* and export follows it to its end.                                       *)
(***************************************************************************)
EXTENDS TfsFiles, TfsSafety, FiniteSetTheorems

(* The block that follows block c of a fork, and the chain that starts at  *)
(* block a, in map m.                                                      *)
Link(m, c) == IF InFork(m[c]) THEN m[c].next ELSE 0
IsChain(f, a, m) ==
  /\ f \in Seq(Addr \ {0}) /\ f # << >> /\ f[1] = a
  /\ \A i \in 1 .. Len(f) - 1 : Link(m, f[i]) = f[i + 1]
  /\ Link(m, f[Len(f)]) = 0
  /\ \A i, j \in 1 .. Len(f) : f[i] = f[j] => i = j

(* Every block starts one.                                                 *)
Chained(m) == \A a \in Addr \ {0} : \E f : IsChain(f, a, m)

-----------------------------------------------------------------------------
(* Numbers.                                                                *)

LEMMA LeastNumber ==
  ASSUME NEW S \in SUBSET Nat, S # {}
  PROVE  \E n \in S : \A m \in S : n <= m
<1>1. PICK n \in S : \A m \in S : ~ (<<m, n>> \in OpToRel(<, Nat))
  <2> DEFINE R == OpToRel(<, Nat)
  <2>1. IsWellFoundedOn(R, Nat)
    BY NatLessThanWellFounded
  <2> HIDE DEF R
  <2>2. \E n \in S : \A m \in S : ~ (<<m, n>> \in R)
    BY <2>1, WFMin
  <2> QED BY <2>2 DEF R
<1>2. \A m \in S : n <= m
  <2> TAKE m \in S
  <2>1. ~(m < n)
    BY <1>1 DEF OpToRel
  <2> QED BY <2>1
<1> QED BY <1>2

(* Induction, over the set of the numbers that something holds of.         *)
LEMMA Induct ==
  ASSUME NEW S, 0 \in S, \A n \in Nat : n \in S => n + 1 \in S
  PROVE  Nat \subseteq S
<1> SUFFICES ASSUME Nat \ S # {} PROVE FALSE
  OBVIOUS
<1>1. PICK n \in Nat \ S : \A m \in Nat \ S : n <= m
  <2> DEFINE T == Nat \ S
  <2>1. T \in SUBSET Nat /\ T # {}
    OBVIOUS
  <2> HIDE DEF T
  <2>2. \E n \in T : \A m \in T : n <= m
    BY <2>1, LeastNumber
  <2> QED BY <2>2 DEF T
<1>2. n # 0
  BY <1>1
<1>3. n - 1 \in Nat /\ n - 1 \in S
  BY <1>1, <1>2
<1> QED BY <1>1, <1>2, <1>3

-----------------------------------------------------------------------------
(* Chains.                                                                 *)

LEMMA ChainTypes ==
  ASSUME NEW f, NEW a, NEW m, IsChain(f, a, m)
  PROVE  /\ Len(f) \in Nat \ {0} /\ f \in Seq(Addr) /\ a = f[1]
         /\ \A i \in 1 .. Len(f) : f[i] \in Addr /\ f[i] # 0
BY DEF IsChain

(* A block with a chain of one: nothing follows it.                        *)
LEMMA LoneChain ==
  ASSUME NEW a \in Addr \ {0}, NEW m, Link(m, a) = 0
  PROVE  IsChain(<<a>>, a, m)
BY DEF IsChain

(* A chain is cut after its i-th block.                                    *)
LEMMA CutChain ==
  ASSUME NEW f, NEW a, NEW m, NEW n, IsChain(f, a, m), NEW i \in 1 .. Len(f),
         \A c \in Addr : Link(n, c) = IF c = f[i] THEN 0 ELSE Link(m, c)
  PROVE  IsChain(SubSeq(f, 1, i), a, n)
<1> DEFINE g == SubSeq(f, 1, i)
<1>1. f \in Seq(Addr \ {0}) /\ Len(f) \in Nat /\ i \in Nat /\ i <= Len(f)
  BY DEF IsChain
<1>2. g \in Seq(Addr \ {0}) /\ Len(g) = i /\ \A j \in 1 .. i : g[j] = f[j]
  BY <1>1
<1> HIDE DEF g
<1>3. g # << >> /\ g[1] = a
  BY <1>1, <1>2 DEF IsChain
<1>4. \A j, k \in 1 .. Len(g) : g[j] = g[k] => j = k
  BY <1>1, <1>2 DEF IsChain
<1>5. \A j \in 1 .. Len(g) - 1 : Link(n, g[j]) = g[j + 1]
  <2> TAKE j \in 1 .. Len(g) - 1
  <2>1. g[j] = f[j] /\ g[j + 1] = f[j + 1] /\ f[j] \in Addr /\ j # i
        /\ j \in 1 .. Len(f) /\ j \in 1 .. Len(f) - 1
    BY <1>1, <1>2
  <2>2. f[j] # f[i]
    BY <2>1 DEF IsChain
  <2> QED BY <2>1, <2>2 DEF IsChain
<1>6. Link(n, g[Len(g)]) = 0
  BY <1>1, <1>2
<1>7. IsChain(g, a, n)
  BY <1>2, <1>3, <1>4, <1>5, <1>6 DEF IsChain
<1> QED BY <1>7 DEF g

(* A chain stays as it is when no block of it is touched.                  *)
LEMMA SameChain ==
  ASSUME NEW f, NEW a, NEW m, NEW n, IsChain(f, a, m),
         \A i \in 1 .. Len(f) : Link(n, f[i]) = Link(m, f[i])
  PROVE  IsChain(f, a, n)
<1>1. Len(f) \in Nat \ {0}
  BY ChainTypes
<1> QED BY <1>1 DEF IsChain

(* A new block is linked to the end of a chain.                            *)
LEMMA LongerChain ==
  ASSUME NEW f, NEW a, NEW m, NEW n, IsChain(f, a, m), NEW b \in Addr \ {0},
         \A i \in 1 .. Len(f) : f[i] # b,
         \A c \in Addr : Link(n, c) = IF c = f[Len(f)] THEN b
                                     ELSE IF c = b THEN 0 ELSE Link(m, c)
  PROVE  IsChain(Append(f, b), a, n)
<1> DEFINE g == Append(f, b)
<1>1. f \in Seq(Addr \ {0}) /\ Len(f) \in Nat \ {0}
  BY ChainTypes DEF IsChain
<1>2. g \in Seq(Addr \ {0}) /\ Len(g) = Len(f) + 1 /\ g[Len(g)] = b
      /\ \A j \in 1 .. Len(f) : g[j] = f[j]
  BY <1>1
<1> HIDE DEF g
<1>3. g # << >> /\ g[1] = a
  BY <1>1, <1>2 DEF IsChain
<1>4. \A j, k \in 1 .. Len(g) : g[j] = g[k] => j = k
  <2> TAKE j, k \in 1 .. Len(g)
  <2>1. /\ j \in 1 .. Len(f) \/ j = Len(g)
        /\ k \in 1 .. Len(f) \/ k = Len(g)
    BY <1>1, <1>2
  <2> QED BY <1>1, <1>2, <2>1 DEF IsChain
<1>5. \A j \in 1 .. Len(g) - 1 : Link(n, g[j]) = g[j + 1]
  <2> TAKE j \in 1 .. Len(g) - 1
  <2>1. j \in 1 .. Len(f) /\ Len(f) \in 1 .. Len(f) /\ g[j] = f[j] /\ f[j] \in Addr
    BY <1>1, <1>2
  <2>2. CASE j = Len(f)
    BY <1>2, <2>1, <2>2
  <2>3. CASE j # Len(f)
    <3>1. j \in 1 .. Len(f) - 1 /\ j + 1 \in 1 .. Len(f) /\ f[j] # f[Len(f)]
      BY <1>1, <2>1, <2>3 DEF IsChain
    <3>2. Link(n, f[j]) = Link(m, f[j])
      BY <2>1, <3>1
    <3> QED BY <1>2, <2>1, <3>1, <3>2 DEF IsChain
  <2> QED BY <2>2, <2>3
<1>6. Link(n, g[Len(g)]) = 0
  <2>1. f[Len(f)] # b
    BY <1>1
  <2> QED BY <1>2, <2>1
<1> QED BY <1>2, <1>3, <1>4, <1>5, <1>6 DEF IsChain

(* A chain has no more blocks than the disk.                               *)
LEMMA ChainLength ==
  ASSUME NEW f, NEW a, NEW m, IsChain(f, a, m)
  PROVE  Len(f) <= TotalBlocks
<1>1. Len(f) \in Nat \ {0} /\ TotalBlocks \in Nat \ {0}
  BY ChainTypes, Geometry
<1>2. /\ IsFiniteSet(1 .. Len(f)) /\ Cardinality(1 .. Len(f)) = Len(f)
  <2>1. 1 \in Int /\ Len(f) \in Int /\ ~(1 > Len(f)) /\ Len(f) - 1 + 1 = Len(f)
    BY <1>1
  <2> QED BY <2>1, FS_Interval
<1>3. IsFiniteSet(Addr) /\ Cardinality(Addr) = TotalBlocks
  <2>1. 0 \in Int /\ TotalBlocks - 1 \in Int /\ ~(0 > TotalBlocks - 1)
        /\ TotalBlocks - 1 - 0 + 1 = TotalBlocks
    BY <1>1
  <2> QED BY <2>1, FS_Interval DEF Addr
<1> SUFFICES ASSUME TotalBlocks < Len(f) PROVE FALSE
  BY <1>1
<1>4. f \in [1 .. Len(f) -> Addr]
  BY ChainTypes
<1>5. \E x, y \in 1 .. Len(f) : x # y /\ f[x] = f[y]
  BY <1>2, <1>3, <1>4, FS_PigeonHole
<1> QED BY <1>5 DEF IsChain

(* What a link or a cut makes of the chain that starts at a.               *)
LEMMA LinkedChain ==
  ASSUME NEW f, NEW a, NEW m, NEW n, IsChain(f, a, m), NEW x \in Addr, NEW b \in Addr \ {0},
         a # b, x # b, Link(m, x) = 0, \A c \in Addr : Link(m, c) # b,
         \A c \in Addr : Link(n, c) = IF c = x THEN b ELSE IF c = b THEN 0 ELSE Link(m, c)
  PROVE  IF f[Len(f)] = x THEN IsChain(Append(f, b), a, n) ELSE IsChain(f, a, n)
<1>0. Len(f) \in Nat \ {0} /\ a = f[1] /\ \A i \in 1 .. Len(f) : f[i] \in Addr /\ f[i] # 0
  BY ChainTypes
<1>1. \A i \in 1 .. Len(f) - 1 : i \in 1 .. Len(f) /\ Link(m, f[i]) = f[i + 1] /\ f[i] # x
  <2> TAKE i \in 1 .. Len(f) - 1
  <2>1. i \in 1 .. Len(f) /\ i + 1 \in 1 .. Len(f) /\ Link(m, f[i]) = f[i + 1]
    BY <1>0 DEF IsChain
  <2>2. Link(m, f[i]) # 0
    BY <1>0, <2>1
  <2> QED BY <2>1, <2>2
<1>2. \A i \in 1 .. Len(f) : f[i] # b
  <2> TAKE i \in 1 .. Len(f)
  <2>1. CASE i = 1
    BY <1>0, <2>1
  <2>2. CASE i # 1
    <3>1. i - 1 \in 1 .. Len(f) - 1 /\ i - 1 \in 1 .. Len(f) /\ i - 1 + 1 = i
      BY <1>0, <2>2
    <3>2. Link(m, f[i - 1]) = f[i] /\ f[i - 1] \in Addr
      BY <1>0, <1>1, <3>1
    <3> QED BY <3>2
  <2> QED BY <2>1, <2>2
<1>3. CASE f[Len(f)] = x
  <2>1. IsChain(Append(f, b), a, n)
    BY <1>2, <1>3, LongerChain
  <2> QED BY <1>3, <2>1
<1>4. CASE f[Len(f)] # x
  <2>1. \A i \in 1 .. Len(f) : f[i] # x
    BY <1>0, <1>1, <1>4
  <2>2. \A i \in 1 .. Len(f) : Link(n, f[i]) = Link(m, f[i])
    BY <1>0, <1>2, <2>1
  <2>3. IsChain(f, a, n)
    BY <2>2, SameChain
  <2> QED BY <1>4, <2>3
<1> QED BY <1>3, <1>4


(* A chain whose last block is linked to a new one is longer by that.      *)
LEMMA AppendedChain ==
  ASSUME NEW f, NEW a, NEW m, NEW n, NEW b \in Addr \ {0},
         IsChain(f, a, m), a # b, Link(m, f[Len(f)]) = 0, f[Len(f)] \in Addr,
         f[Len(f)] # b, \A c \in Addr : Link(m, c) # b,
         \A c \in Addr : Link(n, c) = IF c = f[Len(f)] THEN b
                                      ELSE IF c = b THEN 0 ELSE Link(m, c)
  PROVE  IsChain(Append(f, b), a, n)
<1>1. PICK x \in Addr : x = f[Len(f)]
  OBVIOUS
<1>2. /\ a # b /\ x # b /\ Link(m, x) = 0 /\ \A c \in Addr : Link(m, c) # b
      /\ \A c \in Addr : Link(n, c) = IF c = x THEN b ELSE IF c = b THEN 0 ELSE Link(m, c)
  BY <1>1
<1>3. IF f[Len(f)] = x THEN IsChain(Append(f, b), a, n) ELSE IsChain(f, a, n)
  BY ONLY IsChain(f, a, m), b \in Addr \ {0}, <1>2, LinkedChain
<1> QED BY <1>1, <1>3

LEMMA ClippedChain ==
  ASSUME NEW f, NEW a, NEW m, NEW n, IsChain(f, a, m), NEW x \in Addr,
         \A c \in Addr : Link(n, c) = IF c = x THEN 0 ELSE Link(m, c)
  PROVE  \/ \E i \in 1 .. Len(f) : f[i] = x /\ IsChain(SubSeq(f, 1, i), a, n)
         \/ (\A i \in 1 .. Len(f) : f[i] # x) /\ IsChain(f, a, n)
<1>1. CASE \E i \in 1 .. Len(f) : f[i] = x
  BY <1>1, CutChain
<1>2. CASE \A i \in 1 .. Len(f) : f[i] # x
  <2>1. \A i \in 1 .. Len(f) : Link(n, f[i]) = Link(m, f[i])
    BY <1>2, ChainTypes
  <2> QED BY <1>2, <2>1, SameChain
<1> QED BY <1>1, <1>2

LEMMA LinkKeepsChained ==
  ASSUME NEW m, NEW n, Chained(m), NEW x \in Addr, NEW b \in Addr \ {0},
         x # b, Link(m, x) = 0, \A c \in Addr : Link(m, c) # b,
         \A c \in Addr : Link(n, c) = IF c = x THEN b ELSE IF c = b THEN 0 ELSE Link(m, c)
  PROVE  Chained(n)
<1> SUFFICES ASSUME NEW a \in Addr \ {0} PROVE \E g : IsChain(g, a, n)
  BY DEF Chained
<1>1. CASE a = b
  <2>1. Link(n, a) = 0
    BY <1>1
  <2> QED BY <2>1, LoneChain
<1>2. CASE a # b
  <2> PICK f : IsChain(f, a, m)
    BY DEF Chained
  <2>1. \/ IsChain(Append(f, b), a, n) \/ IsChain(f, a, n)
    BY <1>2, LinkedChain
  <2> QED BY <2>1
<1> QED BY <1>1, <1>2

LEMMA CutKeepsChained ==
  ASSUME NEW m, NEW n, Chained(m), NEW x \in Addr,
         \A c \in Addr : Link(n, c) = IF c = x THEN 0 ELSE Link(m, c)
  PROVE  Chained(n)
<1> SUFFICES ASSUME NEW a \in Addr \ {0} PROVE \E g : IsChain(g, a, n)
  BY DEF Chained
<1> PICK f : IsChain(f, a, m)
  BY DEF Chained
<1> QED BY ClippedChain

(* There is one chain from a block on.                                     *)
LEMMA ChainUnique ==
  ASSUME NEW f, NEW g, NEW a, NEW m, IsChain(f, a, m), IsChain(g, a, m)
  PROVE  f = g
<1>0. /\ Len(f) \in Nat \ {0} /\ a = f[1] /\ \A i \in 1 .. Len(f) : f[i] # 0
      /\ Len(g) \in Nat \ {0} /\ a = g[1] /\ \A i \in 1 .. Len(g) : g[i] # 0
      /\ f \in Seq(Addr) /\ g \in Seq(Addr)
  BY ChainTypes
<1>1. /\ \A i \in 1 .. Len(f) - 1 : Link(m, f[i]) = f[i + 1]
      /\ \A i \in 1 .. Len(g) - 1 : Link(m, g[i]) = g[i + 1]
      /\ Link(m, f[Len(f)]) = 0 /\ Link(m, g[Len(g)]) = 0
  BY DEF IsChain
<1> DEFINE S == {i \in Nat : i + 1 \in 1 .. Len(f) => i + 1 \in 1 .. Len(g) /\ f[i + 1] = g[i + 1]}
<1>2. 0 \in S
  <2>1. 0 + 1 = 1 /\ 1 \in 1 .. Len(g) /\ f[1] = g[1]
    BY <1>0
  <2> QED BY <2>1
<1>3. ASSUME NEW i \in Nat, i \in S PROVE i + 1 \in S
  <2> SUFFICES ASSUME i + 1 + 1 \in 1 .. Len(f)
               PROVE  i + 1 + 1 \in 1 .. Len(g) /\ f[i + 1 + 1] = g[i + 1 + 1]
    OBVIOUS
  <2>1. i + 1 \in 1 .. Len(f) - 1 /\ i + 1 \in 1 .. Len(f)
    BY <1>0
  <2>2. i + 1 \in 1 .. Len(g) /\ f[i + 1] = g[i + 1]
    BY <1>3, <2>1
  <2>3. Link(m, g[i + 1]) = f[i + 1 + 1] /\ f[i + 1 + 1] # 0
    BY <1>0, <1>1, <2>1, <2>2
  <2>4. i + 1 # Len(g)
    BY <1>1, <2>3
  <2>5. i + 1 \in 1 .. Len(g) - 1 /\ i + 1 + 1 \in 1 .. Len(g)
    BY <1>0, <2>2, <2>4
  <2> QED BY <1>1, <2>3, <2>5
<1>4. Nat \subseteq S
  <2> HIDE DEF S
  <2> QED BY <1>2, <1>3, Induct
<1>5. \A i \in 1 .. Len(f) : i \in 1 .. Len(g) /\ f[i] = g[i]
  <2> TAKE i \in 1 .. Len(f)
  <2>1. i - 1 \in Nat /\ i - 1 + 1 = i
    BY <1>0
  <2>2. i - 1 \in S
    BY <1>4, <2>1
  <2> QED BY <2>1, <2>2
<1>6. Len(f) = Len(g)
  <2>1. Len(f) \in 1 .. Len(g) /\ f[Len(f)] = g[Len(f)]
    BY <1>0, <1>5
  <2> SUFFICES ASSUME Len(f) # Len(g) PROVE FALSE
    OBVIOUS
  <2>2. Len(f) \in 1 .. Len(g) - 1 /\ Len(f) + 1 \in 1 .. Len(g)
    BY <1>0, <2>1
  <2> QED BY <1>0, <1>1, <2>1, <2>2
<1> QED BY <1>0, <1>5, <1>6

(* Two chains that meet: where no block follows two blocks, one starts     *)
(* inside the other.                                                       *)
LEMMA ChainsMeet ==
  ASSUME NEW f, NEW a, NEW g, NEW c, NEW m, IsChain(f, a, m), IsChain(g, c, m),
         \A x, y \in Addr : Link(m, x) # 0 /\ Link(m, x) = Link(m, y) => x = y,
         NEW j \in 1 .. Len(f), NEW k \in 1 .. Len(g), f[j] = g[k], j <= k
  PROVE  a = g[k - j + 1]
<1>0. /\ Len(f) \in Nat \ {0} /\ a = f[1] /\ \A i \in 1 .. Len(f) : f[i] \in Addr /\ f[i] # 0
      /\ Len(g) \in Nat \ {0} /\ \A i \in 1 .. Len(g) : g[i] \in Addr /\ g[i] # 0
  BY ChainTypes
<1>1. /\ \A i \in 1 .. Len(f) - 1 : Link(m, f[i]) = f[i + 1]
      /\ \A i \in 1 .. Len(g) - 1 : Link(m, g[i]) = g[i + 1]
  BY DEF IsChain
<1> DEFINE S == {i \in Nat : i < j => f[j - i] = g[k - i]}
<1>2. 0 \in S
  BY <1>0
<1>3. ASSUME NEW i \in Nat, i \in S PROVE i + 1 \in S
  <2> SUFFICES ASSUME i + 1 < j PROVE f[j - (i + 1)] = g[k - (i + 1)]
    OBVIOUS
  <2>1. f[j - i] = g[k - i]
    BY <1>0, <1>3
  <2> DEFINE p == j - (i + 1)  q == k - (i + 1)
  <2>2. /\ p \in 1 .. Len(f) - 1 /\ p \in 1 .. Len(f) /\ p + 1 = j - i /\ j - i \in 1 .. Len(f)
        /\ q \in 1 .. Len(g) - 1 /\ q \in 1 .. Len(g) /\ q + 1 = k - i
    BY <1>0
  <2> HIDE DEF p, q
  <2>3. Link(m, f[p]) = f[p + 1] /\ Link(m, g[q]) = g[q + 1] /\ f[p + 1] # 0
        /\ f[p] \in Addr /\ g[q] \in Addr
    BY <1>0, <1>1, <2>2
  <2>4. f[p] = g[q]
    BY <2>1, <2>2, <2>3
  <2> QED BY <2>4 DEF p, q
<1>4. Nat \subseteq S
  <2> HIDE DEF S
  <2> QED BY <1>2, <1>3, Induct
<1>5. j - 1 \in Nat /\ j - 1 < j /\ j - (j - 1) = 1 /\ k - (j - 1) = k - j + 1
  BY <1>0
<1>6. j - 1 \in S
  BY <1>4, <1>5
<1>7. f[j - (j - 1)] = g[k - (j - 1)]
  BY <1>5, <1>6
<1> QED BY <1>0, <1>5, <1>7

-----------------------------------------------------------------------------
(* Fork and Blocks of TfsFiles read the chains off the map.                *)

(* One more pass: the blocks from a on, given those of the shorter forks.  *)
Longer(h, n) ==
  [a \in Addr |-> IF a = 0 \/ n = 0 THEN << >> ELSE <<a>> \o h[n - 1][map[a].next]]

LEMMA SamePass ==
  ASSUME NEW h, NEW g, NEW n, n = 0 \/ h[n - 1] = g[n - 1]
  PROVE  Longer(h, n) = Longer(g, n)
<1>1. CASE n = 0
  BY <1>1 DEF Longer
<1>2. CASE h[n - 1] = g[n - 1]
  BY <1>2 DEF Longer
<1> QED BY <1>1, <1>2

LEMMA ForksExist ==
  ASSUME NEW N \in Nat
  PROVE  \E h : h = [n \in 0 .. N |-> Longer(h, n)]
<1> DEFINE S == {k \in Nat : \E h : h = [n \in 0 .. k |-> Longer(h, n)]}
<1>1. 0 \in S
  <2> DEFINE h == [n \in 0 .. 0 |-> Longer(<< >>, 0)]
  <2>1. \A n \in 0 .. 0 : Longer(h, n) = Longer(<< >>, 0)
    <3> TAKE n \in 0 .. 0
    <3>1. n = 0
      OBVIOUS
    <3> HIDE DEF h
    <3>2. Longer(h, 0) = Longer(<< >>, 0)
      BY SamePass
    <3> QED BY <3>1, <3>2
  <2>2. h = [n \in 0 .. 0 |-> Longer(h, n)]
    <3> DEFINE g == [n \in 0 .. 0 |-> Longer(h, n)]
    <3>1. \A n \in 0 .. 0 : h[n] = g[n]
      BY <2>1
    <3> QED BY <3>1
  <2> QED BY <2>2
<1>2. ASSUME NEW k \in Nat, k \in S PROVE k + 1 \in S
  <2>1. PICK h : h = [n \in 0 .. k |-> Longer(h, n)]
    BY <1>2
  <2> DEFINE g == [n \in 0 .. k + 1 |-> IF n = k + 1 THEN Longer(h, k + 1) ELSE h[n]]
  <2>2. ASSUME NEW n \in 0 .. k + 1 PROVE g[n] = Longer(g, n)
    <3>1. g[n] = IF n = k + 1 THEN Longer(h, k + 1) ELSE h[n]
      OBVIOUS
    <3>2. n = 0 \/ (n - 1 \in 0 .. k + 1 /\ n - 1 # k + 1)
      OBVIOUS
    <3>3. n = 0 \/ g[n - 1] = h[n - 1]
      BY <3>2
    <3> HIDE DEF g
    <3>4. Longer(g, n) = Longer(h, n)
      BY <3>3, SamePass
    <3>5. CASE n = k + 1
      BY <3>1, <3>4, <3>5
    <3>6. CASE n # k + 1
      <4>1. n \in 0 .. k
        BY <3>6
      <4>2. h[n] = Longer(h, n)
        BY <2>1, <4>1
      <4> QED BY <3>1, <3>4, <3>6, <4>2
    <3> QED BY <3>5, <3>6
  <2>3. g = [n \in 0 .. k + 1 |-> Longer(g, n)]
    <3> DEFINE e == [n \in 0 .. k + 1 |-> Longer(g, n)]
    <3>1. \A n \in 0 .. k + 1 : g[n] = e[n]
      BY <2>2
    <3> QED BY <3>1
  <2>4. \E i : i = [n \in 0 .. k + 1 |-> Longer(i, n)]
    BY <2>3
  <2> QED BY <2>4
<1>3. Nat \subseteq S
  <2> HIDE DEF S
  <2> QED BY <1>1, <1>2, Induct
<1> QED BY <1>3

LEMMA ForkUnfolds ==
  \A n \in 0 .. TotalBlocks : Fork[n] = Longer(Fork, n)
<1>1. TotalBlocks \in Nat
  BY Geometry
<1>2. PICK h : h = [n \in 0 .. TotalBlocks |-> Longer(h, n)]
  BY <1>1, ForksExist
<1>3. h = [n \in 0 .. TotalBlocks |->
             [a \in Addr |-> IF a = 0 \/ n = 0 THEN << >> ELSE <<a>> \o h[n - 1][map[a].next]]]
  BY <1>2 DEF Longer
<1>4. Fork = [n \in 0 .. TotalBlocks |->
             [a \in Addr |-> IF a = 0 \/ n = 0 THEN << >> ELSE <<a>> \o Fork[n - 1][map[a].next]]]
  BY <1>3, Zenon DEF Fork
<1> QED BY <1>4 DEF Longer

LEMMA ForkPass ==
  ASSUME NEW n \in 0 .. TotalBlocks, NEW a \in Addr
  PROVE  Fork[n][a] = IF a = 0 \/ n = 0 THEN << >>
                      ELSE <<a>> \o Fork[n - 1][map[a].next]
BY ForkUnfolds DEF Longer

LEMMA FrontBlock ==
  ASSUME NEW f \in Seq(Addr), NEW i \in 1 .. Len(f), NEW k \in i .. Len(f)
  PROVE  <<f[i]>> \o SubSeq(f, i + 1, k) = SubSeq(f, i, k)
<1> DEFINE g == SubSeq(f, i + 1, k)  h == SubSeq(f, i, k)  e == <<f[i]>> \o g
<1>0. Len(f) \in Nat /\ i \in Nat /\ k \in Nat /\ i <= k /\ k <= Len(f) /\ 1 <= i
  OBVIOUS
<1>1. g \in Seq(Addr) /\ Len(g) = k - i /\ \A j \in 1 .. k - i : g[j] = f[i + j]
  BY <1>0
<1>2. h \in Seq(Addr) /\ Len(h) = k - i + 1 /\ \A j \in 1 .. k - i + 1 : h[j] = f[i + j - 1]
  BY <1>0
<1>3. <<f[i]>> \in Seq(Addr) /\ Len(<<f[i]>>) = 1 /\ <<f[i]>>[1] = f[i]
  BY <1>0
<1> HIDE DEF g, h
<1>4. e \in Seq(Addr) /\ Len(e) = k - i + 1
  BY <1>0, <1>1, <1>3, SMTT(30)
<1>5. \A j \in 1 .. k - i + 1 : e[j] = h[j]
  <2> TAKE j \in 1 .. k - i + 1
  <2>1. CASE j = 1
    <3>1. e[1] = f[i]
      BY <1>1, <1>3
    <3>2. h[1] = f[i + 1 - 1] /\ i + 1 - 1 = i
      BY <1>0, <1>2
    <3> QED BY <2>1, <3>1, <3>2
  <2>2. CASE j # 1
    <3>1. j - 1 \in 1 .. k - i /\ i + (j - 1) = i + j - 1
      BY <1>0, <2>2
    <3>2. e[j] = g[j - 1]
      BY <1>1, <1>3, <2>2, <3>1
    <3> QED BY <1>1, <1>2, <3>1, <3>2
  <2> QED BY <2>1, <2>2
<1> HIDE DEF e
<1>6. e = h
  BY <1>0, <1>2, <1>4, <1>5
<1> QED BY <1>6 DEF e, g, h

(* The blocks of a chain that starts in use are in use, and their links    *)
(* are those of the map.                                                   *)
LEMMA ChainInUse ==
  ASSUME Inv, NEW f, NEW a, IsChain(f, a, map), InFork(map[a])
  PROVE  \A i \in 1 .. Len(f) : InFork(map[f[i]]) /\ map[f[i]].next = Link(map, f[i])
<1> TAKE i \in 1 .. Len(f)
<1>0. /\ Len(f) \in Nat \ {0} /\ a = f[1] /\ \A j \in 1 .. Len(f) : f[j] \in Addr /\ f[j] # 0
  BY ChainTypes
<1>1. CASE i = 1
  BY <1>0, <1>1 DEF Link
<1>2. CASE i # 1
  <2>1. i - 1 \in 1 .. Len(f) - 1 /\ i - 1 \in 1 .. Len(f) /\ i - 1 + 1 = i
    BY <1>0, <1>2
  <2>2. Link(map, f[i - 1]) = f[i] /\ f[i] # 0
    BY <1>0, <2>1 DEF IsChain
  <2>3. InFork(map[f[i - 1]]) /\ map[f[i - 1]].next = f[i] /\ map[f[i - 1]].next # 0
    BY <2>2 DEF Link
  <2>4. InFork(map[f[i]])
    BY <1>0, <2>1, <2>3, NextBlock
  <2> QED BY <2>4 DEF Link
<1> QED BY <1>1, <1>2

LEMMA ForkOfChain ==
  ASSUME Inv, NEW f, NEW a, IsChain(f, a, map), InFork(map[a]), NEW n \in 0 .. TotalBlocks
  PROVE  Fork[n][a] = SubSeq(f, 1, IF n < Len(f) THEN n ELSE Len(f))
<1>0. /\ Len(f) \in Nat \ {0} /\ a = f[1] /\ \A i \in 1 .. Len(f) : f[i] \in Addr /\ f[i] # 0
      /\ f \in Seq(Addr) /\ TotalBlocks \in Nat /\ 0 \in Addr /\ f # << >>
  BY ChainTypes, Geometry DEF IsChain
<1>1. /\ \A i \in 1 .. Len(f) - 1 : map[f[i]].next = f[i + 1]
      /\ map[f[Len(f)]].next = 0
  <2>1. /\ \A i \in 1 .. Len(f) - 1 : Link(map, f[i]) = f[i + 1]
        /\ Link(map, f[Len(f)]) = 0
    BY DEF IsChain
  <2>2. \A i \in 1 .. Len(f) : map[f[i]].next = Link(map, f[i])
    BY ChainInUse
  <2> QED BY <1>0, <2>1, <2>2
<1> DEFINE Upto(k) == IF k < Len(f) THEN k ELSE Len(f)
<1> DEFINE S == {k \in Nat : k <= TotalBlocks =>
                   \A i \in 1 .. Len(f) : Fork[k][f[i]] = SubSeq(f, i, Upto(i + k - 1))}
<1>2. 0 \in S
  <2>1. 0 \in 0 .. TotalBlocks /\ 0 \in Nat
    BY <1>0
  <2>2. ASSUME NEW i \in 1 .. Len(f) PROVE Fork[0][f[i]] = SubSeq(f, i, Upto(i + 0 - 1))
    <3>1. Fork[0][f[i]] = << >>
      BY <1>0, <2>1, ForkPass
    <3>2. Upto(i + 0 - 1) = i - 1
      BY <1>0
    <3>3. SubSeq(f, i, i - 1) = << >>
      BY <1>0
    <3> HIDE DEF Upto
    <3> QED BY <3>1, <3>2, <3>3
  <2> QED BY <2>1, <2>2
<1>3. ASSUME NEW k \in Nat, k \in S PROVE k + 1 \in S
  <2> SUFFICES ASSUME k + 1 <= TotalBlocks, NEW i \in 1 .. Len(f)
               PROVE  Fork[k + 1][f[i]] = SubSeq(f, i, Upto(i + (k + 1) - 1))
    <3> HIDE DEF Upto
    <3> QED OBVIOUS
  <2>1. k + 1 \in 0 .. TotalBlocks /\ k + 1 # 0 /\ k + 1 - 1 = k /\ k <= TotalBlocks
        /\ k \in 0 .. TotalBlocks
    BY <1>0
  <2>2. Fork[k + 1][f[i]] = <<f[i]>> \o Fork[k][map[f[i]].next]
    <3>1. f[i] \in Addr /\ f[i] # 0
      BY <1>0
    <3> DEFINE j == k + 1  b == f[i]
    <3>2. j \in 0 .. TotalBlocks /\ j # 0 /\ j - 1 = k /\ b \in Addr /\ b # 0
      BY <2>1, <3>1
    <3> HIDE DEF j, b
    <3>3. Fork[j][b] = <<b>> \o Fork[j - 1][map[b].next]
      BY <3>2, ForkPass
    <3>4. Fork[j][b] = <<b>> \o Fork[k][map[b].next]
      BY <3>2, <3>3
    <3> QED BY <3>4 DEF j, b
  <2>3. i + (k + 1) - 1 = i + k
    OBVIOUS
  <2>4. CASE i = Len(f)
    <3>1. Fork[k][map[f[i]].next] = << >>
      <4>1. map[f[i]].next = 0
        BY <1>1, <2>4
      <4>2. Fork[k][0] = << >>
        BY <1>0, <2>1, ForkPass
      <4> QED BY <4>1, <4>2
    <3>2. SubSeq(f, i + 1, Len(f)) = << >>
      BY <1>0, <2>4
    <3>3. <<f[i]>> \o SubSeq(f, i + 1, Len(f)) = SubSeq(f, i, Len(f))
      BY <1>0, <2>4, FrontBlock
    <3>4. Upto(i + k) = Len(f)
      BY <1>0, <2>4
    <3> HIDE DEF Upto
    <3> QED BY <2>2, <2>3, <3>1, <3>2, <3>3, <3>4
  <2>5. CASE i # Len(f)
    <3>1. i \in 1 .. Len(f) - 1 /\ i + 1 \in 1 .. Len(f) /\ i + 1 + k - 1 = i + k
      BY <1>0, <2>5
    <3>2. Fork[k][f[i + 1]] = SubSeq(f, i + 1, Upto(i + k))
      <4>1. Fork[k][f[i + 1]] = SubSeq(f, i + 1, Upto(i + 1 + k - 1))
        BY <1>3, <2>1, <3>1
      <4> QED BY <3>1, <4>1
    <3>3. Upto(i + k) \in i .. Len(f)
      BY <1>0, <3>1
    <3> HIDE DEF Upto
    <3>4. <<f[i]>> \o SubSeq(f, i + 1, Upto(i + k)) = SubSeq(f, i, Upto(i + k))
      BY <1>0, <3>3, FrontBlock
    <3>5. map[f[i]].next = f[i + 1]
      BY <1>1, <3>1
    <3> QED BY <2>2, <2>3, <3>2, <3>4, <3>5
  <2> QED BY <2>4, <2>5
<1>4. Nat \subseteq S
  <2> HIDE DEF S
  <2> QED BY <1>2, <1>3, Induct
<1>5. n \in S /\ n <= TotalBlocks /\ n \in Nat /\ 1 \in 1 .. Len(f) /\ 1 + n - 1 = n
  <2>1. n <= TotalBlocks /\ n \in Nat /\ 1 \in 1 .. Len(f) /\ 1 + n - 1 = n
    BY <1>0
  <2> HIDE DEF S
  <2> QED BY <1>4, <2>1
<1>6. Fork[n][f[1]] = SubSeq(f, 1, Upto(1 + n - 1))
  BY <1>5
<1> QED BY <1>0, <1>5, <1>6

(* The blocks from a on are the chain that starts there.                   *)
LEMMA BlocksOfChain ==
  ASSUME Inv, NEW f, NEW a, IsChain(f, a, map), InFork(map[a])
  PROVE  Blocks(a) = f
<1>1. Len(f) \in Nat \ {0} /\ f \in Seq(Addr) /\ Len(f) <= TotalBlocks /\ TotalBlocks \in Nat
  BY ChainTypes, ChainLength, Geometry DEF Inv
<1>2. Fork[TotalBlocks][a] = SubSeq(f, 1, IF TotalBlocks < Len(f) THEN TotalBlocks ELSE Len(f))
  BY <1>1, ForkOfChain
<1>3. (IF TotalBlocks < Len(f) THEN TotalBlocks ELSE Len(f)) = Len(f)
  BY <1>1
<1>4. SubSeq(f, 1, Len(f)) = f
  BY <1>1
<1> QED BY <1>2, <1>3, <1>4 DEF Blocks

-----------------------------------------------------------------------------
(* The invariant.                                                          *)

(* The chain of a file is as long as its record says.                      *)
CoveredBy(r, m) == \E f : IsChain(f, r.addr, m) /\ r.size <= Len(f) * BlockBytes
Covers ==
  \A a \in Addr, s \in Slots :
    IsRecord(a, s) /\ disk[a].recs[s].type = "FILE" => CoveredBy(disk[a].recs[s], map)

(* How far add has got with the chain of its file.                         *)
Reached(f, k) ==
  /\ IsChain(f, dir[slot].addr, map) /\ k \in 1 .. Len(f) /\ f[k] = file_address
  /\ pc \in {"clear", "search"} => k = 1
  /\ pc = "write" => dir[slot].size = (k - 1) * BlockBytes
  /\ pc = "record" => dir[slot].size <= k * BlockBytes
AddCounts == FileOpen => \E f, k : Reached(f, k)

ForkInv == Chained(map) /\ Covers /\ AddCounts

(* What a step of the tool may do to the links of the map.                 *)
MapEffect ==
  \/ \A c \in Addr : Link(map', c) = Link(map, c)
  \/ \A c \in Addr : Link(map', c) = 0
  \/ \E x \in Addr : \A c \in Addr : Link(map', c) = IF c = x THEN 0 ELSE Link(map, c)
  \/ \E x \in Addr, b \in Addr, t \in {"FILE", "DIR"} : LinksTo(x, b, t) /\ Formatted

(* A link is what the map's site points to.                                *)
LEMMA LinkTarget == \A c \in Addr : Target(<<"map", c, 0>>) = Link(map, c)
BY TargetNow DEF Link

LEMMA LinkFacts ==
  ASSUME Inv, NEW x \in Addr, NEW b \in Addr, NEW t \in {"FILE", "DIR"},
         LinksTo(x, b, t), Formatted
  PROVE  /\ b \in Addr \ {0} /\ x # b /\ Link(map, x) = 0 /\ x # 0
         /\ \A c \in Addr : Link(map, c) # b
         /\ \A a \in Addr, s \in Slots : IsRecord(a, s) => disk[a].recs[s].addr # b
         /\ boot.root # b
         /\ \A s \in Slots : ~InUse(disk[b].recs[s])
         /\ \A c \in Addr : Link(map', c) = IF c = x THEN b ELSE IF c = b THEN 0 ELSE Link(map, c)
<1>1. /\ x # b /\ Link(map, x) = 0 /\ map[b].type = "EMPTY" /\ map[x].type = t
      /\ \A c \in Addr : Link(map', c) = IF c = b THEN 0 ELSE IF c = x THEN b ELSE Link(map, c)
  BY Geometry DEF LinksTo, Link, InFork
<1>2. b # 0 /\ \A o \in Sites : Target(o) # b
  BY <1>1, FreeBlock
<1>3. \A s \in Slots : ~InUse(disk[b].recs[s])
  BY <1>1, FreeBlock
<1>4. \A c \in Addr : Link(map, c) # b
  BY <1>2, SiteKinds, LinkTarget
<1>5. \A a \in Addr, s \in Slots : IsRecord(a, s) => disk[a].recs[s].addr # b
  BY <1>2, SiteKinds, TargetNow
<1>6. boot.root # b
  BY <1>2, SiteKinds, TargetNow
<1>7. x # 0
  BY <1>1, NoForkAtZero
<1> QED BY <1>1, <1>2, <1>3, <1>4, <1>5, <1>6, <1>7

LEMMA MapEffects ==
  ASSUME Inv, [Next]_vars PROVE MapEffect
<1>0. TypeOK
  BY DEF Inv
<1>1. CASE Quiet \/ FmtZero \/ BootLoader \/ Clear
  BY <1>1, QuietSteps DEF FmtZero, BootLoader, Clear, MapEffect
<1>2. CASE FmtBoot \/ \E r \in Requests : GenFs(r)
  <2>1. \A c \in Addr : ~InFork(map'[c])
    <3>1. CASE FmtBoot
      <4> PICK stray \in [Addr \ OnHeap -> Heap] : map' = FreshMap(stray)
        BY <3>1 DEF FmtBoot
      <4> QED BY FreshTypes, Geometry
    <3>2. CASE \E r \in Requests : GenFs(r)
      BY <3>2, Geometry DEF GenFs, ZeroMap, EmptyPtr, InFork
    <3> QED BY <1>2, <3>1, <3>2
  <2>2. \A c \in Addr : Link(map', c) = 0
    BY <2>1 DEF Link
  <2> QED BY <2>2 DEF MapEffect
<1>3. CASE FmtRoot
  <2>1. PICK b \in Addr : IsFirstFree(b) /\ map' = Allocated(b, "DIR")
    BY <1>3 DEF FmtRoot
  <2>3. \A c \in Addr : map'[c] = IF c = b THEN [type |-> "DIR", next |-> 0] ELSE map[c]
    BY <1>0, <2>1, AllocatedEntries, Geometry DEF Types
  <2>2. \A c \in Addr : Link(map', c) = IF c = b THEN 0 ELSE Link(map, c)
    BY <2>3 DEF Link
  <2> QED BY <2>2 DEF MapEffect
<1>4. CASE Insert
  <2>1. PICK b \in Addr : \A e \in Entries :
             map'[e] = IF e = b THEN [type |-> NewType, next |-> 0] ELSE map[e]
    BY <1>4, InsertEffect
  <2>2. \A c \in Addr : Link(map', c) = IF c = b THEN 0 ELSE Link(map, c)
    BY <2>1, Geometry DEF Link
  <2> QED BY <2>2 DEF MapEffect
<1>5. CASE Extend
  <2>1. Formatted
    BY <1>5 DEF Extend, Formatted
  <2> QED BY <1>5, <2>1, ExtendEffect DEF MapEffect
<1>6. CASE Write
  <2>1. Formatted /\ file_address \in Addr
    BY <1>0, <1>6 DEF Write, Formatted, TypeOK
  <2> QED BY <1>6, <2>1, WriteEffect DEF MapEffect
<1>7. CASE Record
  <2>1. file_address \in Addr
    BY <1>0 DEF TypeOK
  <2>2. \A c \in Addr : Link(map', c) = IF c = file_address THEN 0 ELSE Link(map, c)
    BY <1>7, RecordEffect, Geometry DEF Link, InFork
  <2> QED BY <2>1, <2>2 DEF MapEffect
<1>8. CASE Trim
  <2>1. \A c \in Addr : Link(map', c) = IF c = trim_address THEN 0 ELSE Link(map, c)
    <3>1. \A e \in Entries : map'[e] = IF e = trim_address THEN EmptyPtr ELSE map[e]
      BY <1>8, TrimEffect
    <3>2. EmptyPtr.next = 0
      BY DEF EmptyPtr
    <3> QED BY <3>1, <3>2, Geometry DEF Link
  <2> QED BY <1>8, <2>1, TrimEffect DEF MapEffect
<1> QED BY <1>1, <1>2, <1>3, <1>4, <1>5, <1>6, <1>7, <1>8, NextCases

LEMMA ChainedStep ==
  ASSUME Inv, Chained(map), [Next]_vars PROVE Chained(map')
<1> DEFINE m == map  n == map'
<1>0. Chained(m)
  OBVIOUS
<1>1. CASE \A c \in Addr : Link(map', c) = Link(map, c)
  <2>1. \A c \in Addr : Link(n, c) = Link(m, c)
    BY <1>1
  <2> HIDE DEF m, n
  <2>2. ASSUME NEW a \in Addr \ {0} PROVE \E g : IsChain(g, a, n)
    <3> PICK f : IsChain(f, a, m)
      BY <1>0 DEF Chained
    <3>1. \A i \in 1 .. Len(f) : Link(n, f[i]) = Link(m, f[i])
      BY <2>1, ChainTypes
    <3> QED BY <3>1, SameChain
  <2>3. Chained(n)
    BY <2>2 DEF Chained
  <2> QED BY <2>3 DEF n
<1>2. CASE \A c \in Addr : Link(map', c) = 0
  BY <1>2, LoneChain DEF Chained
<1>3. CASE \E x \in Addr : \A c \in Addr : Link(map', c) = IF c = x THEN 0 ELSE Link(map, c)
  <2>1. \E x \in Addr : \A c \in Addr : Link(n, c) = IF c = x THEN 0 ELSE Link(m, c)
    BY <1>3
  <2> HIDE DEF m, n
  <2>2. Chained(n)
    BY <1>0, <2>1, CutKeepsChained
  <2> QED BY <2>2 DEF n
<1>4. CASE \E x \in Addr, b \in Addr, t \in {"FILE", "DIR"} : LinksTo(x, b, t) /\ Formatted
  <2> PICK x \in Addr, b \in Addr, t \in {"FILE", "DIR"} : LinksTo(x, b, t) /\ Formatted
    BY <1>4
  <2>1. /\ b \in Addr \ {0} /\ x # b /\ Link(m, x) = 0 /\ \A c \in Addr : Link(m, c) # b
        /\ \A c \in Addr : Link(n, c) = IF c = x THEN b ELSE IF c = b THEN 0 ELSE Link(m, c)
    BY LinkFacts
  <2> HIDE DEF m, n
  <2>2. Chained(n)
    BY <1>0, <2>1, LinkKeepsChained
  <2> QED BY <2>2 DEF n
<1> QED BY <1>1, <1>2, <1>3, <1>4, MapEffects DEF MapEffect

-----------------------------------------------------------------------------
(* No block belongs to the chains of two heads.                            *)

Heads == {o \in Sites : \A c \in Addr : o # <<"map", c, 0>>}

LEMMA LinkTargets ==
  ASSUME Inv
  PROVE  \A x, y \in Addr : Link(map, x) # 0 /\ Link(map, x) = Link(map, y) => x = y
<1> SUFFICES ASSUME NEW x \in Addr, NEW y \in Addr, Link(map, x) # 0, Link(map, x) = Link(map, y)
             PROVE  x = y
  OBVIOUS
<1>1. <<"map", x, 0>> \in Sites /\ <<"map", y, 0>> \in Sites
  BY SiteKinds
<1>2. Target(<<"map", x, 0>>) = Link(map, x) /\ Target(<<"map", y, 0>>) = Link(map, y)
  BY LinkTarget
<1>3. <<"map", x, 0>> = <<"map", y, 0>>
  BY <1>1, <1>2 DEF Inv, NoSharedBlock
<1> QED BY <1>3, SitesDiffer

LEMMA HeadInside ==
  ASSUME Inv, NEW p \in Heads, NEW q \in Heads, NEW f, NEW g,
         IsChain(f, Target(p), map), IsChain(g, Target(q), map),
         NEW j \in 1 .. Len(f), NEW k \in 1 .. Len(g), f[j] = g[k], j <= k
  PROVE  p = q
<1>0. /\ Len(f) \in Nat \ {0} /\ Target(p) = f[1] /\ f[1] # 0
      /\ Len(g) \in Nat \ {0} /\ Target(q) = g[1]
      /\ \A i \in 1 .. Len(g) : g[i] \in Addr /\ g[i] # 0
      /\ p \in Sites /\ q \in Sites
  BY ChainTypes DEF Heads
<1> DEFINE l == k - j + 1
<1>1. Target(p) = g[l] /\ l \in 1 .. Len(g)
  <2>1. \A x, y \in Addr : Link(map, x) # 0 /\ Link(map, x) = Link(map, y) => x = y
    BY LinkTargets
  <2>2. Target(p) = g[k - j + 1]
    BY <2>1, ChainsMeet
  <2> QED BY <1>0, <2>2
<1> HIDE DEF l
<1>2. CASE l = 1
  BY <1>0, <1>1, <1>2 DEF Inv, NoSharedBlock
<1>3. CASE l # 1
  <2>1. l - 1 \in 1 .. Len(g) - 1 /\ l - 1 \in 1 .. Len(g) /\ l - 1 + 1 = l
    BY <1>0, <1>1, <1>3
  <2>2. Link(map, g[l - 1]) = g[l] /\ g[l - 1] \in Addr
    BY <1>0, <2>1 DEF IsChain
  <2> DEFINE o == <<"map", g[l - 1], 0>>
  <2>3. o \in Sites /\ Target(o) = g[l]
    BY <2>2, SiteKinds, LinkTarget
  <2>4. p # o
    BY <2>2 DEF Heads
  <2> HIDE DEF o
  <2>5. Target(p) # 0 /\ Target(p) = Target(o)
    BY <1>0, <1>1, <2>3
  <2> QED BY <1>0, <2>3, <2>4, <2>5 DEF Inv, NoSharedBlock
<1> QED BY <1>2, <1>3

LEMMA HeadsApart ==
  ASSUME Inv, NEW p \in Heads, NEW q \in Heads, p # q, NEW f, NEW g,
         IsChain(f, Target(p), map), IsChain(g, Target(q), map)
  PROVE  \A j \in 1 .. Len(f), k \in 1 .. Len(g) : f[j] # g[k]
<1> SUFFICES ASSUME NEW j \in 1 .. Len(f), NEW k \in 1 .. Len(g), f[j] = g[k] PROVE FALSE
  OBVIOUS
<1>1. j \in Nat /\ k \in Nat
  BY ChainTypes
<1>2. CASE j <= k
  BY <1>2, HeadInside
<1>3. CASE k <= j
  BY <1>3, HeadInside
<1> QED BY <1>1, <1>2, <1>3

(* A record in use is a head.                                              *)
LEMMA RecordHead ==
  ASSUME Inv, NEW a \in Addr, NEW s \in Slots, InUse(disk[a].recs[s])
  PROVE  /\ IsRecord(a, s) /\ <<"rec", a, s>> \in Heads
         /\ Target(<<"rec", a, s>>) = disk[a].recs[s].addr
         /\ disk[a].recs[s].addr \in Addr \ {0}
<1>1. IsRecord(a, s)
  BY DEF Inv, RecordsSound, IsRecord
<1>2. <<"rec", a, s>> \in Sites /\ \A c \in Addr : <<"rec", a, s>> # <<"map", c, 0>>
  BY SiteKinds, SitesDiffer
<1> QED BY <1>1, <1>2, TargetNow, RecordBlock DEF Heads

-----------------------------------------------------------------------------
(* Every step keeps the files as long as their records say.                *)

LEMMA CoversNow ==
  ASSUME Inv
  PROVE  Covers <=> \A a \in Addr, s \in Slots :
           InUse(disk[a].recs[s]) /\ disk[a].recs[s].type = "FILE" => CoveredBy(disk[a].recs[s], map)
BY RecordHead DEF Covers, IsRecord

LEMMA CoversNext ==
  (\A a \in Addr, s \in Slots :
     InUse(disk'[a].recs[s]) /\ disk'[a].recs[s].type = "FILE" => CoveredBy(disk'[a].recs[s], map'))
  => Covers'
<1>1. ASSUME NEW a \in Addr, NEW s \in Slots
      PROVE  /\ CoveredBy(disk[a].recs[s], map)' <=> CoveredBy(disk'[a].recs[s], map')
             /\ IsRecord(a, s)' => InUse(disk'[a].recs[s])
  BY DEF CoveredBy, IsChain, IsRecord, InUse
<1> QED BY <1>1 DEF Covers

LEMMA CoveredSame ==
  ASSUME NEW r, NEW m, NEW n, CoveredBy(r, m), \A c \in Addr : Link(n, c) = Link(m, c)
  PROVE  CoveredBy(r, n)
<1> PICK f : IsChain(f, r.addr, m) /\ r.size <= Len(f) * BlockBytes
  BY DEF CoveredBy
<1>1. \A i \in 1 .. Len(f) : Link(n, f[i]) = Link(m, f[i])
  BY ChainTypes
<1> QED BY <1>1, SameChain DEF CoveredBy

LEMMA CoveredLonger ==
  ASSUME NEW r, NEW m, NEW n, CoveredBy(r, m), r.size \in Nat,
         NEW x \in Addr, NEW b \in Addr \ {0},
         r.addr # b, x # b, Link(m, x) = 0, \A c \in Addr : Link(m, c) # b,
         \A c \in Addr : Link(n, c) = IF c = x THEN b ELSE IF c = b THEN 0 ELSE Link(m, c)
  PROVE  CoveredBy(r, n)
<1> PICK f : IsChain(f, r.addr, m) /\ r.size <= Len(f) * BlockBytes
  BY DEF CoveredBy
<1>1. IF f[Len(f)] = x THEN IsChain(Append(f, b), r.addr, n) ELSE IsChain(f, r.addr, n)
  BY LinkedChain
<1>2. f \in Seq(Addr) /\ Len(f) \in Nat /\ BlockBytes \in Nat
  BY ChainTypes, Geometry
<1>3. Len(Append(f, b)) = Len(f) + 1
  BY <1>2
<1>4. r.size <= (Len(f) + 1) * BlockBytes
  <2>1. (Len(f) + 1) * BlockBytes = Len(f) * BlockBytes + BlockBytes
    BY <1>2
  <2>2. Len(f) * BlockBytes \in Nat
    BY <1>2
  <2> QED BY <1>2, <2>1, <2>2
<1> QED BY <1>1, <1>3, <1>4 DEF CoveredBy

LEMMA CoveredClipped ==
  ASSUME NEW r, NEW m, NEW n, CoveredBy(r, m), NEW x \in Addr,
         \A c \in Addr : Link(n, c) = IF c = x THEN 0 ELSE Link(m, c),
         \A f : IsChain(f, r.addr, m) => \A i \in 1 .. Len(f) : f[i] # x
  PROVE  CoveredBy(r, n)
<1> PICK f : IsChain(f, r.addr, m) /\ r.size <= Len(f) * BlockBytes
  BY DEF CoveredBy
<1>1. \A i \in 1 .. Len(f) : f[i] # x
  OBVIOUS
<1>2. IsChain(f, r.addr, n)
  BY <1>1, ClippedChain
<1> QED BY <1>2 DEF CoveredBy

(* A block that nothing points to is on no record's chain.                 *)
LEMMA NotOnChain ==
  ASSUME Inv, NEW x \in Addr, \A o \in Sites : Target(o) # x,
         NEW p \in Heads, NEW f, IsChain(f, Target(p), map)
  PROVE  \A i \in 1 .. Len(f) : f[i] # x
<1> TAKE i \in 1 .. Len(f)
<1>0. /\ Len(f) \in Nat \ {0} /\ Target(p) = f[1] /\ \A j \in 1 .. Len(f) : f[j] \in Addr
      /\ p \in Sites
  BY ChainTypes DEF Heads
<1>1. CASE i = 1
  BY <1>0, <1>1
<1>2. CASE i # 1
  <2>1. i - 1 \in 1 .. Len(f) - 1 /\ i - 1 \in 1 .. Len(f) /\ i - 1 + 1 = i
    BY <1>0, <1>2
  <2>2. Link(map, f[i - 1]) = f[i] /\ f[i - 1] \in Addr
    BY <1>0, <2>1 DEF IsChain
  <2> QED BY <2>2, SiteKinds, LinkTarget
<1> QED BY <1>1, <1>2

LEMMA CoversStep ==
  ASSUME Inv, ForkInv, [Next]_vars PROVE Covers'
<1> DEFINE R(a, s) == disk[a].recs[s]  N(a, s) == disk'[a].recs[s]
<1>0. TypeOK /\ Covers
  BY DEF Inv, ForkInv
<1>1. \A a \in Addr, s \in Slots :
        /\ InUse(R(a, s)) /\ R(a, s).type = "FILE" => CoveredBy(R(a, s), map)
        /\ R(a, s).size \in Nat
  BY <1>0, CoversNow, PartTypes
<1>2. ASSUME NEW a \in Addr, NEW s \in Slots, ~InUse(N(a, s)) \/ N(a, s) = R(a, s),
             \A c \in Addr : Link(map', c) = Link(map, c)
      PROVE  InUse(N(a, s)) /\ N(a, s).type = "FILE" => CoveredBy(N(a, s), map')
  <2> HIDE DEF R, N
  <2> QED BY <1>1, <1>2, CoveredSame
<1>3. CASE Quiet \/ FmtZero \/ BootLoader \/ Clear
  <2>1. map' = map
    BY <1>3, QuietSteps DEF FmtZero, BootLoader, Clear
  <2>2. ASSUME NEW a \in Addr, NEW s \in Slots PROVE ~InUse(N(a, s)) \/ N(a, s) = R(a, s)
    <3>1. CASE Quiet
      BY <3>1, QuietSteps
    <3>2. CASE FmtZero \/ Clear
      <4>1. PICK d \in Addr : disk' = [disk EXCEPT ![d] = ZeroBlock]
        BY <1>0, <3>2 DEF FmtZero, Clear, TypeOK
      <4>2. disk'[a] = ZeroBlock \/ disk'[a] = disk[a]
        BY <1>0, <4>1 DEF TypeOK
      <4>3. ~InUse(ZeroBlock.recs[s])
        BY DEF ZeroBlock, InUse, NoRec
      <4> HIDE DEF ZeroBlock
      <4> QED BY <4>2, <4>3
    <3>3. CASE BootLoader
      <4> DEFINE x == LoaderBlock(req.src, w * BlockBytes)
      <4>1. disk' = disk \/ disk' = [disk EXCEPT ![w + 1] = x]
        BY <3>3 DEF BootLoader
      <4>2. ~InUse(x.recs[s])
        BY DEF LoaderBlock, InUse, JunkRec
      <4> HIDE DEF x
      <4>3. disk'[a] = x \/ disk'[a] = disk[a]
        BY <1>0, <4>1 DEF TypeOK
      <4> QED BY <4>2, <4>3
    <3> QED BY <1>3, <3>1, <3>2, <3>3
  <2> HIDE DEF R, N
  <2>3. \A a \in Addr, s \in Slots :
          InUse(N(a, s)) /\ N(a, s).type = "FILE" => CoveredBy(N(a, s), map')
    BY <1>2, <2>1, <2>2
  <2> QED BY <2>3, CoversNext DEF N
<1>4. CASE FmtBoot \/ FmtRoot \/ \E r \in Requests : GenFs(r)
  <2>1. \A a \in Addr, s \in Slots : ~InUse(N(a, s))
    <3>1. CASE FmtBoot \/ FmtRoot
      BY <3>1 DEF FmtBoot, FmtRoot, Inv, Blank
    <3>2. CASE \E r \in Requests : GenFs(r)
      BY <3>2 DEF GenFs, ZeroBlock, InUse, NoRec
    <3> QED BY <1>4, <3>1, <3>2
  <2> QED BY <2>1, CoversNext
<1>5. CASE Insert
  <2> PICK i \in Slots, b \in Addr :
        /\ map[b].type = "EMPTY"
        /\ \A e \in Entries :
             map'[e] = IF e = b THEN [type |-> NewType, next |-> 0] ELSE map[e]
        /\ \A a \in Addr, t \in Slots :
             N(a, t) = IF a = dir_address /\ t = i THEN NewRec(b) ELSE R(a, t)
    BY <1>5, InsertEffect
  <2>1. b # 0 /\ Link(map, b) = 0
    BY <1>5, FreeBlock DEF Insert, Formatted, Link, InFork
  <2>2. \A c \in Addr : Link(map', c) = Link(map, c)
    BY <2>1, Geometry DEF Link
  <2>3. CoveredBy(NewRec(b), map')
    <3>1. Link(map', b) = 0
      BY <2>1, <2>2
    <3>2. IsChain(<<b>>, b, map')
      BY <2>1, <3>1, LoneChain
    <3>3. NewRec(b).addr = b /\ NewRec(b).size = 0 /\ Len(<<b>>) = 1
      BY DEF NewRec
    <3>4. 0 <= 1 * BlockBytes
      BY Geometry
    <3> QED BY <3>2, <3>3, <3>4 DEF CoveredBy
  <2> HIDE DEF R, N
  <2>4. ASSUME NEW a \in Addr, NEW s \in Slots
        PROVE  InUse(N(a, s)) /\ N(a, s).type = "FILE" => CoveredBy(N(a, s), map')
    <3>1. N(a, s) = NewRec(b) \/ N(a, s) = R(a, s)
      OBVIOUS
    <3> QED BY <1>2, <2>2, <2>3, <3>1
  <2> QED BY <2>4, CoversNext DEF N
<1>6. CASE Extend \/ Write
  <2>1. ASSUME NEW a \in Addr, NEW s \in Slots PROVE ~InUse(N(a, s)) \/ N(a, s) = R(a, s)
    <3>1. CASE Extend
      BY <3>1 DEF Extend, image
    <3>2. CASE Write
      BY <3>2, WriteEffect DEF InUse, JunkRec, NoRec
    <3> QED BY <1>6, <3>1, <3>2
  <2>2. \/ map' = map
        \/ \E x \in Addr, b \in Addr, t \in {"FILE", "DIR"} : LinksTo(x, b, t)
    <3>1. CASE Extend
      BY <3>1, ExtendEffect
    <3>2. CASE Write
      BY <1>0, <3>2, WriteEffect DEF TypeOK
    <3> QED BY <1>6, <3>1, <3>2
  <2>3. ASSUME NEW a \in Addr, NEW s \in Slots
        PROVE  InUse(N(a, s)) /\ N(a, s).type = "FILE" => CoveredBy(N(a, s), map')
    <3>1. CASE map' = map
      <4> HIDE DEF R, N
      <4> QED BY <1>2, <2>1, <3>1
    <3>2. CASE \E x \in Addr, b \in Addr, t \in {"FILE", "DIR"} : LinksTo(x, b, t)
      <4> PICK x \in Addr, b \in Addr, t \in {"FILE", "DIR"} : LinksTo(x, b, t)
        BY <3>2
      <4>0. Formatted
        BY <1>6 DEF Extend, Write, Formatted
      <4>1. SUFFICES ASSUME InUse(R(a, s)), R(a, s).type = "FILE"
                     PROVE  CoveredBy(R(a, s), map')
        BY <2>1 DEF R, N
      <4>2. CoveredBy(R(a, s), map) /\ R(a, s).size \in Nat
        BY <1>1, <4>1
      <4>3. R(a, s).addr # b
        <5>1. IsRecord(a, s)
          BY <4>1, RecordHead
        <5>2. \A c \in Addr, d \in Slots : IsRecord(c, d) => R(c, d).addr # b
          BY <4>0, LinkFacts
        <5> QED BY <5>1, <5>2
      <4> DEFINE m == map  n == map'
      <4>4. /\ b \in Addr \ {0} /\ x # b /\ Link(m, x) = 0 /\ \A c \in Addr : Link(m, c) # b
            /\ \A c \in Addr : Link(n, c) = IF c = x THEN b ELSE IF c = b THEN 0 ELSE Link(m, c)
        BY <4>0, LinkFacts
      <4>5. CoveredBy(R(a, s), m)
        BY <4>2
      <4> HIDE DEF m, n, R
      <4>6. CoveredBy(R(a, s), n)
        BY <4>2, <4>3, <4>4, <4>5, CoveredLonger
      <4> QED BY <4>6 DEF n
    <3> QED BY <2>2, <3>1, <3>2
  <2> QED BY <2>3, CoversNext
<1>7. CASE Trim
  <2>1. /\ disk' = disk /\ trim_address \in Addr /\ \A o \in Sites : Target(o) # trim_address
        /\ \A e \in Entries : map'[e] = IF e = trim_address THEN EmptyPtr ELSE map[e]
    BY <1>7, TrimEffect
  <2>2. \A c \in Addr : Link(map', c) = IF c = trim_address THEN 0 ELSE Link(map, c)
    <3>1. EmptyPtr.next = 0
      BY DEF EmptyPtr
    <3> QED BY <2>1, <3>1, Geometry DEF Link
  <2>3. ASSUME NEW a \in Addr, NEW s \in Slots
        PROVE  InUse(N(a, s)) /\ N(a, s).type = "FILE" => CoveredBy(N(a, s), map')
    <3> SUFFICES ASSUME InUse(R(a, s)), R(a, s).type = "FILE" PROVE CoveredBy(R(a, s), map')
      BY <2>1
    <3>1. CoveredBy(R(a, s), map)
      BY <1>1
    <3>2. <<"rec", a, s>> \in Heads /\ Target(<<"rec", a, s>>) = R(a, s).addr
      BY RecordHead
    <3>3. \A f : IsChain(f, R(a, s).addr, map) => \A i \in 1 .. Len(f) : f[i] # trim_address
      BY <2>1, <3>2, NotOnChain
    <3> HIDE DEF R
    <3> QED BY <2>1, <2>2, <3>1, <3>3, CoveredClipped
  <2> QED BY <2>3, CoversNext
<1>8. CASE Record
  <2>1. /\ dir_address \in Addr /\ file_address \in Addr /\ slot \in Slots
        /\ \A s \in Slots : s # slot => dir[s] = Here[s]
        /\ InUse(Here[slot]) /\ dir[slot].addr = Here[slot].addr /\ pc = "record"
    BY <1>8, OpenFile DEF Record
  <2>2. PICK f, k : Reached(f, k)
    <3>1. FileOpen
      BY <2>1 DEF FileOpen
    <3> QED BY <3>1 DEF ForkInv, AddCounts
  <2>3. /\ IsChain(f, dir[slot].addr, map) /\ k \in 1 .. Len(f) /\ f[k] = file_address
        /\ dir[slot].size <= k * BlockBytes
    BY <2>1, <2>2 DEF Reached
  <2>4. \A c \in Addr : Link(map', c) = IF c = file_address THEN 0 ELSE Link(map, c)
    BY <1>8, RecordEffect, Geometry DEF Link, InFork
  <2>5. \A a \in Addr, s \in Slots : N(a, s) = IF a = dir_address THEN dir[s] ELSE R(a, s)
    <3>1. disk' = [disk EXCEPT ![dir_address] = DirBlock(dir)]
      BY <1>8 DEF Record
    <3>2. DirBlock(dir).recs = dir
      BY DEF DirBlock
    <3> HIDE DEF DirBlock
    <3> QED BY <1>0, <3>1, <3>2 DEF TypeOK
  <2>6. ASSUME NEW a \in Addr, NEW s \in Slots, InUse(N(a, s)), N(a, s).type = "FILE"
        PROVE  CoveredBy(N(a, s), map')
    <3>1. CASE a = dir_address /\ s = slot
      <4>1. IsChain(SubSeq(f, 1, k), dir[slot].addr, map')
        <5> DEFINE m == map  n == map'
        <5>1. IsChain(f, dir[slot].addr, m) /\ \A c \in Addr : Link(n, c) = IF c = f[k] THEN 0 ELSE Link(m, c)
          BY <2>3, <2>4
        <5> HIDE DEF m, n
        <5>2. IsChain(SubSeq(f, 1, k), dir[slot].addr, n)
          BY <2>3, <5>1, CutChain
        <5> QED BY <5>2 DEF n
      <4>2. Len(SubSeq(f, 1, k)) = k
        BY <2>3, ChainTypes
      <4>3. N(a, s) = dir[slot]
        BY <2>5, <3>1
      <4> QED BY <2>3, <4>1, <4>2, <4>3 DEF CoveredBy
    <3>2. CASE ~(a = dir_address /\ s = slot)
      <4>1. N(a, s) = R(a, s)
        BY <2>1, <2>5, <3>2 DEF Here
      <4>2. InUse(R(a, s)) /\ R(a, s).type = "FILE" /\ CoveredBy(R(a, s), map)
        BY <1>1, <2>6, <4>1
      <4>3. /\ <<"rec", a, s>> \in Heads /\ Target(<<"rec", a, s>>) = R(a, s).addr
            /\ <<"rec", dir_address, slot>> \in Heads
            /\ Target(<<"rec", dir_address, slot>>) = dir[slot].addr
        BY <2>1, <4>2, RecordHead DEF Here
      <4>4. <<"rec", a, s>> # <<"rec", dir_address, slot>>
        BY <3>2, SitesDiffer
      <4>5. \A g : IsChain(g, R(a, s).addr, map) => \A i \in 1 .. Len(g) : g[i] # file_address
        BY <2>3, <4>3, <4>4, HeadsApart
      <4>6. CoveredBy(R(a, s), map')
        <5> HIDE DEF R
        <5> QED BY <2>1, <2>4, <4>2, <4>5, CoveredClipped
      <4> QED BY <4>1, <4>6
    <3> QED BY <3>1, <3>2
  <2> QED BY <2>6, CoversNext
<1> QED BY <1>3, <1>4, <1>5, <1>6, <1>7, <1>8, NextCases

-----------------------------------------------------------------------------
(* The loop of cmd_add goes along the chain of its file.                   *)

LEMMA AddCountsStep ==
  ASSUME Inv, Inv', ForkInv, [Next]_vars PROVE AddCounts'
<1> USE DEF image, walk, rec, fork
<1>0. /\ TypeOK /\ Control /\ WalkSound /\ BufferSound /\ Chained(map) /\ AddCounts
      /\ TypeOK' /\ BufferSound' /\ Chained(map')
  BY ChainedStep DEF Inv, ForkInv
<1>1. ASSUME ~FileOpen' PROVE AddCounts'
  BY <1>1 DEF AddCounts
<1>2. ASSUME pc' \in {"clear", "search"}, FileOpen', file_address' = dir'[slot'].addr
      PROVE  AddCounts'
  <2>1. file_address' \in Addr \ {0}
    <3>1. file_address' \in Addr /\ map'[file_address'].type = "FILE"
      BY <1>0, <1>2 DEF BufferSound, TypeOK
    <3>2. map'[0].type \notin {"FILE", "DIR"}
      BY Geometry DEF Inv, MapSound
    <3> QED BY <3>1, <3>2
  <2>2. PICK f : IsChain(f, file_address', map')
    BY <1>0, <2>1 DEF Chained
  <2>3. f[1] = file_address' /\ 1 \in 1 .. Len(f)
    BY <2>2, ChainTypes
  <2>4. Reached(f, 1)'
    BY <1>2, <2>2, <2>3 DEF Reached, IsChain
  <2> QED BY <2>4 DEF AddCounts
<1>3. CASE Found
  <2>1. CASE FileOpen'
    <3>1. Search /\ req' = req /\ map' = map /\ pc' \in {"search", "umount"}
      BY <1>3 DEF Found, Search, Enter, EnterOrOpen, Reject, Follow, NextPart, Finish
    <3>2. pc' = "search" /\ req.op = "add" /\ part_i' > Len(req.path)
      BY <2>1, <3>1 DEF FileOpen, PathDone
    <3> PICK s \in Slots :
          /\ FirstMatch(s)
          /\ Enter(Here[s]) \/ EnterOrOpen(Here[s], s) \/ Reject(Here[s]) \/ Follow(Here[s])
      BY <1>3 DEF Found
    <3>3. EnterOrOpen(Here[s], s)
      BY <3>2 DEF Enter, EnterOrOpen, Reject, Follow, Finish
    <3>4. /\ slot' = s /\ file_address' = Here[s].addr
          /\ dir' = [Here EXCEPT ![s].perm = "ifdir"] \/ dir' = [Here EXCEPT ![s].perm = "ifreg"]
      BY <3>3 DEF EnterOrOpen
    <3>5. Here \in [Slots -> Rec] /\ Here[s] \in Rec
      BY <1>0, PartTypes DEF TypeOK, Here
    <3>6. dir'[s].addr = Here[s].addr
      BY <3>4, <3>5 DEF Rec
    <3> QED BY <1>2, <2>1, <3>2, <3>4, <3>6
  <2> QED BY <1>1, <2>1
<1>4. CASE SearchOn \/ NotFound
  <2>1. ~PathDone'
    BY <1>0, <1>4, RequestTypes DEF SearchOn, NotFound, Search, PathDone, TypeOK, Control
  <2>2. pc' \in {"search", "insert", "umount"}
    BY <1>4 DEF SearchOn, NotFound, Search, Finish
  <2> QED BY <1>1, <2>1, <2>2 DEF FileOpen
<1>5. ASSUME NEW r \in Requests, Start(r) PROVE AddCounts'
  <2>1. CASE r.op = "add"
    <3>1. part_i' = 1 /\ req' = r /\ pc' = "search" /\ r.path # << >> /\ r.path \in Seq(Names)
      BY <1>0, <1>5, <2>1, RequestTypes DEF Start, Control, FirstStep
    <3>2. Len(r.path) >= 1
      BY <3>1
    <3> QED BY <1>1, <3>1, <3>2 DEF PathDone, FileOpen
  <2>2. CASE r.op # "add"
    <3>1. req' = r /\ pc' \in {"search", "bootsect", "bootloader", "umount"}
      BY <1>5, <2>2, RequestTypes DEF Start, FirstStep, Commands
    <3> QED BY <1>1, <2>2, <3>1 DEF FileOpen
  <2> QED BY <2>1, <2>2
<1>6. CASE Insert
  <2> PICK i \in Slots, b \in Addr :
        /\ dir_address \in Addr
        /\ \A a \in Addr, t \in Slots :
             disk'[a].recs[t] = IF a = dir_address /\ t = i THEN NewRec(b)
                                ELSE disk[a].recs[t]
        /\ dir' = disk'[dir_address].recs
        /\ slot' = i /\ file_address' = b
    BY <1>6, InsertEffect
  <2>1. pc' = "clear"
    BY <1>6 DEF Insert
  <2>2. dir'[slot'].addr = b
    BY DEF NewRec
  <2> QED BY <1>1, <1>2, <2>1, <2>2
<1>7. CASE Clear
  <2>1. /\ pc' = "search" /\ map' = map /\ req' = req /\ part_i' = part_i + 1
        /\ file_address' = file_address /\ dir' = dir /\ slot' = slot
    BY <1>7 DEF Clear
  <2>2. CASE FileOpen
    <3>1. PICK f, k : Reached(f, k)
      BY <1>0, <2>2 DEF AddCounts
    <3>2. file_address = dir[slot].addr
      <4>1. pc = "clear"
        BY <1>7 DEF Clear
      <4> QED BY <3>1, <4>1 DEF Reached, IsChain
    <3> QED BY <1>1, <1>2, <2>1, <3>2
  <2>3. CASE ~FileOpen
    <3>1. NewType = "DIR"
      BY <1>7, <2>3 DEF FileOpen, Clear, NewType
    <3>2. part_i \in Nat /\ Len(req.path) \in Nat
      BY <1>0, <1>7, RequestTypes DEF TypeOK, Clear, Control
    <3> QED BY <1>1, <2>1, <3>1, <3>2 DEF NewType, FileOpen, PathDone, MoreParts
  <2> QED BY <2>2, <2>3
<1>8. CASE WalkDone
  <2>1. CASE req.op = "add"
    <3>1. FileOpen /\ pc = "search"
      BY <1>8, <2>1 DEF WalkDone, FileOpen, PathDone
    <3>2. /\ map' = map /\ slot' = slot /\ pc' = "write"
          /\ file_address' = file_address /\ dir' = [dir EXCEPT ![slot].size = 0]
      BY <1>8, <2>1 DEF WalkDone, AfterPath
    <3>3. dir \in [Slots -> Rec] /\ slot \in Slots /\ dir[slot] \in Rec
      BY <1>0 DEF TypeOK
    <3>4. dir'[slot].addr = dir[slot].addr /\ dir'[slot].size = 0
      BY <3>2, <3>3 DEF Rec
    <3>5. PICK f, k : Reached(f, k)
      BY <1>0, <3>1 DEF AddCounts
    <3>6. k = 1 /\ (1 - 1) * BlockBytes = 0
      BY <3>1, <3>5, Geometry DEF Reached
    <3>7. Reached(f, k)'
      BY <3>2, <3>4, <3>5, <3>6 DEF Reached, IsChain
    <3> QED BY <3>7 DEF AddCounts
  <2>2. CASE req.op # "add"
    <3>1. pc' \in {"umount", "list", "read"}
      BY <1>0, <1>8, <2>2 DEF WalkDone, PathDone, AfterPath, Control
    <3> QED BY <1>1, <3>1 DEF FileOpen, PathDone
  <2> QED BY <2>1, <2>2
<1>9. CASE Write
  <2>1. /\ FileOpen /\ pc = "write" /\ slot' = slot
        /\ dir' = [dir EXCEPT ![slot].size = @ + ReadSize]
    BY <1>9 DEF Write, FileOpen
  <2>2. PICK f, k : Reached(f, k)
    BY <1>0, <2>1 DEF AddCounts
  <2>3. /\ IsChain(f, dir[slot].addr, map) /\ k \in 1 .. Len(f) /\ f[k] = file_address
        /\ dir[slot].size = (k - 1) * BlockBytes
    BY <2>1, <2>2 DEF Reached
  <2>4. /\ Len(f) \in Nat \ {0} /\ f \in Seq(Addr) /\ k \in Nat /\ k <= Len(f) /\ 1 <= k
    BY <2>3, ChainTypes
  <2>5. ReadSize \in Nat /\ ReadSize <= BlockBytes /\ BlockBytes \in Nat
    BY <1>0, Geometry DEF ReadSize, TypeOK
  <2>6. dir'[slot'].addr = dir[slot].addr /\ dir'[slot'].size = dir[slot].size + ReadSize
    <3>1. dir \in [Slots -> Rec] /\ slot \in Slots /\ dir[slot] \in Rec
      BY <1>0 DEF TypeOK
    <3> QED BY <2>1, <3>1 DEF Rec
  <2>7. (k - 1) * BlockBytes + BlockBytes = k * BlockBytes
    BY <2>4, <2>5
  <2>12. file_address \in Addr /\ InFork(map[file_address])
    BY <1>0, <2>1, OpenFile DEF InFork
  <2>8. CASE ReadSize < BlockBytes /\ pc' = "record" /\ UNCHANGED <<ret, map, file_address>>
    <3>1. dir'[slot'].size <= k * BlockBytes
      <4>1. (k - 1) * BlockBytes \in Nat
        BY <2>4, <2>5
      <4> QED BY <2>3, <2>5, <2>6, <2>7, <2>8, <4>1
    <3>2. Reached(f, k)'
      BY <2>3, <2>6, <2>8, <3>1 DEF Reached, IsChain
    <3> QED BY <3>2 DEF AddCounts
  <2>9. CASE /\ ReadSize = BlockBytes /\ HasNext(file_address, map)
             /\ file_address' = map[file_address].next
             /\ UNCHANGED <<pc, ret, map>>
    <3>1. k # Len(f)
      BY <2>3, <2>9, <2>12 DEF HasNext, IsChain, Link
    <3>2. k + 1 \in 1 .. Len(f) /\ f[k + 1] = file_address' /\ k + 1 - 1 = k
      <4>1. k \in 1 .. Len(f) - 1 /\ k + 1 \in 1 .. Len(f) /\ k + 1 - 1 = k
        BY <2>4, <3>1
      <4> QED BY <2>3, <2>9, <2>12, <4>1 DEF IsChain, Link
    <3>3. dir'[slot'].size = k * BlockBytes
      BY <2>3, <2>6, <2>7, <2>9
    <3>4. pc' = "write"
      BY <2>1, <2>9
    <3>5. PICK l \in 1 .. Len(f) : f[l] = file_address' /\ l - 1 = k
      BY <2>4, <3>2
    <3>6. Reached(f, l)'
      BY <2>3, <2>6, <2>9, <3>3, <3>4, <3>5 DEF Reached, IsChain
    <3> QED BY <3>6 DEF AddCounts
  <2>10. CASE /\ ReadSize = BlockBytes /\ ~HasNext(file_address, map)
              /\ \E b \in Addr :
                   /\ IsFirstFree(b)
                   /\ map' = Linked(file_address, b, "FILE")
                   /\ IF HasNext(file_address, map')
                        THEN file_address' = b /\ UNCHANGED <<pc, ret>>
                        ELSE Finish(1) /\ UNCHANGED file_address
    <3>1. CASE pc' = "umount"
      BY <1>1, <3>1 DEF FileOpen, PathDone
    <3>2. CASE pc' # "umount"
      <4> PICK b \in Addr : /\ IsFirstFree(b) /\ map' = Linked(file_address, b, "FILE")
                            /\ file_address' = b /\ pc' = pc
        BY <2>10, <3>2 DEF Finish
      <4>1. LinksTo(file_address, b, "FILE")
        BY <1>0, <2>1, <2>10, OpenFile, LinkEffect
      <4>2. file_address \in Addr /\ Formatted
        BY <1>0, <2>1 DEF TypeOK, Formatted
      <4> DEFINE m == map  n == map'  x == f[Len(f)]
      <4>3. k = Len(f)
        <5> SUFFICES ASSUME k # Len(f) PROVE FALSE
          OBVIOUS
        <5>1. k \in 1 .. Len(f) - 1 /\ k + 1 \in 1 .. Len(f)
          BY <2>4
        <5>2. Link(map, file_address) = f[k + 1] /\ f[k + 1] # 0
          BY <2>3, <5>1, ChainTypes DEF IsChain
        <5> QED BY <4>1, <5>2 DEF LinksTo, Link
      <4>4. /\ b \in Addr \ {0} /\ x # b /\ Link(m, x) = 0 /\ \A c \in Addr : Link(m, c) # b
            /\ \A c \in Addr : Link(n, c) = IF c = x THEN b ELSE IF c = b THEN 0 ELSE Link(m, c)
            /\ x \in Addr
        BY <2>3, <4>1, <4>2, <4>3, LinkFacts
      <4>5. dir[slot].addr # b
        <5>1. /\ dir_address \in Addr /\ slot \in Slots /\ InUse(disk[dir_address].recs[slot])
              /\ dir[slot].addr = disk[dir_address].recs[slot].addr
          BY <2>1, OpenFile DEF Here
        <5>2. IsRecord(dir_address, slot)
          BY <5>1, RecordHead
        <5>3. \A a \in Addr, s \in Slots : IsRecord(a, s) => disk[a].recs[s].addr # b
          BY <4>1, <4>2, LinkFacts
        <5> QED BY <5>1, <5>2, <5>3
      <4>6. IsChain(f, dir[slot].addr, m)
        BY <2>3
      <4> DEFINE a == dir[slot].addr
      <4>7. x = f[Len(f)] /\ IsChain(f, a, m) /\ a # b
        BY <4>5, <4>6
      <4> HIDE DEF m, n, x, a
      <4>8. IsChain(Append(f, b), a, n)
        <5>1. f[Len(f)] = x
          BY <4>7
        <5> QED BY ONLY <4>4, <4>7, <5>1, AppendedChain, SMTT(30)
      <4>9. IsChain(Append(f, b), dir'[slot'].addr, map')
        BY <2>6, <4>8 DEF a, n
      <4> DEFINE g == Append(f, b)  l == k + 1
      <4>10. l \in 1 .. Len(g) /\ g[l] = b /\ l - 1 = k
        BY <2>4, <4>3
      <4>11. dir'[slot'].size = (l - 1) * BlockBytes
        BY <2>3, <2>6, <2>7, <2>10, <4>10
      <4>12. IsChain(g, dir'[slot'].addr, map')
        BY <4>9
      <4> HIDE DEF g, l
      <4>13. file_address' = b /\ pc' = "write"
        BY <2>1
      <4>14. Reached(g, l)'
        BY <4>10, <4>11, <4>12, <4>13 DEF Reached, IsChain
      <4> QED BY <4>14 DEF AddCounts
    <3> QED BY <3>1, <3>2
  <2>11. CASE pc' = "umount"
    BY <1>1, <2>11 DEF FileOpen, PathDone
  <2> QED BY <1>9, <2>8, <2>9, <2>10, <2>11 DEF Write, Finish
<1>10. CASE SourceEnds
  <2>1. /\ FileOpen /\ pc = "write" /\ pc' = "record" /\ slot' = slot /\ dir' = dir
        /\ map' = map /\ file_address' = file_address
    BY <1>10 DEF SourceEnds, FileOpen
  <2>2. PICK f, k : Reached(f, k)
    BY <1>0, <2>1 DEF AddCounts
  <2>3. dir[slot].size <= k * BlockBytes
    <3>1. k \in Nat /\ BlockBytes \in Nat /\ 1 <= k /\ dir[slot].size = (k - 1) * BlockBytes
      BY <2>1, <2>2, ChainTypes, Geometry DEF Reached
    <3>2. (k - 1) * BlockBytes + BlockBytes = k * BlockBytes /\ (k - 1) * BlockBytes \in Nat
      BY <3>1
    <3> QED BY <3>1, <3>2
  <2>4. Reached(f, k)'
    BY <2>1, <2>2, <2>3 DEF Reached, IsChain
  <2> QED BY <2>4 DEF AddCounts
<1>11. CASE InsertOn \/ Extend \/ Exit \/ FmtBoot \/ FmtRoot \/ FmtZero \/ BootSect \/ BootLoader
            \/ NoRoom \/ Record \/ Trim \/ List \/ Read \/ Umount \/ Unmounted
            \/ (\E r \in Requests : MountFails(r) \/ GenFs(r))
  <2>1. pc' \notin {"write", "record", "clear", "search"}
    BY <1>11 DEF InsertOn, Extend, Exit, FmtBoot, FmtRoot, FmtZero, BootSect, BootLoader,
       NoRoom, Record, Trim, List, Read, Umount, Unmounted, MountFails, GenFs, Finish, ProcessEnds
  <2> QED BY <1>1, <2>1 DEF FileOpen, PathDone
<1>12. CASE UNCHANGED vars
  <2>1. /\ FileOpen' = FileOpen /\ \A f, k : Reached(f, k)' <=> Reached(f, k)
    BY <1>12 DEF vars, FileOpen, PathDone, NewType, MoreParts, Reached, IsChain
  <2> QED BY <1>0, <2>1 DEF AddCounts
<1> QED BY <1>3, <1>4, <1>5, <1>6, <1>7, <1>8, <1>9, <1>10, <1>11, <1>12 DEF Next, Step

LEMMA ForkInvInit == Init => ForkInv
<1> SUFFICES ASSUME Init PROVE ForkInv
  OBVIOUS
<1>1. Chained(map)
  <2>1. \A c \in Addr : Link(map, c) = 0
    BY Geometry DEF Init, ZeroMap, EmptyPtr, Link
  <2> QED BY <2>1, LoneChain DEF Chained
<1>2. Covers
  BY DEF Init, Covers, IsRecord, InUse, ZeroBlock, NoRec
<1>3. AddCounts
  BY DEF Init, AddCounts, FileOpen, PathDone
<1> QED BY <1>1, <1>2, <1>3 DEF ForkInv

LEMMA ForkInvStep ==
  ASSUME Inv, Inv', ForkInv, [Next]_vars PROVE ForkInv'
<1>1. Chained(map)'
  BY ChainedStep DEF ForkInv, Chained, IsChain
<1> QED BY <1>1, CoversStep, AddCountsStep DEF ForkInv

LEMMA ForkInvariance == Spec => []ForkInv
<1>1. Init => ForkInv
  BY ForkInvInit
<1>2. Inv /\ Inv' /\ ForkInv /\ [Next]_vars => ForkInv'
  BY ForkInvStep
<1> QED BY <1>1, <1>2, Invariance, PTL DEF Spec

-----------------------------------------------------------------------------
(* The blocks that a size takes.                                           *)

LEMMA BlocksTaken ==
  ASSUME NEW n \in Nat, NEW l \in Nat, n <= l * BlockBytes
  PROVE  BlocksOf(n) <= l
<1> DEFINE B == BlockBytes  q == BlocksOf(n)
<1>1. B \in Nat \ {0} /\ l * B \in Nat
  BY Geometry
<1>2. q \in Nat /\ B * q <= n + B - 1
  BY <1>1 DEF BlocksOf
<1> SUFFICES ASSUME l < q PROVE FALSE
  BY <1>2
<1>3. n <= l * B
  OBVIOUS
<1> HIDE DEF B, q
<1>4. q - l - 1 \in Nat
  BY <1>2
<1>5. B * (q - l - 1) \in Nat
  BY <1>1, <1>4
<1>6. B * q = B * (q - l - 1) + l * B + B
  BY <1>1, <1>2, <1>4
<1> QED BY <1>1, <1>2, <1>3, <1>5, <1>6

(* A file's fork is as long as its record says, on every image and at      *)
(* every step of every command (the loop of cmd_add at line 556, and its   *)
(* trim loop).                                                             *)
THEOREM ForksCover == Spec => []ForkCoversSize
<1>1. Inv /\ ForkInv => ForkCoversSize
  <2> SUFFICES ASSUME Inv, ForkInv, NEW a \in Addr, NEW s \in Slots,
                      IsRecord(a, s), disk[a].recs[s].type = "FILE"
               PROVE  Len(Blocks(disk[a].recs[s].addr)) >= BlocksOf(disk[a].recs[s].size)
    BY DEF ForkCoversSize
  <2> DEFINE r == disk[a].recs[s]
  <2>0. TypeOK /\ r.size \in Nat
    BY PartTypes DEF Inv
  <2>1. PICK f : IsChain(f, r.addr, map) /\ r.size <= Len(f) * BlockBytes
    BY DEF ForkInv, Covers, CoveredBy
  <2> HIDE DEF r
  <2>2. Blocks(r.addr) = f /\ Len(f) \in Nat
    <3>1. InUse(disk[a].recs[s])
      BY DEF IsRecord
    <3>2. InFork(map[r.addr])
      BY <3>1, RecordBlock DEF r, InFork
    <3> QED BY <2>0, <2>1, <3>2, BlocksOfChain, ChainTypes
  <2>3. BlocksOf(r.size) <= Len(f)
    BY <2>0, <2>1, <2>2, BlocksTaken
  <2>4. BlocksOf(r.size) \in Nat
    BY <2>0, Geometry DEF BlocksOf
  <2> QED BY <2>2, <2>3, <2>4 DEF r
<1> QED BY <1>1, Invariance, ForkInvariance, PTL

-----------------------------------------------------------------------------
(* How a path resolves: what a walk has found, without the functions of    *)
(* TfsFiles, so that it can be said of the next state too.                 *)

(* The first record of name in a directory whose blocks are f.             *)
IsHit(r, name, perms) == r.name = name /\ r.perm \in perms
FirstAt(f, j, s, name, perms) ==
  /\ IsHit(disk[f[j]].recs[s], name, perms)
  /\ \A i \in 1 .. Len(f), t \in Slots :
       IsHit(disk[f[i]].recs[t], name, perms) => j < i \/ (j = i /\ s <= t)
LeadsTo(d, name, perms, r) ==
  /\ d.type = "DIR" /\ InFork(map[d.addr])
  /\ \E f : /\ IsChain(f, d.addr, map)
            /\ \E j \in 1 .. Len(f), s \in Slots :
                 FirstAt(f, j, s, name, perms) /\ r = disk[f[j]].recs[s]
Misses(d, name, perms) ==
  \/ d.type # "DIR"
  \/ \E f : /\ IsChain(f, d.addr, map) /\ InFork(map[d.addr])
            /\ \A i \in 1 .. Len(f), t \in Slots : ~IsHit(disk[f[i]].recs[t], name, perms)

(* The records that the first n parts of path p lead through.              *)
Trail(S, p, perms, n) ==
  S[0] = RootRec /\ \A i \in 1 .. n : LeadsTo(S[i - 1], p[i], perms, S[i])

Passes(h, a, g, N) == h = [n \in 0 .. N |-> IF n = 0 THEN a ELSE g[n][h[n - 1]]]

LEMMA FunctionExists ==
  ASSUME NEW a, NEW g, NEW N \in Nat
  PROVE  \E h : Passes(h, a, g, N)
<1> USE DEF Passes
<1> DEFINE B(h, n) == IF n = 0 THEN a ELSE g[n][h[n - 1]]
<1> DEFINE S == {k \in Nat : \E h : h = [n \in 0 .. k |-> B(h, n)]}
<1>1. 0 \in S
  <2> DEFINE h == [n \in 0 .. 0 |-> a]  e == [n \in 0 .. 0 |-> B(h, n)]
  <2>1. \A n \in 0 .. 0 : h[n] = e[n]
    OBVIOUS
  <2>2. h = e
    BY <2>1
  <2> QED BY <2>2
<1>2. ASSUME NEW k \in Nat, k \in S PROVE k + 1 \in S
  <2>1. PICK h : h = [n \in 0 .. k |-> B(h, n)]
    BY <1>2
  <2> DEFINE i == [n \in 0 .. k + 1 |-> IF n = k + 1 THEN B(h, k + 1) ELSE h[n]]
             e == [n \in 0 .. k + 1 |-> B(i, n)]
  <2>2. ASSUME NEW n \in 0 .. k + 1 PROVE i[n] = B(i, n)
    <3>1. i[n] = IF n = k + 1 THEN B(h, k + 1) ELSE h[n]
      OBVIOUS
    <3>2. n = 0 \/ (n - 1 \in 0 .. k + 1 /\ n - 1 # k + 1)
      OBVIOUS
    <3>3. n = 0 \/ i[n - 1] = h[n - 1]
      BY <3>2
    <3> HIDE DEF i
    <3>4. B(i, n) = B(h, n)
      BY <3>3
    <3>5. CASE n = k + 1
      BY <3>1, <3>4, <3>5
    <3>6. CASE n # k + 1
      <4>1. n \in 0 .. k
        BY <3>6
      <4> HIDE DEF B
      <4>2. h[n] = B(h, n)
        BY <2>1, <4>1
      <4> QED BY <3>1, <3>4, <3>6, <4>2
    <3> QED BY <3>5, <3>6
  <2>3. i = e
    <3> HIDE DEF B
    <3>1. \A n \in 0 .. k + 1 : i[n] = e[n]
      BY <2>2
    <3> QED BY <3>1
  <2>4. \E x : x = [n \in 0 .. k + 1 |-> B(x, n)]
    BY <2>3
  <2> QED BY <2>4
<1>3. Nat \subseteq S
  <2> HIDE DEF S
  <2> QED BY <1>1, <1>2, Induct
<1> QED BY <1>3

LEMMA StepsUnfold ==
  ASSUME NEW p, Len(p) \in Nat, NEW perms, NEW n \in 0 .. Len(p)
  PROVE  Steps(p, perms)[n] = IF n = 0 THEN RootRec
                              ELSE Child(p[n], perms)[Steps(p, perms)[n - 1]]
<1> DEFINE g == [i \in 1 .. Len(p) |-> Child(p[i], perms)]
<1>1. PICK h : h = [i \in 0 .. Len(p) |-> IF i = 0 THEN RootRec ELSE g[i][h[i - 1]]]
  <2> DEFINE N == Len(p)
  <2>1. N \in Nat
    OBVIOUS
  <2> HIDE DEF g, N
  <2>2. \E h : Passes(h, RootRec, g, N)
    BY <2>1, FunctionExists
  <2> QED BY <2>2, Zenon DEF N, Passes
<1>2. h = [i \in 0 .. Len(p) |-> IF i = 0 THEN RootRec ELSE Child(p[i], perms)[h[i - 1]]]
  <2> DEFINE e == [i \in 0 .. Len(p) |-> IF i = 0 THEN RootRec ELSE Child(p[i], perms)[h[i - 1]]]
  <2>1. \A i \in 0 .. Len(p) : h[i] = e[i]
    <3> TAKE i \in 0 .. Len(p)
    <3>1. i # 0 => i \in 1 .. Len(p)
      OBVIOUS
    <3>2. i # 0 => g[i] = Child(p[i], perms)
      BY <3>1
    <3>3. h[i] = IF i = 0 THEN RootRec ELSE g[i][h[i - 1]]
      BY <1>1
    <3> HIDE DEF g
    <3> QED BY <3>2, <3>3
  <2>2. h = e
    BY <1>1, <2>1
  <2> QED BY <2>2
<1>3. Steps(p, perms) = [i \in 0 .. Len(p) |-> IF i = 0 THEN RootRec ELSE Child(p[i], perms)[Steps(p, perms)[i - 1]]]
  BY <1>2, Zenon DEF Steps
<1> QED BY <1>3

(* The record that Child takes is the first hit, if there is one.          *)
LEMMA FirstHit ==
  ASSUME NEW f \in Seq(Addr), NEW name, NEW perms, NEW j \in 1 .. Len(f), NEW s \in Slots,
         FirstAt(f, j, s, name, perms)
  PROVE  First(f, Hits(f, name, perms)) = disk[f[j]].recs[s]
<1> DEFINE hits == Hits(f, name, perms)  q == <<j, s>>
           p == CHOOSE x \in hits : \A y \in hits : Before(x, y)
<1>0. DOMAIN f = 1 .. Len(f) /\ Len(f) \in Nat /\ Slots \subseteq Nat
  BY Geometry DEF Slots
<1>1. q \in (DOMAIN f) \X Slots /\ q[1] = j /\ q[2] = s
  BY <1>0
<1>2. q \in hits
  BY <1>1 DEF Hits, FirstAt, IsHit
<1>3. ASSUME NEW y \in hits PROVE Before(q, y)
  <2>1. y \in (DOMAIN f) \X Slots /\ IsHit(disk[f[y[1]]].recs[y[2]], name, perms)
    BY <1>3 DEF Hits, IsHit
  <2>2. y[1] \in 1 .. Len(f) /\ y[2] \in Slots
    BY <1>0, <2>1
  <2> HIDE DEF q
  <2> QED BY <1>1, <2>1, <2>2 DEF Before, FirstAt
<1> HIDE DEF q, hits
<1>4. p \in hits /\ \A y \in hits : Before(p, y)
  BY <1>2, <1>3
<1>5. First(f, hits) = disk[f[p[1]]].recs[p[2]]
  BY <1>2 DEF First
<1> HIDE DEF p
<1>6. p \in (DOMAIN f) \X Slots
  <2>1. hits \subseteq (DOMAIN f) \X Slots
    BY Zenon DEF hits, Hits
  <2> QED BY <1>4, <2>1
<1>7. p[1] \in 1 .. Len(f) /\ p[2] \in Slots
  BY <1>0, <1>6
<1>8. p[1] \in Nat /\ p[2] \in Nat /\ j \in Nat /\ s \in Nat
  <2>1. \A x \in 1 .. Len(f) : x \in Nat
    BY <1>0
  <2>2. \A x \in Slots : x \in Nat
    BY <1>0
  <2> QED BY <1>7, <2>1, <2>2, Zenon
<1>9. Before(p, q) /\ Before(q, p)
  BY <1>2, <1>3, <1>4
<1>10. p[1] = j /\ p[2] = s
  BY <1>1, <1>8, <1>9 DEF Before
<1> QED BY <1>5, <1>10 DEF hits

LEMMA NoHit ==
  ASSUME NEW f \in Seq(Addr), NEW name, NEW perms,
         \A i \in 1 .. Len(f), t \in Slots : ~IsHit(disk[f[i]].recs[t], name, perms)
  PROVE  First(f, Hits(f, name, perms)) = NoRec
<1>1. Hits(f, name, perms) = {}
  BY DEF Hits, IsHit
<1> QED BY <1>1 DEF First

LEMMA ChildLed ==
  ASSUME Inv, NEW d \in Rec, NEW name, NEW perms, NEW r, LeadsTo(d, name, perms, r)
  PROVE  Child(name, perms)[d] = r /\ r \in Rec
<1>0. TypeOK
  BY DEF Inv
<1>1. PICK f : /\ IsChain(f, d.addr, map) /\ InFork(map[d.addr])
               /\ \E j \in 1 .. Len(f), s \in Slots :
                    FirstAt(f, j, s, name, perms) /\ r = disk[f[j]].recs[s]
  BY DEF LeadsTo
<1>2. PICK j \in 1 .. Len(f), s \in Slots :
        FirstAt(f, j, s, name, perms) /\ r = disk[f[j]].recs[s]
  BY <1>1
<1>3. f \in Seq(Addr) /\ f[j] \in Addr
  BY <1>1, ChainTypes
<1>4. Blocks(d.addr) = f
  BY <1>1, BlocksOfChain
<1>5. First(f, Hits(f, name, perms)) = r
  BY <1>2, <1>3, FirstHit
<1>6. Child(name, perms)[d] = First(f, Hits(f, name, perms))
  BY <1>4 DEF Child, LeadsTo
<1> QED BY <1>0, <1>2, <1>3, <1>5, <1>6, PartTypes

LEMMA ChildMissed ==
  ASSUME Inv, NEW d \in Rec, NEW name, NEW perms, Misses(d, name, perms)
  PROVE  Child(name, perms)[d] = NoRec
<1>1. CASE d.type # "DIR"
  BY <1>1 DEF Child
<1>2. CASE d.type = "DIR"
  <2>1. PICK f : /\ IsChain(f, d.addr, map) /\ InFork(map[d.addr])
                 /\ \A i \in 1 .. Len(f), t \in Slots : ~IsHit(disk[f[i]].recs[t], name, perms)
    BY <1>2 DEF Misses
  <2>2. f \in Seq(Addr) /\ Blocks(d.addr) = f
    BY <2>1, ChainTypes, BlocksOfChain
  <2>3. First(f, Hits(f, name, perms)) = NoRec
    BY <2>1, <2>2, NoHit
  <2> QED BY <1>2, <2>2, <2>3 DEF Child
<1> QED BY <1>1, <1>2

LEMMA RootRecType == TypeOK => RootRec \in Rec
<1> SUFFICES ASSUME TypeOK PROVE RootRec \in Rec
  OBVIOUS
<1>1. boot.root \in Addr /\ NoRec \in Rec
  BY ConstantTypes DEF TypeOK
<1> QED BY <1>1 DEF RootRec, NoRec, Rec, Perms, Types

(* Where a trail leads, the path leads.                                    *)
LEMMA TrailSteps ==
  ASSUME Inv, NEW p, Len(p) \in Nat, NEW perms, NEW n \in 0 .. Len(p), NEW S,
         Trail(S, p, perms, n)
  PROVE  \A i \in 0 .. n : Steps(p, perms)[i] = S[i] /\ S[i] \in Rec
<1> DEFINE G == {k \in Nat : k <= n => Steps(p, perms)[k] = S[k] /\ S[k] \in Rec}
<1>1. 0 \in G
  <2>1. 0 \in 0 .. Len(p) /\ S[0] = RootRec
    BY DEF Trail
  <2>2. Steps(p, perms)[0] = RootRec
    BY <2>1, StepsUnfold
  <2>3. TypeOK
    BY DEF Inv
  <2> QED BY <2>1, <2>2, <2>3, RootRecType
<1>2. ASSUME NEW k \in Nat, k \in G PROVE k + 1 \in G
  <2> SUFFICES ASSUME k + 1 <= n
               PROVE  Steps(p, perms)[k + 1] = S[k + 1] /\ S[k + 1] \in Rec
    OBVIOUS
  <2>1. PICK l \in 1 .. n : l = k + 1 /\ l - 1 = k
    OBVIOUS
  <2>2. l \in 0 .. Len(p) /\ l # 0
    OBVIOUS
  <2>3. LeadsTo(S[l - 1], p[l], perms, S[l])
    BY DEF Trail
  <2>4. Steps(p, perms)[l - 1] = S[l - 1] /\ S[l - 1] \in Rec
    BY <1>2, <2>1
  <2>5. Steps(p, perms)[l] = Child(p[l], perms)[Steps(p, perms)[l - 1]]
    BY <2>2, StepsUnfold
  <2>6. Child(p[l], perms)[S[l - 1]] = S[l] /\ S[l] \in Rec
    BY <2>3, <2>4, ChildLed
  <2> QED BY <2>1, <2>4, <2>5, <2>6
<1>3. Nat \subseteq G
  <2> HIDE DEF G
  <2> QED BY <1>1, <1>2, Induct
<1> QED BY <1>3

(* A record that export, or add, takes for a part of a path is in use.     *)
AnyPerm == Perms \ {"none"}

LEMMA HitRecord ==
  ASSUME Inv, NEW a \in Addr, NEW s \in Slots, NEW name \in Names,
         IsHit(disk[a].recs[s], name, AnyPerm)
  PROVE  LET r == disk[a].recs[s] IN
           /\ IsRecord(a, s) /\ r \in Rec /\ r.addr \in Addr \ {0}
           /\ map[r.addr].type = r.type /\ r.type \in {"FILE", "DIR"}
<1> DEFINE r == disk[a].recs[s]
<1>1. r \in Rec /\ (r.perm = "junk" => r.name = NoName)
  BY PartTypes DEF Inv, RecordsSound
<1>2. r.name # NoName /\ r.perm \in Perms \ {"none", "junk"}
  BY <1>1, RequestsAssumption DEF IsHit, AnyPerm
<1>3. InUse(r)
  BY <1>2 DEF InUse, Perms
<1>4. r.addr \in Addr /\ r.addr # 0 /\ map[r.addr].type = r.type
  BY <1>3, RecordBlock
<1>5. map[a].type = "DIR" /\ r.type \in {"FILE", "DIR"}
  BY <1>3 DEF Inv, RecordsSound
<1> QED BY <1>1, <1>3, <1>4, <1>5 DEF IsRecord

LEMMA RootFork ==
  ASSUME Inv, boot.root # 0 PROVE map[boot.root].type = "DIR"
<1>1. Target(<<"boot", 0, 0>>) = boot.root /\ ForkType(<<"boot", 0, 0>>) = "DIR"
  BY TargetNow
<1> QED BY <1>1, SiteKinds DEF Inv, TargetsLive

LEMMA LedRecord ==
  ASSUME Inv, NEW d, NEW name \in Names, NEW r, LeadsTo(d, name, AnyPerm, r)
  PROVE  \E a \in Addr, s \in Slots :
           /\ IsRecord(a, s) /\ r = disk[a].recs[s] /\ r \in Rec /\ r.addr \in Addr \ {0}
           /\ map[r.addr].type = r.type /\ r.type \in {"FILE", "DIR"}
<1>1. PICK f : /\ IsChain(f, d.addr, map)
               /\ \E j \in 1 .. Len(f), s \in Slots :
                    FirstAt(f, j, s, name, AnyPerm) /\ r = disk[f[j]].recs[s]
  BY DEF LeadsTo
<1>2. PICK j \in 1 .. Len(f), s \in Slots :
        FirstAt(f, j, s, name, AnyPerm) /\ r = disk[f[j]].recs[s]
  BY <1>1
<1>3. PICK a \in Addr : a = f[j]
  BY <1>1, ChainTypes
<1>4. IsHit(disk[a].recs[s], name, AnyPerm) /\ r = disk[a].recs[s]
  BY <1>2, <1>3 DEF FirstAt
<1> QED BY <1>4, HitRecord

-----------------------------------------------------------------------------
(* Export: its walk has followed a trail, its loop follows the chain of    *)
(* the record that the trail ends with.                                    *)

ExportControl ==
  /\ req.op = "export" => pc \in {"search", "read", "umount", "exit"}
  /\ pc = "read" => req.op = "export"
  /\ pc = "idle" \/ (req.op = "export" /\ pc = "search") => out = << >>

(* Block a is in the fork of d, and no block before it has the part.       *)
OfFork(d, a) ==
  \E f : /\ IsChain(f, d.addr, map)
         /\ \E k \in 1 .. Len(f) :
              /\ f[k] = a
              /\ part_i <= Len(req.path) =>
                   \A i \in 1 .. k - 1, t \in Slots : ~IsHit(disk[f[i]].recs[t], Part, AnyPerm)
(* Where the walk is, when the last record that it has followed is d.      *)
At(d) ==
  /\ part_i > 1 => file_address = d.addr /\ left = d.size
  /\ IF d.type = "DIR" THEN OfFork(d, dir_address) ELSE map[dir_address].type = "FILE"
ExportWalk ==
  req.op = "export" /\ pc = "search" =>
    /\ part_i - 1 \in 0 .. Len(req.path)
    /\ \E S : Trail(S, req.path, AnyPerm, part_i - 1) /\ At(S[part_i - 1])

Copied(f, n) == out = [i \in 1 .. n |-> disk[f[i]].bytes]
ReadUpTo(d, f, k) ==
  /\ f[k] = file_address /\ left + (k - 1) * BlockBytes = d.size
  /\ k > 1 => left > 0
  /\ Copied(f, k - 1)
ExportRead ==
  pc = "read" =>
    \E S, f : /\ Trail(S, req.path, AnyPerm, Len(req.path))
              /\ IsChain(f, S[Len(req.path)].addr, map)
              /\ \E k \in 1 .. Len(f) : ReadUpTo(S[Len(req.path)], f, k)

AllRead(d, f) == d.type = "FILE" => BlocksOf(d.size) <= Len(f) /\ Copied(f, BlocksOf(d.size))
ExportDone ==
  req.op = "export" /\ pc \in {"umount", "exit"} /\ ret = 0 =>
    \E S, f : /\ Trail(S, req.path, AnyPerm, Len(req.path))
              /\ IsChain(f, S[Len(req.path)].addr, map)
              /\ AllRead(S[Len(req.path)], f)

ExportInv == ExportControl /\ ExportWalk /\ ExportRead /\ ExportDone

LEMMA ExportInit == Init => ExportInv
BY DEF Init, NoRequest, ExportInv, ExportControl, ExportWalk, ExportRead, ExportDone

(* A trail is the same one as long as blocks, map and root are the same.   *)
LEMMA SameTrail ==
  ASSUME disk' = disk, map' = map, boot'.root = boot.root,
         NEW S, NEW p, NEW perms, NEW n, Trail(S, p, perms, n)
  PROVE  Trail(S, p, perms, n)'
<1>1. RootRec' = RootRec
  BY DEF RootRec, NoRec
<1>2. ASSUME NEW d, NEW name, NEW r PROVE LeadsTo(d, name, perms, r)' = LeadsTo(d, name, perms, r)
  BY DEF LeadsTo, FirstAt, IsHit, IsChain
<1> QED BY <1>1, <1>2 DEF Trail

(* One more record on a trail.                                             *)
LEMMA LongerTrail ==
  ASSUME NEW S, NEW p, NEW perms, NEW n \in Nat \ {0}, NEW r,
         Trail(S, p, perms, n - 1), LeadsTo(S[n - 1], p[n], perms, r)
  PROVE  \E T : Trail(T, p, perms, n) /\ T[n] = r
<1> DEFINE T == [i \in 0 .. n |-> IF i = n THEN r ELSE S[i]]
<1>1. T[n] = r /\ \A i \in 0 .. n - 1 : T[i] = S[i]
  OBVIOUS
<1> HIDE DEF T
<1>2. T[0] = RootRec
  BY <1>1 DEF Trail
<1>3. ASSUME NEW i \in 1 .. n PROVE LeadsTo(T[i - 1], p[i], perms, T[i])
  <2>1. T[i - 1] = S[i - 1]
    BY <1>1
  <2>2. CASE i = n
    BY <1>1, <2>1, <2>2
  <2>3. CASE i # n
    <3>1. i \in 1 .. n - 1 /\ i \in 0 .. n - 1
      BY <2>3
    <3>2. T[i] = S[i]
      BY <1>1, <3>1
    <3>3. LeadsTo(S[i - 1], p[i], perms, S[i])
      BY <3>1 DEF Trail
    <3> QED BY <2>1, <3>2, <3>3
  <2> QED BY <2>2, <2>3
<1> QED BY <1>1, <1>2, <1>3 DEF Trail

(* The request of an export has a path.                                    *)
LEMMA ExportPath ==
  ASSUME TypeOK, Control, req.op = "export"
  PROVE  /\ req.path \in Seq(Names) /\ Len(req.path) \in Nat \ {0}
         /\ req \in Requests
<1>1. req \in Requests
  BY DEF TypeOK, NoRequest
<1>2. req.path \in Seq(Names) /\ req.path # << >>
  BY <1>1, RequestTypes, RequestsAssumption
<1> QED BY <1>1, <1>2

LEMMA TrailEnd ==
  ASSUME Inv, req.op = "export", NEW S, Trail(S, req.path, AnyPerm, Len(req.path))
  PROVE  LET r == S[Len(req.path)] IN
         \E a \in Addr, s \in Slots :
           /\ IsRecord(a, s) /\ r = disk[a].recs[s] /\ r \in Rec /\ r.addr \in Addr \ {0}
           /\ map[r.addr].type = r.type /\ r.type \in {"FILE", "DIR"}
<1> DEFINE n == Len(req.path)
<1>1. n \in Nat \ {0} /\ req.path[n] \in Names
  BY ExportPath DEF Inv
<1>2. LeadsTo(S[n - 1], req.path[n], AnyPerm, S[n])
  BY <1>1 DEF Trail
<1> HIDE DEF n
<1>3. \E a \in Addr, s \in Slots :
           /\ IsRecord(a, s) /\ S[n] = disk[a].recs[s] /\ S[n] \in Rec /\ S[n].addr \in Addr \ {0}
           /\ map[S[n].addr].type = S[n].type /\ S[n].type \in {"FILE", "DIR"}
  BY <1>1, <1>2, LedRecord
<1> QED BY <1>3 DEF n

(* The block that a trail ends with is one of the kind that its record     *)
(* names, and so is every block of its fork.                               *)
LEMMA TrailHead ==
  ASSUME Inv, NEW p \in Seq(Names), NEW n \in 0 .. Len(p), NEW S,
         Trail(S, p, AnyPerm, n), S[n].addr # 0
  PROVE  /\ map[S[n].addr].type = S[n].type /\ S[n].type \in {"FILE", "DIR"}
         /\ InFork(map[S[n].addr])
<1>1. CASE n = 0
  <2>1. S[n] = RootRec /\ S[n].addr = boot.root /\ S[n].type = "DIR"
    BY <1>1 DEF Trail, RootRec, NoRec
  <2> QED BY <2>1, RootFork DEF InFork
<1>2. CASE n # 0
  <2>1. n \in 1 .. n /\ n \in 1 .. Len(p) /\ p[n] \in Names
    BY <1>2
  <2>2. LeadsTo(S[n - 1], p[n], AnyPerm, S[n])
    BY <2>1 DEF Trail
  <2> QED BY <2>1, <2>2, LedRecord DEF InFork
<1> QED BY <1>1, <1>2

(* What one of the four steps of an export leaves alone.                   *)
LEMMA ExportSame ==
  ASSUME Inv, ExportInv, [Next]_vars, req.op = "export"
  PROVE  /\ \/ UNCHANGED vars
            \/ Found \/ SearchOn \/ NotFound \/ WalkDone \/ Read
            \/ (pc \in {"umount", "exit"} /\ pc' = "exit" /\ UNCHANGED <<req, map, disk, boot, out, ret>>)
            \/ (pc = "umount" /\ pc' = "umount" /\ UNCHANGED <<req, map, disk, boot, out, ret>>)
            \/ Exit
         /\ disk' = disk /\ map' = map /\ boot'.root = boot.root
<1>1. pc \in {"search", "read", "umount", "exit"}
  BY DEF ExportInv, ExportControl
<1>2. \/ UNCHANGED vars
      \/ Found \/ SearchOn \/ NotFound \/ WalkDone \/ Read \/ Umount \/ Unmounted \/ Exit
  <2>1. ~ FmtBoot /\ ~ FmtRoot /\ ~ FmtZero /\ ~ BootSect /\ ~ BootLoader /\ ~ Insert /\ ~ Clear
    BY <1>1 DEF FmtBoot, FmtRoot, FmtZero, BootSect, BootLoader, Insert, Clear
  <2>2. ~ InsertOn /\ ~ Extend /\ ~ NoRoom /\ ~ Write /\ ~ SourceEnds /\ ~ Record /\ ~ Trim /\ ~ List
    BY <1>1 DEF InsertOn, Extend, NoRoom, Write, SourceEnds, Record, Trim, List
  <2>3. \A r \in Requests : ~ Start(r) /\ ~ MountFails(r) /\ ~ GenFs(r)
    BY <1>1 DEF Start, MountFails, GenFs
  <2> QED BY <2>1, <2>2, <2>3 DEF Next, Step
<1>3. Quiet
  BY <1>2 DEF Quiet
<1>4. disk' = disk /\ map' = map /\ boot'.root = boot.root
  BY <1>3, QuietSteps
<1>5. Umount => pc = "umount" /\ pc' = "umount" /\ UNCHANGED <<req, map, disk, boot, out, ret>>
  BY DEF Umount
<1>6. Unmounted => pc = "umount" /\ pc' = "exit" /\ UNCHANGED <<req, map, disk, boot, out, ret>>
  BY DEF Unmounted, image
<1> QED BY <1>2, <1>4, <1>5, <1>6

(* The steps of other commands, and the start of an export.                *)
LEMMA OtherSteps ==
  ASSUME Inv, ForkInv, ExportInv, [Next]_vars, req.op # "export" \/ pc = "idle"
  PROVE  ExportInv'
<1> USE DEF image, walk, rec, fork
<1>0. TypeOK /\ Control /\ UmountSound /\ ExportControl
  BY DEF Inv, ExportInv
<1>1. ASSUME req'.op # "export", pc' # "read", pc' = "idle" => out' = << >>
      PROVE  ExportInv'
  BY <1>1 DEF ExportInv, ExportControl, ExportWalk, ExportRead, ExportDone
<1>2. ASSUME NEW r \in Requests, Start(r) PROVE ExportInv'
  <2>0. /\ pc = "idle" /\ req' = r /\ map' = prim /\ disk' = disk /\ boot' = boot /\ out' = out
        /\ part_i' = part_i /\ dir_address' = boot.root /\ pc' = FirstStep(r.op) /\ boot.sig
    BY <1>2 DEF Start, Mountable
  <2>1. pc' \notin {"read", "idle"}
    BY <1>2, <2>0, RequestTypes DEF Start, FirstStep, Commands
  <2>2. CASE r.op # "export"
    BY <1>1, <2>0, <2>1, <2>2
  <2>3. CASE r.op = "export"
    <3>1. pc' = "search" /\ part_i' = 1 /\ out' = << >> /\ map' = map
      BY <1>0, <2>0, <2>3 DEF FirstStep, Control, ExportControl, UmountSound
    <3>2. r.path \in Seq(Names) /\ Len(r.path) \in Nat \ {0}
      BY <2>3, RequestTypes
    <3>3. boot.root \in Addr \ {0}
      BY <1>0, <2>0 DEF Inv, Blank, TypeOK
    <3>4. PICK f : IsChain(f, boot.root, map)
      BY <3>3 DEF ForkInv, Chained
    <3>5. PICK d : d = RootRec
      OBVIOUS
    <3>6. RootRec' = d /\ d.type = "DIR" /\ d.addr = boot.root
      BY <2>0, <3>5 DEF RootRec, NoRec
    <3> DEFINE S == [i \in 0 .. 0 |-> d]
    <3>7. S[0] = d /\ part_i' - 1 = 0
      BY <3>1
    <3> HIDE DEF S
    <3>8. Trail(S, req.path, AnyPerm, part_i - 1)'
      <4>1. \A i \in 1 .. part_i' - 1 : FALSE
        BY <3>7
      <4> QED BY <3>6, <3>7, <4>1 DEF Trail
    <3>9. At(S[part_i - 1])'
      <4>1. IsChain(f, d.addr, map)' /\ f[1] = dir_address' /\ 1 \in 1 .. Len(f)
        BY <2>0, <3>1, <3>4, <3>6, ChainTypes
      <4>2. OfFork(d, dir_address)'
        BY <4>1 DEF OfFork
      <4> QED BY <3>1, <3>6, <3>7, <4>2 DEF At
    <3>10. (part_i - 1 \in 0 .. Len(req.path))'
      BY <2>0, <3>1, <3>2
    <3>11. ExportWalk'
      BY <3>8, <3>9, <3>10 DEF ExportWalk
    <3>12. ExportControl' /\ ExportRead' /\ ExportDone'
      BY <3>1 DEF ExportControl, ExportRead, ExportDone
    <3> QED BY <3>11, <3>12 DEF ExportInv
  <2> QED BY <2>2, <2>3
<1>3. ASSUME NEW r \in Requests, MountFails(r) PROVE ExportInv'
  BY <1>3 DEF MountFails, ExportInv, ExportControl, ExportWalk, ExportRead, ExportDone
<1>4. ASSUME NEW r \in Requests, GenFs(r) PROVE ExportInv'
  BY <1>1, <1>4 DEF GenFs
<1>5. CASE Exit
  BY <1>5 DEF Exit, ProcessEnds, NoRequest, ExportInv, ExportControl, ExportWalk, ExportRead,
     ExportDone
<1>6. CASE WalkDone
  <2>1. req' = req /\ pc = "search" /\ pc' = AfterPath(req.op) /\ req.op # "export"
    BY <1>6 DEF WalkDone, PathDone
  <2>2. req.op \in {"ls", "mkdir", "add"}
    BY <1>0, <2>1 DEF Control
  <2>3. pc' \notin {"read", "idle"}
    BY <2>1, <2>2 DEF AfterPath
  <2> QED BY <1>1, <2>1, <2>3
<1>7. CASE Found
  BY <1>1, <1>7 DEF Found, Search, Enter, EnterOrOpen, Reject, Follow, NextPart, Finish
<1>8. CASE \/ FmtBoot \/ FmtRoot \/ FmtZero \/ BootSect \/ BootLoader \/ SearchOn \/ NotFound
           \/ Insert \/ Clear \/ InsertOn \/ Extend \/ NoRoom
  BY <1>1, <1>8 DEF FmtBoot, FmtRoot, FmtZero, BootSect, BootLoader, SearchOn, NotFound, Search,
     Insert, Clear, InsertOn, Extend, NoRoom, Finish
<1>9. CASE \/ Write \/ SourceEnds \/ Record \/ Trim \/ List \/ Read \/ Umount \/ Unmounted
  BY <1>0, <1>1, <1>9 DEF Write, SourceEnds, Record, Trim, List, Read, Umount, Unmounted,
     Finish, ExportControl
<1>10. CASE UNCHANGED vars
  <2>1. req' = req /\ pc' = pc /\ out' = out
    BY <1>10 DEF vars
  <2>2. CASE req.op # "export"
    BY <1>0, <1>1, <2>1, <2>2 DEF ExportControl
  <2>3. CASE pc = "idle"
    BY <1>0, <2>1, <2>3 DEF ExportControl, ExportInv, ExportWalk, ExportRead, ExportDone
  <2> QED BY <2>2, <2>3
<1> QED BY <1>2, <1>3, <1>4, <1>5, <1>6, <1>7, <1>8, <1>9, <1>10 DEF Next, Step

(* The record that export goes on with is the first hit of the fork.       *)
LEMMA FollowStep ==
  ASSUME Inv, ForkInv, ExportInv, [Next]_vars, req.op = "export", Found
  PROVE  ExportInv'
<1> USE DEF image, walk, rec, fork
<1>0. TypeOK /\ disk' = disk /\ map' = map /\ boot'.root = boot.root /\ Search /\ pc = "search"
  BY ExportSame DEF Inv, Found, Search
<1>1. PICK s \in Slots :
        /\ FirstMatch(s)
        /\ Enter(Here[s]) \/ EnterOrOpen(Here[s], s) \/ Reject(Here[s]) \/ Follow(Here[s])
  BY DEF Found
<1>2. Follow(Here[s])
  BY <1>1 DEF Enter, EnterOrOpen, Reject
<1>a. PICK a \in Addr : a = dir_address
  BY <1>0 DEF TypeOK
<1>3. PICK r : a = dir_address /\ r = disk[a].recs[s] /\ r = Here[s]
  BY <1>a DEF Here
<1>4. /\ pc' = "search" /\ req' = req /\ out' = out /\ part_i' = part_i + 1
      /\ dir_address' = r.addr /\ file_address' = r.addr /\ left' = r.size
  BY <1>0, <1>2, <1>3 DEF Found, Follow, NextPart
<1>5. /\ part_i \in 1 .. Len(req.path) /\ Len(req.path) \in Nat /\ Part \in Names
      /\ Part = req.path[part_i]
  BY <1>0, ExportPath DEF Inv, TypeOK, Search, Part
<1>6. PICK S : Trail(S, req.path, AnyPerm, part_i - 1) /\ At(S[part_i - 1])
  BY <1>0 DEF ExportInv, ExportWalk
<1>7. PICK d : d = S[part_i - 1]
  OBVIOUS
<1>8. \A t \in Slots : Matches(Here[t]) <=> IsHit(disk[a].recs[t], Part, AnyPerm)
  <2>1. \A t \in Slots : Here[t] = disk[a].recs[t] /\ Here[t].perm \in Perms
    BY <1>0, <1>3, PartTypes DEF Here
  <2> QED BY <2>1 DEF Matches, IsHit, AnyPerm
<1>9. IsHit(r, Part, AnyPerm) /\ \A t \in 1 .. s - 1 : ~ IsHit(disk[a].recs[t], Part, AnyPerm)
  <2>1. \A t \in 1 .. s - 1 : t \in Slots
    BY Geometry DEF Slots
  <2> QED BY <1>1, <1>3, <1>8, <2>1 DEF FirstMatch
<1>10. /\ IsRecord(a, s) /\ r \in Rec /\ r.addr \in Addr \ {0}
       /\ map[r.addr].type = r.type /\ r.type \in {"FILE", "DIR"}
  <2>1. PICK name \in Names : name = Part
    BY <1>5
  <2>2. IsHit(disk[a].recs[s], name, AnyPerm)
    BY <1>3, <1>9, <2>1
  <2> QED BY <1>3, <2>2, HitRecord
<1>11. d.type = "DIR"
  BY <1>3, <1>6, <1>7, <1>10 DEF At, IsRecord
<1>12. PICK f : /\ IsChain(f, d.addr, map)
                /\ \E k \in 1 .. Len(f) :
                     /\ f[k] = a
                     /\ \A i \in 1 .. k - 1, t \in Slots :
                          ~ IsHit(disk[f[i]].recs[t], Part, AnyPerm)
  BY <1>3, <1>5, <1>6, <1>7, <1>11 DEF At, OfFork
<1>13. PICK k \in 1 .. Len(f) :
         /\ f[k] = a
         /\ \A i \in 1 .. k - 1, t \in Slots : ~ IsHit(disk[f[i]].recs[t], Part, AnyPerm)
  BY <1>12
<1>14. FirstAt(f, k, s, Part, AnyPerm)
  <2>1. SUFFICES ASSUME NEW i \in 1 .. Len(f), NEW t \in Slots,
                        IsHit(disk[f[i]].recs[t], Part, AnyPerm)
                 PROVE  k < i \/ (k = i /\ s <= t)
    BY <1>3, <1>9, <1>13 DEF FirstAt
  <2>2. i \in Nat /\ k \in Nat /\ s \in Nat /\ t \in Nat /\ 1 <= t /\ 1 <= i /\ Len(f) \in Nat
    BY <1>12, ChainTypes, Geometry DEF Slots
  <2>3. ~(i < k)
    BY <1>13, <2>1, <2>2
  <2>4. i = k => ~(t < s)
    BY <1>9, <1>13, <2>1, <2>2
  <2> QED BY <2>2, <2>3, <2>4
<1>15. LeadsTo(d, Part, AnyPerm, r)
  <2>1. d.addr # 0 /\ d = S[part_i - 1]
    BY <1>5, <1>6, <1>7, <1>12, ChainTypes
  <2>2. req.path \in Seq(Names) /\ part_i - 1 \in 0 .. Len(req.path)
    BY <1>0, <1>5, <1>6, <1>7, ExportPath DEF Inv
  <2>3. InFork(map[d.addr])
    BY <1>5, <1>6, <1>7, <2>1, <2>2, TrailHead
  <2> QED BY <1>3, <1>11, <1>12, <1>13, <1>14, <2>3 DEF LeadsTo
<1>16. PICK T : Trail(T, req.path, AnyPerm, part_i) /\ T[part_i] = r
  BY <1>5, <1>6, <1>7, <1>15, LongerTrail
<1>17. part_i' - 1 = part_i
  BY <1>4, <1>5
<1>18. PICK m : m = part_i
  OBVIOUS
<1>19. Trail(T, req.path, AnyPerm, part_i - 1)'
  <2>1. PICK p : p = req.path
    OBVIOUS
  <2>2. Trail(T, p, AnyPerm, m)'
    BY <1>0, <1>16, <1>18, <2>1, SameTrail
  <2> QED BY <1>4, <1>17, <1>18, <2>1, <2>2 DEF Trail
<1>20. At(T[part_i - 1])'
  <2>1. PICK g : IsChain(g, r.addr, map)
    BY <1>10 DEF ForkInv, Chained
  <2>2. IsChain(g, r.addr, map)' /\ g[1] = dir_address' /\ 1 \in 1 .. Len(g)
    BY <1>0, <1>4, <2>1, ChainTypes
  <2>3. OfFork(r, dir_address)'
    BY <2>2 DEF OfFork
  <2>4. map'[dir_address'].type = r.type
    BY <1>0, <1>4, <1>10
  <2>5. PICK n : n = part_i' - 1 /\ T[n] = r
    BY <1>16, <1>17
  <2> QED BY <1>4, <1>10, <2>3, <2>4, <2>5 DEF At
<1>21. (part_i - 1 \in 0 .. Len(req.path))'
  BY <1>4, <1>5
<1>22. ExportWalk'
  BY <1>19, <1>20, <1>21 DEF ExportWalk
<1>23. ExportControl' /\ ExportRead' /\ ExportDone'
  BY <1>4, <1>0 DEF ExportInv, ExportControl, ExportRead, ExportDone
<1> QED BY <1>22, <1>23 DEF ExportInv

LEMMA SearchOnStep ==
  ASSUME Inv, ForkInv, ExportInv, [Next]_vars, req.op = "export", SearchOn
  PROVE  ExportInv'
<1> USE DEF image, walk, rec, fork
<1>0. TypeOK /\ disk' = disk /\ map' = map /\ boot'.root = boot.root /\ Search /\ pc = "search"
  BY ExportSame DEF Inv, SearchOn, Search
<1>1. PICK a \in Addr : a = dir_address
  BY <1>0 DEF TypeOK
<1>2. /\ pc' = "search" /\ req' = req /\ out' = out /\ part_i' = part_i
      /\ dir_address' = Link(map, a) /\ file_address' = file_address /\ left' = left
      /\ Link(map, a) # 0
  <2>1. PICK S : Trail(S, req.path, AnyPerm, part_i - 1) /\ At(S[part_i - 1])
    BY <1>0 DEF ExportInv, ExportWalk
  <2>2. PICK d, n : n = part_i - 1 /\ d = S[n]
    OBVIOUS
  <2>3. InFork(map[a])
    <3>1. CASE d.type # "DIR"
      BY <1>1, <2>1, <2>2, <3>1 DEF At, InFork
    <3>2. CASE d.type = "DIR"
      <4>1. PICK f : IsChain(f, d.addr, map) /\ \E k \in 1 .. Len(f) : f[k] = a
        BY <1>1, <2>1, <2>2, <3>2 DEF At, OfFork
      <4>2. req.path \in Seq(Names) /\ n \in 0 .. Len(req.path) /\ d.addr # 0
        BY <1>0, <2>2, <4>1, ExportPath, ChainTypes DEF Inv, ExportInv, ExportWalk
      <4>3. InFork(map[d.addr])
        BY <2>1, <2>2, <4>2, TrailHead
      <4> QED BY <4>1, <4>3, ChainInUse
    <3> QED BY <3>1, <3>2
  <2> QED BY <1>0, <1>1, <2>3 DEF SearchOn, HasNext, Link
<1>3. \A t \in Slots : ~ IsHit(disk[a].recs[t], Part, AnyPerm)
  <2>1. \A t \in Slots : Here[t] = disk[a].recs[t] /\ Here[t].perm \in Perms
    BY <1>0, <1>1, PartTypes DEF Here
  <2> QED BY <2>1 DEF SearchOn, NoMatch, Matches, IsHit, AnyPerm
<1>4. PICK S : Trail(S, req.path, AnyPerm, part_i - 1) /\ At(S[part_i - 1])
  BY <1>0 DEF ExportInv, ExportWalk
<1>5. PICK d, n : n = part_i - 1 /\ d = S[n]
  OBVIOUS
<1>6. Trail(S, req.path, AnyPerm, part_i - 1)'
  <2>1. PICK p : p = req.path
    OBVIOUS
  <2>2. Trail(S, p, AnyPerm, n)'
    BY <1>0, <1>4, <1>5, <2>1, SameTrail
  <2> QED BY <1>2, <1>5, <2>1, <2>2 DEF Trail
<1>7. d.type = "DIR" => OfFork(d, dir_address)'
  <2> SUFFICES ASSUME d.type = "DIR" PROVE OfFork(d, dir_address)'
    OBVIOUS
  <2>1. PICK f : /\ IsChain(f, d.addr, map)
                 /\ \E k \in 1 .. Len(f) :
                      /\ f[k] = a
                      /\ part_i <= Len(req.path) =>
                           \A i \in 1 .. k - 1, t \in Slots :
                             ~ IsHit(disk[f[i]].recs[t], Part, AnyPerm)
    BY <1>1, <1>4, <1>5 DEF At, OfFork
  <2>2. PICK k \in 1 .. Len(f) :
          /\ f[k] = a
          /\ part_i <= Len(req.path) =>
               \A i \in 1 .. k - 1, t \in Slots : ~ IsHit(disk[f[i]].recs[t], Part, AnyPerm)
    BY <2>1
  <2>3. Len(f) \in Nat /\ k # Len(f)
    BY <1>2, <2>1, <2>2, ChainTypes DEF IsChain
  <2>4. PICK l \in 1 .. Len(f) : l = k + 1 /\ l - 1 = k
    BY <2>3
  <2>5. f[l] = Link(map, a)
    BY <2>1, <2>2, <2>3, <2>4 DEF IsChain
  <2>6. part_i <= Len(req.path) =>
          \A i \in 1 .. l - 1, t \in Slots : ~ IsHit(disk[f[i]].recs[t], Part, AnyPerm)
    <3> SUFFICES ASSUME part_i <= Len(req.path), NEW i \in 1 .. k, NEW t \in Slots
                 PROVE  ~ IsHit(disk[f[i]].recs[t], Part, AnyPerm)
      BY <2>4
    <3>1. i = k \/ i \in 1 .. k - 1
      BY <2>3
    <3> QED BY <1>3, <2>2, <3>1
  <2>7. IsChain(f, d.addr, map)'
    BY <1>0, <2>1
  <2>8. (part_i <= Len(req.path) =>
          \A i \in 1 .. l - 1, t \in Slots : ~ IsHit(disk[f[i]].recs[t], Part, AnyPerm))'
    BY <1>0, <1>2, <2>6 DEF IsHit, Part
  <2> QED BY <1>2, <2>4, <2>5, <2>7, <2>8 DEF OfFork
<1>8. d.type # "DIR" => map'[dir_address'].type = "FILE"
  <2>1. map[Link(map, a)].type = map[a].type
    BY <1>2, NextBlock DEF Link
  <2> QED BY <1>0, <1>1, <1>2, <1>4, <1>5, <2>1 DEF At
<1>9. At(S[part_i - 1])'
  <2>1. n = part_i' - 1 /\ S[n] = d
    BY <1>2, <1>5
  <2>2. At(d)
    BY <1>4, <1>5
  <2> QED BY <1>2, <1>7, <1>8, <2>1, <2>2 DEF At
<1>10. (part_i - 1 \in 0 .. Len(req.path))'
  BY <1>0, <1>2 DEF ExportInv, ExportWalk
<1>11. ExportWalk'
  BY <1>6, <1>9, <1>10 DEF ExportWalk
<1>12. ExportControl' /\ ExportRead' /\ ExportDone'
  BY <1>0, <1>2 DEF ExportInv, ExportControl, ExportRead, ExportDone
<1> QED BY <1>11, <1>12 DEF ExportInv

LEMMA ReadStarts ==
  ASSUME Inv, ForkInv, ExportInv, [Next]_vars, req.op = "export", WalkDone
  PROVE  ExportInv'
<1> USE DEF image, walk, rec, fork
<1>0. TypeOK /\ disk' = disk /\ map' = map /\ boot'.root = boot.root /\ PathDone /\ pc = "search"
  BY ExportSame DEF Inv, WalkDone, PathDone
<1>1. /\ pc' = "read" /\ req' = req /\ out' = << >> /\ file_address' = file_address
      /\ left' = left
  <2>1. AfterPath(req.op) = "read" /\ req.op # "add"
    BY DEF AfterPath
  <2>2. out = << >>
    BY <1>0 DEF ExportInv, ExportControl
  <2> QED BY <2>1, <2>2 DEF WalkDone
<1>2. PICK n : n = Len(req.path) /\ n \in Nat \ {0} /\ part_i - 1 = n /\ part_i > 1
  <2>1. part_i > Len(req.path) /\ part_i - 1 \in 0 .. Len(req.path) /\ part_i \in Nat
    BY <1>0 DEF PathDone, ExportInv, ExportWalk, TypeOK
  <2>2. Len(req.path) \in Nat \ {0}
    BY ExportPath DEF Inv
  <2> QED BY <2>1, <2>2
<1>3. PICK S, p : p = req.path /\ Trail(S, p, AnyPerm, n) /\ At(S[n])
  BY <1>0, <1>2 DEF ExportInv, ExportWalk
<1>4. PICK d : d = S[n]
  OBVIOUS
<1>5. d \in Rec /\ d.addr \in Addr \ {0}
  BY <1>2, <1>3, <1>4, TrailEnd
<1>6. file_address = d.addr /\ left = d.size /\ d.size \in Nat
  BY <1>2, <1>3, <1>4, <1>5 DEF At, Rec
<1>7. PICK f : IsChain(f, d.addr, map)
  BY <1>5 DEF ForkInv, Chained
<1>8. Trail(S, p, AnyPerm, n)'
  BY <1>0, <1>3, SameTrail
<1>9. ReadUpTo(d, f, 1)'
  <2>1. f[1] = file_address' /\ left' + (1 - 1) * BlockBytes = d.size
    BY <1>1, <1>6, <1>7, ChainTypes, Geometry
  <2>2. << >> = [i \in 1 .. 1 - 1 |-> disk'[f[i]].bytes]
    OBVIOUS
  <2> QED BY <1>1, <2>1, <2>2 DEF ReadUpTo, Copied
<1>10. 1 \in 1 .. Len(f)
  BY <1>7, ChainTypes
<1>11. IsChain(f, d.addr, map)'
  BY <1>0, <1>7
<1>12. ExportRead'
  <2>1. p = req'.path /\ n = Len(req'.path) /\ S[n] = d
    BY <1>1, <1>2, <1>3, <1>4
  <2> QED BY <1>8, <1>9, <1>10, <1>11, <2>1 DEF ExportRead
<1>13. ExportControl' /\ ExportWalk' /\ ExportDone'
  BY <1>1 DEF ExportInv, ExportControl, ExportWalk, ExportDone
<1> QED BY <1>12, <1>13 DEF ExportInv

(* The number of blocks that the loop of export reads.                     *)
LEMMA BlocksRead ==
  ASSUME NEW k \in Nat \ {0}, NEW b \in Nat, NEW size \in Nat, size = b + (k - 1) * BlockBytes
  PROVE  /\ b = 0 /\ k = 1 => BlocksOf(size) = 0
         /\ 0 < b /\ b <= BlockBytes => BlocksOf(size) = k
<1>0. BlockBytes \in Nat \ {0}
  BY Geometry
<1>1. CASE b = 0 /\ k = 1
  <2>1. size + BlockBytes - 1 = BlockBytes - 1 + BlockBytes * 0 /\ BlockBytes - 1 \in 0 .. BlockBytes - 1
    BY <1>0, <1>1
  <2>2. (size + BlockBytes - 1) \div BlockBytes = 0
    BY <1>0, <2>1
  <2> QED BY <1>1, <2>2 DEF BlocksOf
<1>2. CASE 0 < b /\ b <= BlockBytes
  <2>1. PICK c \in 0 .. BlockBytes - 1 : c = b - 1
    BY <1>0, <1>2
  <2>2. BlockBytes * k = (k - 1) * BlockBytes + BlockBytes
    BY <1>0
  <2>3. size + BlockBytes - 1 = BlockBytes * k + c
    BY <1>0, <2>1, <2>2
  <2>4. (BlockBytes * k + c) \div BlockBytes = k
    BY <1>0, <2>1
  <2> QED BY <1>2, <2>3, <2>4 DEF BlocksOf
<1> QED BY <1>1, <1>2

LEMMA ReadStep ==
  ASSUME Inv, ForkInv, ExportInv, [Next]_vars, req.op = "export", Read
  PROVE  ExportInv'
<1> USE DEF image, walk, rec, fork
<1>0. TypeOK /\ disk' = disk /\ map' = map /\ boot'.root = boot.root /\ pc = "read"
  BY ExportSame DEF Inv, Read
<1>1. PICK S, p, n : /\ p = req.path /\ n = Len(p) /\ Trail(S, p, AnyPerm, n)
                     /\ \E f : /\ IsChain(f, S[n].addr, map)
                               /\ \E k \in 1 .. Len(f) : ReadUpTo(S[n], f, k)
  BY <1>0 DEF ExportInv, ExportRead
<1>2. PICK d : d = S[n]
  OBVIOUS
<1>3. PICK f : /\ IsChain(f, d.addr, map)
               /\ \E k \in 1 .. Len(f) : ReadUpTo(d, f, k)
  BY <1>1, <1>2
<1>4. PICK k \in 1 .. Len(f) : ReadUpTo(d, f, k)
  BY <1>3
<1>5. /\ f[k] = file_address /\ left + (k - 1) * BlockBytes = d.size
      /\ k > 1 => left > 0
      /\ out = [i \in 1 .. k - 1 |-> disk[f[i]].bytes]
  BY <1>4 DEF ReadUpTo, Copied
<1>6. PICK a \in Addr, s \in Slots :
        /\ IsRecord(a, s) /\ d = disk[a].recs[s] /\ d \in Rec /\ d.addr \in Addr \ {0}
        /\ map[d.addr].type = d.type /\ d.type \in {"FILE", "DIR"}
  BY <1>1, <1>2, TrailEnd
<1>15. map[f[k]].next = Link(map, f[k])
  <2>1. InFork(map[d.addr])
    BY <1>6 DEF InFork
  <2> QED BY <1>3, <2>1, ChainInUse
<1>7. /\ Len(f) \in Nat /\ k \in Nat \ {0} /\ k <= Len(f) /\ f[k] \in Addr /\ f[k] # 0
      /\ f \in Seq(Addr) /\ left \in Nat /\ d.size \in Nat /\ BlockBytes \in Nat \ {0}
  BY <1>0, <1>3, <1>6, ChainTypes, Geometry DEF TypeOK, Rec
<1>8. req' = req
  BY DEF Read
<1>9. PICK m : m = (k - 1) * BlockBytes /\ m \in Nat
  BY <1>7
<1>10. f[k] = file_address /\ left + m = d.size /\ (k > 1 => left > 0)
  BY <1>5, <1>9
<1>11. Trail(S, p, AnyPerm, n)' /\ IsChain(f, d.addr, map)'
  BY <1>0, <1>1, <1>3, SameTrail
<1>12. left > 0 => out' = [i \in 1 .. k |-> disk[f[i]].bytes]
  <2> SUFFICES ASSUME left > 0 PROVE out' = [i \in 1 .. k |-> disk[f[i]].bytes]
    OBVIOUS
  <2> DEFINE g == [i \in 1 .. k |-> disk[f[i]].bytes]
  <2>1. PICK x : x = disk[f[k]].bytes
    OBVIOUS
  <2>2. out' = Append(out, x)
    BY <1>5, <2>1 DEF Read
  <2>3. \A i \in 1 .. k : f[i] \in Addr
    BY <1>7
  <2>4. \A i \in 1 .. k : disk[f[i]].bytes \in Bytes
    BY <1>0, <2>3, PartTypes
  <2>5. out \in Seq(Bytes) /\ Len(out) = k - 1 /\ \A i \in 1 .. k - 1 : out[i] = disk[f[i]].bytes
    BY <1>5, <1>7, <2>4
  <2>6. x \in Bytes
    BY <1>7, <2>1, <2>4
  <2>7. out' \in Seq(Bytes) /\ Len(out') = k
        /\ \A i \in 1 .. k : out'[i] = IF i = k THEN x ELSE out[i]
    BY <1>7, <2>2, <2>5, <2>6
  <2>8. \A i \in 1 .. k : out'[i] = disk[f[i]].bytes
    BY <1>7, <2>1, <2>5, <2>7
  <2>9. g \in Seq(Bytes) /\ Len(g) = k /\ \A i \in 1 .. k : g[i] = disk[f[i]].bytes
    BY <1>7, <2>4
  <2> HIDE DEF g
  <2>10. out' = g
    BY <1>7, <2>7, <2>8, <2>9
  <2> QED BY <2>10 DEF g
<1>13. CASE left > BlockBytes /\ HasNext(file_address, map)
  <2>0. ReadSize = BlockBytes
    BY <1>7, <1>13 DEF ReadSize
  <2>1. /\ file_address' = Link(map, f[k]) /\ pc' = "read" /\ left' = left - BlockBytes
        /\ Link(map, f[k]) # 0
    BY <1>0, <1>13, <1>10, <1>15, <2>0 DEF Read, HasNext
  <2>2. k # Len(f)
    BY <1>3, <2>1 DEF IsChain
  <2>3. PICK l \in 1 .. Len(f) : l = k + 1 /\ l - 1 = k /\ l > 1
    BY <1>7, <2>2
  <2>4. f[l] = file_address'
    BY <1>3, <1>7, <2>1, <2>2, <2>3 DEF IsChain
  <2>5. left' > 0 /\ left' + k * BlockBytes = d.size
    <3>1. PICK c : c = k * BlockBytes /\ c = m + BlockBytes
      BY <1>7, <1>9
    <3>2. /\ c = m + BlockBytes /\ m \in Nat /\ BlockBytes \in Nat /\ left \in Nat
          /\ left + m = d.size /\ left > BlockBytes /\ left' = left - BlockBytes
      BY <1>7, <1>9, <1>10, <1>13, <2>1, <3>1
    <3>3. left' + c = d.size /\ left' > 0
      BY ONLY <3>2
    <3> QED BY <3>1, <3>3
  <2>6. out' = [i \in 1 .. l - 1 |-> disk'[f[i]].bytes]
    <3>1. left > 0
      BY <1>7, <1>13
    <3> QED BY <1>0, <1>12, <2>3, <3>1
  <2>7. ReadUpTo(d, f, l)'
    BY <2>3, <2>4, <2>5, <2>6 DEF ReadUpTo, Copied
  <2>8. ExportRead'
    <3>1. p = req'.path /\ n = Len(req'.path) /\ S[n] = d
      BY <1>1, <1>2, <1>8
    <3> QED BY <1>11, <2>3, <2>7, <3>1 DEF ExportRead
  <2> QED BY <1>8, <2>1, <2>8 DEF ExportInv, ExportControl, ExportWalk, ExportDone
<1>14. CASE ~(left > BlockBytes /\ HasNext(file_address, map))
  <2>1. pc' = "umount"
    BY <1>14 DEF Read, Finish
  <2>2. ASSUME d.type = "FILE" PROVE left <= BlockBytes
    <3>1. PICK g : IsChain(g, d.addr, map) /\ d.size <= Len(g) * BlockBytes
      BY <1>6, <2>2 DEF ForkInv, Covers, CoveredBy
    <3>2. g = f
      <4>1. InFork(map[d.addr])
        BY <1>6 DEF InFork
      <4> QED BY <1>3, <3>1, <4>1, BlocksOfChain
    <3> SUFFICES ASSUME left > BlockBytes PROVE FALSE
      BY <1>7
    <3>3. Link(map, f[k]) = 0
      <4>1. f[k] < TotalBlocks
        BY <1>7, Geometry DEF Addr
      <4> QED BY <1>7, <1>14, <1>10, <1>15, <4>1 DEF HasNext
    <3>4. ~(k \in 1 .. Len(f) - 1)
      <4> SUFFICES ASSUME k \in 1 .. Len(f) - 1 PROVE FALSE
        OBVIOUS
      <4>1. f[k + 1] = 0 /\ k + 1 \in 1 .. Len(f)
        BY <1>3, <1>7, <3>3 DEF IsChain
      <4> QED BY <1>3, <4>1, ChainTypes
    <3>5. k = Len(f)
      BY <1>7, <3>4
    <3>6. PICK c : c = k * BlockBytes /\ c = m + BlockBytes
      BY <1>7, <1>9
    <3>7. d.size <= c
      BY <3>1, <3>2, <3>5, <3>6
    <3> QED BY <1>7, <1>9, <1>10, <3>6, <3>7
  <2>3. ASSUME d.type = "FILE"
        PROVE  BlocksOf(d.size) <= Len(f) /\ Copied(f, BlocksOf(d.size))'
    <3>1. CASE left = 0
      <4>0. k = 1
        BY <1>7, <1>10, <3>1
      <4>1. BlocksOf(d.size) = 0
        BY <1>5, <1>7, <3>1, <4>0, BlocksRead
      <4>2. out' = [i \in 1 .. 0 |-> disk'[f[i]].bytes]
        BY <1>0, <1>5, <3>1, <4>0 DEF Read
      <4> QED BY <1>7, <4>1, <4>2 DEF Copied
    <3>2. CASE left > 0
      <4>1. BlocksOf(d.size) = k
        BY <1>5, <1>7, <2>2, <2>3, <3>2, BlocksRead
      <4> QED BY <1>0, <1>7, <1>12, <3>2, <4>1 DEF Copied
    <3> QED BY <1>7, <3>1, <3>2
  <2>4. AllRead(d, f)'
    BY <2>3 DEF AllRead, BlocksOf, Copied
  <2>5. ExportDone'
    <3>1. p = req'.path /\ n = Len(req'.path) /\ S[n] = d
      BY <1>1, <1>2, <1>8
    <3> QED BY <1>11, <2>4, <3>1 DEF ExportDone
  <2> QED BY <1>8, <2>1, <2>5 DEF ExportInv, ExportControl, ExportWalk, ExportRead
<1> QED BY <1>13, <1>14

LEMMA ExportStep ==
  Inv /\ ForkInv /\ ExportInv /\ [Next]_vars => ExportInv'
<1> SUFFICES ASSUME Inv, ForkInv, ExportInv, [Next]_vars PROVE ExportInv'
  OBVIOUS
<1>1. CASE req.op # "export"
  BY <1>1, OtherSteps
<1>2. CASE req.op = "export"
  <2>0. pc \in {"search", "read", "umount", "exit"}
        /\ disk' = disk /\ map' = map /\ boot'.root = boot.root
    BY <1>2, ExportSame DEF ExportInv, ExportControl
  <2>1. ASSUME pc' \in {"umount", "exit"}, pc \in {"umount", "exit"},
               req' = req, out' = out, ret' = ret
        PROVE  ExportInv'
    <3>1. ASSUME ret = 0 PROVE ExportDone'
      <4>1. PICK S, f, p, n :
              /\ p = req.path /\ n = Len(p) /\ Trail(S, p, AnyPerm, n)
              /\ IsChain(f, S[n].addr, map) /\ AllRead(S[n], f)
        BY <1>2, <2>1, <3>1 DEF ExportInv, ExportDone
      <4>2. Trail(S, p, AnyPerm, n)' /\ IsChain(f, S[n].addr, map)'
        BY <2>0, <4>1, SameTrail
      <4>3. AllRead(S[n], f)'
        BY <2>0, <2>1, <4>1 DEF AllRead, Copied, BlocksOf
      <4>4. p = req'.path /\ n = Len(req'.path)
        BY <2>1, <4>1
      <4> QED BY <4>2, <4>3, <4>4 DEF ExportDone
    <3>2. ExportDone'
      BY <2>1, <3>1 DEF ExportDone
    <3> QED BY <2>1, <3>2 DEF ExportInv, ExportControl, ExportWalk, ExportRead
  <2>2. CASE UNCHANGED vars
    <3>0. USE DEF vars, image, walk, rec, fork
    <3>1. ExportControl'
      BY <2>2 DEF ExportInv, ExportControl
    <3>2. ExportWalk'
      <4> SUFFICES ASSUME pc = "search" PROVE ExportWalk'
        BY <1>2, <2>2 DEF ExportWalk
      <4>1. PICK S, p, n, d :
              /\ p = req.path /\ n = part_i - 1 /\ d = S[n]
              /\ n \in 0 .. Len(p) /\ Trail(S, p, AnyPerm, n) /\ At(d)
        BY <1>2 DEF ExportInv, ExportWalk
      <4>2. Trail(S, p, AnyPerm, n)' /\ p = req'.path /\ n = part_i' - 1
        BY <2>0, <2>2, <4>1, SameTrail
      <4>3. At(d)'
        BY <2>2, <4>1 DEF At, OfFork, IsChain, IsHit, Part
      <4> QED BY <4>1, <4>2, <4>3 DEF ExportWalk, At
    <3>3. ExportRead'
      <4> SUFFICES ASSUME pc = "read" PROVE ExportRead'
        BY <2>2 DEF ExportRead
      <4>1. PICK S, f, p, n :
              /\ p = req.path /\ n = Len(p) /\ Trail(S, p, AnyPerm, n)
              /\ IsChain(f, S[n].addr, map) /\ \E k \in 1 .. Len(f) : ReadUpTo(S[n], f, k)
        BY DEF ExportInv, ExportRead
      <4>2. Trail(S, p, AnyPerm, n)' /\ IsChain(f, S[n].addr, map)' /\ p = req'.path
        BY <2>0, <2>2, <4>1, SameTrail
      <4>3. \E k \in 1 .. Len(f) : ReadUpTo(S[n], f, k)'
        BY <2>2, <4>1 DEF ReadUpTo, Copied
      <4> QED BY <4>1, <4>2, <4>3 DEF ExportRead
    <3>4. ExportDone'
      <4> SUFFICES ASSUME pc \in {"umount", "exit"} PROVE ExportDone'
        BY <2>2 DEF ExportDone
      <4> QED BY <2>1, <2>2 DEF ExportInv
    <3> QED BY <3>1, <3>2, <3>3, <3>4 DEF ExportInv
  <2>3. CASE Found
    BY <1>2, <2>3, FollowStep
  <2>4. CASE SearchOn
    BY <1>2, <2>4, SearchOnStep
  <2>5. CASE NotFound
    <3>1. pc' = "umount" /\ ret' = 1 /\ req' = req
      BY <1>2, <2>5 DEF NotFound, Creates, Finish
    <3> QED BY <3>1 DEF ExportInv, ExportControl, ExportWalk, ExportRead, ExportDone
  <2>6. CASE WalkDone
    BY <1>2, <2>6, ReadStarts
  <2>7. CASE Read
    BY <1>2, <2>7, ReadStep
  <2>8. CASE Exit
    BY <2>8 DEF Exit, ProcessEnds, NoRequest, ExportInv, ExportControl, ExportWalk, ExportRead,
       ExportDone
  <2> QED BY <1>2, <2>1, <2>2, <2>3, <2>4, <2>5, <2>6, <2>7, <2>8, ExportSame
<1> QED BY <1>1, <1>2

(* export hands over exactly what the image holds under the path: when it  *)
(* reports success for a file, what it wrote is the content of the record  *)
(* that the path leads to, as many blocks of its fork as its size asks     *)
(* for, in their order (the two loops of cmd_export, lines 606-639).       *)
THEOREM ExportIsExact == Spec => []ExportExact
<1>1. Inv /\ ExportInv => ExportExact
  <2> SUFFICES ASSUME Inv, ExportInv, Succeeded("export"), Resolve(req.path).type = "FILE"
               PROVE  out = Stored(Resolve(req.path)).data
    BY DEF ExportExact
  <2>0. TypeOK /\ req.op = "export" /\ pc = "exit" /\ ret = 0
    BY DEF Inv, Succeeded
  <2>1. PICK S, f, p, n :
          /\ p = req.path /\ n = Len(p) /\ Trail(S, p, AnyPerm, n)
          /\ IsChain(f, S[n].addr, map) /\ AllRead(S[n], f)
    BY <2>0 DEF ExportInv, ExportDone
  <2>2. n \in Nat /\ Len(p) \in Nat
    BY <2>0, <2>1, ExportPath DEF Inv
  <2>3. Steps(p, AnyPerm)[n] = S[n] /\ S[n] \in Rec
    <3>1. n \in 0 .. Len(p) /\ n \in 0 .. n
      BY <2>1, <2>2
    <3>2. \A i \in 0 .. n : Steps(p, AnyPerm)[i] = S[i] /\ S[i] \in Rec
      <4>1. Inv /\ Len(p) \in Nat /\ Trail(S, p, AnyPerm, n)
        BY <2>0, <2>1, <2>2
      <4> QED BY ONLY <3>1, <4>1, TrailSteps
    <3> QED BY <3>1, <3>2
  <2>4. PICK d : d = S[n]
    OBVIOUS
  <2>5. Resolve(req.path) = d
    BY <2>1, <2>3, <2>4 DEF Resolve, Walk, AnyPerm
  <2>6. PICK l : l = BlocksOf(d.size) /\ l <= Len(f) /\ Copied(f, l)
    BY <2>1, <2>4, <2>5 DEF AllRead
  <2>7. l \in Nat /\ l \in 0 .. TotalBlocks /\ f \in Seq(Addr) /\ Len(f) \in Nat
    <3>1. d.size \in Nat
      BY <2>3, <2>4 DEF Rec
    <3>2. l \in Nat
      BY <2>6, <3>1, Geometry, SMTT(30) DEF BlocksOf
    <3>3. f \in Seq(Addr) /\ Len(f) \in Nat /\ Len(f) <= TotalBlocks /\ TotalBlocks \in Nat
      BY <2>1, <2>4, ChainTypes, ChainLength, Geometry
    <3> QED BY <2>6, <3>2, <3>3
  <2>8. Fork[l][d.addr] = SubSeq(f, 1, l)
    <3>1. Fork[l][d.addr] = SubSeq(f, 1, IF l < Len(f) THEN l ELSE Len(f))
      <4>1. p \in Seq(Names) /\ n \in 0 .. Len(p) /\ d.addr # 0
        BY <2>0, <2>1, <2>2, <2>4, ExportPath, ChainTypes DEF Inv
      <4>2. InFork(map[d.addr])
        BY <2>0, <2>1, <2>4, <4>1, TrailHead
      <4> QED BY <2>0, <2>1, <2>4, <2>7, <4>2, ForkOfChain
    <3>2. (IF l < Len(f) THEN l ELSE Len(f)) = l
      BY <2>6, <2>7
    <3> QED BY <3>1, <3>2
  <2>9. PICK g : g = SubSeq(f, 1, l)
    OBVIOUS
  <2>10. DOMAIN g = 1 .. l /\ \A i \in 1 .. l : g[i] = f[i]
    BY <2>6, <2>7, <2>9
  <2>11. Stored(d).data = [i \in DOMAIN g |-> disk[g[i]].bytes]
    BY <2>6, <2>8, <2>9 DEF Stored
  <2>12. out = [i \in DOMAIN g |-> disk[g[i]].bytes]
    BY <2>6, <2>10 DEF Copied
  <2> QED BY <2>5, <2>11, <2>12
<1>2. Init => ForkInv /\ ExportInv
  BY ForkInvInit, ExportInit
<1>3. Inv /\ Inv' /\ ForkInv /\ ForkInv' /\ ExportInv /\ [Next]_vars => ExportInv'
  BY ExportStep
<1> QED BY <1>1, <1>2, <1>3, Invariance, ForkInvariance, PTL DEF Spec
=============================================================================
