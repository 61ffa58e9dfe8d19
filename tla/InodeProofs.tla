---------------------------- MODULE InodeProofs -----------------------------
(***************************************************************************)
(* Proofs about reading inodes, for every number of inodes and groups and  *)
(* every size of a block and of an inode: one at a time through the cache  *)
(* (InodeCache), and all in turn (InodeScan).                              *)
(***************************************************************************)
EXTENDS InodeCache, NumberFacts, SequenceTheorems, TLAPS

Units == 0 .. (InodeSize - 1)
Places == 0 .. (BlockSize - 1)
Tables == [Blocks -> [Places -> Vals]]
Buffers == [blk : 0 .. NBlocks, data : [Places -> Vals]]
Entries == [1 .. CacheSize -> [ino : 0 .. NInodes, val : Vals]]

----------------------------------------------------------------------------
(* Where the units of an inode lie.                                        *)

LEMMA OffsetFacts ==
  ASSUME NEW i \in Inodes, NEW k \in Units
  PROVE  /\ (i - 1) % PerGroup \in 0 .. (PerGroup - 1)
         /\ OffsetOf(i, k) \in 0 .. (PerGroup * InodeSize - 1)
<1> DEFINE r == (i - 1) % PerGroup
<1>1. i - 1 \in Int /\ PerGroup \in Nat \ {0} /\ InodeSize \in Nat \ {0} /\ k \in Nat
  BY InodeCacheAssumption DEF Inodes, Units
<1>2. r \in 0 .. (PerGroup - 1)
  BY <1>1, Division
<1>3. OffsetOf(i, k) = r * InodeSize + k
  BY DEF OffsetOf
<1> HIDE DEF r
<1>4. r * InodeSize <= (PerGroup - 1) * InodeSize
  BY <1>1, <1>2, ProductMonotone
<1>5. (PerGroup - 1) * InodeSize = PerGroup * InodeSize - InodeSize
  BY <1>1
<1>6. r * InodeSize \in Nat /\ PerGroup * InodeSize \in Nat
  BY <1>1, <1>2
<1>7. OffsetOf(i, k) \in 0 .. (PerGroup * InodeSize - 1)
  BY <1>1, <1>3, <1>4, <1>5, <1>6 DEF Units
<1> QED BY <1>2, <1>7 DEF r

(* The table of a group has room for its inodes.                           *)
LEMMA GroupFacts ==
  ASSUME NEW i \in Inodes, NEW k \in Units
  PROVE  /\ BlocksPer \in Nat \ {0}
         /\ GroupOf(i) \in 0 .. ((NInodes + PerGroup - 1) \div PerGroup - 1)
         /\ OffsetOf(i, k) \div BlockSize \in 0 .. (BlocksPer - 1)
<1> DEFINE n == PerGroup * InodeSize - 1
           o == OffsetOf(i, k)
           z == NInodes - 1
           y == i - 1
<1>1. /\ y \in Nat /\ z \in Int /\ y <= z /\ PerGroup \in Nat \ {0}
      /\ InodeSize \in Nat \ {0} /\ BlockSize \in Nat \ {0}
  BY InodeCacheAssumption DEF Inodes
<1>2. n \in Int
  BY <1>1
<1>3. o \in Nat /\ o <= n
  BY <1>2, OffsetFacts
<1>4. BlocksPer = (n + BlockSize) \div BlockSize
  <2>1. PerGroup * InodeSize + BlockSize - 1 = n + BlockSize
    BY <1>1
  <2> QED BY <2>1 DEF BlocksPer
<1>5. (NInodes + PerGroup - 1) \div PerGroup = (z + PerGroup) \div PerGroup
  <2>1. NInodes + PerGroup - 1 = z + PerGroup
    BY <1>1, InodeCacheAssumption
  <2> QED BY <2>1
<1>6. GroupOf(i) = y \div PerGroup
  BY DEF GroupOf
<1> HIDE DEF n, o, z, y
<1>7. BlocksPer = n \div BlockSize + 1 /\ o \div BlockSize <= n \div BlockSize
  <2>1. (n + BlockSize) \div BlockSize = n \div BlockSize + 1
    BY <1>1, <1>2, QuotientNext
  <2>2. o \div BlockSize <= n \div BlockSize
    BY <1>1, <1>2, <1>3, QuotientMonotone
  <2> QED BY <1>4, <2>1, <2>2
<1>8. o \div BlockSize \in Nat /\ n \div BlockSize \in Int
  BY <1>1, <1>2, <1>3, DivisionNat, Division
<1>9. /\ (z + PerGroup) \div PerGroup = z \div PerGroup + 1
      /\ y \div PerGroup <= z \div PerGroup
  <2>1. (z + PerGroup) \div PerGroup = z \div PerGroup + 1
    BY <1>1, QuotientNext
  <2>2. y \div PerGroup <= z \div PerGroup
    BY <1>1, QuotientMonotone
  <2> QED BY <2>1, <2>2
<1>10. y \div PerGroup \in Nat /\ z \div PerGroup \in Int
  BY <1>1, DivisionNat, Division
<1>11. BlocksPer \in Nat \ {0} /\ o \div BlockSize \in 0 .. (BlocksPer - 1)
  BY <1>7, <1>8
<1>12. GroupOf(i) \in 0 .. ((NInodes + PerGroup - 1) \div PerGroup - 1)
  BY <1>5, <1>6, <1>9, <1>10
<1> QED BY <1>11, <1>12 DEF o

LEMMA PlaceFacts ==
  ASSUME NEW i \in Inodes, NEW k \in Units
  PROVE  BlockOf(i, k) \in Blocks /\ PlaceOf(i, k) \in Places
<1> DEFINE G == (NInodes + PerGroup - 1) \div PerGroup
           g == GroupOf(i)
           o == OffsetOf(i, k) \div BlockSize
<1>1. BlocksPer \in Nat \ {0} /\ g \in 0 .. (G - 1) /\ o \in 0 .. (BlocksPer - 1)
  BY GroupFacts
<1>2. G \in Int
  BY InodeCacheAssumption, Division
<1>3. BlockOf(i, k) = g * BlocksPer + o + 1 /\ NBlocks = BlocksPer * G
  BY DEF BlockOf, NBlocks
<1> HIDE DEF G, g, o
<1>4. g * BlocksPer <= (G - 1) * BlocksPer
  BY <1>1, <1>2, ProductMonotone
<1>5. (G - 1) * BlocksPer = BlocksPer * G - BlocksPer
  BY <1>1, <1>2
<1>6. g * BlocksPer \in Nat /\ BlocksPer * G \in Int
  BY <1>1, <1>2
<1>7. BlockOf(i, k) \in Blocks
  BY <1>1, <1>3, <1>4, <1>5, <1>6 DEF Blocks
<1>8. PlaceOf(i, k) \in Places
  <2>1. OffsetOf(i, k) \in Int /\ BlockSize \in Nat \ {0}
    BY OffsetFacts, InodeCacheAssumption
  <2> QED BY <2>1, Division DEF PlaceOf, Places
<1> QED BY <1>7, <1>8

(* No two units share a place.                                             *)
LEMMA PlacesApart ==
  ASSUME NEW i \in Inodes, NEW k \in Units, NEW j \in Inodes, NEW m \in Units,
         BlockOf(i, k) = BlockOf(j, m), PlaceOf(i, k) = PlaceOf(j, m)
  PROVE  i = j /\ k = m
<1>0. /\ PerGroup \in Nat \ {0} /\ InodeSize \in Nat \ {0} /\ BlockSize \in Nat \ {0}
      /\ i \in Nat /\ j \in Nat
  BY InodeCacheAssumption DEF Inodes
<1>1. GroupOf(i) = GroupOf(j)
      /\ OffsetOf(i, k) \div BlockSize = OffsetOf(j, m) \div BlockSize
  <2> DEFINE oi == OffsetOf(i, k) \div BlockSize
             oj == OffsetOf(j, m) \div BlockSize
  <2>1. /\ BlocksPer \in Nat \ {0} /\ GroupOf(i) \in Int /\ GroupOf(j) \in Int
        /\ oi \in 0 .. (BlocksPer - 1) /\ oj \in 0 .. (BlocksPer - 1)
    BY GroupFacts
  <2>2. GroupOf(i) * BlocksPer + oi + 1 = GroupOf(j) * BlocksPer + oj + 1
    BY DEF BlockOf
  <2> DEFINE gi == GroupOf(i)
             gj == GroupOf(j)
             a == gi * BlocksPer
             b == gj * BlocksPer
  <2>3. a \in Int /\ b \in Int /\ a + oi + 1 = b + oj + 1
    BY <2>1, <2>2
  <2> HIDE DEF oi, oj, a, b
  <2>4. a + oi = b + oj
    BY <2>1, <2>3
  <2>5. gi * BlocksPer + oi = gj * BlocksPer + oj
    BY <2>4 DEF a, b
  <2>6. gi \in Int /\ gj \in Int
    BY <2>1
  <2> HIDE DEF gi, gj
  <2>7. gi = gj /\ oi = oj
    BY <2>1, <2>5, <2>6, UniqueDivision
  <2> QED BY <2>7 DEF oi, oj, gi, gj
<1>2. OffsetOf(i, k) = OffsetOf(j, m)
  <2>1. OffsetOf(i, k) \in Int /\ OffsetOf(j, m) \in Int
    BY OffsetFacts
  <2>2. /\ OffsetOf(i, k) = BlockSize * (OffsetOf(i, k) \div BlockSize) + PlaceOf(i, k)
        /\ OffsetOf(j, m) = BlockSize * (OffsetOf(j, m) \div BlockSize) + PlaceOf(j, m)
    BY <1>0, <2>1, Division DEF PlaceOf
  <2> QED BY <1>1, <2>2
<1>3. (i - 1) % PerGroup = (j - 1) % PerGroup /\ k = m
  <2> DEFINE ri == (i - 1) % PerGroup
             rj == (j - 1) % PerGroup
  <2>1. ri \in Int /\ rj \in Int
    BY OffsetFacts
  <2>2. ri * InodeSize + k = rj * InodeSize + m
    BY <1>2 DEF OffsetOf
  <2> HIDE DEF ri, rj
  <2>3. ri = rj /\ k = m
    BY <1>0, <2>1, <2>2, UniqueDivision DEF Units
  <2> QED BY <2>3 DEF ri, rj
<1>4. i - 1 = j - 1
  <2>1. /\ i - 1 = PerGroup * ((i - 1) \div PerGroup) + ((i - 1) % PerGroup)
        /\ j - 1 = PerGroup * ((j - 1) \div PerGroup) + ((j - 1) % PerGroup)
    BY <1>0, Division
  <2> QED BY <1>1, <1>3, <2>1 DEF GroupOf
<1> QED BY <1>0, <1>3, <1>4

----------------------------------------------------------------------------
(* The blocks and the buffer.                                              *)

(* struct ext2_inode of inode i in the tables t.                           *)
Struct(t, i) == t[BlockOf(i, 0)][PlaceOf(i, 0)]

LEMMA FirstUnit == 0 \in Units /\ \A i : Stored(i)[0] = Struct(tab, i)
<1>1. 0 \in Units
  BY InodeCacheAssumption DEF Units
<1> QED BY <1>1 DEF Stored, Struct, Units

LEMMA SomeBlocks == NBlocks \in Nat
<1>1. 1 \in Inodes /\ 0 \in Units
  BY FirstUnit, InodeCacheAssumption DEF Inodes
<1>2. BlockOf(1, 0) \in Blocks
  BY <1>1, PlaceFacts
<1>3. BlocksPer \in Nat /\ (NInodes + PerGroup - 1) \div PerGroup \in Int
  BY <1>1, GroupFacts, InodeCacheAssumption, Division
<1>4. NBlocks \in Int
  BY <1>3 DEF NBlocks
<1> QED BY <1>2, <1>4 DEF Blocks

Coherent(buf, t) ==
  /\ t \in Tables /\ buf \in Buffers
  /\ buf.blk # 0 => buf.data = t[buf.blk]

LEMMA FillIs ==
  ASSUME NEW buf, Coherent(buf, tab), NEW b \in Blocks
  PROVE  /\ Fill(buf, b) = [blk |-> b, data |-> tab[b]]
         /\ Coherent(Fill(buf, b), tab)
<1>0. b # 0 /\ b \in 0 .. NBlocks /\ tab[b] \in [Places -> Vals]
  BY DEF Blocks, Coherent, Tables
<1>1. Fill(buf, b) = [blk |-> b, data |-> tab[b]]
  <2>1. CASE buf.blk = b
    <3>1. buf = [blk |-> buf.blk, data |-> buf.data]
      BY DEF Coherent, Buffers
    <3> QED BY <1>0, <2>1, <3>1 DEF Fill, Coherent
  <2>2. CASE buf.blk # b
    BY <2>2 DEF Fill
  <2> QED BY <2>1, <2>2
<1> QED BY <1>0, <1>1 DEF Coherent, Buffers

(* A unit is written to its place, and nothing else changes.               *)
LEMMA WriteUnitIs ==
  ASSUME NEW acc, Coherent(acc.buf, acc.tab), NEW i \in Inodes, NEW k \in Units, NEW v \in Vals
  PROVE  /\ Coherent(WriteUnit(acc, i, k, v).buf, WriteUnit(acc, i, k, v).tab)
         /\ \A b \in Blocks, p \in Places :
              WriteUnit(acc, i, k, v).tab[b][p]
                = IF b = BlockOf(i, k) /\ p = PlaceOf(i, k) THEN v ELSE acc.tab[b][p]
<1> DEFINE b == BlockOf(i, k)
           p == PlaceOf(i, k)
           new == [acc.tab[b] EXCEPT ![p] = v]
<1>1. b \in Blocks /\ p \in Places
  BY PlaceFacts
<1>2. b # 0 /\ b \in 0 .. NBlocks
  BY <1>1 DEF Blocks
<1>3. (IF acc.buf.blk = b THEN acc.buf.data ELSE acc.tab[b]) = acc.tab[b]
  BY <1>2 DEF Coherent
<1>4. /\ WriteUnit(acc, i, k, v).buf = [blk |-> b, data |-> new]
      /\ WriteUnit(acc, i, k, v).tab = [acc.tab EXCEPT ![b] = new]
  BY <1>3 DEF WriteUnit
<1> HIDE DEF b, p
<1>5. new \in [Places -> Vals]
      /\ \A q \in Places : new[q] = IF q = p THEN v ELSE acc.tab[b][q]
  BY <1>1 DEF Coherent, Tables
<1> HIDE DEF new
<1>6. /\ [acc.tab EXCEPT ![b] = new] \in Tables
      /\ \A c \in Blocks : [acc.tab EXCEPT ![b] = new][c] = IF c = b THEN new ELSE acc.tab[c]
  BY <1>1, <1>5 DEF Coherent, Tables
<1>7. Coherent(WriteUnit(acc, i, k, v).buf, WriteUnit(acc, i, k, v).tab)
  BY <1>1, <1>2, <1>4, <1>5, <1>6 DEF Coherent, Buffers
<1>8. \A c \in Blocks, q \in Places :
        WriteUnit(acc, i, k, v).tab[c][q] = IF c = b /\ q = p THEN v ELSE acc.tab[c][q]
  BY <1>4, <1>5, <1>6
<1> QED BY <1>7, <1>8 DEF b, p

(* A write changes the struct of its inode and of no other.                *)
LEMMA WriteUnitsIs ==
  ASSUME Coherent(buffer, tab), NEW i \in Inodes, NEW v \in Vals, NEW units,
         units = <<v>> \/ (InodeSize = 2 /\ \E w \in Vals : units = <<v, w>>)
  PROVE  /\ Coherent(WriteUnits(i, units).buf, WriteUnits(i, units).tab)
         /\ \A j \in Inodes : Struct(WriteUnits(i, units).tab, j)
                                = IF j = i THEN v ELSE Struct(tab, j)
<1> DEFINE one == WriteUnit(Volume, i, 0, v)
<1>1. Volume.buf = buffer /\ Volume.tab = tab
  BY DEF Volume
<1>2. 0 \in Units /\ \A j \in Inodes : BlockOf(j, 0) \in Blocks /\ PlaceOf(j, 0) \in Places
  BY FirstUnit, PlaceFacts
<1>3. /\ Coherent(one.buf, one.tab)
      /\ \A b \in Blocks, p \in Places :
           one.tab[b][p] = IF b = BlockOf(i, 0) /\ p = PlaceOf(i, 0) THEN v ELSE tab[b][p]
  BY <1>1, <1>2, WriteUnitIs
<1> HIDE DEF one
<1>4. \A j \in Inodes : Struct(one.tab, j) = IF j = i THEN v ELSE Struct(tab, j)
  <2> SUFFICES ASSUME NEW j \in Inodes
               PROVE  Struct(one.tab, j) = IF j = i THEN v ELSE Struct(tab, j)
    OBVIOUS
  <2>1. j # i => ~(BlockOf(j, 0) = BlockOf(i, 0) /\ PlaceOf(j, 0) = PlaceOf(i, 0))
    BY <1>2, PlacesApart
  <2> QED BY <1>2, <1>3, <2>1 DEF Struct
<1>5. CASE units = <<v>>
  <2>1. WriteUnits(i, units) = one
    BY <1>5 DEF WriteUnits, one
  <2> QED BY <1>3, <1>4, <2>1
<1>6. ASSUME InodeSize = 2, NEW w \in Vals, units = <<v, w>>
      PROVE  /\ Coherent(WriteUnits(i, units).buf, WriteUnits(i, units).tab)
             /\ \A j \in Inodes : Struct(WriteUnits(i, units).tab, j)
                                    = IF j = i THEN v ELSE Struct(tab, j)
  <2> DEFINE two == WriteUnit(one, i, 1, w)
  <2>1. WriteUnits(i, units) = two
    BY <1>6 DEF WriteUnits, one
  <2>2. 1 \in Units
    BY <1>6 DEF Units
  <2>3. /\ Coherent(two.buf, two.tab)
        /\ \A b \in Blocks, p \in Places :
             two.tab[b][p] = IF b = BlockOf(i, 1) /\ p = PlaceOf(i, 1) THEN w ELSE one.tab[b][p]
    BY <1>3, <1>6, <2>2, WriteUnitIs
  <2> HIDE DEF two
  <2>4. ASSUME NEW j \in Inodes PROVE Struct(two.tab, j) = Struct(one.tab, j)
    <3>1. ~(BlockOf(j, 0) = BlockOf(i, 1) /\ PlaceOf(j, 0) = PlaceOf(i, 1))
      BY <1>2, <2>2, PlacesApart
    <3> QED BY <1>2, <2>3, <3>1 DEF Struct
  <2> QED BY <1>4, <2>1, <2>3, <2>4
<1> QED BY <1>5, <1>6

----------------------------------------------------------------------------
(* The inductive invariant: what is to be shown, and that an inode in the  *)
(* cache is one that the table has, so that a write to one it has not      *)
(* finds no slot to spoil.                                                 *)
CachedArePresent == \A s \in 1 .. CacheSize : cache[s].ino # 0 => Present(cache[s].ino)

Inv == CacheSound /\ CachedArePresent

LEMMA InvCoherent == Inv => Coherent(buffer, tab)
BY DEF Inv, CacheSound, TypeOK, BufferIsBlock, Coherent, Tables, Buffers, Places

(* The invariant, of a cache and of tables.                                *)
Agrees(c, t) ==
  /\ c \in Entries
  /\ \A s \in 1 .. CacheSize : c[s].ino # 0 => Present(c[s].ino) /\ c[s].val = Struct(t, c[s].ino)
  /\ \A s, u \in 1 .. CacheSize : c[s].ino = c[u].ino /\ s # u => c[s].ino = 0

LEMMA InvIs ==
  Inv <=> Coherent(buffer, tab) /\ Agrees(cache, tab) /\ last \in 0 .. CacheSize
BY FirstUnit DEF Inv, CacheSound, CachedArePresent, TypeOK, BufferIsBlock, CacheIsTable,
   NoDuplicate, Coherent, Agrees, Tables, Buffers, Places, Entries

LEMMA NextInvIs ==
  Inv' <=> Coherent(buffer', tab') /\ Agrees(cache', tab') /\ last' \in 0 .. CacheSize
<1>1. \A i : Stored(i)'[0] = Struct(tab', i)
  <2>1. 0 \in 0 .. (InodeSize - 1)
    BY InodeCacheAssumption
  <2> QED BY <2>1 DEF Stored, Struct
<1> QED BY <1>1 DEF Inv, CacheSound, CachedArePresent, TypeOK, BufferIsBlock, CacheIsTable,
   NoDuplicate, Coherent, Agrees, Tables, Buffers, Places, Entries

LEMMA InitInv == Init => Inv
<1> SUFFICES ASSUME Init PROVE Inv
  OBVIOUS
<1>1. tab \in Tables
  BY InodeCacheAssumption DEF Init, Tables, Places
<1>2. buffer \in Buffers /\ buffer.blk = 0
  <2>1. NBlocks \in Nat
    BY SomeBlocks
  <2> QED BY <2>1, InodeCacheAssumption DEF Init, NoBuffer, Buffers, Places
<1>3. Agrees(cache, tab)
  BY InodeCacheAssumption DEF Init, EmptySlot, Agrees, Entries
<1>4. last \in 0 .. CacheSize
  BY InodeCacheAssumption DEF Init
<1> QED BY <1>1, <1>2, <1>3, <1>4, InvIs DEF Coherent

----------------------------------------------------------------------------
(* The calls.                                                              *)

(* An inode that the cache holds is in one slot.                           *)
LEMMA TheSlot ==
  ASSUME Inv, NEW i, i # 0, Slots(i) # {}
  PROVE  /\ First(Slots(i)) \in 1 .. CacheSize
         /\ cache[First(Slots(i))].ino = i
         /\ \A s \in 1 .. CacheSize : cache[s].ino = i => s = First(Slots(i))
<1>1. PICK s \in 1 .. CacheSize : cache[s].ino = i
  BY DEF Slots
<1>2. \A t \in 1 .. CacheSize : cache[t].ino = i => t = s
  BY <1>1, InvIs DEF Agrees
<1>3. Slots(i) = {s}
  BY <1>1, <1>2 DEF Slots
<1>4. \A t \in Slots(i) : s <= t
  BY <1>3
<1>5. First(Slots(i)) \in Slots(i)
  BY <1>3, <1>4 DEF First
<1> QED BY <1>1, <1>2, <1>3, <1>5

(* What a cached inode answers is what the table holds.                    *)
LEMMA CachedIsStored ==
  ASSUME Inv, NEW i, i # 0, Slots(i) # {}
  PROVE  Present(i) /\ cache[First(Slots(i))].val = Struct(tab, i)
BY TheSlot, InvIs DEF Agrees

LEMMA ReadTableIs ==
  ASSUME Inv, NEW i, ReadTable(i, 1)
  PROVE  /\ i \in Inodes /\ Present(i) /\ tab' = tab
         /\ Coherent(buffer', tab)
         /\ last' \in 1 .. CacheSize
         /\ cache' = [cache EXCEPT ![last'] = [ino |-> i, val |-> Struct(tab, i)]]
         /\ out' = Answer("read", i, Struct(tab, i))
<1>1. i \in Inodes /\ Present(i)
  BY DEF ReadTable, Present
<1>2. BlockOf(i, 0) \in Blocks /\ PlaceOf(i, 0) \in Places
  BY <1>1, FirstUnit, PlaceFacts
<1>3. /\ ReadFirst(i) = [blk |-> BlockOf(i, 0), data |-> tab[BlockOf(i, 0)]]
      /\ Coherent(ReadFirst(i), tab)
  BY <1>2, InvCoherent, FillIs DEF ReadFirst
<1>4. ReadFirst(i).data[PlaceOf(i, 0)] = Struct(tab, i)
  BY <1>3 DEF Struct
<1>5. ReadBuffer(i, 1) = Fill(ReadFirst(i), BlockOf(i, 0))
  <2>1. 1 - 1 = 0
    OBVIOUS
  <2> QED BY <2>1 DEF ReadBuffer
<1>6. Coherent(buffer', tab)
  BY <1>2, <1>3, <1>5, FillIs DEF ReadTable
<1>7. last' \in 1 .. CacheSize
  <2>1. last \in Int /\ CacheSize \in Nat \ {0}
    BY InvIs, InodeCacheAssumption
  <2>2. last % CacheSize \in 0 .. (CacheSize - 1)
    BY <2>1, Division
  <2> QED BY <2>1, <2>2 DEF ReadTable, NextSlot
<1> QED BY <1>1, <1>4, <1>6, <1>7 DEF ReadTable

LEMMA ReadKeeps ==
  ASSUME Inv, NEW i, i # 0, ext2fs_read_inode(i)
  PROVE  Inv'
<1>1. CASE UNCHANGED <<tab, buffer, cache, last>>
  BY <1>1, InvIs, NextInvIs
<1>2. CASE Slots(i) = {} /\ ReadTable(i, 1)
  <2>1. /\ i \in Inodes /\ Present(i) /\ tab' = tab
        /\ Coherent(buffer', tab)
        /\ last' \in 1 .. CacheSize
        /\ cache' = [cache EXCEPT ![last'] = [ino |-> i, val |-> Struct(tab, i)]]
    BY <1>2, ReadTableIs
  <2>2. Struct(tab, i) \in Vals
    BY <2>1, FirstUnit, PlaceFacts, InvCoherent DEF Struct, Coherent, Tables
  <2>3. \A s \in 1 .. CacheSize : cache[s].ino # i
    BY <1>2 DEF Slots
  <2> DEFINE e == [ino |-> i, val |-> Struct(tab, i)]
  <2>4. e \in [ino : 0 .. NInodes, val : Vals] /\ e.ino = i /\ e.val = Struct(tab, i)
    BY <2>1, <2>2 DEF Inodes
  <2> HIDE DEF e
  <2>5. cache' = [cache EXCEPT ![last'] = e] /\ Agrees(cache, tab)
    BY <2>1, InvIs DEF e
  <2>6. Agrees(cache', tab)
    <3>1. cache' \in Entries
      BY <2>1, <2>4, <2>5 DEF Agrees, Entries
    <3>2. \A s \in 1 .. CacheSize : cache'[s] = IF s = last' THEN e ELSE cache[s]
      BY <2>1, <2>5 DEF Agrees, Entries
    <3> QED BY <2>1, <2>3, <2>4, <2>5, <3>1, <3>2 DEF Agrees
  <2> QED BY <2>1, <2>6, NextInvIs
<1> QED BY <1>1, <1>2 DEF ext2fs_read_inode, ReadCached, Refuse

LEMMA UpdateIs ==
  ASSUME Inv, NEW i, i # 0, NEW v \in Vals
  PROVE  /\ Update(i, v) \in Entries
         /\ \A s \in 1 .. CacheSize :
              /\ Update(i, v)[s].ino = cache[s].ino
              /\ Update(i, v)[s].val = IF cache[s].ino = i THEN v ELSE cache[s].val
<1>0. cache \in Entries
  BY InvIs DEF Agrees
<1>1. CASE Slots(i) = {}
  BY <1>0, <1>1 DEF Update, Slots
<1>2. CASE Slots(i) # {}
  <2> DEFINE f == First(Slots(i))
             e == [cache[f] EXCEPT !.val = v]
  <2>1. /\ f \in 1 .. CacheSize /\ cache[f].ino = i
        /\ \A s \in 1 .. CacheSize : cache[s].ino = i => s = f
    BY <1>2, TheSlot
  <2>2. Update(i, v) = [cache EXCEPT ![f] = e]
    BY <1>2 DEF Update
  <2> HIDE DEF f
  <2>3. e \in [ino : 0 .. NInodes, val : Vals] /\ e.ino = i /\ e.val = v
    BY <1>0, <2>1 DEF Entries
  <2> HIDE DEF e
  <2> QED BY <1>0, <2>1, <2>2, <2>3 DEF Entries
<1> QED BY <1>1, <1>2

LEMMA WriteKeeps ==
  ASSUME Inv, NEW i, i # 0, NEW v \in Vals, NEW units, WriteInode(i, units),
         units = <<v>> \/ (InodeSize = 2 /\ \E w \in Vals : units = <<v, w>>)
  PROVE  Inv'
<1>0. units[1] = v /\ Coherent(buffer, tab) /\ Agrees(cache, tab)
  BY InvIs
<1>1. cache' = Update(i, v) /\ last' \in 0 .. CacheSize
  BY <1>0, InvIs DEF WriteInode
<1>2. /\ cache' \in Entries
      /\ \A s \in 1 .. CacheSize : /\ cache'[s].ino = cache[s].ino
                                   /\ cache'[s].val = IF cache[s].ino = i THEN v ELSE cache[s].val
  <2>1. /\ Update(i, v) \in Entries
        /\ \A s \in 1 .. CacheSize :
             /\ Update(i, v)[s].ino = cache[s].ino
             /\ Update(i, v)[s].val = IF cache[s].ino = i THEN v ELSE cache[s].val
    BY UpdateIs
  <2> QED BY <1>1, <2>1
<1>3. CASE Present(i) /\ buffer' = WriteUnits(i, units).buf /\ tab' = WriteUnits(i, units).tab
  <2>1. i \in Inodes
    BY <1>3 DEF Present
  <2>2. /\ Coherent(buffer', tab')
        /\ \A j \in Inodes : Struct(tab', j) = IF j = i THEN v ELSE Struct(tab, j)
    BY <1>0, <1>3, <2>1, WriteUnitsIs
  <2>3. Agrees(cache', tab')
    BY <1>0, <1>2, <2>2 DEF Agrees, Present
  <2> QED BY <1>1, <2>2, <2>3, NextInvIs
<1>4. CASE ~Present(i) /\ UNCHANGED <<tab, buffer>>
  <2>1. \A s \in 1 .. CacheSize : cache[s].ino # i
    BY <1>0, <1>4 DEF Agrees
  <2>2. Agrees(cache', tab')
    BY <1>0, <1>2, <1>4, <2>1 DEF Agrees
  <2> QED BY <1>0, <1>1, <1>4, <2>2, NextInvIs
<1> QED BY <1>3, <1>4 DEF WriteInode

LEMMA FlushKeeps ==
  ASSUME Inv, ext2fs_flush_icache
  PROVE  Inv'
<1>0. cache \in Entries /\ buffer \in Buffers /\ tab \in Tables /\ last \in 0 .. CacheSize
  BY InvIs DEF Agrees, Coherent
<1>1. cache' \in Entries /\ \A s \in 1 .. CacheSize : cache'[s].ino = 0
  <2>1. \A s \in 1 .. CacheSize : /\ [cache[s] EXCEPT !.ino = 0] \in [ino : 0 .. NInodes, val : Vals]
                                  /\ [cache[s] EXCEPT !.ino = 0].ino = 0
    BY <1>0, InodeCacheAssumption DEF Entries
  <2> QED BY <2>1 DEF ext2fs_flush_icache, Entries
<1>2. buffer' \in Buffers /\ buffer'.blk = 0
  <2>1. 0 \in 0 .. NBlocks
    BY SomeBlocks
  <2> QED BY <1>0, <2>1 DEF ext2fs_flush_icache, Buffers
<1>3. Agrees(cache', tab') /\ Coherent(buffer', tab') /\ last' \in 0 .. CacheSize
  BY <1>0, <1>1, <1>2 DEF Agrees, Coherent, ext2fs_flush_icache
<1> QED BY <1>3, NextInvIs

(* The units that the calls write.                                         *)
LEMMA WrittenUnits ==
  ASSUME NEW i
  PROVE  /\ \A v \in Vals : ext2fs_write_inode(i, v) => WriteInode(i, <<v>>)
         /\ \A v \in Vals : ext2fs_write_new_inode(i, v) =>
              WriteInode(i, <<v>>) \/ (InodeSize = 2 /\ 0 \in Vals /\ WriteInode(i, <<v, 0>>))
         /\ \A v, w \in Vals : ext2fs_write_inode_full(i, v, w) =>
              InodeSize = 2 /\ WriteInode(i, <<v, w>>)
BY InodeCacheAssumption DEF ext2fs_write_inode, ext2fs_write_new_inode, ext2fs_write_inode_full

LEMMA NextInv ==
  ASSUME Inv, [Next]_vars
  PROVE  Inv'
<1>1. ASSUME NEW i \in 1 .. (NInodes + 1), ext2fs_read_inode(i) PROVE Inv'
  <2>1. i # 0
    OBVIOUS
  <2> QED BY <1>1, <2>1, ReadKeeps
<1>2. ASSUME NEW i, ReadFails(i) PROVE Inv'
  BY <1>2, InvIs, NextInvIs DEF ReadFails, Refuse
<1>3. ASSUME NEW i \in 1 .. (NInodes + 1), NEW v \in Vals,
             ext2fs_write_inode(i, v) \/ ext2fs_write_new_inode(i, v)
      PROVE  Inv'
  <2>1. i # 0
    OBVIOUS
  <2>2. CASE WriteInode(i, <<v>>)
    BY <2>1, <2>2, WriteKeeps
  <2>3. CASE InodeSize = 2 /\ 0 \in Vals /\ WriteInode(i, <<v, 0>>)
    BY <2>1, <2>3, WriteKeeps
  <2> QED BY <1>3, <2>2, <2>3, WrittenUnits
<1>4. ASSUME NEW i \in 1 .. (NInodes + 1), NEW v \in Vals, NEW w \in Vals,
             ext2fs_write_inode_full(i, v, w)
      PROVE  Inv'
  <2>1. i # 0
    OBVIOUS
  <2>2. InodeSize = 2 /\ WriteInode(i, <<v, w>>)
    BY <1>4, WrittenUnits
  <2> QED BY <2>1, <2>2, WriteKeeps
<1>5. CASE ext2fs_flush_icache
  BY <1>5, FlushKeeps
<1>6. CASE UNCHANGED vars
  BY <1>6, InvIs, NextInvIs DEF vars
<1> QED BY <1>1, <1>2, <1>3, <1>4, <1>5, <1>6 DEF Next

(* The inductive invariant holds always.                                   *)
THEOREM InodeCacheInvariant == Spec => []Inv
<1>1. Init => Inv
  BY InitInv
<1>2. Inv /\ [Next]_vars => Inv'
  BY NextInv
<1> QED BY <1>1, <1>2, PTL DEF Spec

(* The buffer is the block it names, every slot the inode it names, and no *)
(* inode is in two slots, after any calls (ext2fs_read_inode_full,         *)
(* ext2fs_write_inode_full, ext2fs_flush_icache).                          *)
THEOREM InodeCacheSound == Spec => []CacheSound
<1>1. Inv => CacheSound
  BY DEF Inv
<1> QED BY <1>1, InodeCacheInvariant, PTL

----------------------------------------------------------------------------
(* The refinement.                                                         *)

LEMMA ReadIsArrayStep ==
  ASSUME Inv, NEW i \in 1 .. (NInodes + 1), ext2fs_read_inode(i)
  PROVE  ArrayStep
<1> DEFINE arr == [j \in Held |-> Stored(j)[0]]
<1>0. i # 0 /\ i \in Numbers
  BY InodeCacheAssumption DEF Numbers
<1>1. ASSUME Present(i), tab' = tab, out' = Answer("read", i, Struct(tab, i))
      PROVE  ArrayStep
  <2>1. i \in Held
    BY <1>1 DEF Held, Present
  <2>2. arr' = arr
    BY <1>1 DEF Stored
  <2>3. arr[i] = Struct(tab, i)
    BY <2>1, FirstUnit
  <2>4. Array!Read(i)
    BY <1>1, <2>2, <2>3 DEF Array!Read, Answer
  <2> QED BY <2>1, <2>4 DEF ArrayStep, Array!Next
<1>2. CASE ReadCached(i)
  <2>1. Present(i) /\ cache[First(Slots(i))].val = Struct(tab, i)
    BY <1>0, <1>2, CachedIsStored DEF ReadCached
  <2> QED BY <1>1, <1>2, <2>1 DEF ReadCached
<1>3. CASE ReadTable(i, 1)
  BY <1>1, <1>3, ReadTableIs
<1>4. CASE Refuse(i)
  <2>1. arr' = arr
    BY <1>4 DEF Refuse, Stored
  <2>2. Array!Fail(i)
    BY <1>4, <2>1 DEF Array!Fail, Refuse, Answer
  <2> QED BY <1>0, <2>2 DEF ArrayStep, Array!Next
<1> QED BY <1>2, <1>3, <1>4 DEF ext2fs_read_inode

LEMMA WriteIsArrayStep ==
  ASSUME Inv, NEW i \in 1 .. (NInodes + 1), NEW v \in Vals, NEW units, WriteInode(i, units),
         units = <<v>> \/ (InodeSize = 2 /\ \E w \in Vals : units = <<v, w>>)
  PROVE  ArrayStep
<1> DEFINE arr == [j \in Held |-> Stored(j)[0]]
<1>0. i \in Numbers
  BY InodeCacheAssumption DEF Numbers
<1>1. CASE /\ Present(i) /\ tab' = WriteUnits(i, units).tab /\ out' = Answer("write", i, 0)
  <2>1. i \in Inodes /\ i \in Held
    BY <1>1 DEF Present, Held
  <2>2. \A j \in Inodes : Struct(tab', j) = IF j = i THEN v ELSE Struct(tab, j)
    BY <1>1, <2>1, InvCoherent, WriteUnitsIs
  <2>3. \A j : Stored(j)'[0] = Struct(tab', j)
    <3>1. 0 \in 0 .. (InodeSize - 1)
      BY InodeCacheAssumption
    <3> QED BY <3>1 DEF Stored, Struct
  <2>4. arr' = [arr EXCEPT ![i] = v]
    <3>1. Held' = Held
      BY DEF Held, Present
    <3>2. arr' = [j \in Held |-> Struct(tab', j)]
      BY <2>3, <3>1
    <3>3. arr = [j \in Held |-> Struct(tab, j)]
      BY FirstUnit
    <3>4. \A j \in Held : j \in Inodes
      BY DEF Held
    <3> HIDE DEF arr
    <3> QED BY <2>1, <2>2, <3>2, <3>3, <3>4
  <2>5. Array!Write(i, v)
    BY <1>1, <2>4 DEF Array!Write, Answer
  <2> QED BY <2>1, <2>5 DEF ArrayStep, Array!Next
<1>2. CASE out' = Answer("error", i, 0) /\ UNCHANGED tab
  <2>1. arr' = arr
    BY <1>2 DEF Stored
  <2>2. Array!Fail(i)
    BY <1>2, <2>1 DEF Array!Fail, Answer
  <2> QED BY <1>0, <2>2 DEF ArrayStep, Array!Next
<1> QED BY <1>1, <1>2 DEF WriteInode

(* Cache, buffer and blocks cannot be told from an array of inodes: every  *)
(* call is one step of InodeArray, a flush none.                           *)
THEOREM InodeCacheImplementsArray == Spec => ImplementsInodeArray
<1>1. Init => Array!Init
  <2> SUFFICES ASSUME Init PROVE Array!Init
    OBVIOUS
  <2>1. Coherent(buffer, tab)
    BY InitInv, InvCoherent
  <2>2. \A i \in Held : Stored(i)[0] \in Vals
    BY <2>1, FirstUnit, PlaceFacts DEF Held, Coherent, Tables, Struct
  <2> QED BY <2>2 DEF Init, Array!Init, Answer
<1>2. Inv /\ [Next]_vars => [ArrayStep]_vars
  <2> SUFFICES ASSUME Inv, Next PROVE ArrayStep
    OBVIOUS
  <2>1. ASSUME NEW i \in 1 .. (NInodes + 1), ext2fs_read_inode(i) PROVE ArrayStep
    BY <2>1, ReadIsArrayStep
  <2>2. ASSUME NEW i \in 1 .. (NInodes + 1), ReadFails(i) PROVE ArrayStep
    <3>1. Array!Fail(i)
      BY <2>2 DEF ReadFails, Refuse, Array!Fail, Answer, Stored
    <3>2. i \in Numbers
      BY InodeCacheAssumption DEF Numbers
    <3> QED BY <3>1, <3>2 DEF ArrayStep, Array!Next
  <2>3. ASSUME NEW i \in 1 .. (NInodes + 1), NEW v \in Vals,
               ext2fs_write_inode(i, v) \/ ext2fs_write_new_inode(i, v)
        PROVE  ArrayStep
    <3>1. CASE WriteInode(i, <<v>>)
      BY <3>1, WriteIsArrayStep
    <3>2. CASE InodeSize = 2 /\ 0 \in Vals /\ WriteInode(i, <<v, 0>>)
      BY <3>2, WriteIsArrayStep
    <3> QED BY <2>3, <3>1, <3>2, WrittenUnits
  <2>4. ASSUME NEW i \in 1 .. (NInodes + 1), NEW v \in Vals, NEW w \in Vals,
               ext2fs_write_inode_full(i, v, w)
        PROVE  ArrayStep
    <3>1. InodeSize = 2 /\ WriteInode(i, <<v, w>>)
      BY <2>4, WrittenUnits
    <3> QED BY <3>1, WriteIsArrayStep
  <2>5. CASE ext2fs_flush_icache
    BY <2>5 DEF ext2fs_flush_icache, ArrayStep
  <2> QED BY <2>1, <2>2, <2>3, <2>4, <2>5 DEF Next
<1> QED BY <1>1, <1>2, InodeCacheInvariant, PTL DEF Spec, ImplementsInodeArray

----------------------------------------------------------------------------
(***************************************************************************)
(* The scan of InodeScan, which keeps a state of its own.                  *)
(***************************************************************************)
CONSTANTS Volumes, MaxGotos
VARIABLES vol, scan, got, seen, touched, gotos
Scan == INSTANCE InodeScan

(* The unit x, from 0, of the inode table of group g.                      *)
UnitAt(v, g, x) == Scan!Unit(Scan!bg_inode_table(v, g) + x \div v.bsize, x % v.bsize)
IsBad(v, b) == \E p \in 1 .. Len(v.bad) : v.bad[p] = b

(* Blocks of the current table that were read, units of it that were       *)
(* returned, and the block that comes next, whether the table is there or  *)
(* not.                                                                    *)
BlocksRead(v, s) == Scan!TableBlocks(v) - s.blocks_left
UnitsDone(v, s) == (v.ipg - s.inodes_left) * v.isize
NextPlace(v, s) == s.group * Scan!TableBlocks(v) + 1 + BlocksRead(v, s)

ScanFlags == {"CHK_BADBLOCKS", "SKIP_MISSING_ITABLE", "BAD_INODE_BLK", "BAD_EXTRA_BYTES"}
ScanStates ==
  [open : BOOLEAN, group : Nat, block : Nat, ino : Nat, inodes_left : Nat,
   blocks_left : Nat, groups_left : Nat, left : Seq(Int \X Int), bad_ptr : Nat,
   flags : SUBSET ScanFlags]

(* The counters agree, and the buffer holds what was read and not returned. *)
CountsAgree(v, s) ==
  /\ s \in ScanStates /\ s.open
  /\ s.group < v.groups /\ s.groups_left = v.groups - 1 - s.group
  /\ s.inodes_left <= v.ipg /\ s.blocks_left <= Scan!TableBlocks(v)
  /\ s.block = IF s.group \in v.missing THEN 0
               ELSE Scan!bg_inode_table(v, s.group) + BlocksRead(v, s)
  /\ s.ino = s.group * v.ipg + (v.ipg - s.inodes_left)
  /\ Len(s.left) = BlocksRead(v, s) * v.bsize - UnitsDone(v, s)
  /\ Len(s.left) <= v.buffer * v.bsize

(* The entries of the bad block list that were passed lie behind.          *)
PassedBehind(v, s) ==
  /\ s.bad_ptr \in 1 .. (Len(v.bad) + 1)
  /\ \A q \in 1 .. (s.bad_ptr - 1) : v.bad[q] < NextPlace(v, s)
  /\ "CHK_BADBLOCKS" \notin s.flags => \A q \in 1 .. Len(v.bad) : v.bad[q] < NextPlace(v, s)

(* What the buffer holds: the units to return next, or a bad block.        *)
BufferHolds(v, s) ==
  /\ "BAD_INODE_BLK" \notin s.flags =>
       \A k \in 1 .. Len(s.left) : s.left[k] = UnitAt(v, s.group, UnitsDone(v, s) + k - 1)
  /\ "BAD_INODE_BLK" \in s.flags /\ s.left # <<>> =>
       Len(s.left) <= v.bsize /\ IsBad(v, s.block - 1)
  /\ "BAD_EXTRA_BYTES" \notin s.flags
  /\ v.bad = <<>> => "CHK_BADBLOCKS" \notin s.flags /\ "BAD_INODE_BLK" \notin s.flags

Placed(v, s) == CountsAgree(v, s) /\ PassedBehind(v, s) /\ BufferHolds(v, s)

LEMMA ProductNat ==
  ASSUME NEW a \in Nat, NEW b \in Nat
  PROVE  a * b \in Nat
OBVIOUS

LEMMA VolumeFacts ==
  ASSUME Scan!InodeScanAssumption, NEW v \in Volumes
  PROVE  /\ v.groups \in Nat \ {0} /\ v.ipg \in Nat \ {0} /\ v.bsize \in Nat \ {0}
         /\ v.isize \in Nat \ {0} /\ v.isize <= v.bsize /\ v.buffer \in Nat \ {0}
         /\ v.bad \in Seq(Nat) /\ Len(v.bad) \in Nat
         /\ \A p, q \in 1 .. Len(v.bad) : p < q => v.bad[p] < v.bad[q]
         /\ \A p \in 1 .. Len(v.bad) : v.bad[p] \in Nat
         /\ v.bad # <<>> => \E m \in 1 .. v.bsize : v.bsize = m * v.isize
<1>1. v.bad \in Seq(Nat)
  BY DEF Scan!InodeScanAssumption
<1>2. Len(v.bad) \in Nat /\ \A p \in 1 .. Len(v.bad) : v.bad[p] \in Nat
  BY <1>1
<1>3. /\ v.groups \in Nat \ {0} /\ v.ipg \in Nat \ {0} /\ v.bsize \in Nat \ {0}
      /\ v.isize \in 1 .. v.bsize /\ v.buffer \in Nat \ {0}
  BY DEF Scan!InodeScanAssumption
<1>4. v.isize \in Nat \ {0} /\ v.isize <= v.bsize
  BY <1>3
<1>5. /\ \A p, q \in 1 .. Len(v.bad) : p < q => v.bad[p] < v.bad[q]
      /\ v.bad # <<>> => \E m \in 1 .. v.bsize : v.bsize = m * v.isize
  BY DEF Scan!InodeScanAssumption
<1> QED BY <1>1, <1>2, <1>3, <1>4, <1>5

(* A table has room for the inodes of its group.                           *)
LEMMA TableFacts ==
  ASSUME Scan!InodeScanAssumption, NEW v \in Volumes
  PROVE  /\ Scan!TableBlocks(v) \in Nat \ {0}
         /\ v.ipg * v.isize \in Nat
         /\ v.ipg * v.isize <= Scan!TableBlocks(v) * v.bsize
         /\ Scan!TableBlocks(v) * v.bsize \in Nat
<1> DEFINE n == v.ipg * v.isize
           b == v.bsize
           t == Scan!TableBlocks(v)
           a == n + b - 1
           r == a % b
<1>1. v.ipg \in Nat \ {0} /\ v.isize \in Nat \ {0} /\ b \in Nat \ {0}
  BY VolumeFacts
<1>2. n \in Nat \ {0}
  BY <1>1
<1>3. t = a \div b
  BY DEF Scan!TableBlocks
<1> HIDE DEF n, b, t
<1>4. a \in Int /\ a = n + b - 1
  BY <1>1, <1>2
<1> HIDE DEF a
<1>5. a = b * t + r /\ t \in Int /\ r \in 0 .. (b - 1)
  BY <1>1, <1>3, <1>4, Division
<1> HIDE DEF r
<1>6. t * b = b * t /\ t * b \in Int
  BY <1>1, <1>5
<1>7. t * b >= n
  BY <1>1, <1>2, <1>4, <1>5, <1>6
<1>8. t > 0
  <2>1. CASE t <= 0
    <3>1. t * b <= 0 * b
      BY <1>1, <1>5, <2>1, ProductMonotone
    <3>2. 0 * b = 0
      BY <1>1
    <3> QED BY <1>2, <1>6, <1>7, <3>1, <3>2
  <2> QED BY <1>5, <2>1
<1> QED BY <1>2, <1>5, <1>6, <1>7, <1>8 DEF n, b, t

(* Entering a later group.                                                 *)
AtGroup(v, s, g) ==
  Scan!get_next_blockgroup(v, [s EXCEPT !.group = g - 1, !.groups_left = v.groups - g])

LEMMA LaterGroupPlaced ==
  ASSUME Scan!InodeScanAssumption, NEW v \in Volumes, NEW s, Placed(v, s),
         NEW g \in (s.group + 1) .. (v.groups - 1)
  PROVE  /\ Placed(v, AtGroup(v, s, g)) /\ AtGroup(v, s, g).group = g
         /\ AtGroup(v, s, g).ino = g * v.ipg /\ AtGroup(v, s, g).inodes_left = v.ipg
<1> DEFINE T == Scan!TableBlocks(v)
           P == g * T
           Q == s.group * T
           I == g * v.ipg
           B == Scan!bg_inode_table(v, g)
           u == [s EXCEPT !.group = g - 1, !.groups_left = v.groups - g]
           t == AtGroup(v, s, g)
<1>1. s \in ScanStates /\ s.open /\ s.group \in Nat /\ s.blocks_left \in Nat /\ s.blocks_left <= T
  BY DEF Placed, CountsAgree, ScanStates
<1>2. T \in Nat \ {0} /\ v.ipg \in Nat \ {0} /\ v.groups \in Nat \ {0}
  BY VolumeFacts, TableFacts
<1>3. /\ g \in Nat /\ g - 1 \in Nat /\ v.groups - g \in Nat /\ v.groups - g - 1 \in Nat
      /\ s.group + 1 <= g /\ g < v.groups
  BY <1>1, <1>2
<1>4. NextPlace(v, s) = Q + 1 + (T - s.blocks_left)
  BY DEF NextPlace, BlocksRead
<1>5. B = IF g \in v.missing THEN 0 ELSE P + 1
  BY DEF Scan!bg_inode_table
<1>6. t = [u EXCEPT !.group = @ + 1, !.groups_left = @ - 1,
             !.block = Scan!bg_inode_table(v, u.group + 1), !.ino = (u.group + 1) * v.ipg,
             !.left = <<>>, !.inodes_left = v.ipg, !.blocks_left = T]
  BY DEF Scan!get_next_blockgroup, AtGroup
<1> HIDE DEF T, t
<1>7. P \in Nat /\ Q \in Nat /\ I \in Nat /\ Q + T <= P
  <2>1. P \in Nat /\ Q \in Nat /\ I \in Nat
    BY <1>1, <1>2, <1>3, ProductNat
  <2>2. (s.group + 1) * T <= g * T
    <3>1. s.group + 1 \in Int
      BY <1>1
    <3> QED BY <1>2, <1>3, <3>1, ProductMonotone
  <2>3. (s.group + 1) * T = s.group * T + T
    BY <1>1, <1>2
  <2> QED BY <2>1, <2>2, <2>3
<1>8. t = [u EXCEPT !.group = g, !.groups_left = v.groups - g - 1, !.block = B, !.ino = I,
             !.left = <<>>, !.inodes_left = v.ipg, !.blocks_left = T]
  <2>1. u.group + 1 = g /\ u.groups_left - 1 = v.groups - g - 1
    BY <1>1, <1>2, <1>3 DEF ScanStates
  <2> HIDE DEF u
  <2> QED BY <1>6, <2>1
<1> HIDE DEF P, Q, I, B
<1>9. <<>> \in Seq(Int \X Int) /\ Len(<<>>) = 0
  BY EmptySeq
<1>10. B \in Nat
  BY <1>5, <1>7
<1>11. /\ t \in ScanStates /\ t.open /\ t.group = g /\ t.groups_left = v.groups - g - 1
       /\ t.block = B /\ t.ino = I /\ t.left = <<>>
       /\ t.inodes_left = v.ipg /\ t.blocks_left = T /\ t.flags = s.flags /\ t.bad_ptr = s.bad_ptr
  BY <1>1, <1>2, <1>3, <1>7, <1>8, <1>9, <1>10 DEF ScanStates
<1>12. BlocksRead(v, t) = 0 /\ UnitsDone(v, t) = 0 /\ NextPlace(v, t) = P + 1
  <2>1. BlocksRead(v, t) = T - T /\ UnitsDone(v, t) = (v.ipg - v.ipg) * v.isize
    BY <1>11 DEF BlocksRead, UnitsDone, T
  <2>2. T - T = 0 /\ v.ipg - v.ipg = 0 /\ 0 * v.isize = 0
    BY <1>2, VolumeFacts
  <2>3. NextPlace(v, t) = P + 1 + BlocksRead(v, t)
    BY <1>11 DEF NextPlace, T, P
  <2> QED BY <1>7, <2>1, <2>2, <2>3
<1>13. NextPlace(v, s) <= NextPlace(v, t) /\ NextPlace(v, s) \in Int /\ NextPlace(v, t) \in Int
  BY <1>1, <1>2, <1>4, <1>7, <1>12
<1>14. CountsAgree(v, t)
  <2>1. 0 * v.bsize - 0 = 0 /\ v.buffer * v.bsize \in Nat
    BY VolumeFacts
  <2>2. t.ino = t.group * v.ipg + (v.ipg - t.inodes_left)
    BY <1>2, <1>7, <1>11 DEF I
  <2>3. t.block = IF t.group \in v.missing THEN 0
                  ELSE Scan!bg_inode_table(v, t.group) + BlocksRead(v, t)
    BY <1>5, <1>10, <1>11, <1>12 DEF B
  <2>4. Len(t.left) = BlocksRead(v, t) * v.bsize - UnitsDone(v, t) /\ Len(t.left) <= v.buffer * v.bsize
    BY <1>9, <1>11, <1>12, <2>1
  <2>5. t.groups_left = v.groups - 1 - t.group
    BY <1>2, <1>3, <1>11
  <2> QED BY <1>2, <1>3, <1>11, <2>2, <2>3, <2>4, <2>5 DEF CountsAgree, T
<1>15. PassedBehind(v, t)
  <2>1. PassedBehind(v, s) /\ Len(v.bad) \in Nat /\ \A p \in 1 .. Len(v.bad) : v.bad[p] \in Nat
    BY VolumeFacts DEF Placed
  <2>2. s.bad_ptr \in Nat /\ 1 .. (s.bad_ptr - 1) \subseteq 1 .. Len(v.bad)
    BY <2>1 DEF PassedBehind
  <2>3. \A q \in 1 .. Len(v.bad) : v.bad[q] < NextPlace(v, s) => v.bad[q] < NextPlace(v, t)
    BY <1>13, <2>1
  <2> QED BY <1>11, <2>1, <2>2, <2>3 DEF PassedBehind
<1>16. BufferHolds(v, t)
  <2>1. BufferHolds(v, s) /\ Len(t.left) = 0
    BY <1>9, <1>11 DEF Placed
  <2> QED BY <1>11, <2>1 DEF BufferHolds
<1> QED BY <1>11, <1>14, <1>15, <1>16 DEF Placed, I, t
----------------------------------------------------------------------------
(* Which inodes a scan returns, and that groups passed over have none.     *)

Unused(v, g) == g \in v.lazy \/ (g \in v.missing /\ v.skip)
UsedUpTo(v, n) == {i \in 1 .. n : (i - 1) \div v.ipg \notin v.lazy \cup v.missing}

(* The quotient of a number between two multiples.                         *)
LEMMA QuotientBetween ==
  ASSUME NEW b \in Nat \ {0}, NEW a \in Int, NEW g \in Int, NEW h \in Int,
         g * b <= a, a < h * b
  PROVE  a \div b \in g .. (h - 1)
<1> DEFINE d == a \div b
           r == a % b
<1>1. a = b * d + r /\ d \in Int /\ r \in 0 .. (b - 1)
  BY Division
<1> HIDE DEF d, r
<1>2. b * d = d * b /\ d * b \in Int /\ g * b \in Int /\ h * b \in Int
  BY <1>1
<1>3. d < h
  <2>1. CASE h <= d
    <3>1. h * b <= d * b
      BY <1>1, <2>1, ProductMonotone
    <3> QED BY <1>1, <1>2, <3>1
  <2> QED BY <1>1, <2>1
<1>4. g <= d
  <2>1. CASE d + 1 <= g
    <3>1. (d + 1) * b <= g * b
      BY <1>1, <2>1, ProductMonotone
    <3>2. (d + 1) * b = d * b + b
      BY <1>1
    <3> QED BY <1>1, <1>2, <3>1, <3>2
  <2> QED BY <1>1, <2>1
<1> QED BY <1>1, <1>3, <1>4 DEF d

LEMMA GapHasNoneUsed ==
  ASSUME Scan!InodeScanAssumption, NEW v \in Volumes, NEW s, Placed(v, s),
         NEW g \in (s.group + 1) .. v.groups,
         s.inodes_left = 0 \/ Unused(v, s.group),
         \A h \in (s.group + 1) .. (g - 1) : Unused(v, h)
  PROVE  UsedUpTo(v, s.ino) = UsedUpTo(v, g * v.ipg)
<1> DEFINE P == g * v.ipg
           Q == s.group * v.ipg
<1>1. v.ipg \in Nat \ {0} /\ s.group \in Nat /\ v.groups \in Nat /\ s.inodes_left \in 0 .. v.ipg
  BY VolumeFacts DEF Placed, CountsAgree, ScanStates
<1>2. s.ino = Q + (v.ipg - s.inodes_left)
  BY DEF Placed, CountsAgree
<1>3. g \in Nat /\ s.group + 1 <= g /\ s.group + 1 \in Nat
  BY <1>1
<1>4. P \in Nat /\ Q \in Nat
  BY <1>1, <1>3, ProductNat
<1>5. (s.group + 1) * v.ipg = Q + v.ipg
  BY <1>1
<1>6. (s.group + 1) * v.ipg <= P
  BY <1>1, <1>3, ProductMonotone
<1>7. s.ino \in Nat /\ s.ino <= P
  <2> HIDE DEF P, Q
  <2> QED BY <1>1, <1>2, <1>4, <1>5, <1>6
<1>8. ASSUME NEW i \in (s.ino + 1) .. P PROVE (i - 1) \div v.ipg \in v.lazy \cup v.missing
  <2> DEFINE a == i - 1
             d == a \div v.ipg
  <2>1. a \in Int /\ s.ino <= a /\ Q <= a /\ a < P
    <3> HIDE DEF P, Q
    <3> QED BY <1>1, <1>2, <1>4, <1>7
  <2> HIDE DEF a
  <2>2. d \in s.group .. (g - 1)
    BY <1>1, <1>3, <2>1, QuotientBetween
  <2>3. CASE d # s.group
    <3>1. d \in (s.group + 1) .. (g - 1)
      BY <1>1, <1>3, <2>2, <2>3
    <3> QED BY <3>1 DEF Unused, a
  <2>4. CASE d = s.group
    <3>1. CASE s.inodes_left = 0
      <4>1. (s.group + 1) * v.ipg <= a
        <5> HIDE DEF P, Q
        <5> QED BY <1>1, <1>2, <1>4, <1>5, <2>1, <3>1
      <4>2. d \in (s.group + 1) .. (g - 1)
        BY <1>1, <1>3, <2>1, <4>1, QuotientBetween
      <4> QED BY <1>1, <1>3, <2>4, <4>2
    <3> QED BY <2>4, <3>1 DEF Unused, a
  <2> QED BY <2>3, <2>4
<1> HIDE DEF P, Q
<1>9. \A i \in 1 .. P : i \in 1 .. s.ino \/ i \in (s.ino + 1) .. P
  BY <1>4, <1>7
<1>10. \A i \in 1 .. s.ino : i \in 1 .. P
  BY <1>4, <1>7
<1> QED BY <1>8, <1>9, <1>10 DEF UsedUpTo, P

(* ext2fs_get_next_inode before it reads: the group it is in, or goes on   *)
(* to, is in use; it passes none that is.                                  *)
LEMMA EnterGroupFacts ==
  ASSUME Scan!InodeScanAssumption, NEW v \in Volumes, NEW s, Placed(v, s)
  PROVE  LET e == Scan!EnterGroup(v, s)
         IN  /\ e = [s |-> e.s, done |-> e.done] /\ e.done \in BOOLEAN
             /\ Placed(v, e.s)
             /\ ~e.done => e.s.inodes_left > 0 /\ ~Unused(v, e.s.group)
             /\ UsedUpTo(v, e.s.ino) = UsedUpTo(v, s.ino)
             /\ e.done => UsedUpTo(v, s.ino) = UsedUpTo(v, Scan!InodesCount(v))
<1> DEFINE e == Scan!EnterGroup(v, s)
           Right(g) == /\ g = v.groups \/ ~Unused(v, g)
                       /\ \A h \in (s.group + 1) .. (g - 1) : Unused(v, h)
           next == CHOOSE g \in (s.group + 1) .. v.groups : Right(g)
           Ends == IF s.group = v.groups - 1 THEN s
                   ELSE Scan!get_next_blockgroup(v, [s EXCEPT !.group = v.groups - 2, !.groups_left = 1])
           Goes == Scan!get_next_blockgroup(v, [s EXCEPT !.group = next - 1,
                                                         !.groups_left = v.groups - next])
<1>1. /\ s.group \in Nat /\ v.groups \in Nat \ {0} /\ s.group < v.groups
      /\ s.inodes_left \in Nat /\ v.ipg \in Nat \ {0}
  BY VolumeFacts DEF Placed, CountsAgree, ScanStates
<1>2. e = IF s.inodes_left > 0 /\ ~Unused(v, s.group) THEN [s |-> s, done |-> FALSE]
          ELSE IF next = v.groups THEN [s |-> Ends, done |-> TRUE]
               ELSE [s |-> Goes, done |-> FALSE]
  BY DEF Scan!EnterGroup, Unused
<1>3. next \in (s.group + 1) .. v.groups /\ Right(next)
  <2> DEFINE C == {g \in (s.group + 1) .. v.groups : g = v.groups \/ ~Unused(v, g)}
  <2>1. C \in SUBSET Nat /\ v.groups \in C
    BY <1>1
  <2>2. PICK g \in C : \A h \in C : g <= h
    <3> HIDE DEF C
    <3> QED BY <2>1, LeastNat
  <2>3. Right(g)
    <3>1. ASSUME NEW h \in (s.group + 1) .. (g - 1), ~Unused(v, h) PROVE FALSE
      <4>1. h \in C
        BY <1>1, <2>2, <3>1
      <4> QED BY <1>1, <2>2, <4>1
    <3> QED BY <2>2, <3>1
  <2>4. \E x \in (s.group + 1) .. v.groups : Right(x)
    BY <2>2, <2>3
  <2> HIDE DEF Right
  <2> QED BY <2>4
<1> HIDE DEF e, next, Ends, Goes
<1>4. CASE s.inodes_left > 0 /\ ~Unused(v, s.group)
  <2>1. e.s = s /\ e.done = FALSE /\ e = [s |-> e.s, done |-> e.done]
    BY <1>2, <1>4
  <2> QED BY <1>4, <2>1 DEF e
<1>5. CASE ~(s.inodes_left > 0 /\ ~Unused(v, s.group))
  <2>1. s.inodes_left = 0 \/ Unused(v, s.group)
    BY <1>1, <1>5
  <2>2. UsedUpTo(v, s.ino) = UsedUpTo(v, next * v.ipg)
    BY <1>3, <2>1, GapHasNoneUsed
  <2>3. CASE next = v.groups
    <3>1. e.s = Ends /\ e.done = TRUE /\ e = [s |-> e.s, done |-> e.done]
      BY <1>2, <1>5, <2>3
    <3>2. UsedUpTo(v, s.ino) = UsedUpTo(v, Scan!InodesCount(v))
      BY <2>2, <2>3 DEF Scan!InodesCount
    <3>3. CASE s.group = v.groups - 1
      BY <3>1, <3>2, <3>3 DEF e, Ends
    <3>4. CASE s.group # v.groups - 1
      <4> DEFINE g == v.groups - 1
      <4>1. g \in (s.group + 1) .. (v.groups - 1) /\ g - 1 = v.groups - 2 /\ v.groups - g = 1
        BY <1>1, <3>4
      <4>2. Ends = AtGroup(v, s, g)
        <5> HIDE DEF g
        <5> QED BY <3>4, <4>1 DEF Ends, AtGroup
      <4>3. Placed(v, Ends) /\ Ends.ino = g * v.ipg
        <5> HIDE DEF g
        <5> QED BY <4>1, <4>2, LaterGroupPlaced
      <4>4. UsedUpTo(v, s.ino) = UsedUpTo(v, g * v.ipg)
        <5>1. \A h \in (s.group + 1) .. (g - 1) : h \in (s.group + 1) .. (next - 1)
          BY <1>1, <2>3
        <5>2. g \in (s.group + 1) .. v.groups
          BY <1>1, <4>1
        <5> HIDE DEF g
        <5> QED BY <1>3, <2>1, <5>1, <5>2, GapHasNoneUsed
      <4> QED BY <3>1, <3>2, <4>3, <4>4 DEF e
    <3> QED BY <3>3, <3>4
  <2>4. CASE next # v.groups
    <3>1. e.s = Goes /\ e.done = FALSE /\ e = [s |-> e.s, done |-> e.done]
      BY <1>2, <1>5, <2>4
    <3>2. next \in (s.group + 1) .. (v.groups - 1)
      BY <1>1, <1>3, <2>4
    <3>3. Goes = AtGroup(v, s, next)
      BY DEF Goes, AtGroup
    <3>4. Placed(v, Goes) /\ Goes.group = next /\ Goes.ino = next * v.ipg /\ Goes.inodes_left = v.ipg
      BY <3>2, <3>3, LaterGroupPlaced
    <3>5. ~Unused(v, next) /\ v.ipg > 0
      BY <1>1, <1>3, <2>4
    <3> QED BY <2>2, <3>1, <3>4, <3>5 DEF e
  <2> QED BY <2>3, <2>4
<1> QED BY <1>4, <1>5
----------------------------------------------------------------------------
(* Reading the next blocks of a table.                                     *)

LEMMA SkippedFacts ==
  ASSUME Scan!InodeScanAssumption, NEW v \in Volumes, NEW s, s \in ScanStates,
         s.bad_ptr \in 1 .. (Len(v.bad) + 1)
  PROVE  /\ Scan!Skipped(v, s) \in s.bad_ptr .. (Len(v.bad) + 1)
         /\ \A q \in s.bad_ptr .. (Scan!Skipped(v, s) - 1) : s.block > v.bad[q]
         /\ Scan!Skipped(v, s) <= Len(v.bad) => s.block <= v.bad[Scan!Skipped(v, s)]
<1> DEFINE L == Len(v.bad)
           Right(p) == /\ \A q \in s.bad_ptr .. (p - 1) : s.block > v.bad[q]
                       /\ p <= L => s.block <= v.bad[p]
           C == {p \in s.bad_ptr .. (L + 1) : p <= L => s.block <= v.bad[p]}
<1>1. L \in Nat /\ (\A p \in 1 .. L : v.bad[p] \in Nat) /\ s.block \in Nat
      /\ s.bad_ptr \in Nat /\ s.bad_ptr >= 1 /\ s.bad_ptr <= L + 1
  BY VolumeFacts DEF ScanStates
<1> HIDE DEF L
<1>2. C \in SUBSET Nat /\ L + 1 \in C
  BY <1>1
<1>3. PICK p \in C : \A q \in C : p <= q
  <2> HIDE DEF C
  <2> QED BY <1>2, LeastNat
<1>4. p \in s.bad_ptr .. (L + 1) /\ (p <= L => s.block <= v.bad[p])
  BY <1>3
<1>5. ASSUME NEW q \in s.bad_ptr .. (p - 1) PROVE s.block > v.bad[q]
  <2>1. q \in 1 .. L /\ q < p /\ q \in s.bad_ptr .. (L + 1)
    BY <1>1, <1>4
  <2>2. q \notin C
    <3> HIDE DEF C
    <3> QED BY <1>1, <1>3, <1>4, <2>1
  <2> QED BY <1>1, <2>1, <2>2
<1>6. \E x \in s.bad_ptr .. (L + 1) : Right(x)
  BY <1>4, <1>5
<1>7. Scan!Skipped(v, s) = CHOOSE x \in s.bad_ptr .. (L + 1) : Right(x)
  BY DEF Scan!Skipped, L
<1>8. Scan!Skipped(v, s) \in s.bad_ptr .. (L + 1) /\ Right(Scan!Skipped(v, s))
  <2> HIDE DEF Right
  <2> QED BY <1>6, <1>7
<1> QED BY <1>8 DEF L

(* What is read from a block on: n blocks none of which is bad, or one bad *)
(* block in whose place zeros are put; p and f are the place in the list   *)
(* and the flags then.                                                     *)
ReadPlan(v, b, p, f, n) ==
  /\ n \in Nat \ {0} /\ p \in 1 .. (Len(v.bad) + 1) /\ f \in SUBSET ScanFlags
  /\ "BAD_INODE_BLK" \in f =>
       /\ n = 1 /\ IsBad(v, b)
       /\ \A q \in 1 .. (p - 1) : v.bad[q] <= b
       /\ "CHK_BADBLOCKS" \notin f => \A q \in 1 .. Len(v.bad) : v.bad[q] <= b
  /\ "BAD_INODE_BLK" \notin f =>
       /\ \A c \in b .. (b + n - 1) : ~IsBad(v, c)
       /\ \A q \in 1 .. (p - 1) : v.bad[q] < b
       /\ "CHK_BADBLOCKS" \notin f => \A q \in 1 .. Len(v.bad) : v.bad[q] < b
  /\ "BAD_EXTRA_BYTES" \notin f
  /\ v.bad = <<>> => "CHK_BADBLOCKS" \notin f /\ "BAD_INODE_BLK" \notin f

(* A block that no entry from p on can be, and none before p is.           *)
LEMMA NotBadBefore ==
  ASSUME Scan!InodeScanAssumption, NEW v \in Volumes, NEW b \in Nat,
         NEW p \in 1 .. (Len(v.bad) + 1), NEW c \in Nat, b <= c,
         \A q \in 1 .. (p - 1) : v.bad[q] < b,
         p <= Len(v.bad) => c < v.bad[p]
  PROVE  ~IsBad(v, c)
<1> SUFFICES ASSUME NEW q \in 1 .. Len(v.bad), v.bad[q] = c PROVE FALSE
  BY DEF IsBad
<1>1. /\ Len(v.bad) \in Nat /\ \A x \in 1 .. Len(v.bad) : v.bad[x] \in Nat
      /\ \A x, y \in 1 .. Len(v.bad) : x < y => v.bad[x] < v.bad[y]
  BY VolumeFacts
<1>2. q \in Nat /\ p \in Nat
  BY <1>1
<1>3. CASE q < p
  <2>1. q \in 1 .. (p - 1)
    BY <1>2, <1>3
  <2> QED BY <1>1, <2>1
<1>4. CASE q = p
  BY <1>1, <1>2, <1>4
<1>5. CASE p < q
  <2>1. p \in 1 .. Len(v.bad)
    BY <1>1, <1>2, <1>5
  <2>2. v.bad[p] < v.bad[q]
    BY <1>1, <1>5, <2>1
  <2> QED BY <1>1, <1>2, <2>1, <2>2
<1> QED BY <1>2, <1>3, <1>4, <1>5

LEMMA CheckedFacts ==
  ASSUME Scan!InodeScanAssumption, NEW v \in Volumes, NEW s, s \in ScanStates, s.block # 0,
         NEW num \in Nat \ {0},
         s.bad_ptr \in 1 .. (Len(v.bad) + 1),
         \A q \in 1 .. (s.bad_ptr - 1) : v.bad[q] < s.block,
         "CHK_BADBLOCKS" \notin s.flags => \A q \in 1 .. Len(v.bad) : v.bad[q] < s.block,
         "BAD_INODE_BLK" \notin s.flags, "BAD_EXTRA_BYTES" \notin s.flags,
         v.bad = <<>> => "CHK_BADBLOCKS" \notin s.flags
  PROVE  \E n \in 1 .. num, p \in Nat, f \in SUBSET ScanFlags :
           /\ ReadPlan(v, s.block, p, f, n)
           /\ Scan!Checked(v, s, num) = [s |-> [s EXCEPT !.bad_ptr = p, !.flags = f], num |-> n]
<1> DEFINE L == Len(v.bad)
           b == s.block
           p == Scan!Skipped(v, s)
           at == [s EXCEPT !.bad_ptr = p]
           c == Scan!Checked(v, s, num)
<1>1. /\ L \in Nat /\ \A x \in 1 .. L : v.bad[x] \in Nat
      /\ \A x, y \in 1 .. L : x < y => v.bad[x] < v.bad[y]
  BY VolumeFacts
<1>2. b \in Nat \ {0} /\ s.flags \in SUBSET ScanFlags /\ s.bad_ptr \in Nat
  BY DEF ScanStates
<1>3. /\ p \in s.bad_ptr .. (L + 1)
      /\ \A q \in s.bad_ptr .. (p - 1) : b > v.bad[q]
      /\ p <= L => b <= v.bad[p]
  BY SkippedFacts
<1>4. CASE "CHK_BADBLOCKS" \notin s.flags
  <2>1. c = [s |-> s, num |-> num]
    BY <1>4 DEF Scan!Checked
  <2>2. s = [s EXCEPT !.bad_ptr = s.bad_ptr, !.flags = s.flags]
    BY DEF ScanStates
  <2>3. \A x \in b .. (b + num - 1) : ~IsBad(v, x)
    <3> SUFFICES ASSUME NEW x \in b .. (b + num - 1) PROVE ~IsBad(v, x)
      OBVIOUS
    <3>1. x \in Nat /\ b <= x
      BY <1>2
    <3>2. \A q \in 1 .. L : v.bad[q] < b
      BY <1>4
    <3> QED BY <1>1, <1>2, <3>1, <3>2 DEF IsBad
  <2>4. ReadPlan(v, b, s.bad_ptr, s.flags, num)
    BY <1>2, <1>4, <2>3 DEF ReadPlan
  <2>5. num \in 1 .. num
    OBVIOUS
  <2> QED BY <1>2, <2>1, <2>2, <2>4, <2>5
<1>5. CASE "CHK_BADBLOCKS" \in s.flags
  <2>1. c = Scan!check_for_inode_bad_blocks(v, s, num)
    BY <1>5 DEF Scan!Checked
  <2> HIDE DEF p
  <2>2. \A q \in 1 .. (p - 1) : v.bad[q] < b
    <3> SUFFICES ASSUME NEW q \in 1 .. (p - 1) PROVE v.bad[q] < b
      OBVIOUS
    <3>1. q \in 1 .. L /\ (q \in 1 .. (s.bad_ptr - 1) \/ q \in s.bad_ptr .. (p - 1))
      BY <1>1, <1>2, <1>3
    <3>2. q \in s.bad_ptr .. (p - 1) => b > v.bad[q]
      BY <1>3
    <3> QED BY <1>1, <1>2, <3>1, <3>2
  <2>3. p \in Nat /\ p \in 1 .. (L + 1)
    BY <1>1, <1>2, <1>3
  <2>4. v.bad # <<>>
    BY <1>5
  <2>5. CASE p > L
    <3> DEFINE f == s.flags \ {"CHK_BADBLOCKS"}
    <3>1. c = [s |-> [at EXCEPT !.flags = @ \ {"CHK_BADBLOCKS"}], num |-> num]
      BY <1>1, <1>2, <2>1, <2>3, <2>5 DEF Scan!check_for_inode_bad_blocks, p
    <3>2. [at EXCEPT !.flags = @ \ {"CHK_BADBLOCKS"}] = [s EXCEPT !.bad_ptr = p, !.flags = f]
      BY DEF ScanStates
    <3>3. \A q \in 1 .. L : v.bad[q] < b
      BY <1>1, <2>2, <2>3, <2>5
    <3>4. \A x \in b .. (b + num - 1) : ~IsBad(v, x)
      <4> SUFFICES ASSUME NEW x \in b .. (b + num - 1) PROVE ~IsBad(v, x)
        OBVIOUS
      <4>1. x \in Nat /\ b <= x
        BY <1>2
      <4> QED BY <1>1, <1>2, <3>3, <4>1 DEF IsBad
    <3>5. "BAD_INODE_BLK" \notin f /\ "BAD_EXTRA_BYTES" \notin f /\ "CHK_BADBLOCKS" \notin f /\ f \in SUBSET ScanFlags
      BY <1>2
    <3> HIDE DEF f
    <3>6. ReadPlan(v, b, p, f, num)
      BY <2>2, <2>3, <2>4, <3>3, <3>4, <3>5 DEF ReadPlan
    <3>7. num \in 1 .. num
      OBVIOUS
    <3> QED BY <2>3, <3>1, <3>2, <3>5, <3>6, <3>7
  <2>6. CASE p <= L /\ b = v.bad[p]
    <3> DEFINE f == (s.flags \cup {"BAD_INODE_BLK"}) \ (IF p = L THEN {"CHK_BADBLOCKS"} ELSE {})
    <3>1. c = [s |-> [at EXCEPT !.bad_ptr = p + 1,
                         !.flags = (@ \cup {"BAD_INODE_BLK"})
                                   \ (IF p = L THEN {"CHK_BADBLOCKS"} ELSE {})],
               num |-> 1]
      BY <1>1, <1>2, <2>1, <2>3, <2>6 DEF Scan!check_for_inode_bad_blocks, p
    <3>2. c = [s |-> [s EXCEPT !.bad_ptr = p + 1, !.flags = f], num |-> 1]
      BY <3>1 DEF ScanStates
    <3>3. p + 1 \in 1 .. (L + 1) /\ p \in 1 .. L /\ p + 1 - 1 = p /\ p + 1 \in Nat
      BY <1>1, <2>3, <2>6
    <3>4. \A q \in 1 .. p : v.bad[q] <= b
      <4>1. \A q \in 1 .. p : q \in 1 .. (p - 1) \/ q = p
        BY <2>3
      <4>2. \A q \in 1 .. (p - 1) : v.bad[q] \in Nat
        BY <1>1, <3>3
      <4> QED BY <1>2, <2>2, <2>6, <4>1, <4>2
    <3>5. IsBad(v, b)
      BY <2>6, <3>3 DEF IsBad
    <3>6. f \in SUBSET ScanFlags /\ "BAD_INODE_BLK" \in f /\ "BAD_EXTRA_BYTES" \notin f
          /\ ("CHK_BADBLOCKS" \notin f => p = L)
      <4>1. CASE p = L
        <5>1. f = (s.flags \cup {"BAD_INODE_BLK"}) \ {"CHK_BADBLOCKS"}
          BY <4>1
        <5> HIDE DEF f
        <5>2. f \in SUBSET ScanFlags
          BY <1>2, <5>1 DEF ScanFlags
        <5>3. "BAD_INODE_BLK" \in f
          BY <5>1
        <5>4. "BAD_EXTRA_BYTES" \notin f
          BY <5>1
        <5>5. "CHK_BADBLOCKS" \notin f => p = L
          BY <1>2, <4>1, <5>1
        <5> QED BY <5>2, <5>3, <5>4, <5>5
      <4>2. CASE p # L
        <5>1. f = s.flags \cup {"BAD_INODE_BLK"}
          BY <4>2
        <5> HIDE DEF f
        <5>2. f \in SUBSET ScanFlags
          BY <1>2, <5>1 DEF ScanFlags
        <5>3. "BAD_INODE_BLK" \in f
          BY <5>1
        <5>4. "BAD_EXTRA_BYTES" \notin f
          BY <5>1
        <5>5. "CHK_BADBLOCKS" \notin f => p = L
          BY <1>2, <1>5, <5>1
        <5> QED BY <5>2, <5>3, <5>4, <5>5
      <4> QED BY <4>1, <4>2
    <3> HIDE DEF f
    <3>7. ReadPlan(v, b, p + 1, f, 1)
      <4>1. "CHK_BADBLOCKS" \notin f => \A q \in 1 .. L : v.bad[q] <= b
        BY <3>4, <3>6
      <4> QED BY <2>4, <3>3, <3>4, <3>5, <3>6, <4>1 DEF ReadPlan
    <3>8. 1 \in 1 .. num
      OBVIOUS
    <3> HIDE DEF c, b
    <3>9. /\ ReadPlan(v, b, p + 1, f, 1)
          /\ c = [s |-> [s EXCEPT !.bad_ptr = p + 1, !.flags = f], num |-> 1]
      BY <3>2, <3>7
    <3> QED BY <3>3, <3>6, <3>8, <3>9 DEF c, b
  <2>7. CASE p <= L /\ b # v.bad[p]
    <3> DEFINE n == IF b + num > v.bad[p] THEN v.bad[p] - b ELSE num
    <3>1. c = [s |-> at, num |-> n]
      BY <1>1, <1>2, <2>1, <2>3, <2>7 DEF Scan!check_for_inode_bad_blocks, p
    <3>2. at = [s EXCEPT !.bad_ptr = p, !.flags = s.flags]
      BY DEF ScanStates
    <3>3. p \in 1 .. L /\ v.bad[p] \in Nat /\ b < v.bad[p]
      BY <1>1, <1>2, <1>3, <2>3, <2>7
    <3>4. n \in 1 .. num /\ n \in Nat \ {0} /\ b + n <= v.bad[p]
      BY <1>2, <3>3
    <3> HIDE DEF n
    <3>5. \A x \in b .. (b + n - 1) : ~IsBad(v, x)
      <4> SUFFICES ASSUME NEW x \in b .. (b + n - 1) PROVE ~IsBad(v, x)
        OBVIOUS
      <4>1. x \in Nat /\ b <= x /\ x < v.bad[p]
        BY <1>2, <3>3, <3>4, SMTT(60)
      <4>2. b \in Nat
        BY <1>2
      <4> HIDE DEF b
      <4> QED BY <2>2, <2>3, <4>1, <4>2, NotBadBefore
    <3>6. ReadPlan(v, b, p, s.flags, n)
      BY <1>2, <1>5, <2>2, <2>3, <2>4, <3>4, <3>5 DEF ReadPlan
    <3>7. c = [s |-> [s EXCEPT !.bad_ptr = p, !.flags = s.flags], num |-> n]
      BY <3>1, <3>2
    <3> QED BY <1>2, <2>3, <3>4, <3>6, <3>7
  <2>8. p > L \/ (p <= L /\ b = v.bad[p]) \/ (p <= L /\ b # v.bad[p])
    BY <1>1, <2>3
  <2> QED BY <2>5, <2>6, <2>7, <2>8
<1> QED BY <1>4, <1>5
(* When an inode is left to return and the buffer does not hold it, the    *)
(* table has another block; on a volume with bad blocks the buffer is then *)
(* empty.                                                                  *)
LEMMA ReadStart ==
  ASSUME Scan!InodeScanAssumption, NEW v \in Volumes, NEW s, Placed(v, s),
         s.inodes_left > 0, Len(s.left) < v.isize
  PROVE  s.blocks_left > 0 /\ (v.bad # <<>> => s.left = <<>>)
<1> DEFINE T == Scan!TableBlocks(v)
           R == BlocksRead(v, s)
           D == UnitsDone(v, s)
           d == v.ipg - s.inodes_left
           z == v.isize
           X == v.ipg * z
           Y == T * v.bsize
<1>1. /\ T \in Nat \ {0} /\ X \in Nat /\ X <= Y /\ Y \in Nat
      /\ v.ipg \in Nat \ {0} /\ z \in Nat \ {0} /\ v.bsize \in Nat \ {0}
  BY TableFacts, VolumeFacts
<1>2. /\ s.inodes_left \in Nat /\ s.inodes_left <= v.ipg /\ s.blocks_left \in Nat /\ s.blocks_left <= T
      /\ s.left \in Seq(Int \X Int) /\ Len(s.left) = R * v.bsize - D
  BY DEF Placed, CountsAgree, ScanStates
<1>3. R = T - s.blocks_left /\ D = d * z
  BY DEF BlocksRead, UnitsDone
<1>4. Len(s.left) \in Nat
  BY <1>2
<1>5. d \in Nat /\ d + 1 <= v.ipg
  BY <1>1, <1>2
<1> HIDE DEF T, R, D, d, z, X, Y
<1>6. R \in Nat
  BY <1>1, <1>2, <1>3, SMTT(60)
<1>7. D \in Nat /\ R * v.bsize \in Nat
  BY <1>1, <1>3, <1>5, <1>6, ProductNat
<1>8. D + z <= X
  <2>1. (d + 1) * z <= v.ipg * z
    <3>1. d + 1 \in Int /\ v.ipg \in Int /\ z \in Nat /\ d + 1 <= v.ipg
      BY <1>1, <1>5
    <3> QED BY <3>1, ProductMonotone
  <2>2. (d + 1) * z = d * z + z
    BY <1>1, <1>5
  <2> QED BY <1>3, <2>1, <2>2 DEF X
<1>9. s.blocks_left > 0
  <2>1. CASE s.blocks_left = 0
    <3>1. R = T
      BY <1>1, <1>3, <2>1
    <3>2. Len(s.left) = Y - D
      BY <1>2, <3>1 DEF Y
    <3>3. Len(s.left) >= z
      BY <1>1, <1>7, <1>8, <3>2
    <3> QED BY <1>1, <1>4, <3>3 DEF z
  <2> QED BY <1>2, <2>1
<1>10. ASSUME v.bad # <<>> PROVE s.left = <<>>
  <2>1. PICK m \in 1 .. v.bsize : v.bsize = m * z
    BY <1>10, VolumeFacts DEF z
  <2> DEFINE y == R * m - d
  <2>2. m \in Nat /\ R * m \in Nat
    BY <1>1, <1>6, <2>1, ProductNat
  <2>3. y \in Int
    BY <1>5, <2>2
  <2>4. R * v.bsize = (R * m) * z
    BY <1>1, <1>6, <2>1, <2>2
  <2>5. y * z = (R * m) * z - d * z
    BY <1>1, <1>5, <2>2
  <2>6. Len(s.left) = y * z
    BY <1>2, <1>3, <2>4, <2>5
  <2>7. Len(s.left) = 0
    <3> HIDE DEF y
    <3>1. CASE y >= 1
      <4>1. 1 * z <= y * z
        BY <1>1, <2>3, <3>1, ProductMonotone
      <4>2. 1 * z = z
        BY <1>1
      <4> QED BY <1>1, <1>4, <2>6, <4>1, <4>2 DEF z
    <3>2. CASE y <= 0
      <4>1. y * z <= 0 * z
        BY <1>1, <2>3, <3>2, ProductMonotone
      <4>2. 0 * z = 0
        BY <1>1
      <4> QED BY <1>4, <2>6, <4>1, <4>2
    <3> QED BY <2>3, <3>1, <3>2
  <2> QED BY <1>2, <2>7, EmptySeq
<1> QED BY <1>9, <1>10

(* The buffer after a read of n blocks from b on.                          *)
BlocksBuffer(v, b, f, n) ==
  [k \in 1 .. (n * v.bsize) |->
     IF "BAD_INODE_BLK" \in f THEN Scan!Zero
     ELSE Scan!Unit(b + (k - 1) \div v.bsize, (k - 1) % v.bsize)]

ReadGoes(v, s, p, f, n) ==
  [s EXCEPT !.bad_ptr = p, !.flags = f, !.left = BlocksBuffer(v, s.block, f, n),
            !.blocks_left = s.blocks_left - n, !.block = s.block + n]

LEMMA NextBlocksFacts ==
  ASSUME Scan!InodeScanAssumption, NEW v \in Volumes, NEW s, Placed(v, s),
         s.inodes_left > 0, Len(s.left) < v.isize, s.block # 0
  PROVE  \E n \in 1 .. s.blocks_left, p \in Nat, f \in SUBSET ScanFlags :
           /\ ReadPlan(v, s.block, p, f, n) /\ n <= v.buffer
           /\ Scan!get_next_blocks(v, s) =
                [s |-> ReadGoes(v, s, p, f, n),
                 read |-> IF "BAD_INODE_BLK" \in f THEN {} ELSE s.block .. (s.block + n - 1),
                 failed |-> [s EXCEPT !.bad_ptr = p, !.flags = f]]
<1> DEFINE num == Scan!ReadSize(v, s)
           past == s.flags \ {"BAD_INODE_BLK"}
           u == [s EXCEPT !.flags = past]
           c == Scan!Checked(v, u, num)
<1>1. s \in ScanStates /\ s.flags \in SUBSET ScanFlags /\ s.blocks_left \in Nat /\ s.block \in Nat
  BY DEF Placed, CountsAgree, ScanStates
<1>2. s.blocks_left > 0 /\ (v.bad # <<>> => s.left = <<>>)
  BY ReadStart
<1>3. num \in 1 .. s.blocks_left /\ num \in Nat \ {0} /\ num <= v.buffer
  BY <1>1, <1>2, VolumeFacts DEF Scan!ReadSize
<1>4. s.block = NextPlace(v, s)
  <2>1. s.block = Scan!bg_inode_table(v, s.group) + BlocksRead(v, s) /\ s.group \notin v.missing
    BY DEF Placed, CountsAgree
  <2> QED BY <2>1 DEF Scan!bg_inode_table, NextPlace
<1>5. past = IF "BAD_INODE_BLK" \in s.flags
             THEN (s.flags \ {"BAD_INODE_BLK"})
                  \cup (IF s.left # <<>> THEN {"BAD_EXTRA_BYTES"} ELSE {})
             ELSE s.flags
  <2>1. "BAD_INODE_BLK" \in s.flags => s.left = <<>>
    BY <1>2 DEF Placed, BufferHolds
  <2>2. CASE "BAD_INODE_BLK" \in s.flags
    BY <2>1, <2>2
  <2>3. CASE "BAD_INODE_BLK" \notin s.flags
    BY <2>3
  <2> QED BY <2>2, <2>3
<1>6. /\ past \in SUBSET ScanFlags /\ "BAD_INODE_BLK" \notin past /\ "BAD_EXTRA_BYTES" \notin past
      /\ "CHK_BADBLOCKS" \in past <=> "CHK_BADBLOCKS" \in s.flags
  <2>1. "BAD_EXTRA_BYTES" \notin s.flags
    BY DEF Placed, BufferHolds
  <2> QED BY <1>1, <2>1
<1>7. Scan!get_next_blocks(v, s) =
        [s |-> [c.s EXCEPT
                  !.left = [k \in 1 .. (c.num * v.bsize) |->
                              IF "BAD_INODE_BLK" \in c.s.flags THEN Scan!Zero
                              ELSE Scan!Unit(s.block + (k - 1) \div v.bsize, (k - 1) % v.bsize)],
                  !.blocks_left = @ - c.num, !.block = @ + c.num],
         read |-> IF "BAD_INODE_BLK" \in c.s.flags THEN {} ELSE s.block .. (s.block + c.num - 1),
         failed |-> c.s]
  <2> DEFINE W(w) == [s |-> [w.s EXCEPT
                  !.left = [k \in 1 .. (w.num * v.bsize) |->
                              IF "BAD_INODE_BLK" \in w.s.flags THEN Scan!Zero
                              ELSE Scan!Unit(s.block + (k - 1) \div v.bsize, (k - 1) % v.bsize)],
                  !.blocks_left = @ - w.num, !.block = @ + w.num],
             read |-> IF "BAD_INODE_BLK" \in w.s.flags THEN {} ELSE s.block .. (s.block + w.num - 1),
             failed |-> w.s]
             found == IF "BAD_INODE_BLK" \in s.flags
                      THEN (s.flags \ {"BAD_INODE_BLK"})
                           \cup (IF s.left # <<>> THEN {"BAD_EXTRA_BYTES"} ELSE {})
                      ELSE s.flags
  <2>1. Scan!get_next_blocks(v, s) = W(Scan!Checked(v, [s EXCEPT !.flags = found], num))
    BY DEF Scan!get_next_blocks
  <2>2. found = past
    BY <1>5
  <2> HIDE DEF found, past
  <2>3. Scan!get_next_blocks(v, s) = W(c)
    <3> HIDE DEF W
    <3> QED BY <2>1, <2>2
  <2> QED BY <2>3
<1> HIDE DEF past, num
<1>8. u \in ScanStates /\ u.block = s.block /\ u.flags = past /\ u.bad_ptr = s.bad_ptr
  BY <1>1, <1>6 DEF ScanStates
<1> HIDE DEF u
<1>9. /\ u.bad_ptr \in 1 .. (Len(v.bad) + 1)
      /\ \A q \in 1 .. (u.bad_ptr - 1) : v.bad[q] < u.block
      /\ "CHK_BADBLOCKS" \notin u.flags => \A q \in 1 .. Len(v.bad) : v.bad[q] < u.block
      /\ v.bad = <<>> => "CHK_BADBLOCKS" \notin u.flags
  BY <1>4, <1>6, <1>8 DEF Placed, PassedBehind, BufferHolds
<1>10. PICK n \in 1 .. num, p \in Nat, f \in SUBSET ScanFlags :
          /\ ReadPlan(v, u.block, p, f, n)
          /\ c = [s |-> [u EXCEPT !.bad_ptr = p, !.flags = f], num |-> n]
  BY <1>3, <1>6, <1>8, <1>9, CheckedFacts, ZenonT(60)
<1>11. c.num = n /\ c.s = [s EXCEPT !.bad_ptr = p, !.flags = f] /\ c.s.flags = f
  <2>1. c.num = n /\ c.s = [u EXCEPT !.bad_ptr = p, !.flags = f]
    <3> HIDE DEF c
    <3> QED BY <1>10
  <2>2. [u EXCEPT !.bad_ptr = p, !.flags = f] = [s EXCEPT !.bad_ptr = p, !.flags = f]
    BY <1>1 DEF u, ScanStates
  <2>3. [s EXCEPT !.bad_ptr = p, !.flags = f].flags = f
    BY <1>1 DEF ScanStates
  <2> HIDE DEF c
  <2> QED BY <2>1, <2>2, <2>3
<1>12. n \in 1 .. s.blocks_left /\ n <= v.buffer
  BY <1>1, <1>3, <1>10, VolumeFacts
<1> HIDE DEF c
<1>13. [c.s EXCEPT !.left = BlocksBuffer(v, s.block, f, n),
                   !.blocks_left = @ - n, !.block = @ + n] = ReadGoes(v, s, p, f, n)
  BY <1>1, <1>11 DEF ReadGoes, ScanStates
<1>14. Scan!get_next_blocks(v, s) =
         [s |-> ReadGoes(v, s, p, f, n),
          read |-> IF "BAD_INODE_BLK" \in f THEN {} ELSE s.block .. (s.block + n - 1),
          failed |-> [s EXCEPT !.bad_ptr = p, !.flags = f]]
  <2>1. Scan!get_next_blocks(v, s) =
          [s |-> [c.s EXCEPT !.left = BlocksBuffer(v, s.block, c.s.flags, c.num),
                             !.blocks_left = @ - c.num, !.block = @ + c.num],
           read |-> IF "BAD_INODE_BLK" \in c.s.flags THEN {} ELSE s.block .. (s.block + c.num - 1),
           failed |-> c.s]
    BY <1>7 DEF BlocksBuffer
  <2>2. c.num = n /\ c.s.flags = f
    BY <1>11
  <2>3. Scan!get_next_blocks(v, s) =
          [s |-> [c.s EXCEPT !.left = BlocksBuffer(v, s.block, f, n),
                             !.blocks_left = @ - n, !.block = @ + n],
           read |-> IF "BAD_INODE_BLK" \in f THEN {} ELSE s.block .. (s.block + n - 1),
           failed |-> c.s]
    BY <2>1, <2>2
  <2>4. c.s = [s EXCEPT !.bad_ptr = p, !.flags = f]
    BY <1>11
  <2> QED BY <1>13, <2>3, <2>4
<1>15. ReadPlan(v, s.block, p, f, n)
  BY <1>8, <1>10
<1> QED BY <1>12, <1>14, <1>15
----------------------------------------------------------------------------
(* Taking an inode from the buffer.                                        *)

LEMMA ShiftedDivision ==
  ASSUME NEW b \in Nat \ {0}, NEW r \in Int, NEW x \in Int
  PROVE  (r * b + x) \div b = r + x \div b /\ (r * b + x) % b = x % b
<1> DEFINE a == r * b + x
           q == a \div b
           m == a % b
           p == x \div b
           l == x % b
<1>1. a \in Int
  OBVIOUS
<1>2. x = b * p + l /\ p \in Int /\ l \in 0 .. (b - 1)
  BY Division
<1>3. a = b * q + m /\ q \in Int /\ m \in 0 .. (b - 1)
  <2> HIDE DEF a
  <2> QED BY <1>1, Division
<1> HIDE DEF q, m, p, l
<1>4. q * b + m = (r + p) * b + l
  <2>1. (r + p) * b = r * b + p * b /\ p * b = b * p /\ q * b = b * q
    BY <1>2, <1>3
  <2>2. r * b \in Int /\ p * b \in Int /\ q * b \in Int
    BY <1>2, <1>3
  <2> QED BY <1>2, <1>3, <2>1, <2>2
<1>5. r + p \in Int
  BY <1>2
<1>6. q = r + p /\ m = l
  BY <1>2, <1>3, <1>4, <1>5, UniqueDivision
<1> QED BY <1>6 DEF q, m, p, l

LEMMA UnitAtType ==
  ASSUME Scan!InodeScanAssumption, NEW v \in Volumes, NEW g \in Nat, NEW x \in Int
  PROVE  UnitAt(v, g, x) \in Int \X Int
<1>1. Scan!bg_inode_table(v, g) \in Int
  <2>1. g * Scan!TableBlocks(v) \in Nat
    BY TableFacts, ProductNat
  <2> QED BY <2>1 DEF Scan!bg_inode_table
<1>2. x \div v.bsize \in Int /\ x % v.bsize \in Int
  <2>1. v.bsize \in Nat \ {0}
    BY VolumeFacts
  <2> QED BY <2>1, Division
<1> QED BY <1>1, <1>2 DEF UnitAt, Scan!Unit

(* The units of an inode, by its group and its place in the table.         *)
LEMMA UnitsOfPlace ==
  ASSUME Scan!InodeScanAssumption, NEW v \in Volumes, NEW g \in Nat, NEW d \in 0 .. (v.ipg - 1)
  PROVE  Scan!UnitsOf(v, g * v.ipg + d + 1) =
           [k \in 1 .. v.isize |-> UnitAt(v, g, d * v.isize + k - 1)]
<1> DEFINE i == g * v.ipg + d + 1
           a == i - 1
<1>1. v.ipg \in Nat \ {0} /\ v.isize \in Nat \ {0} /\ v.bsize \in Nat \ {0} /\ d \in Nat
  BY VolumeFacts
<1>2. a = g * v.ipg + d /\ g * v.ipg \in Nat
  <2>1. g * v.ipg \in Nat
    BY <1>1, ProductNat
  <2> QED BY <1>1, <2>1
<1>3. a \div v.ipg = g /\ a % v.ipg = d
  <2> DEFINE q == a \div v.ipg
             r == a % v.ipg
  <2>1. a \in Int
    BY <1>1, <1>2
  <2> HIDE DEF a
  <2>2. a = v.ipg * q + r /\ q \in Int /\ r \in 0 .. (v.ipg - 1)
    BY <1>1, <2>1, Division
  <2> HIDE DEF q, r
  <2>3. q * v.ipg = v.ipg * q
    BY <1>1, <2>2
  <2>4. q * v.ipg + r = g * v.ipg + d
    BY <1>2, <2>2, <2>3
  <2>5. q = g /\ r = d
    <3>1. g \in Int /\ q \in Int /\ r \in 0 .. (v.ipg - 1) /\ v.ipg \in Nat \ {0}
      BY <1>1, <2>2
    <3> DEFINE c == v.ipg
    <3>2. /\ c \in Nat \ {0} /\ r \in 0 .. (c - 1) /\ d \in 0 .. (c - 1) /\ q \in Int /\ g \in Int
          /\ q * c + r = g * c + d
      BY <2>4, <3>1
    <3> HIDE DEF c
    <3> QED BY <3>2, UniqueDivision
  <2> QED BY <2>5 DEF q, r
<1>4. Scan!UnitsOf(v, i) =
        [k \in 1 .. v.isize |->
           Scan!Unit(Scan!bg_inode_table(v, a \div v.ipg) + ((a % v.ipg) * v.isize + k - 1) \div v.bsize,
                     ((a % v.ipg) * v.isize + k - 1) % v.bsize)]
  BY DEF Scan!UnitsOf
<1> HIDE DEF a, i
<1>5. Scan!UnitsOf(v, i) =
        [k \in 1 .. v.isize |->
           Scan!Unit(Scan!bg_inode_table(v, g) + (d * v.isize + k - 1) \div v.bsize,
                     (d * v.isize + k - 1) % v.bsize)]
  BY <1>3, <1>4
<1> QED BY <1>5 DEF UnitAt, i

(* The buffer, after the part extra of an inode from the buffer before.    *)
Filled(v, t, extra) ==
  /\ t \in ScanStates /\ t.open
  /\ t.group < v.groups /\ t.groups_left = v.groups - 1 - t.group
  /\ t.inodes_left \in 1 .. v.ipg /\ t.blocks_left <= Scan!TableBlocks(v)
  /\ t.group \notin v.missing
  /\ t.block = Scan!bg_inode_table(v, t.group) + BlocksRead(v, t)
  /\ t.ino = t.group * v.ipg + (v.ipg - t.inodes_left)
  /\ extra \in Seq(Int \X Int) /\ Len(extra) < v.isize /\ v.isize <= Len(extra) + Len(t.left)
  /\ Len(extra) + Len(t.left) = BlocksRead(v, t) * v.bsize - UnitsDone(v, t)
  /\ Len(t.left) <= v.buffer * v.bsize
  /\ PassedBehind(v, t)
  /\ "BAD_INODE_BLK" \notin t.flags =>
       /\ \A k \in 1 .. Len(extra) : extra[k] = UnitAt(v, t.group, UnitsDone(v, t) + k - 1)
       /\ \A k \in 1 .. Len(t.left) :
            t.left[k] = UnitAt(v, t.group, UnitsDone(v, t) + Len(extra) + k - 1)
  /\ "BAD_INODE_BLK" \in t.flags =>
       extra = <<>> /\ Len(t.left) <= v.bsize /\ IsBad(v, t.block - 1)
  /\ "BAD_EXTRA_BYTES" \notin t.flags
  /\ v.bad = <<>> => "CHK_BADBLOCKS" \notin t.flags /\ "BAD_INODE_BLK" \notin t.flags

LEMMA FilledAsItIs ==
  ASSUME Scan!InodeScanAssumption, NEW v \in Volumes, NEW s, Placed(v, s),
         s.inodes_left > 0, s.block # 0, ~(Len(s.left) < v.isize)
  PROVE  Filled(v, s, <<>>)
<1>1. /\ CountsAgree(v, s) /\ PassedBehind(v, s) /\ BufferHolds(v, s)
      /\ s \in ScanStates /\ s.left \in Seq(Int \X Int) /\ Len(s.left) \in Nat /\ s.group \in Nat
      /\ s.inodes_left \in Nat /\ s.blocks_left \in Nat
  BY DEF Placed, CountsAgree, ScanStates
<1>2. /\ v.isize \in Nat \ {0} /\ v.ipg \in Nat \ {0} /\ Len(<<>>) = 0 /\ <<>> \in Seq(Int \X Int)
      /\ Scan!TableBlocks(v) \in Nat \ {0} /\ v.bsize \in Nat \ {0}
  BY VolumeFacts, TableFacts, EmptySeq
<1>3. UnitsDone(v, s) \in Int
  <2>1. v.ipg - s.inodes_left \in Int
    BY <1>1, <1>2
  <2> QED BY <1>2, <2>1 DEF UnitsDone
<1>4. s.inodes_left \in 1 .. v.ipg /\ v.isize <= Len(s.left) /\ s.group \notin v.missing
  BY <1>1, <1>2 DEF CountsAgree
<1>5. s.left # <<>>
  BY <1>2, <1>4
<1>6. \A k \in 1 .. Len(s.left) : UnitsDone(v, s) + 0 + k - 1 = UnitsDone(v, s) + k - 1
  BY <1>1, <1>3
<1>7. Len(<<>>) + Len(s.left) = Len(s.left) /\ 1 .. Len(<<>>) = {} /\ Len(<<>>) < v.isize
  BY <1>1, <1>2
<1>8. "BAD_INODE_BLK" \notin s.flags =>
         \A k \in 1 .. Len(s.left) :
            s.left[k] = UnitAt(v, s.group, UnitsDone(v, s) + Len(<<>>) + k - 1)
  BY <1>1, <1>2, <1>6 DEF BufferHolds
<1>9. "BAD_INODE_BLK" \in s.flags => Len(s.left) <= v.bsize /\ IsBad(v, s.block - 1)
  BY <1>1, <1>5 DEF BufferHolds
<1> QED BY <1>1, <1>2, <1>4, <1>7, <1>8, <1>9 DEF Filled, CountsAgree, BufferHolds
LEMMA FilledByRead ==
  ASSUME Scan!InodeScanAssumption, NEW v \in Volumes, NEW s, Placed(v, s),
         s.inodes_left > 0, s.block # 0, Len(s.left) < v.isize,
         NEW n \in 1 .. s.blocks_left, n <= v.buffer, NEW p, NEW f,
         ReadPlan(v, s.block, p, f, n)
  PROVE  Filled(v, ReadGoes(v, s, p, f, n), s.left)
<1> DEFINE t == ReadGoes(v, s, p, f, n)
           T == Scan!TableBlocks(v)
           R == BlocksRead(v, s)
           D == UnitsDone(v, s)
           b == v.bsize
           M == BlocksBuffer(v, s.block, f, n)
           N == n * b
           B == Scan!bg_inode_table(v, s.group)
           E == Len(s.left)
           S == R * b
<1>1. /\ CountsAgree(v, s) /\ PassedBehind(v, s) /\ BufferHolds(v, s)
      /\ s \in ScanStates /\ s.left \in Seq(Int \X Int) /\ E \in Nat /\ s.group \in Nat
      /\ s.inodes_left \in Nat /\ s.blocks_left \in Nat /\ s.block \in Nat
  BY DEF Placed, CountsAgree, ScanStates
<1>2. /\ v.isize \in Nat \ {0} /\ v.ipg \in Nat \ {0} /\ T \in Nat \ {0} /\ b \in Nat \ {0}
      /\ v.buffer \in Nat \ {0} /\ v.isize <= b
      /\ Len(v.bad) \in Nat /\ \A x \in 1 .. Len(v.bad) : v.bad[x] \in Nat
  BY VolumeFacts, TableFacts
<1>3. n \in Nat \ {0} /\ n <= s.blocks_left
  BY <1>1
<1>4. p \in 1 .. (Len(v.bad) + 1) /\ p \in Nat /\ f \in SUBSET ScanFlags
  BY <1>2 DEF ReadPlan
<1>5. s.blocks_left <= T /\ R = T - s.blocks_left /\ s.group \notin v.missing
      /\ s.block = B + R /\ E = S - D /\ s.inodes_left <= v.ipg
  BY <1>1 DEF CountsAgree, BlocksRead
<1>6. R \in Nat
  BY <1>1, <1>2, <1>5, SMTT(60)
<1>7. B \in Nat /\ B = s.group * T + 1
  <2>1. B = s.group * T + 1
    BY <1>5 DEF Scan!bg_inode_table
  <2>2. s.group * T \in Nat
    BY <1>1, <1>2, ProductNat
  <2> QED BY <2>1, <2>2
<1>8. D \in Int
  <2>1. v.ipg - s.inodes_left \in Int
    BY <1>1, <1>2
  <2> QED BY <1>2, <2>1 DEF UnitsDone
<1>9. N \in Nat /\ S \in Nat /\ b <= N /\ N <= v.buffer * b
  <2>1. N \in Nat /\ S \in Nat
    BY <1>2, <1>3, <1>6, ProductNat
  <2>2. 1 * b <= n * b /\ n * b <= v.buffer * b
    <3>1. 1 \in Int /\ n \in Int /\ v.buffer \in Int /\ b \in Nat /\ 1 <= n
      BY <1>2, <1>3
    <3> QED BY <3>1, ProductMonotone
  <2>3. 1 * b = b
    BY <1>2
  <2> QED BY <2>1, <2>2, <2>3
<1>10. ASSUME NEW k \in 1 .. N
       PROVE  /\ M[k] \in Int \X Int
              /\ "BAD_INODE_BLK" \notin f => M[k] = UnitAt(v, s.group, D + E + k - 1)
  <2>0. M[k] = IF "BAD_INODE_BLK" \in f THEN Scan!Zero
               ELSE Scan!Unit(s.block + (k - 1) \div b, (k - 1) % b)
    BY DEF BlocksBuffer
  <2> DEFINE w == k - 1
             x == w \div b
             y == w % b
             z == D + E + k - 1
  <2>1. w \in Int
    BY <1>9
  <2>2. z = R * b + w
    <3> HIDE DEF E, D, N
    <3>1. D + E + k - 1 = S + (k - 1)
      <4> HIDE DEF S
      <4> QED BY <1>1, <1>5, <1>8, <1>9
    <3> QED BY <3>1
  <2> HIDE DEF w, b
  <2>3. (R * b + w) \div b = R + w \div b /\ (R * b + w) % b = w % b
    <3>1. R \in Int
      BY <1>6
    <3> HIDE DEF R
    <3> QED BY <1>2, <2>1, <3>1, ShiftedDivision
  <2>4. w \div b \in Int /\ w % b \in Int
    BY <1>2, <2>1, Division
  <2>5. z \div b = R + x /\ z % b = y /\ x \in Int /\ y \in Int
    <3> HIDE DEF z
    <3> QED BY <2>2, <2>3, <2>4
  <2>6. B + (R + x) = s.block + x /\ s.block + x \in Int
    <3> HIDE DEF x, B, R
    <3> QED BY <1>5, <1>6, <1>7, <2>5
  <2>7. UnitAt(v, s.group, z) = Scan!Unit(B + z \div b, z % b)
    BY DEF UnitAt, b
  <2>8. Scan!Unit(s.block + x, y) = Scan!Unit(B + z \div b, z % b)
    <3> HIDE DEF x, y, z, B, R, b
    <3> QED BY <2>5, <2>6
  <2>9. Scan!Zero \in Int \X Int /\ Scan!Unit(s.block + x, y) \in Int \X Int
    <3> HIDE DEF x, y
    <3> QED BY <2>5, <2>6 DEF Scan!Zero, Scan!Unit
  <2>10. M[k] = IF "BAD_INODE_BLK" \in f THEN Scan!Zero ELSE Scan!Unit(s.block + x, y)
    BY <2>0 DEF w, b
  <2> HIDE DEF M, x, y
  <2> QED BY <2>7, <2>8, <2>9, <2>10
<1>11. M \in Seq(Int \X Int) /\ Len(M) = N
  <2>1. M = [k \in 1 .. N |-> M[k]]
    BY DEF BlocksBuffer
  <2> HIDE DEF M, N
  <2>2. M \in [1 .. N -> Int \X Int]
    BY <1>10, <2>1
  <2> QED BY <1>9, <2>2
<1> HIDE DEF N, S, M, b, E
<1>12. /\ t \in ScanStates /\ t.open /\ t.group = s.group /\ t.groups_left = s.groups_left
       /\ t.inodes_left = s.inodes_left /\ t.ino = s.ino /\ t.blocks_left = s.blocks_left - n
       /\ t.block = s.block + n /\ t.left = M /\ t.bad_ptr = p /\ t.flags = f
  <2>1. s.blocks_left - n \in Nat /\ s.block + n \in Nat
    BY <1>1, <1>3
  <2>2. s.open
    BY <1>1 DEF CountsAgree
  <2>3. t = [s EXCEPT !.bad_ptr = p, !.flags = f, !.left = M,
                      !.blocks_left = s.blocks_left - n, !.block = s.block + n]
    BY DEF ReadGoes, M
  <2> HIDE DEF t
  <2> QED BY <1>1, <1>4, <1>11, <2>1, <2>2, <2>3 DEF ScanStates
<1> HIDE DEF t
<1>13. BlocksRead(v, t) = R + n /\ UnitsDone(v, t) = D /\ NextPlace(v, t) = s.block + n
  <2>1. BlocksRead(v, t) = T - (s.blocks_left - n)
    BY <1>12 DEF BlocksRead
  <2>2. BlocksRead(v, t) = R + n
    <3> HIDE DEF T
    <3> QED BY <1>1, <1>2, <1>3, <1>5, <2>1
  <2>3. UnitsDone(v, t) = D
    BY <1>12 DEF UnitsDone
  <2>4. NextPlace(v, t) = s.group * T + 1 + BlocksRead(v, t)
    BY <1>12 DEF NextPlace
  <2>5. NextPlace(v, t) = B + (R + n)
    <3> HIDE DEF T
    <3> QED BY <1>7, <2>2, <2>4
  <2>6. B + (R + n) = s.block + n
    <3> HIDE DEF B, R
    <3> QED BY <1>3, <1>5, <1>6, <1>7
  <2> QED BY <2>2, <2>3, <2>5, <2>6
<1>14. PassedBehind(v, t)
  <2>1. ASSUME NEW q \in 1 .. Len(v.bad), v.bad[q] <= s.block \/ v.bad[q] < s.block
        PROVE  v.bad[q] < NextPlace(v, t)
    <3>1. v.bad[q] \in Nat /\ NextPlace(v, t) = s.block + n
      BY <1>2, <1>13
    <3> QED BY <1>1, <1>3, <2>1, <3>1
  <2>2. 1 .. (p - 1) \subseteq 1 .. Len(v.bad)
    BY <1>2, <1>4
  <2> QED BY <1>4, <1>12, <2>1, <2>2 DEF PassedBehind, ReadPlan
<1>15. s.block + n - 1 = s.block \/ n # 1
  BY <1>1
<1>16. (R + n) * b - D = E + N /\ v.isize <= E + N /\ N <= v.buffer * b
  <2>1. (R + n) * b = S + N
    BY <1>2, <1>3, <1>6 DEF S, N
  <2>2. E + N = S + N - D
    <3> HIDE DEF D
    <3> QED BY <1>1, <1>5, <1>8, <1>9
  <2>3. v.isize <= E + N
    BY <1>1, <1>2, <1>9
  <2>4. (R + n) * b - D = S + N - D
    <3> DEFINE z == (R + n) * b
    <3>1. z = S + N
      BY <2>1
    <3> HIDE DEF z, D
    <3>2. z - D = S + N - D
      BY <1>8, <1>9, <3>1
    <3> QED BY <3>2 DEF z
  <2> QED BY <1>9, <2>2, <2>3, <2>4
<1>17. "BAD_INODE_BLK" \notin f =>
         /\ \A k \in 1 .. E : s.left[k] = UnitAt(v, s.group, D + k - 1)
         /\ \A k \in 1 .. Len(M) : M[k] = UnitAt(v, s.group, D + E + k - 1)
  <2>1. v.bad # <<>> => E = 0
    BY ReadStart, EmptySeq DEF E
  <2>2. \A k \in 1 .. E : s.left[k] = UnitAt(v, s.group, D + k - 1)
    <3>1. CASE v.bad = <<>>
      BY <1>1, <3>1 DEF BufferHolds, E
    <3>2. CASE v.bad # <<>>
      BY <2>1, <3>2
    <3> QED BY <3>1, <3>2
  <2> QED BY <1>10, <1>11, <2>2
<1>18. "BAD_INODE_BLK" \in f => s.left = <<>> /\ Len(M) <= b /\ IsBad(v, s.block)
  <2> SUFFICES ASSUME "BAD_INODE_BLK" \in f PROVE s.left = <<>> /\ Len(M) <= b /\ IsBad(v, s.block)
    OBVIOUS
  <2>1. n = 1 /\ IsBad(v, s.block) /\ v.bad # <<>>
    BY DEF ReadPlan
  <2>2. s.left = <<>>
    BY <2>1, ReadStart
  <2>3. N = b
    BY <1>2, <2>1 DEF N
  <2> QED BY <1>2, <1>11, <2>1, <2>2, <2>3
<1>19. t.inodes_left \in 1 .. v.ipg
  BY <1>1, <1>2, <1>5, <1>12
<1>20. t.blocks_left <= T
  BY <1>1, <1>2, <1>3, <1>5, <1>12
<1>21. t.block = Scan!bg_inode_table(v, t.group) + BlocksRead(v, t)
  <2>1. B + (R + n) = s.block + n
    <3> HIDE DEF B, R
    <3> QED BY <1>3, <1>5, <1>6, <1>7
  <2> QED BY <1>12, <1>13, <2>1
<1>22. t.group < v.groups /\ t.groups_left = v.groups - 1 - t.group
       /\ t.ino = t.group * v.ipg + (v.ipg - t.inodes_left) /\ t.group \notin v.missing
  BY <1>1, <1>5, <1>12 DEF CountsAgree
<1>23. "BAD_INODE_BLK" \in f => IsBad(v, t.block - 1)
  <2> SUFFICES ASSUME "BAD_INODE_BLK" \in f PROVE IsBad(v, t.block - 1)
    OBVIOUS
  <2>1. n = 1
    BY DEF ReadPlan
  <2>2. t.block - 1 = s.block
    BY <1>1, <1>12, <2>1
  <2> QED BY <1>18, <2>2
<1>24. /\ "BAD_EXTRA_BYTES" \notin f
       /\ v.bad = <<>> => "CHK_BADBLOCKS" \notin f /\ "BAD_INODE_BLK" \notin f
  BY DEF ReadPlan
<1>25. /\ Len(s.left) < v.isize /\ v.isize <= Len(s.left) + Len(t.left)
       /\ Len(s.left) + Len(t.left) = BlocksRead(v, t) * v.bsize - UnitsDone(v, t)
       /\ Len(t.left) <= v.buffer * v.bsize
  BY <1>11, <1>12, <1>13, <1>16 DEF E, b
<1>26. /\ "BAD_INODE_BLK" \notin t.flags =>
            /\ \A k \in 1 .. Len(s.left) : s.left[k] = UnitAt(v, t.group, UnitsDone(v, t) + k - 1)
            /\ \A k \in 1 .. Len(t.left) :
                 t.left[k] = UnitAt(v, t.group, UnitsDone(v, t) + Len(s.left) + k - 1)
       /\ "BAD_INODE_BLK" \in t.flags =>
            s.left = <<>> /\ Len(t.left) <= v.bsize /\ IsBad(v, t.block - 1)
  BY <1>12, <1>13, <1>17, <1>18, <1>23 DEF E, b
<1> QED BY <1>1, <1>12, <1>14, <1>19, <1>20, <1>21, <1>22, <1>24, <1>25, <1>26 DEF Filled, t, T
Wanted(v, extra) == v.isize - Len(extra)
Taken(v, t, extra) ==
  [t EXCEPT !.left = SubSeq(t.left, Wanted(v, extra) + 1, Len(t.left)),
            !.inodes_left = t.inodes_left - 1, !.ino = t.ino + 1]

(* The inode taken is the one stored, or lies in a bad block; what is left *)
(* is the next one's.                                                      *)
LEMMA TakeInode ==
  ASSUME Scan!InodeScanAssumption, NEW v \in Volumes, NEW t, NEW extra, Filled(v, t, extra)
  PROVE  /\ Placed(v, Taken(v, t, extra))
         /\ "BAD_INODE_BLK" \notin t.flags =>
              extra \o SubSeq(t.left, 1, Wanted(v, extra)) = Scan!UnitsOf(v, t.ino + 1)
         /\ "BAD_INODE_BLK" \in t.flags =>
              \E k \in 1 .. v.isize : IsBad(v, Scan!UnitsOf(v, t.ino + 1)[k][1])
         /\ t.ino \in Nat /\ (t.ino \div v.ipg) = t.group
<1> DEFINE u == Taken(v, t, extra)
           W == Wanted(v, extra)
           M == t.left
           L == SubSeq(M, W + 1, Len(M))
           E == Len(extra)
           z == v.isize
           d == v.ipg - t.inodes_left
           D == UnitsDone(v, t)
           b == v.bsize
           S == BlocksRead(v, t) * b
           g == t.group
<1>1. /\ t \in ScanStates /\ t.open /\ g \in Nat /\ t.inodes_left \in Nat /\ t.blocks_left \in Nat
      /\ M \in Seq(Int \X Int) /\ t.flags \in SUBSET ScanFlags /\ t.ino \in Nat /\ t.block \in Nat
      /\ extra \in Seq(Int \X Int)
  BY DEF Filled, ScanStates
<1>2. /\ z \in Nat \ {0} /\ v.ipg \in Nat \ {0} /\ b \in Nat \ {0} /\ v.buffer \in Nat \ {0}
      /\ Scan!TableBlocks(v) \in Nat \ {0}
  BY VolumeFacts, TableFacts
<1>3. E \in Nat /\ Len(M) \in Nat /\ (\A k \in 1 .. Len(M) : M[k] \in Int \X Int)
  BY <1>1
<1>4. /\ E < z /\ z <= E + Len(M) /\ E + Len(M) = S - D /\ Len(M) <= v.buffer * b
      /\ t.inodes_left \in 1 .. v.ipg /\ t.blocks_left <= Scan!TableBlocks(v)
      /\ t.ino = g * v.ipg + d
  BY DEF Filled
<1>5. d \in 0 .. (v.ipg - 1) /\ d \in Nat
  BY <1>2, <1>4
<1>6. W = z - E /\ W \in 1 .. Len(M) /\ W \in Nat
  <2>1. W = z - E
    BY DEF Wanted
  <2> HIDE DEF W, E, z, M
  <2> QED BY <1>2, <1>3, <1>4, <2>1
<1>7. D = d * z
  BY DEF UnitsDone
<1>8. D \in Nat
  BY <1>2, <1>5, <1>7, ProductNat
<1>9. S \in Int
  <2>1. BlocksRead(v, t) \in Int
    BY <1>1, <1>2 DEF BlocksRead
  <2> QED BY <1>2, <2>1
<1>10. v.buffer * b \in Nat
  BY <1>2, ProductNat
<1>11. /\ L \in Seq(Int \X Int) /\ Len(L) = Len(M) - W /\ Len(L) \in Nat
       /\ \A k \in 1 .. Len(L) : k + W \in 1 .. Len(M) /\ L[k] = M[W + 1 + k - 1]
  <2> HIDE DEF M, W
  <2>1. \A i \in (W + 1) .. Len(M) : M[i] \in Int \X Int
    BY <1>3, <1>6
  <2>2. W + 1 \in Int /\ Len(M) \in Int
    BY <1>3, <1>6
  <2>3. /\ L \in Seq(Int \X Int)
        /\ Len(L) = IF W + 1 <= Len(M) THEN Len(M) - (W + 1) + 1 ELSE 0
        /\ \A i \in 1 .. Len(M) - (W + 1) + 1 : L[i] = M[W + 1 + i - 1]
    BY <2>1, <2>2, SubSeqProperties
  <2> HIDE DEF L
  <2>4. Len(L) = Len(M) - W /\ Len(L) = Len(M) - (W + 1) + 1 /\ Len(L) \in Nat
    BY <1>3, <1>6, <2>3, SMTT(60)
  <2>5. \A k \in 1 .. Len(L) : k + W \in 1 .. Len(M)
    BY <1>3, <1>6, <2>4, SMTT(60)
  <2> QED BY <2>3, <2>4, <2>5
<1>12. /\ SubSeq(M, 1, W) \in Seq(Int \X Int) /\ Len(SubSeq(M, 1, W)) = W
       /\ \A k \in 1 .. W : SubSeq(M, 1, W)[k] = M[k]
  <2> HIDE DEF M, W
  <2>1. \A i \in 1 .. W : M[i] \in Int \X Int
    BY <1>3, <1>6
  <2>2. 1 \in Int /\ W \in Int
    BY <1>6
  <2>3. /\ SubSeq(M, 1, W) \in Seq(Int \X Int)
        /\ Len(SubSeq(M, 1, W)) = IF 1 <= W THEN W - 1 + 1 ELSE 0
        /\ \A i \in 1 .. W - 1 + 1 : SubSeq(M, 1, W)[i] = M[1 + i - 1]
    BY <2>1, <2>2, SubSeqProperties
  <2>4. \A i \in 1 .. W : i \in 1 .. W - 1 + 1 /\ 1 + i - 1 = i
    BY <1>6
  <2>5. (IF 1 <= W THEN W - 1 + 1 ELSE 0) = W
    BY <1>6
  <2> QED BY <2>3, <2>4, <2>5
<1> HIDE DEF L, S, M
<1>13. /\ u \in ScanStates /\ u.open /\ u.group = g /\ u.groups_left = t.groups_left
       /\ u.inodes_left = t.inodes_left - 1 /\ u.ino = t.ino + 1 /\ u.blocks_left = t.blocks_left
       /\ u.block = t.block /\ u.left = L /\ u.bad_ptr = t.bad_ptr /\ u.flags = t.flags
  <2>1. u = [t EXCEPT !.left = L, !.inodes_left = t.inodes_left - 1, !.ino = t.ino + 1]
    BY DEF Taken, L, M
  <2>2. t.inodes_left - 1 \in Nat /\ t.ino + 1 \in Nat
    BY <1>1, <1>4
  <2> HIDE DEF u
  <2> QED BY <1>1, <1>11, <2>1, <2>2 DEF ScanStates
<1> HIDE DEF u
<1>14. BlocksRead(v, u) = BlocksRead(v, t) /\ NextPlace(v, u) = NextPlace(v, t)
  BY <1>13 DEF BlocksRead, NextPlace
<1>15. UnitsDone(v, u) = D + z
  <2>1. UnitsDone(v, u) = (v.ipg - (t.inodes_left - 1)) * z
    BY <1>13 DEF UnitsDone
  <2>2. v.ipg - (t.inodes_left - 1) = d + 1
    BY <1>1, <1>2
  <2>3. (d + 1) * z = d * z + z
    <3> HIDE DEF d, z
    <3> QED BY <1>2, <1>5
  <2> QED BY <1>7, <2>1, <2>2, <2>3
<1> HIDE DEF D, d, z, b, E, W
<1>16. CountsAgree(v, u)
  <2>1. Len(u.left) = BlocksRead(v, u) * v.bsize - UnitsDone(v, u)
    <3>1. Len(L) = S - (D + z)
      BY <1>2, <1>3, <1>4, <1>6, <1>8, <1>9, <1>11
    <3> QED BY <1>13, <1>14, <1>15, <3>1 DEF S, b
  <2>2. Len(u.left) <= v.buffer * v.bsize
    <3>1. Len(L) <= v.buffer * b
      BY <1>3, <1>4, <1>6, <1>10, <1>11
    <3> QED BY <1>13, <3>1 DEF b
  <2>3. u.ino = u.group * v.ipg + (v.ipg - u.inodes_left)
    <3> DEFINE P == g * v.ipg
    <3>1. P \in Nat /\ t.ino = P + d
      BY <1>1, <1>2, <1>4, ProductNat
    <3> HIDE DEF P
    <3>2. u.ino = P + d + 1 /\ u.inodes_left = t.inodes_left - 1 /\ d = v.ipg - t.inodes_left
      BY <1>13, <3>1 DEF d
    <3>3. u.ino = P + (v.ipg - u.inodes_left)
      <4> DEFINE i == t.inodes_left
                 n == v.ipg
      <4>1. P \in Int /\ i \in Int /\ n \in Int
        BY <1>1, <1>2, <3>1
      <4>2. u.ino = P + d + 1 /\ u.inodes_left = i - 1 /\ d = n - i
        BY <3>2
      <4> HIDE DEF i, n
      <4>3. P + (n - i) + 1 = P + (n - (i - 1))
        BY <4>1
      <4>4. u.ino = P + (n - u.inodes_left)
        BY <4>2, <4>3
      <4> QED BY <4>4 DEF n
    <3> QED BY <1>13, <3>3 DEF P
  <2>4. u.inodes_left <= v.ipg
    BY <1>1, <1>2, <1>4, <1>13
  <2>5. u.block = IF u.group \in v.missing THEN 0
                  ELSE Scan!bg_inode_table(v, u.group) + BlocksRead(v, u)
    BY <1>13, <1>14 DEF Filled
  <2>6. u.group < v.groups /\ u.groups_left = v.groups - 1 - u.group /\ u.blocks_left <= Scan!TableBlocks(v)
    BY <1>13 DEF Filled
  <2> QED BY <1>13, <2>1, <2>2, <2>3, <2>4, <2>5, <2>6 DEF CountsAgree
<1>17. PassedBehind(v, u)
  BY <1>13, <1>14 DEF PassedBehind, Filled
<1>18. BufferHolds(v, u)
  <2>1. ASSUME "BAD_INODE_BLK" \notin t.flags, NEW k \in 1 .. Len(L)
        PROVE  L[k] = UnitAt(v, g, D + z + k - 1)
    <3>1. L[k] = M[W + 1 + k - 1] /\ k + W \in 1 .. Len(M) /\ k \in Int
      BY <1>11
    <3>2. W + 1 + k - 1 = k + W /\ D + E + (k + W) - 1 = D + z + k - 1
      BY <1>2, <1>3, <1>6, <1>8, <3>1
    <3>3. M[k + W] = UnitAt(v, g, D + E + (k + W) - 1)
      BY <2>1, <3>1 DEF Filled, D, E, M
    <3> QED BY <3>1, <3>2, <3>3
  <2>2. ASSUME "BAD_INODE_BLK" \in t.flags PROVE Len(L) <= v.bsize /\ IsBad(v, u.block - 1)
    <3>1. Len(M) <= b /\ IsBad(v, t.block - 1)
      BY <2>2 DEF Filled, M, b
    <3>2. Len(L) <= b
      BY <1>2, <1>3, <1>6, <1>11, <3>1
    <3> QED BY <1>13, <3>1, <3>2 DEF b
  <2>3. /\ "BAD_EXTRA_BYTES" \notin t.flags
        /\ v.bad = <<>> => "CHK_BADBLOCKS" \notin t.flags /\ "BAD_INODE_BLK" \notin t.flags
    BY DEF Filled
  <2> QED BY <1>13, <1>15, <2>1, <2>2, <2>3 DEF BufferHolds
<1>19. t.ino + 1 = g * v.ipg + d + 1
  BY <1>4
<1>20. Scan!UnitsOf(v, t.ino + 1) = [k \in 1 .. z |-> UnitAt(v, g, D + k - 1)]
  <2>1. Scan!UnitsOf(v, g * v.ipg + d + 1) = [k \in 1 .. v.isize |-> UnitAt(v, g, d * v.isize + k - 1)]
    BY <1>1, <1>5, UnitsOfPlace
  <2>2. d * v.isize = D
    BY <1>7 DEF z
  <2> QED BY <1>19, <2>1, <2>2 DEF z
<1>21. ASSUME "BAD_INODE_BLK" \notin t.flags
       PROVE  extra \o SubSeq(M, 1, W) = Scan!UnitsOf(v, t.ino + 1)
  <2> DEFINE X == extra \o SubSeq(M, 1, W)
  <2>1. /\ X \in Seq(Int \X Int) /\ Len(X) = E + W
        /\ \A i \in 1 .. E + W : X[i] = IF i <= E THEN extra[i] ELSE SubSeq(M, 1, W)[i - E]
    <3> DEFINE Z == SubSeq(M, 1, W)
    <3>1. Z \in Seq(Int \X Int) /\ Len(Z) = W
      BY <1>12
    <3> HIDE DEF Z
    <3>2. /\ extra \o Z \in Seq(Int \X Int) /\ Len(extra \o Z) = Len(extra) + Len(Z)
          /\ \A i \in 1 .. Len(extra) + Len(Z) :
               (extra \o Z)[i] = IF i <= Len(extra) THEN extra[i] ELSE Z[i - Len(extra)]
      BY <1>1, <3>1, ConcatProperties
    <3> QED BY <3>1, <3>2 DEF E, Z
  <2>2. E + W = z
    BY <1>2, <1>3, <1>6
  <2> HIDE DEF X
  <2>3. ASSUME NEW k \in 1 .. z PROVE X[k] = UnitAt(v, g, D + k - 1)
    <3>1. k \in 1 .. E + W /\ k \in Int
      BY <1>2, <2>2
    <3>2. CASE k <= E
      <4>1. k \in 1 .. E
        BY <1>2, <1>3, <3>2
      <4>2. extra[k] = UnitAt(v, g, D + k - 1)
        BY <1>21, <4>1 DEF Filled, E, D
      <4> QED BY <2>1, <3>1, <3>2, <4>2
    <3>3. CASE ~(k <= E)
      <4>1. k - E \in 1 .. W /\ k - E \in 1 .. Len(M) /\ D + E + (k - E) - 1 = D + k - 1
        BY <1>2, <1>3, <1>6, <1>8, <2>2, <3>1, <3>3, SMTT(60)
      <4>2. X[k] = M[k - E]
        BY <1>12, <2>1, <3>1, <3>3, <4>1
      <4>3. M[k - E] = UnitAt(v, g, D + E + (k - E) - 1)
        BY <1>21, <4>1 DEF Filled, E, D, M
      <4> QED BY <4>1, <4>2, <4>3
    <3> QED BY <3>2, <3>3
  <2>4. X = [k \in 1 .. z |-> X[k]]
    <3>1. X \in [1 .. Len(X) -> Int \X Int]
      BY <2>1, LenProperties
    <3> QED BY <2>1, <2>2, <3>1
  <2>5. X = Scan!UnitsOf(v, t.ino + 1)
    BY <1>20, <2>3, <2>4
  <2> QED BY <2>5 DEF X
<1>22. ASSUME "BAD_INODE_BLK" \in t.flags
       PROVE  \E k \in 1 .. z : IsBad(v, Scan!UnitsOf(v, t.ino + 1)[k][1])
  <2> DEFINE R == BlocksRead(v, t)
             B == Scan!bg_inode_table(v, g)
  <2>1. Len(M) <= b /\ IsBad(v, t.block - 1) /\ extra = <<>> /\ t.block = B + R
    BY <1>22 DEF Filled, M, b
  <2>2. E = 0 /\ Len(M) = S - D /\ z <= Len(M)
    <3>1. E = 0
      BY <2>1, EmptySeq DEF E
    <3> QED BY <1>3, <1>4, <3>1
  <2>3. R \in Int /\ B \in Int
    <3>1. R \in Int
      BY <1>1, <1>2 DEF BlocksRead
    <3>2. g * Scan!TableBlocks(v) \in Nat
      BY <1>1, <1>2, ProductNat
    <3> QED BY <3>1, <3>2 DEF Scan!bg_inode_table
  <2>4. S = R * b
    BY DEF S
  <2> HIDE DEF R, B, g
  <2>5. (R - 1) * b = R * b - b
    BY <1>2, <2>3
  <2>6. (R - 1) * b <= D /\ D < R * b
    BY <1>2, <1>3, <1>8, <1>9, <2>1, <2>2, <2>4, <2>5
  <2>7. D \div b \in (R - 1) .. (R - 1)
    <3>1. R - 1 \in Int /\ D \in Int
      BY <1>8, <2>3
    <3> QED BY <1>2, <2>3, <2>6, <3>1, QuotientBetween
  <2>8. D \div b = R - 1 /\ B + (R - 1) = t.block - 1
    BY <1>1, <2>1, <2>3, <2>7
  <2>9. 1 \in 1 .. z /\ D + 1 - 1 = D
    BY <1>2, <1>8
  <2>10. Scan!UnitsOf(v, t.ino + 1)[1] = UnitAt(v, g, D)
    BY <1>20, <2>9
  <2>11. UnitAt(v, g, D) = <<B + D \div b, D % b>>
    BY DEF UnitAt, Scan!Unit, B, b
  <2>12. Scan!UnitsOf(v, t.ino + 1)[1][1] = t.block - 1
    BY <2>8, <2>10, <2>11
  <2> QED BY <2>1, <2>9, <2>12
<1>23. t.ino \div v.ipg = g
  <2> DEFINE P == g * v.ipg
  <2>1. P \in Nat /\ (g + 1) * v.ipg = P + v.ipg /\ t.ino = P + d
    BY <1>1, <1>2, <1>4, ProductNat, SMTT(60)
  <2>2. g * v.ipg <= t.ino /\ t.ino < (g + 1) * v.ipg
    <3> HIDE DEF P
    <3>1. P <= t.ino /\ t.ino < P + v.ipg
      BY <1>2, <1>5, <2>1
    <3> QED BY <2>1, <3>1 DEF P
  <2>3. t.ino \div v.ipg \in g .. (g + 1 - 1)
    <3>1. g \in Int /\ g + 1 \in Int /\ t.ino \in Int
      BY <1>1
    <3> QED BY <1>2, <2>2, <3>1, QuotientBetween
  <2> QED BY <1>1, <2>3
<1> QED BY <1>1, <1>16, <1>17, <1>18, <1>21, <1>22, <1>23 DEF Placed, u, M, W, z, g
----------------------------------------------------------------------------
(* The calls.                                                              *)

(* A read that fails changes the flags and the place in the list only.     *)
FailedRead(s, p, f) == [s EXCEPT !.bad_ptr = p, !.flags = f]

LEMMA FailedPlaced ==
  ASSUME Scan!InodeScanAssumption, NEW v \in Volumes, NEW s, Placed(v, s),
         s.inodes_left > 0, s.block # 0, Len(s.left) < v.isize,
         NEW n, NEW p, NEW f, ReadPlan(v, s.block, p, f, n), "BAD_INODE_BLK" \notin f
  PROVE  Placed(v, FailedRead(s, p, f)) /\ FailedRead(s, p, f).ino = s.ino
<1> DEFINE u == FailedRead(s, p, f)
<1>1. CountsAgree(v, s) /\ BufferHolds(v, s) /\ s \in ScanStates
  BY DEF Placed, CountsAgree
<1>2. p \in 1 .. (Len(v.bad) + 1) /\ f \in SUBSET ScanFlags
  BY DEF ReadPlan
<1>3. p \in Nat
  BY <1>2, VolumeFacts
<1>4. /\ u \in ScanStates /\ u.open = s.open /\ u.group = s.group /\ u.groups_left = s.groups_left
      /\ u.inodes_left = s.inodes_left /\ u.ino = s.ino /\ u.blocks_left = s.blocks_left
      /\ u.block = s.block /\ u.left = s.left /\ u.bad_ptr = p /\ u.flags = f
  BY <1>1, <1>2, <1>3 DEF ScanStates, FailedRead
<1> HIDE DEF u
<1>5. /\ BlocksRead(v, u) = BlocksRead(v, s) /\ UnitsDone(v, u) = UnitsDone(v, s)
      /\ NextPlace(v, u) = NextPlace(v, s)
  BY <1>4 DEF BlocksRead, UnitsDone, NextPlace
<1>6. CountsAgree(v, u)
  BY <1>1, <1>4, <1>5 DEF CountsAgree
<1>7. s.block = NextPlace(v, s)
  <2>1. s.block = Scan!bg_inode_table(v, s.group) + BlocksRead(v, s) /\ s.group \notin v.missing
    BY <1>1 DEF CountsAgree
  <2> QED BY <2>1 DEF Scan!bg_inode_table, NextPlace
<1>8. PassedBehind(v, u)
  BY <1>2, <1>4, <1>5, <1>7 DEF PassedBehind, ReadPlan
<1>9. BufferHolds(v, u)
  <2>1. \A k \in 1 .. Len(s.left) : s.left[k] = UnitAt(v, s.group, UnitsDone(v, s) + k - 1)
    <3>1. CASE v.bad = <<>>
      BY <1>1, <3>1 DEF BufferHolds
    <3>2. CASE v.bad # <<>>
      <4>1. Len(s.left) = 0
        BY <3>2, ReadStart, EmptySeq
      <4> QED BY <4>1
    <3> QED BY <3>1, <3>2
  <2> QED BY <1>4, <1>5, <2>1 DEF BufferHolds, ReadPlan
<1> QED BY <1>4, <1>6, <1>8, <1>9 DEF Placed, u

(* What ext2fs_get_next_inode answers: the end, a missing table, or the    *)
(* inode after w, which is the next one in use.                            *)
Contents(v, a) ==
  /\ a.op = "ok" => a.units = Scan!UnitsOf(v, a.ino)
  /\ a.op = "bad" => \E k \in 1 .. v.isize : IsBad(v, Scan!UnitsOf(v, a.ino)[k][1])

EndAnswer(v, s, r) ==
  /\ r.got = Scan!Answer("end", 0, <<>>) /\ r.read = {} /\ Placed(v, r.s)
  /\ UsedUpTo(v, s.ino) = UsedUpTo(v, r.s.ino)
  /\ UsedUpTo(v, s.ino) = UsedUpTo(v, Scan!InodesCount(v))
MissingAnswer(v, s, r) ==
  /\ r.got = Scan!Answer("missing", 0, <<>>) /\ r.read = {} /\ Placed(v, r.s)
  /\ UsedUpTo(v, s.ino) = UsedUpTo(v, r.s.ino)
InodeAnswer(v, s, r, w) ==
  /\ r.got.op \in {"ok", "bad"} /\ r.got.ino = w + 1 /\ r.s.ino = w + 1
  /\ Placed(v, r.s) /\ Contents(v, r.got)
  /\ \A c \in r.read : ~IsBad(v, c)
  /\ r.read # {} => Placed(v, r.failed) /\ r.failed.ino = w
  /\ UsedUpTo(v, s.ino) = UsedUpTo(v, w)
  /\ (w \div v.ipg) \notin v.lazy \cup v.missing

LEMMA InodeTaken ==
  ASSUME Scan!InodeScanAssumption, NEW v \in Volumes, NEW s0, NEW s, NEW t, NEW extra,
         Filled(v, t, extra), t.ino = s.ino, t.group = s.group, ~Unused(v, s.group),
         UsedUpTo(v, s0.ino) = UsedUpTo(v, s.ino),
         NEW read, NEW failed, \A c \in read : ~IsBad(v, c),
         read # {} => Placed(v, failed) /\ failed.ino = s.ino,
         NEW bad, bad <=> "BAD_INODE_BLK" \in t.flags, NEW r,
         r = [s |-> Taken(v, t, extra), read |-> read, failed |-> failed,
              got |-> Scan!Answer(IF bad THEN "bad" ELSE "ok", Taken(v, t, extra).ino,
                                  extra \o SubSeq(t.left, 1, Wanted(v, extra)))]
  PROVE  InodeAnswer(v, s0, r, s.ino)
<1> DEFINE u == Taken(v, t, extra)
           units == extra \o SubSeq(t.left, 1, Wanted(v, extra))
<1>1. /\ Placed(v, u)
      /\ "BAD_INODE_BLK" \notin t.flags => units = Scan!UnitsOf(v, t.ino + 1)
      /\ "BAD_INODE_BLK" \in t.flags =>
           \E k \in 1 .. v.isize : IsBad(v, Scan!UnitsOf(v, t.ino + 1)[k][1])
      /\ t.ino \in Nat /\ (t.ino \div v.ipg) = t.group
  BY TakeInode
<1>2. u.ino = t.ino + 1
  BY DEF Taken, Filled, ScanStates
<1>3. t.group \notin v.lazy \cup v.missing
  BY DEF Filled, Unused
<1> HIDE DEF u, units
<1>4. /\ r.s = u /\ r.read = read /\ r.failed = failed
      /\ r.got = [op |-> IF bad THEN "bad" ELSE "ok", ino |-> u.ino, units |-> units]
  BY DEF Scan!Answer, u, units
<1>5. Contents(v, r.got)
  <2>1. CASE bad
    BY <1>1, <1>2, <1>4, <2>1 DEF Contents
  <2>2. CASE ~bad
    BY <1>1, <1>2, <1>4, <2>2 DEF Contents
  <2> QED BY <2>1, <2>2
<1>6. r.got.op \in {"ok", "bad"} /\ r.got.ino = u.ino
  BY <1>4
<1> QED BY <1>1, <1>2, <1>3, <1>4, <1>5, <1>6 DEF InodeAnswer

LEMMA NextInodeFacts ==
  ASSUME Scan!InodeScanAssumption, NEW v \in Volumes, NEW s0, Placed(v, s0), NEW r,
         r = Scan!ext2fs_get_next_inode(v, s0)
  PROVE  \/ EndAnswer(v, s0, r)
         \/ MissingAnswer(v, s0, r)
         \/ \E w \in Nat : InodeAnswer(v, s0, r, w)
<1> DEFINE e == Scan!EnterGroup(v, s0)
           s == e.s
           extra == Scan!Extra(v, s)
           more == Len(s.left) < v.isize
           b == IF more THEN Scan!get_next_blocks(v, s) ELSE [s |-> s, read |-> {}, failed |-> s]
           want == v.isize - Len(extra)
           units == extra \o SubSeq(b.s.left, 1, want)
           bad == IF extra # <<>> THEN "BAD_EXTRA_BYTES" \in b.s.flags
                                  ELSE "BAD_INODE_BLK" \in b.s.flags
           after == [b.s EXCEPT !.left = SubSeq(@, want + 1, Len(@)),
                                !.flags = IF extra # <<>> THEN @ \ {"BAD_EXTRA_BYTES"} ELSE @,
                                !.inodes_left = @ - 1, !.ino = @ + 1]
<1>1. r = CASE e.done -> [s |-> s, got |-> Scan!Answer("end", 0, <<>>), read |-> {}, failed |-> s]
            [] ~e.done /\ s.block = 0 ->
                 [s |-> s, got |-> Scan!Answer("missing", 0, <<>>), read |-> {}, failed |-> s]
            [] OTHER -> [s |-> after, read |-> b.read, failed |-> b.failed,
                         got |-> Scan!Answer(IF bad THEN "bad" ELSE "ok", after.ino, units)]
  BY DEF Scan!ext2fs_get_next_inode
<1>2. /\ e.done \in BOOLEAN /\ Placed(v, s)
      /\ ~e.done => s.inodes_left > 0 /\ ~Unused(v, s.group)
      /\ UsedUpTo(v, s.ino) = UsedUpTo(v, s0.ino)
      /\ e.done => UsedUpTo(v, s0.ino) = UsedUpTo(v, Scan!InodesCount(v))
  BY EnterGroupFacts
<1> HIDE DEF e
<1>3. CASE e.done
  <2>1. r = [s |-> s, got |-> Scan!Answer("end", 0, <<>>), read |-> {}, failed |-> s]
    BY <1>1, <1>3
  <2> QED BY <1>2, <1>3, <2>1 DEF EndAnswer
<1>4. CASE ~e.done /\ s.block = 0
  <2>1. r = [s |-> s, got |-> Scan!Answer("missing", 0, <<>>), read |-> {}, failed |-> s]
    BY <1>1, <1>4
  <2> QED BY <1>2, <2>1 DEF MissingAnswer
<1>5. CASE ~e.done /\ s.block # 0
  <2>1. r = [s |-> after, read |-> b.read, failed |-> b.failed,
             got |-> Scan!Answer(IF bad THEN "bad" ELSE "ok", after.ino, units)]
    <3> HIDE DEF after, b, bad, units
    <3> QED BY <1>1, <1>5
  <2>2. /\ Filled(v, b.s, extra) /\ b.s.ino = s.ino /\ b.s.group = s.group
        /\ \A c \in b.read : ~IsBad(v, c)
        /\ b.read # {} => Placed(v, b.failed) /\ b.failed.ino = s.ino
    <3>1. CASE ~more
      <4>1. b = [s |-> s, read |-> {}, failed |-> s] /\ extra = <<>>
        BY <3>1 DEF Scan!Extra
      <4>2. Filled(v, s, <<>>)
        BY <1>2, <1>5, <3>1, FilledAsItIs
      <4> HIDE DEF b, extra
      <4> QED BY <4>1, <4>2
    <3>2. CASE more
      <4>1. extra = s.left /\ b = Scan!get_next_blocks(v, s)
        BY <3>2 DEF Scan!Extra
      <4>2. PICK n \in 1 .. s.blocks_left, p \in Nat, f \in SUBSET ScanFlags :
              /\ ReadPlan(v, s.block, p, f, n) /\ n <= v.buffer
              /\ Scan!get_next_blocks(v, s) =
                   [s |-> ReadGoes(v, s, p, f, n),
                    read |-> IF "BAD_INODE_BLK" \in f THEN {} ELSE s.block .. (s.block + n - 1),
                    failed |-> [s EXCEPT !.bad_ptr = p, !.flags = f]]
        BY <1>2, <1>5, <3>2, NextBlocksFacts
      <4> DEFINE u == FailedRead(s, p, f)
      <4>3. /\ b.s = ReadGoes(v, s, p, f, n) /\ b.failed = u
            /\ b.read = IF "BAD_INODE_BLK" \in f THEN {} ELSE s.block .. (s.block + n - 1)
        <5> HIDE DEF b, u
        <5> QED BY <4>1, <4>2 DEF u, FailedRead
      <4>4. Filled(v, ReadGoes(v, s, p, f, n), s.left)
        BY <1>2, <1>5, <3>2, <4>2, FilledByRead
      <4>5. "BAD_INODE_BLK" \notin f => Placed(v, u) /\ u.ino = s.ino
        <5>1. Placed(v, s) /\ s.inodes_left > 0 /\ s.block # 0 /\ Len(s.left) < v.isize
          BY <1>2, <1>5, <3>2
        <5>2. ReadPlan(v, s.block, p, f, n)
          BY <4>2
        <5> HIDE DEF s
        <5> QED BY <5>1, <5>2, FailedPlaced
      <4>6. ReadGoes(v, s, p, f, n).ino = s.ino /\ ReadGoes(v, s, p, f, n).group = s.group
        <5>1. s \in ScanStates
          BY <1>2 DEF Placed, CountsAgree
        <5> QED BY <5>1 DEF ReadGoes, ScanStates
      <4>7. "BAD_INODE_BLK" \notin f => \A c \in s.block .. (s.block + n - 1) : ~IsBad(v, c)
        BY <4>2 DEF ReadPlan
      <4> HIDE DEF b, u, extra
      <4> QED BY <4>1, <4>3, <4>4, <4>5, <4>6, <4>7
    <3> QED BY <3>1, <3>2
  <2> DEFINE t == b.s
  <2>3. t \in ScanStates /\ "BAD_EXTRA_BYTES" \notin t.flags /\ ("BAD_INODE_BLK" \in t.flags => extra = <<>>)
        /\ t.ino \in Nat
    <3> HIDE DEF b, extra
    <3> QED BY <2>2 DEF Filled, ScanStates
  <2>4. bad <=> "BAD_INODE_BLK" \in t.flags
    <3> HIDE DEF b, extra
    <3> QED BY <2>3
  <2>5. after = Taken(v, t, extra)
    <3>1. (IF extra # <<>> THEN t.flags \ {"BAD_EXTRA_BYTES"} ELSE t.flags) = t.flags
      <4> HIDE DEF t, extra
      <4> QED BY <2>3
    <3>2. after = [t EXCEPT !.left = SubSeq(t.left, want + 1, Len(t.left)),
                            !.flags = IF extra # <<>> THEN t.flags \ {"BAD_EXTRA_BYTES"} ELSE t.flags,
                            !.inodes_left = t.inodes_left - 1, !.ino = t.ino + 1]
      <4> HIDE DEF b, extra
      <4> QED BY <2>3 DEF ScanStates
    <3>3. after = [t EXCEPT !.left = SubSeq(t.left, want + 1, Len(t.left)), !.flags = t.flags,
                            !.inodes_left = t.inodes_left - 1, !.ino = t.ino + 1]
      <4> HIDE DEF t, extra, after
      <4> QED BY <3>1, <3>2
    <3> HIDE DEF t, extra, after
    <3> QED BY <2>3, <3>3 DEF Taken, Wanted, ScanStates
  <2>6. units = extra \o SubSeq(t.left, 1, Wanted(v, extra))
    BY DEF Wanted
  <2> DEFINE read == b.read
             failed == b.failed
  <2> HIDE DEF after, bad, units, t, extra, s, b, read, failed
  <2>7. r = [s |-> Taken(v, t, extra), read |-> read, failed |-> failed,
             got |-> Scan!Answer(IF bad THEN "bad" ELSE "ok", Taken(v, t, extra).ino,
                                 extra \o SubSeq(t.left, 1, Wanted(v, extra)))]
    BY <2>1, <2>5, <2>6 DEF read, failed
  <2>8. InodeAnswer(v, s0, r, s.ino)
    <3>1. /\ Filled(v, t, extra) /\ t.ino = s.ino /\ t.group = s.group
          /\ \A c \in read : ~IsBad(v, c)
          /\ read # {} => Placed(v, failed) /\ failed.ino = s.ino
      BY <2>2 DEF t, read, failed
    <3> QED BY <1>2, <1>5, <2>4, <2>7, <3>1, InodeTaken
  <2>9. s.ino \in Nat
    BY <2>2, <2>3 DEF t
  <2> QED BY <2>8, <2>9
<1> QED BY <1>2, <1>3, <1>4, <1>5
----------------------------------------------------------------------------
(* The invariant of a scan.                                                *)

(* What was returned so far: the inodes in use up to the current one.      *)
SeenUpTo(n) ==
  /\ seen \in Seq(Nat)
  /\ {seen[k] : k \in 1 .. Len(seen)} = UsedUpTo(vol, n)
  /\ \A j, k \in 1 .. Len(seen) : j < k => seen[j] < seen[k]

ScanInv ==
  /\ vol \in Volumes /\ gotos \in Nat
  /\ scan = Scan!Closed \/ Placed(vol, scan)
  /\ scan = Scan!Closed => got = Scan!Idle
  /\ Contents(vol, got)
  /\ \A b \in touched : ~IsBad(vol, b)
  /\ scan # Scan!Closed /\ gotos = 0 => SeenUpTo(scan.ino)
  /\ scan # Scan!Closed /\ gotos = 0 /\ got.op = "end" =>
       UsedUpTo(vol, scan.ino) = UsedUpTo(vol, Scan!InodesCount(vol))

LEMMA IdleContents ==
  ASSUME NEW v PROVE Contents(v, Scan!Idle) /\ Scan!Idle.op # "end"
BY DEF Contents, Scan!Idle, Scan!Answer

LEMMA ClosedIsNotOpen ==
  /\ ~Scan!Closed.open
  /\ \A v, s : Placed(v, s) => s.open /\ s # Scan!Closed
<1>1. ~Scan!Closed.open
  BY DEF Scan!Closed
<1>2. \A v, s : Placed(v, s) => s.open
  BY DEF Placed, CountsAgree
<1> QED BY <1>1, <1>2

LEMMA ScanInitInv == ASSUME Scan!InodeScanAssumption, Scan!Init PROVE ScanInv
BY IdleContents DEF Scan!Init, ScanInv

LEMMA NoneUsedAtFirst ==
  ASSUME NEW v PROVE UsedUpTo(v, 0) = {}
BY DEF UsedUpTo

LEMMA OpenPlaced ==
  ASSUME Scan!InodeScanAssumption, NEW v \in Volumes
  PROVE  Placed(v, Scan!ext2fs_open_inode_scan(v)) /\ Scan!ext2fs_open_inode_scan(v).ino = 0
<1> DEFINE u == Scan!ext2fs_open_inode_scan(v)
           T == Scan!TableBlocks(v)
           B == Scan!bg_inode_table(v, 0)
           F == (IF v.bad # <<>> THEN {"CHK_BADBLOCKS"} ELSE {})
                \cup (IF v.skip THEN {"SKIP_MISSING_ITABLE"} ELSE {})
<1>1. /\ T \in Nat \ {0} /\ v.ipg \in Nat \ {0} /\ v.groups \in Nat \ {0} /\ Len(v.bad) \in Nat
      /\ v.bsize \in Nat \ {0} /\ v.isize \in Nat \ {0} /\ v.buffer \in Nat \ {0}
      /\ \A x \in 1 .. Len(v.bad) : v.bad[x] \in Nat
      /\ v.bad \in Seq(Nat)
  BY VolumeFacts, TableFacts
<1>2. B \in Nat /\ (0 \notin v.missing => B = 1) /\ (0 \in v.missing => B = 0)
  BY <1>1 DEF Scan!bg_inode_table
<1>3. /\ F \in SUBSET ScanFlags /\ "BAD_INODE_BLK" \notin F /\ "BAD_EXTRA_BYTES" \notin F
      /\ "CHK_BADBLOCKS" \notin F => v.bad = <<>>
      /\ v.bad = <<>> => "CHK_BADBLOCKS" \notin F
  <2>1. "CHK_BADBLOCKS" \in F <=> v.bad # <<>>
    OBVIOUS
  <2>2. F \subseteq {"CHK_BADBLOCKS", "SKIP_MISSING_ITABLE"}
    OBVIOUS
  <2> HIDE DEF F
  <2> QED BY <2>1, <2>2 DEF ScanFlags
<1>4. u = [open |-> TRUE, group |-> 0, block |-> B, ino |-> 0, inodes_left |-> v.ipg,
           blocks_left |-> T, groups_left |-> v.groups - 1, left |-> <<>>, bad_ptr |-> 1, flags |-> F]
  BY DEF Scan!ext2fs_open_inode_scan
<1> HIDE DEF u, T, B, F
<1>5. <<>> \in Seq(Int \X Int) /\ Len(<<>>) = 0 /\ v.groups - 1 \in Nat
  BY <1>1, EmptySeq
<1>6. /\ u \in ScanStates /\ u.open /\ u.group = 0 /\ u.block = B /\ u.ino = 0 /\ u.inodes_left = v.ipg
      /\ u.blocks_left = T /\ u.groups_left = v.groups - 1 /\ u.left = <<>> /\ u.bad_ptr = 1 /\ u.flags = F
  BY <1>1, <1>2, <1>3, <1>4, <1>5 DEF ScanStates
<1>7. BlocksRead(v, u) = 0 /\ UnitsDone(v, u) = 0
  <2>1. BlocksRead(v, u) = T - T /\ UnitsDone(v, u) = (v.ipg - v.ipg) * v.isize
    BY <1>6 DEF BlocksRead, UnitsDone, T
  <2>2. T - T = 0 /\ v.ipg - v.ipg = 0 /\ 0 * v.isize = 0
    BY <1>1
  <2> QED BY <2>1, <2>2
<1>8. CountsAgree(v, u)
  <2>1. 0 * v.bsize - 0 = 0 /\ v.buffer * v.bsize \in Nat /\ 0 * v.ipg + (v.ipg - v.ipg) = 0
        /\ v.groups - 1 - 0 = v.groups - 1 /\ B + 0 = B
    BY <1>1, <1>2
  <2>2. Len(u.left) = BlocksRead(v, u) * v.bsize - UnitsDone(v, u) /\ Len(u.left) <= v.buffer * v.bsize
    BY <1>5, <1>6, <1>7, <2>1
  <2>3. u.block = IF u.group \in v.missing THEN 0
                  ELSE Scan!bg_inode_table(v, u.group) + BlocksRead(v, u)
    BY <1>2, <1>6, <1>7, <2>1 DEF B
  <2>4. u.ino = u.group * v.ipg + (v.ipg - u.inodes_left) /\ u.groups_left = v.groups - 1 - u.group
        /\ u.group < v.groups /\ u.inodes_left <= v.ipg /\ u.blocks_left <= T
    BY <1>1, <1>6, <2>1
  <2> QED BY <1>6, <2>2, <2>3, <2>4 DEF CountsAgree, T
<1>9. PassedBehind(v, u)
  <2>1. 1 \in 1 .. (Len(v.bad) + 1) /\ 1 .. (1 - 1) = {}
    BY <1>1
  <2>2. v.bad = <<>> => 1 .. Len(v.bad) = {}
    BY <1>5
  <2> QED BY <1>3, <1>6, <2>1, <2>2 DEF PassedBehind
<1>10. BufferHolds(v, u)
  BY <1>3, <1>5, <1>6 DEF BufferHolds
<1> QED BY <1>6, <1>8, <1>9, <1>10 DEF Placed, u

(* The inode after n, when its group is in use, is the next one returned.  *)
LEMMA SeenNext ==
  ASSUME NEW w \in Nat, SeenUpTo(w), (w \div vol.ipg) \notin vol.lazy \cup vol.missing,
         seen' = Append(seen, w + 1), vol' = vol
  PROVE  SeenUpTo(w + 1)'
<1> DEFINE L == Len(seen)
<1>1. seen \in Seq(Nat) /\ L \in Nat /\ \A k \in 1 .. L : seen[k] \in Nat
  BY DEF SeenUpTo
<1>2. /\ seen' \in Seq(Nat) /\ Len(seen') = L + 1 /\ seen'[L + 1] = w + 1
      /\ \A k \in 1 .. L : seen'[k] = seen[k]
  BY <1>1
<1>3. \A k \in 1 .. L : seen[k] \in UsedUpTo(vol, w)
  BY DEF SeenUpTo
<1>4. \A k \in 1 .. L : seen[k] < w + 1
  BY <1>1, <1>3 DEF UsedUpTo
<1>5. \A k \in 1 .. (L + 1) : k \in 1 .. L \/ k = L + 1
  BY <1>1
<1>6. \A k \in 1 .. L : k \in 1 .. (L + 1)
  BY <1>1
<1>7. UsedUpTo(vol, w + 1) = UsedUpTo(vol, w) \cup {w + 1}
  <2>1. w + 1 - 1 = w /\ w + 1 \in 1 .. (w + 1)
    OBVIOUS
  <2>2. \A i \in 1 .. (w + 1) : i \in 1 .. w \/ i = w + 1
    OBVIOUS
  <2>3. \A i \in 1 .. w : i \in 1 .. (w + 1)
    OBVIOUS
  <2> QED BY <2>1, <2>2, <2>3 DEF UsedUpTo
<1>8. {seen'[k] : k \in 1 .. Len(seen')} = UsedUpTo(vol, w + 1)
  <2> DEFINE A == {seen[k] : k \in 1 .. L}
             C == {seen'[k] : k \in 1 .. (L + 1)}
  <2>1. A = UsedUpTo(vol, w)
    BY DEF SeenUpTo
  <2>2. L + 1 \in 1 .. (L + 1)
    BY <1>1
  <2>3. C = A \cup {w + 1}
    <3>1. \A x \in C : x \in A \cup {w + 1}
      BY <1>2, <1>5
    <3>2. \A x \in A : x \in C
      BY <1>2, <1>6
    <3>3. w + 1 \in C
      BY <1>2, <2>2
    <3> HIDE DEF A, C
    <3> QED BY <3>1, <3>2, <3>3
  <2> QED BY <1>2, <1>7, <2>1, <2>3
<1>9. ASSUME NEW j \in 1 .. Len(seen'), NEW k \in 1 .. Len(seen'), j < k PROVE seen'[j] < seen'[k]
  <2>1. j \in 1 .. L /\ j \in Nat /\ k \in Nat
    BY <1>1, <1>2, <1>9
  <2>2. CASE k \in 1 .. L
    BY <1>2, <1>9, <2>1, <2>2 DEF SeenUpTo
  <2>3. CASE k = L + 1
    BY <1>2, <1>4, <2>1, <2>3
  <2> QED BY <1>2, <1>5, <2>2, <2>3
<1>10. UsedUpTo(vol, w + 1)' = UsedUpTo(vol, w + 1)
  BY DEF UsedUpTo
<1> QED BY <1>2, <1>8, <1>9, <1>10 DEF SeenUpTo
LEMMA ScanNextInv ==
  ASSUME Scan!InodeScanAssumption, ScanInv, Scan!Next PROVE ScanInv'
<1>1. vol \in Volumes /\ vol' = vol
  BY DEF ScanInv, Scan!Next, Scan!open_scan, Scan!get_next, Scan!get_next_fails, Scan!goto_group,
         Scan!close_scan
<1>2. scan.open => Placed(vol, scan) /\ scan # Scan!Closed
  BY ClosedIsNotOpen DEF ScanInv
<1>3. CASE Scan!open_scan
  <2>1. /\ scan' = Scan!ext2fs_open_inode_scan(vol) /\ got' = Scan!Idle /\ seen' = <<>>
        /\ touched' = {} /\ gotos' = 0
    BY <1>3 DEF Scan!open_scan
  <2>2. Placed(vol, scan') /\ scan'.ino = 0 /\ scan' # Scan!Closed
    BY <1>1, <2>1, OpenPlaced, ClosedIsNotOpen
  <2>3. SeenUpTo(scan.ino)'
    <3>1. <<>> \in Seq(Nat) /\ Len(<<>>) = 0 /\ 1 .. 0 = {}
      BY EmptySeq
    <3>2. UsedUpTo(vol', scan'.ino) = {}
      BY <2>2, NoneUsedAtFirst
    <3> QED BY <2>1, <3>1, <3>2 DEF SeenUpTo
  <2>4. Contents(vol, got') /\ got'.op # "end"
    BY <2>1, IdleContents
  <2> QED BY <1>1, <2>1, <2>2, <2>3, <2>4 DEF ScanInv
<1>4. CASE Scan!get_next
  <2> DEFINE r == Scan!ext2fs_get_next_inode(vol, scan)
  <2>1. /\ scan.open /\ scan' = r.s /\ got' = r.got /\ touched' = touched \cup r.read
        /\ seen' = (IF r.got.ino = 0 THEN seen ELSE Append(seen, r.got.ino)) /\ gotos' = gotos
    BY <1>4 DEF Scan!get_next
  <2>2. \/ EndAnswer(vol, scan, r) \/ MissingAnswer(vol, scan, r)
        \/ \E w \in Nat : InodeAnswer(vol, scan, r, w)
    BY <1>1, <1>2, <2>1, NextInodeFacts
  <2> HIDE DEF r
  <2>3. ASSUME EndAnswer(vol, scan, r) \/ MissingAnswer(vol, scan, r) PROVE ScanInv'
    <3>1. /\ Placed(vol, r.s) /\ r.read = {} /\ UsedUpTo(vol, scan.ino) = UsedUpTo(vol, r.s.ino)
          /\ r.got.ino = 0 /\ r.got.op \in {"end", "missing"}
          /\ r.got.op = "end" => UsedUpTo(vol, scan.ino) = UsedUpTo(vol, Scan!InodesCount(vol))
      <4>1. CASE EndAnswer(vol, scan, r)
        BY <4>1 DEF EndAnswer, Scan!Answer
      <4>2. CASE MissingAnswer(vol, scan, r)
        BY <4>2 DEF MissingAnswer, Scan!Answer
      <4> QED BY <2>3, <4>1, <4>2
    <3>2. scan' # Scan!Closed
      BY <2>1, <3>1, ClosedIsNotOpen
    <3>3. Contents(vol, got')
      BY <2>1, <3>1 DEF Contents
    <3>4. gotos = 0 => SeenUpTo(scan.ino)'
      <4>1. gotos = 0 => SeenUpTo(scan.ino)
        BY <1>2, <2>1 DEF ScanInv
      <4>2. seen' = seen
        BY <2>1, <3>1
      <4> QED BY <1>1, <2>1, <3>1, <4>1, <4>2 DEF SeenUpTo
    <3>5. got'.op = "end" => UsedUpTo(vol, scan'.ino) = UsedUpTo(vol, Scan!InodesCount(vol))
      BY <2>1, <3>1
    <3>6. \A b \in touched' : ~IsBad(vol, b)
      BY <2>1, <3>1 DEF ScanInv
    <3>7. Scan!InodesCount(vol)' = Scan!InodesCount(vol)
      BY <1>1
    <3> QED BY <1>1, <2>1, <3>1, <3>2, <3>3, <3>4, <3>5, <3>6, <3>7 DEF ScanInv
  <2>4. ASSUME NEW w \in Nat, InodeAnswer(vol, scan, r, w) PROVE ScanInv'
    <3>1. /\ r.got.op \in {"ok", "bad"} /\ r.got.ino = w + 1 /\ r.s.ino = w + 1
          /\ Placed(vol, r.s) /\ Contents(vol, r.got)
          /\ (\A c \in r.read : ~IsBad(vol, c))
          /\ UsedUpTo(vol, scan.ino) = UsedUpTo(vol, w)
          /\ (w \div vol.ipg) \notin vol.lazy \cup vol.missing
      BY <2>4 DEF InodeAnswer
    <3>2. scan' # Scan!Closed
      BY <2>1, <3>1, ClosedIsNotOpen
    <3>3. seen' = Append(seen, w + 1)
      BY <2>1, <3>1
    <3>4. gotos = 0 => SeenUpTo(scan.ino)'
      <4> SUFFICES ASSUME gotos = 0 PROVE SeenUpTo(scan.ino)'
        OBVIOUS
      <4>1. SeenUpTo(scan.ino)
        BY <1>2, <2>1 DEF ScanInv
      <4>2. SeenUpTo(w)
        BY <3>1, <4>1 DEF SeenUpTo
      <4>3. SeenUpTo(w + 1)'
        BY <1>1, <3>1, <3>3, <4>2, SeenNext
      <4>4. scan'.ino = w + 1
        BY <2>1, <3>1
      <4> QED BY <4>3, <4>4 DEF SeenUpTo
    <3>5. got'.op # "end" /\ Contents(vol, got')
      BY <2>1, <3>1
    <3>6. \A b \in touched' : ~IsBad(vol, b)
      BY <2>1, <3>1 DEF ScanInv
    <3> QED BY <1>1, <2>1, <3>1, <3>2, <3>4, <3>5, <3>6 DEF ScanInv
  <2> QED BY <2>2, <2>3, <2>4
<1>5. CASE Scan!get_next_fails
  <2> DEFINE r == Scan!ext2fs_get_next_inode(vol, scan)
  <2>1. /\ scan.open /\ r.read # {} /\ scan' = r.failed /\ got' = Scan!Answer("error", 0, <<>>)
        /\ touched' = touched /\ seen' = seen /\ gotos' = gotos
    BY <1>5 DEF Scan!get_next_fails
  <2>2. \/ EndAnswer(vol, scan, r) \/ MissingAnswer(vol, scan, r)
        \/ \E w \in Nat : InodeAnswer(vol, scan, r, w)
    BY <1>1, <1>2, <2>1, NextInodeFacts
  <2> HIDE DEF r
  <2>3. PICK w \in Nat : InodeAnswer(vol, scan, r, w)
    BY <2>1, <2>2 DEF EndAnswer, MissingAnswer
  <2>4. Placed(vol, scan') /\ scan'.ino = w /\ UsedUpTo(vol, scan.ino) = UsedUpTo(vol, w)
    BY <2>1, <2>3 DEF InodeAnswer
  <2>5. scan' # Scan!Closed
    BY <2>4, ClosedIsNotOpen
  <2>6. Contents(vol, got') /\ got'.op # "end"
    BY <2>1 DEF Contents, Scan!Answer
  <2>7. gotos = 0 => SeenUpTo(scan.ino)'
    <3>1. gotos = 0 => SeenUpTo(scan.ino)
      BY <1>2, <2>1 DEF ScanInv
    <3> QED BY <1>1, <2>1, <2>4, <3>1 DEF SeenUpTo
  <2> QED BY <1>1, <2>1, <2>4, <2>5, <2>6, <2>7 DEF ScanInv
<1>6. CASE \E g \in 0 .. (vol.groups - 1) : g > scan.group /\ Scan!goto_group(g)
  <2>1. PICK g \in 0 .. (vol.groups - 1) : g > scan.group /\ Scan!goto_group(g)
    BY <1>6
  <2>2. /\ scan.open /\ scan' = AtGroup(vol, scan, g) /\ got' = Scan!Idle /\ touched' = touched
        /\ gotos' = gotos + 1
    BY <2>1 DEF Scan!goto_group, Scan!ext2fs_inode_scan_goto_blockgroup, AtGroup
  <2>3. scan.group \in Nat /\ vol.groups \in Nat
    BY <1>1, <1>2, <2>2, VolumeFacts DEF Placed, CountsAgree, ScanStates
  <2>4. g \in (scan.group + 1) .. (vol.groups - 1)
    BY <2>1, <2>3
  <2>5. Placed(vol, scan') /\ scan' # Scan!Closed
    BY <1>1, <1>2, <2>2, <2>4, LaterGroupPlaced, ClosedIsNotOpen
  <2>6. gotos' # 0 /\ gotos' \in Nat
    BY <2>2 DEF ScanInv
  <2>7. Contents(vol, got')
    BY <2>2, IdleContents
  <2> QED BY <1>1, <2>2, <2>5, <2>6, <2>7 DEF ScanInv
<1>7. CASE Scan!close_scan
  <2>1. scan' = Scan!Closed /\ got' = Scan!Idle /\ touched' = {} /\ gotos' = 0
    BY <1>7 DEF Scan!close_scan
  <2>2. Contents(vol, got')
    BY <2>1, IdleContents
  <2>3. Scan!Closed' = Scan!Closed /\ Scan!Idle' = Scan!Idle
    OBVIOUS
  <2> QED BY <1>1, <2>1, <2>2, <2>3 DEF ScanInv
<1> QED BY <1>3, <1>4, <1>5, <1>6, <1>7 DEF Scan!Next

LEMMA PlacedInRange ==
  ASSUME Scan!InodeScanAssumption, ScanInv PROVE Scan!TypeOK
<1>1. /\ vol \in Volumes /\ vol.groups \in Nat \ {0} /\ vol.ipg \in Nat \ {0}
      /\ Scan!TableBlocks(vol) \in Nat \ {0} /\ vol.buffer * vol.bsize \in Nat
  <2>1. vol \in Volumes
    BY DEF ScanInv
  <2> QED BY <2>1, VolumeFacts, TableFacts, ProductNat
<1>2. CASE scan = Scan!Closed
  <2>1. scan.inodes_left = 0 /\ scan.blocks_left = 0 /\ scan.groups_left = 0 /\ scan.group = 0
        /\ scan.left = <<>>
    BY <1>2 DEF Scan!Closed
  <2>2. Len(scan.left) = 0
    BY <2>1
  <2> QED BY <1>1, <2>1, <2>2 DEF Scan!TypeOK
<1>3. CASE Placed(vol, scan)
  <2>1. scan.group \in Nat /\ scan.inodes_left \in Nat /\ scan.blocks_left \in Nat
    BY <1>3 DEF Placed, CountsAgree, ScanStates
  <2>2. /\ scan.group < vol.groups /\ scan.groups_left = vol.groups - 1 - scan.group
        /\ scan.inodes_left <= vol.ipg /\ scan.blocks_left <= Scan!TableBlocks(vol)
        /\ Len(scan.left) <= vol.buffer * vol.bsize
    BY <1>3 DEF Placed, CountsAgree
  <2>3. scan.groups_left \in 0 .. (vol.groups - 1) /\ scan.group \in 0 .. (vol.groups - 1)
    BY <1>1, <2>1, <2>2
  <2>4. scan.inodes_left \in 0 .. vol.ipg /\ scan.blocks_left \in 0 .. Scan!TableBlocks(vol)
    BY <1>1, <2>1, <2>2
  <2> QED BY <2>2, <2>3, <2>4 DEF Scan!TypeOK
<1> QED BY <1>2, <1>3 DEF ScanInv

(* A scan that only moves forward returns each inode of a table in use     *)
(* once, in order, with the contents stored for its number, also when it   *)
(* straddles two buffers and when reads fail on the way; an inode answered *)
(* with an error lies in a bad block, and no bad block is read             *)
(* (ext2fs_get_next_inode, get_next_blocks, check_for_inode_bad_blocks).   *)
THEOREM InodeScanExact == Scan!InodeScanAssumption => (Scan!Spec => []Scan!ScanIsExact)
<1> SUFFICES ASSUME Scan!InodeScanAssumption PROVE Scan!Spec => []Scan!ScanIsExact
  OBVIOUS
<1>1. Scan!Init => ScanInv
  BY ScanInitInv
<1>2. ScanInv /\ [Scan!Next]_(Scan!vars) => ScanInv'
  <2>1. CASE Scan!Next
    BY <2>1, ScanNextInv
  <2>2. CASE UNCHANGED Scan!vars
    BY <2>2 DEF Scan!vars, ScanInv, SeenUpTo
  <2> QED BY <2>1, <2>2
<1>3. ScanInv => Scan!ScanIsExact
  <2> SUFFICES ASSUME ScanInv PROVE Scan!ScanIsExact
    OBVIOUS
  <2>1. Scan!TypeOK
    BY PlacedInRange
  <2>2. Scan!ContentsAreStored /\ Scan!BadNeverRead
    BY DEF ScanInv, Contents, Scan!ContentsAreStored, Scan!BadNeverRead, Scan!InBad, IsBad
  <2>3. Scan!EndIsComplete
    <3> SUFFICES ASSUME got.op = "end", gotos = 0
                 PROVE  /\ {seen[k] : k \in 1 .. Len(seen)} = UsedUpTo(vol, Scan!InodesCount(vol))
                        /\ \A j, k \in 1 .. Len(seen) : j < k => seen[j] < seen[k]
      BY DEF Scan!EndIsComplete, UsedUpTo
    <3>1. scan # Scan!Closed
      BY IdleContents DEF ScanInv
    <3> QED BY <3>1 DEF ScanInv, SeenUpTo
  <2> QED BY <2>1, <2>2, <2>3 DEF Scan!ScanIsExact
<1> QED BY <1>1, <1>2, <1>3, PTL DEF Scan!Spec
=============================================================================
