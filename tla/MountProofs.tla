---------------------------- MODULE MountProofs ----------------------------
(***************************************************************************)
(* Proofs about Mount, for volumes of every number and size of groups, any *)
(* groups without a block bitmap, and any number of mounts, requests,      *)
(* faults and crashes; and about Layout, for volumes of every geometry.    *)
(***************************************************************************)
EXTENDS Mount, NumberFacts, FiniteSetTheorems, TLAPS

Lazy == UNION {GroupBlocks(g) : g \in LazyGroups}

(* What an inode table t says.                                             *)
OwnedBy(t) == {t[i] : i \in Inodes} \ {Dead, NoBlock}
LiveIn(t) == {i \in Inodes : t[i] # Dead}
OneOwner(t) == \A i, j \in Inodes : t[i] = t[j] /\ t[i] \notin {Dead, NoBlock} => i = j

(* Counts cs and a superblock s that say the same.                         *)
InodeCounts(cs, s, live) ==
  /\ \A g \in Groups : cs[g].fi = Cardinality(GroupInodes(g) \ live)
  /\ s.fi = Cardinality(Inodes \ live)
BlockCounts(cs, s, owned) ==
  /\ \A g \in Groups \ LazyGroups : cs[g].fb = Cardinality(GroupBlocks(g) \ owned)
  /\ s.fb = Cardinality(Usable \ owned)

(* What a place can hold.                                                  *)
Supers == [fb : Nat, fi : Nat, valid : BOOLEAN]
Descs == [Groups -> [fb : Nat, fi : Nat]]
Tables == [Inodes -> {Dead, NoBlock} \cup Usable]
Content(p) == IF p = Desc THEN Descs ELSE IF p = Itab THEN Tables
              ELSE IF p[1] = "bb" THEN SUBSET GroupBlocks(p[2]) ELSE SUBSET GroupInodes(p[2])

Filsys == [state : {"down", "nofs", "up", "closing"}, maps : {{}, {"ib"}, {"ib", "bb"}},
           super : Supers, orig : Supers, desc : Descs, bb : SUBSET Blocks,
           ib : SUBSET Inodes, flags : SUBSET {"DIRTY", "BB", "IB"}]

Open == fs.state \in {"up", "closing"}

----------------------------------------------------------------------------
(* The inductive invariant, in parts.                                      *)

(* No table, on the device or in the cache, gives a block of a lazy group. *)
ChannelTyped ==
  /\ DOMAIN dev = Places /\ \A p \in Places : dev[p] \in Content(p)
  /\ DOMAIN cache \subseteq Places /\ \A p \in DOMAIN cache : cache[p] \in Content(p)
Typed ==
  /\ ChannelTyped
  /\ sb \in Supers /\ fs \in Filsys /\ lost \in BOOLEAN /\ hurt \in BOOLEAN
  /\ pc \in {"idle", "flush", "super", "super_fi", "super_wtime", "super_done", "done", "failed"}
  /\ ~Open => cache = Empty /\ pc = "idle"
  /\ "bb" \in fs.maps => Lazy \subseteq fs.bb

(* Which flags can be up.                                                  *)
Flagged ==
  /\ fs.flags # {} => "DIRTY" \in fs.flags
  /\ "BB" \in fs.flags => "bb" \in fs.maps
  /\ "IB" \in fs.flags => "ib" \in fs.maps
  /\ pc # "idle" => fs.flags \subseteq {"DIRTY"}
  /\ pc = "done" => fs.flags = {}

(* What the channel holds of the process's copy.                           *)
Saved ==
  Open /\ ~lost =>
    /\ "BB" \notin fs.flags /\ "bb" \in fs.maps =>
         \A g \in Groups \ LazyGroups : Seen(BB(g)) = fs.bb \cap GroupBlocks(g)
    /\ "IB" \notin fs.flags /\ "ib" \in fs.maps =>
         \A g \in Groups : Seen(IB(g)) = fs.ib \cap GroupInodes(g)
    /\ "DIRTY" \notin fs.flags \/ pc # "idle" => Seen(Desc) = fs.desc

(* The superblock on the device is what orig_super says it is, except      *)
(* between the two writes of its fields, when the cache is empty: so no    *)
(* write-back can fail there.                                              *)
Written ==
  Open =>
    /\ sb.valid = fs.super.valid /\ fs.orig.valid = fs.super.valid
    /\ "DIRTY" \notin fs.flags => fs.orig = fs.super
    /\ pc \in {"idle", "flush", "super", "done", "failed"} => sb = fs.orig
    /\ pc = "super_fi" => /\ sb.fb = fs.super.fb /\ sb.fi = fs.orig.fi
                          /\ sb.fb # fs.orig.fb => cache = Empty
    /\ pc \in {"super_wtime", "super_done"} => sb = fs.super /\ (sb # fs.orig => cache = Empty)

(* The process's copy is what the inode table seen through the channel     *)
(* says, while nothing was lost in this mount or in one before.            *)
Agrees ==
  LET t == Seen(Itab) IN
  Open /\ ~lost /\ ~hurt =>
    /\ OneOwner(t) /\ InodeCounts(fs.desc, fs.super, LiveIn(t))
    /\ BlockCounts(fs.desc, fs.super, OwnedBy(t))
    /\ "ib" \in fs.maps => fs.ib = LiveIn(t)
    /\ "bb" \in fs.maps => fs.bb = OwnedBy(t) \cup Lazy
    /\ "BB" \notin fs.flags =>
         \A g \in Groups \ LazyGroups : Seen(BB(g)) = OwnedBy(t) \cap GroupBlocks(g)
    /\ "IB" \notin fs.flags => \A g \in Groups : Seen(IB(g)) = LiveIn(t) \cap GroupInodes(g)

Left == fs.state = "down" /\ ~hurt => Consistent /\ OneOwner(dev[Itab])

(* No device error hits between the words of the superblock.               *)
WholeSuper == "byte" \notin FaultsAt

----------------------------------------------------------------------------
(* Places, groups and counts.                                              *)

LEMMA PlaceFacts ==
  /\ Desc \in Places /\ Itab \in Places /\ Desc # Itab
  /\ \A g \in Groups : BB(g) \in Places /\ IB(g) \in Places
  /\ \A g : BB(g) \notin {Desc, Itab} /\ IB(g) \notin {Desc, Itab}
  /\ \A g, h : BB(g) # IB(h)
  /\ \A g, h : (BB(g) = BB(h) => g = h) /\ (IB(g) = IB(h) => g = h)
BY DEF Places, Desc, Itab, BB, IB

LEMMA ContentIs ==
  /\ Content(Desc) = Descs /\ Content(Itab) = Tables
  /\ \A g : Content(BB(g)) = SUBSET GroupBlocks(g) /\ Content(IB(g)) = SUBSET GroupInodes(g)
<1>1. Content(Desc) = Descs /\ Content(Itab) = Tables
  BY PlaceFacts DEF Content
<1>2. ASSUME NEW g PROVE Content(BB(g)) = SUBSET GroupBlocks(g)
  <2>1. BB(g)[1] = "bb" /\ BB(g)[2] = g
    BY DEF BB
  <2> QED BY <2>1, PlaceFacts DEF Content
<1>3. ASSUME NEW g PROVE Content(IB(g)) = SUBSET GroupInodes(g)
  <2>1. IB(g)[1] # "bb" /\ IB(g)[2] = g
    BY DEF IB
  <2> QED BY <2>1, PlaceFacts DEF Content
<1> QED BY <1>1, <1>2, <1>3

LEMMA GroupOf ==
  ASSUME NEW n \in Nat \ {0}, NEW k \in Nat \ {0}, NEW b \in 1 .. (n * k)
  PROVE  (b - 1) \div k + 1 \in 1 .. n
<1> DEFINE a == b - 1
           q == a \div k
           r == a % k
<1>0. n * k \in Nat
  OBVIOUS
<1>1. a \in Nat /\ a < n * k
  BY <1>0
<1> HIDE DEF a
<1>2. q \in Nat /\ r \in 0 .. (k - 1) /\ a = k * q + r
  <2>1. a \in Int
    BY <1>1
  <2>2. q \in Nat
    BY <1>1, DivisionNat
  <2>3. r \in 0 .. (k - 1) /\ a = k * q + r
    BY <2>1, Division
  <2> QED BY <2>2, <2>3
<1> HIDE DEF q, r
<1>3. q < n
  <2> SUFFICES ASSUME n <= q PROVE FALSE
    BY <1>2
  <2>1. n * k <= q * k
    BY <1>2, ProductMonotone
  <2>2. q * k \in Nat /\ q * k = k * q
    BY <1>2
  <2> QED BY <1>0, <1>1, <1>2, <2>1, <2>2
<1> QED BY <1>2, <1>3 DEF q, a

LEMMA SizeFacts ==
  /\ NGroups \in Nat \ {0} /\ BlocksPer \in Nat \ {0} /\ InodesPer \in Nat \ {0}
  /\ LazyGroups \subseteq Groups
  /\ NGroups * BlocksPer \in Nat /\ NGroups * InodesPer \in Nat
  /\ CountWrap \in Nat /\ CountWrap > NGroups * BlocksPer /\ CountWrap > NGroups * InodesPer
<1>1. NGroups * BlocksPer \in Nat /\ NGroups * InodesPer \in Nat
  BY MountAssumption DEF MountSizes
<1> QED BY <1>1, MountAssumption DEF MountSizes, Groups

LEMMA GroupFacts ==
  /\ \A b \in Blocks : ext2fs_group_of_blk(b) \in Groups /\ b \in GroupBlocks(ext2fs_group_of_blk(b))
  /\ \A i \in Inodes : ext2fs_group_of_ino(i) \in Groups /\ i \in GroupInodes(ext2fs_group_of_ino(i))
  /\ \A g : GroupBlocks(g) \subseteq Blocks /\ GroupInodes(g) \subseteq Inodes
  /\ \A g, h, b : b \in GroupBlocks(g) /\ b \in GroupBlocks(h) => g = h
  /\ \A g, h, i : i \in GroupInodes(g) /\ i \in GroupInodes(h) => g = h
<1>1. \A b \in Blocks : ext2fs_group_of_blk(b) \in Groups
  BY SizeFacts, GroupOf DEF ext2fs_group_of_blk, Groups, Blocks
<1>2. \A i \in Inodes : ext2fs_group_of_ino(i) \in Groups
  BY SizeFacts, GroupOf DEF ext2fs_group_of_ino, Groups, Inodes
<1> QED BY <1>1, <1>2 DEF GroupBlocks, GroupInodes

LEMMA UsableFacts ==
  /\ Usable \subseteq Blocks /\ Lazy \subseteq Blocks /\ Usable \cap Lazy = {}
  /\ \A b \in Blocks : b \notin Lazy => b \in Usable /\ ext2fs_group_of_blk(b) \in Groups \ LazyGroups
  /\ \A b \in Usable : ext2fs_group_of_blk(b) \in Groups \ LazyGroups
  /\ \A g \in Groups \ LazyGroups : GroupBlocks(g) \subseteq Usable
  /\ \A g \in LazyGroups : GroupBlocks(g) \subseteq Lazy
  /\ Dead \notin Blocks /\ NoBlock \notin Blocks /\ Dead # NoBlock
<1>1. Usable \subseteq Blocks /\ Lazy \subseteq Blocks
  BY GroupFacts DEF Usable, Lazy
<1>2. Dead \notin Blocks /\ NoBlock \notin Blocks /\ Dead # NoBlock
  BY SizeFacts DEF Dead, NoBlock, Blocks
<1>3. \A g \in LazyGroups : g \in Groups
  BY SizeFacts
<1>4. \A b \in Usable : ext2fs_group_of_blk(b) \in Groups \ LazyGroups
  BY <1>1, GroupFacts DEF Usable
<1>5. \A b \in Lazy : ext2fs_group_of_blk(b) \in LazyGroups
  BY <1>1, GroupFacts DEF Lazy
<1>6. \A b \in Blocks : b \notin Lazy => b \in Usable /\ ext2fs_group_of_blk(b) \in Groups \ LazyGroups
  BY GroupFacts DEF Lazy, Usable
<1> QED BY <1>1, <1>2, <1>4, <1>5, <1>6 DEF Usable, Lazy

LEMMA FirstNumbers ==
  ASSUME NEW n \in Nat
  PROVE  IsFiniteSet(1 .. n) /\ Cardinality(1 .. n) = n
<1>1. 1 \in Int /\ n \in Int
  OBVIOUS
<1>2. IsFiniteSet(1 .. n) /\ Cardinality(1 .. n) = IF 1 > n THEN 0 ELSE n - 1 + 1
  BY <1>1, FS_Interval, Zenon
<1> QED BY <1>2

(* A set of blocks or inodes is finite and its size does not wrap.         *)
LEMMA SmallSets ==
  ASSUME NEW S, S \subseteq Blocks \/ S \subseteq Inodes
  PROVE  IsFiniteSet(S) /\ Cardinality(S) \in Nat /\ Cardinality(S) < CountWrap
<1>1. IsFiniteSet(Blocks) /\ Cardinality(Blocks) = NGroups * BlocksPer
  BY SizeFacts, FirstNumbers DEF Blocks
<1>2. IsFiniteSet(Inodes) /\ Cardinality(Inodes) = NGroups * InodesPer
  BY SizeFacts, FirstNumbers DEF Inodes
<1>3. CASE S \subseteq Blocks
  <2>1. IsFiniteSet(S) /\ Cardinality(S) <= Cardinality(Blocks)
    BY <1>1, <1>3, FS_Subset
  <2>2. Cardinality(S) \in Nat
    BY <2>1, FS_CardinalityType
  <2> QED BY <1>1, <2>1, <2>2, SizeFacts
<1>4. CASE S \subseteq Inodes
  <2>1. IsFiniteSet(S) /\ Cardinality(S) <= Cardinality(Inodes)
    BY <1>2, <1>4, FS_Subset
  <2>2. Cardinality(S) \in Nat
    BY <2>1, FS_CardinalityType
  <2> QED BY <1>2, <2>1, <2>2, SizeFacts
<1> QED BY <1>3, <1>4

LEMMA CountType ==
  ASSUME NEW n \in Int
  PROVE  Count(n) \in Nat /\ (0 <= n /\ n < CountWrap => Count(n) = n)
<1>1. CountWrap \in Nat \ {0}
  BY SizeFacts
<1>2. n % CountWrap \in 0 .. (CountWrap - 1)
  BY <1>1, Division
<1>3. 0 <= n /\ n < CountWrap => n % CountWrap = n
  BY <1>1
<1> QED BY <1>1, <1>2, <1>3 DEF Count

(* A count that takes part in an allocation or a release.                  *)
LEMMA CountTaken ==
  ASSUME NEW S, S \subseteq Blocks \/ S \subseteq Inodes, NEW used, NEW x \in S, x \notin used
  PROVE  Count(Cardinality(S \ used) - 1) = Cardinality(S \ (used \cup {x}))
<1> DEFINE A == S \ used
           B == S \ (used \cup {x})
<1>1. /\ IsFiniteSet(A) /\ Cardinality(A) \in Nat /\ Cardinality(A) < CountWrap
      /\ IsFiniteSet(B) /\ Cardinality(B) \in Nat /\ Cardinality(B) < CountWrap
  BY SmallSets
<1>2. B = A \ {x} /\ x \in A
  OBVIOUS
<1>3. Cardinality(B) = Cardinality(A) - 1
  BY <1>1, <1>2, FS_RemoveElement
<1> HIDE DEF A, B
<1>4. Count(Cardinality(A) - 1) = Cardinality(B)
  BY <1>1, <1>3, CountType, SizeFacts
<1> QED BY <1>4 DEF A, B

LEMMA CountGiven ==
  ASSUME NEW S, S \subseteq Blocks \/ S \subseteq Inodes, NEW used, NEW x \in S, x \in used
  PROVE  Count(Cardinality(S \ used) - (-1)) = Cardinality(S \ (used \ {x}))
<1> DEFINE A == S \ used
           B == S \ (used \ {x})
<1>1. /\ IsFiniteSet(A) /\ Cardinality(A) \in Nat /\ Cardinality(A) < CountWrap
      /\ IsFiniteSet(B) /\ Cardinality(B) \in Nat /\ Cardinality(B) < CountWrap
  BY SmallSets
<1>2. B = A \cup {x} /\ x \notin A
  OBVIOUS
<1>3. Cardinality(B) = Cardinality(A) + 1
  BY <1>1, <1>2, FS_AddElement
<1> HIDE DEF A, B
<1>4. Count(Cardinality(A) - (-1)) = Cardinality(B)
  BY <1>1, <1>3, CountType, SizeFacts
<1> QED BY <1>4 DEF A, B

----------------------------------------------------------------------------
(* The process's copy of the volume.                                       *)

LEMMA InodeStats ==
  ASSUME NEW f \in Filsys, NEW i \in Inodes, NEW n \in {1, -1}, NEW r,
         r = ext2fs_inode_alloc_stats(f, i, n)
  PROVE  /\ r \in Filsys
         /\ r.state = f.state /\ r.maps = f.maps /\ r.orig = f.orig /\ r.bb = f.bb
         /\ r.flags = f.flags \cup {"DIRTY", "IB"}
         /\ r.ib = IF n > 0 THEN f.ib \cup {i} ELSE f.ib \ {i}
         /\ r.super.fb = f.super.fb /\ r.super.valid = f.super.valid
         /\ r.super.fi = Count(f.super.fi - n)
         /\ \A g \in Groups : /\ r.desc[g].fb = f.desc[g].fb
                              /\ r.desc[g].fi = IF i \in GroupInodes(g)
                                                THEN Count(f.desc[g].fi - n) ELSE f.desc[g].fi
<1> DEFINE h == ext2fs_group_of_ino(i)
           d == [f.desc EXCEPT ![h].fi = Count(@ - n)]
           s == [f.super EXCEPT !.fi = Count(@ - n)]
           m == IF n > 0 THEN f.ib \cup {i} ELSE f.ib \ {i}
           l == f.flags \cup {"DIRTY", "IB"}
<1>1. h \in Groups /\ \A g \in Groups : i \in GroupInodes(g) <=> g = h
  BY GroupFacts
<1> HIDE DEF h
<1>2. f.desc \in Descs /\ f.super \in Supers /\ f.ib \subseteq Inodes /\ f.flags \subseteq {"DIRTY", "BB", "IB"}
  BY DEF Filsys
<1>3. \A g \in Groups : f.desc[g] \in [fb : Nat, fi : Nat]
  BY <1>2 DEF Descs
<1>4. Count(f.desc[h].fi - n) \in Nat /\ Count(f.super.fi - n) \in Nat
  <2>1. f.desc[h].fi \in Nat /\ f.super.fi \in Nat
    BY <1>1, <1>2, <1>3 DEF Supers
  <2>2. f.desc[h].fi - n \in Int /\ f.super.fi - n \in Int
    BY <2>1
  <2> QED BY <2>2, CountType
<1>5. /\ d \in Descs
      /\ \A g \in Groups : d[g].fb = f.desc[g].fb
      /\ \A g \in Groups : d[g].fi = IF g = h THEN Count(f.desc[g].fi - n) ELSE f.desc[g].fi
  BY <1>1, <1>2, <1>3, <1>4 DEF Descs
<1>6. s \in Supers /\ s.fb = f.super.fb /\ s.valid = f.super.valid /\ s.fi = Count(f.super.fi - n)
  BY <1>2, <1>4 DEF Supers
<1>7. m \subseteq Inodes /\ l \subseteq {"DIRTY", "BB", "IB"}
  BY <1>2
<1>8. r = [f EXCEPT !.ib = m, !.desc = d, !.super = s, !.flags = l]
  BY DEF ext2fs_inode_alloc_stats, Filsys, h
<1> HIDE DEF d, s, m, l
<1>9. /\ r \in Filsys
      /\ r.state = f.state /\ r.maps = f.maps /\ r.orig = f.orig /\ r.bb = f.bb
      /\ r.flags = l /\ r.ib = m /\ r.super = s /\ r.desc = d
  <2>1. r \in Filsys
    <3> DEFINE e == [f EXCEPT !.ib = m, !.desc = d]
               A == {"down", "nofs", "up", "closing"}
               B == {{}, {"ib"}, {"ib", "bb"}}
               C == SUBSET {"DIRTY", "BB", "IB"}
               D == SUBSET Blocks
               E == SUBSET Inodes
    <3>1. r = [e EXCEPT !.super = s, !.flags = l]
      BY <1>8, Zenon
    <3>2. e \in Filsys
      BY <1>5, <1>7, Zenon DEF Filsys
    <3>3. l \in C
      BY <1>7
    <3>4. Filsys = [state : A, maps : B, super : Supers, orig : Supers, desc : Descs,
                    bb : D, ib : E, flags : C]
      BY Zenon DEF Filsys
    <3> HIDE DEF e, A, B, C, D, E
    <3> QED BY <1>6, <3>1, <3>2, <3>3, <3>4
  <2>2. r.state = f.state /\ r.maps = f.maps /\ r.orig = f.orig /\ r.bb = f.bb
    BY <1>8 DEF Filsys
  <2>3. r.flags = l /\ r.ib = m /\ r.super = s /\ r.desc = d
    BY <1>8 DEF Filsys
  <2> QED BY <2>1, <2>2, <2>3
<1> QED BY <1>1, <1>5, <1>6, <1>9 DEF m, l

LEMMA BlockStats ==
  ASSUME NEW f \in Filsys, NEW b \in Blocks, NEW n \in {1, -1}, NEW r,
         r = ext2fs_block_alloc_stats(f, b, n)
  PROVE  /\ r \in Filsys
         /\ r.state = f.state /\ r.maps = f.maps /\ r.orig = f.orig /\ r.ib = f.ib
         /\ r.flags = f.flags \cup {"DIRTY", "BB"}
         /\ r.bb = IF n > 0 THEN f.bb \cup {b} ELSE f.bb \ {b}
         /\ r.super.fi = f.super.fi /\ r.super.valid = f.super.valid
         /\ r.super.fb = Count(f.super.fb - n)
         /\ \A g \in Groups : /\ r.desc[g].fi = f.desc[g].fi
                              /\ r.desc[g].fb = IF b \in GroupBlocks(g)
                                                THEN Count(f.desc[g].fb - n) ELSE f.desc[g].fb
<1> DEFINE h == ext2fs_group_of_blk(b)
           d == [f.desc EXCEPT ![h].fb = Count(@ - n)]
           s == [f.super EXCEPT !.fb = Count(@ - n)]
           m == IF n > 0 THEN f.bb \cup {b} ELSE f.bb \ {b}
           l == f.flags \cup {"DIRTY", "BB"}
<1>1. h \in Groups /\ \A g \in Groups : b \in GroupBlocks(g) <=> g = h
  BY GroupFacts
<1> HIDE DEF h
<1>2. f.desc \in Descs /\ f.super \in Supers /\ f.bb \subseteq Blocks /\ f.flags \subseteq {"DIRTY", "BB", "IB"}
  BY DEF Filsys
<1>3. \A g \in Groups : f.desc[g] \in [fb : Nat, fi : Nat]
  BY <1>2 DEF Descs
<1>4. Count(f.desc[h].fb - n) \in Nat /\ Count(f.super.fb - n) \in Nat
  <2>1. f.desc[h].fb \in Nat /\ f.super.fb \in Nat
    BY <1>1, <1>2, <1>3 DEF Supers
  <2>2. f.desc[h].fb - n \in Int /\ f.super.fb - n \in Int
    BY <2>1
  <2> QED BY <2>2, CountType
<1>5. /\ d \in Descs
      /\ \A g \in Groups : d[g].fi = f.desc[g].fi
      /\ \A g \in Groups : d[g].fb = IF g = h THEN Count(f.desc[g].fb - n) ELSE f.desc[g].fb
  BY <1>1, <1>2, <1>3, <1>4 DEF Descs
<1>6. s \in Supers /\ s.fi = f.super.fi /\ s.valid = f.super.valid /\ s.fb = Count(f.super.fb - n)
  BY <1>2, <1>4 DEF Supers
<1>7. m \subseteq Blocks /\ l \subseteq {"DIRTY", "BB", "IB"}
  BY <1>2
<1>8. r = [f EXCEPT !.bb = m, !.desc = d, !.super = s, !.flags = l]
  BY DEF ext2fs_block_alloc_stats, Filsys, h
<1> HIDE DEF d, s, m, l
<1>9. /\ r \in Filsys
      /\ r.state = f.state /\ r.maps = f.maps /\ r.orig = f.orig /\ r.ib = f.ib
      /\ r.flags = l /\ r.bb = m /\ r.super = s /\ r.desc = d
  <2>1. r \in Filsys
    <3> DEFINE e == [f EXCEPT !.bb = m, !.desc = d]
               A == {"down", "nofs", "up", "closing"}
               B == {{}, {"ib"}, {"ib", "bb"}}
               C == SUBSET {"DIRTY", "BB", "IB"}
               D == SUBSET Blocks
               E == SUBSET Inodes
    <3>1. r = [e EXCEPT !.super = s, !.flags = l]
      BY <1>8, Zenon
    <3>2. e \in Filsys
      BY <1>5, <1>7, Zenon DEF Filsys
    <3>3. l \in C
      BY <1>7
    <3>4. Filsys = [state : A, maps : B, super : Supers, orig : Supers, desc : Descs,
                    bb : D, ib : E, flags : C]
      BY Zenon DEF Filsys
    <3> HIDE DEF e, A, B, C, D, E
    <3> QED BY <1>6, <3>1, <3>2, <3>3, <3>4
  <2>2. r.state = f.state /\ r.maps = f.maps /\ r.orig = f.orig /\ r.ib = f.ib
    BY <1>8 DEF Filsys
  <2>3. r.flags = l /\ r.bb = m /\ r.super = s /\ r.desc = d
    BY <1>8 DEF Filsys
  <2> QED BY <2>1, <2>2, <2>3
<1> QED BY <1>1, <1>5, <1>6, <1>9 DEF m, l

LEMMA DownIs ==
  /\ Down \in Filsys /\ Down.state = "down" /\ Down.maps = {} /\ Down.flags = {}
  /\ [Down EXCEPT !.state = "nofs"] \in Filsys
  /\ [Down EXCEPT !.state = "nofs"].state = "nofs"
  /\ [Down EXCEPT !.state = "nofs"].maps = {}
  /\ [Down EXCEPT !.state = "nofs"].flags = {}
BY DEF Down, Filsys, Supers, Descs

----------------------------------------------------------------------------
(* What a read through the channel returns.                                *)

SameView == \A p \in Places : Seen(p)' = Seen(p)

LEMMA SeenIs ==
  ASSUME Typed
  PROVE  /\ \A p \in Places : Seen(p) \in Content(p)
         /\ Seen(Itab) \in Tables /\ Seen(Desc) \in Descs
         /\ \A g \in Groups : Seen(BB(g)) \subseteq GroupBlocks(g) /\ Seen(IB(g)) \subseteq GroupInodes(g)
<1>1. \A p \in Places : Seen(p) \in Content(p)
  BY DEF Typed, ChannelTyped, Seen
<1>2. Seen(Itab) \in Tables /\ Seen(Desc) \in Descs
  BY <1>1, PlaceFacts, ContentIs
<1>3. ASSUME NEW g \in Groups PROVE Seen(BB(g)) \subseteq GroupBlocks(g) /\ Seen(IB(g)) \subseteq GroupInodes(g)
  <2>1. Seen(BB(g)) \in SUBSET GroupBlocks(g) /\ Seen(IB(g)) \in SUBSET GroupInodes(g)
    BY <1>1, PlaceFacts, ContentIs
  <2> QED BY <2>1
<1> QED BY <1>1, <1>2, <1>3

LEMMA TablesAre ==
  ASSUME NEW t \in Tables
  PROVE  OwnedBy(t) \subseteq Usable /\ LiveIn(t) \subseteq Inodes
BY DEF Tables, OwnedBy, LiveIn

LEMMA FlushView ==
  ASSUME ChannelTyped, lost \in BOOLEAN, NEW invalidate \in BOOLEAN,
         NEW refused \in SUBSET DOMAIN cache, FlushCached(invalidate, refused)
  PROVE  /\ ChannelTyped' /\ lost' \in BOOLEAN /\ (lost => lost')
         /\ ~lost' => SameView
         /\ invalidate => cache' = Empty
         /\ invalidate /\ ~lost' => \A p \in Places : dev'[p] = Seen(p)
         /\ cache = Empty => cache' = Empty /\ refused = {}
<1>1. DOMAIN dev' = Places /\ \A p \in Places : dev'[p] = IF p \in DOMAIN cache \ refused THEN cache[p] ELSE dev[p]
  BY DEF FlushCached
<1>2. lost' = (lost \/ (invalidate /\ refused # {}))
  BY DEF FlushCached
<1>3. CASE invalidate
  <2>1. cache' = Empty /\ DOMAIN cache' = {}
    BY <1>3 DEF FlushCached, Empty
  <2>2. ~lost' => refused = {}
    BY <1>2, <1>3
  <2>3. ~lost' => \A p \in Places : dev'[p] = Seen(p)
    BY <1>1, <2>2 DEF Seen
  <2>4. ~lost' => SameView
    BY <2>1, <2>3 DEF SameView, Seen
  <2>5. ChannelTyped'
    BY <1>1, <2>1 DEF ChannelTyped
  <2>6. cache = Empty => refused = {}
    BY DEF Empty
  <2> QED BY <1>2, <2>1, <2>3, <2>4, <2>5, <2>6
<1>4. CASE ~invalidate
  <2>1. cache' = [p \in refused |-> cache[p]]
    BY <1>4 DEF FlushCached
  <2>2. DOMAIN cache' = refused /\ \A p \in refused : cache'[p] = cache[p]
    BY <2>1
  <2>3. SameView
    BY <1>1, <2>2 DEF SameView, Seen
  <2>4. ChannelTyped'
    BY <1>1, <2>2 DEF ChannelTyped
  <2>5. cache = Empty => refused = {} /\ cache' = Empty
    <3>1. cache = Empty => refused = {}
      BY DEF Empty
    <3>2. refused = {} => cache' = [p \in {} |-> cache[p]]
      BY <2>1
    <3>3. [p \in {} |-> cache[p]] = [p \in {} |-> 0]
      OBVIOUS
    <3> QED BY <3>1, <3>2, <3>3 DEF Empty
  <2> QED BY <1>2, <1>4, <2>3, <2>4, <2>5
<1> QED BY <1>3, <1>4

LEMMA EvictView ==
  ASSUME ChannelTyped, lost \in BOOLEAN, NEW p \in Places, Evict(p)
  PROVE  /\ ChannelTyped' /\ lost' \in BOOLEAN /\ (lost => lost')
         /\ ~lost' => SameView
         /\ cache # Empty
<1>1. p \in DOMAIN cache /\ cache' = [q \in DOMAIN cache \ {p} |-> cache[q]]
  BY DEF Evict
<1>2. DOMAIN cache' = DOMAIN cache \ {p} /\ \A q \in DOMAIN cache' : cache'[q] = cache[q]
  BY <1>1
<1>3. cache # Empty
  BY <1>1 DEF Empty
<1>4. CASE dev' = [dev EXCEPT ![p] = cache[p]] /\ UNCHANGED lost
  <2>1. DOMAIN dev' = Places /\ \A q \in Places : dev'[q] = IF q = p THEN cache[p] ELSE dev[q]
    BY <1>4 DEF ChannelTyped
  <2>2. SameView
    BY <1>1, <1>2, <2>1 DEF SameView, Seen
  <2>3. ChannelTyped'
    BY <1>1, <1>2, <2>1 DEF ChannelTyped
  <2> QED BY <1>3, <1>4, <2>2, <2>3
<1>5. CASE lost' = TRUE /\ UNCHANGED dev
  <2>1. ChannelTyped'
    BY <1>2, <1>5 DEF ChannelTyped
  <2> QED BY <1>3, <1>5, <2>1
<1> QED BY <1>4, <1>5 DEF Evict

LEMMA PutView ==
  ASSUME ChannelTyped, NEW p \in Places, NEW v \in Content(p), cache' = Put(cache, p, v), UNCHANGED dev
  PROVE  /\ ChannelTyped' /\ Seen(p)' = v
         /\ \A q \in Places \ {p} : Seen(q)' = Seen(q)
<1>1. DOMAIN cache' = DOMAIN cache \cup {p}
      /\ \A q \in DOMAIN cache' : cache'[q] = IF q = p THEN v ELSE cache[q]
  BY DEF Put
<1>2. ChannelTyped'
  BY <1>1 DEF ChannelTyped
<1> QED BY <1>1, <1>2 DEF Seen, ChannelTyped

(* Blocks f put over a cache, as a read then returns them.                 *)
View(c, p) == IF p \in DOMAIN c THEN c[p] ELSE dev[p]
CacheTyped(c) == DOMAIN c \subseteq Places /\ \A p \in DOMAIN c : c[p] \in Content(p)

LEMMA PutAllView ==
  ASSUME NEW c, NEW f, CacheTyped(c), CacheTyped(f), NEW r, r = PutAll(c, f)
  PROVE  /\ CacheTyped(r)
         /\ \A p : View(r, p) = IF p \in DOMAIN f THEN f[p] ELSE View(c, p)
<1>1. DOMAIN r = DOMAIN c \cup DOMAIN f /\ \A q \in DOMAIN r : r[q] = IF q \in DOMAIN f THEN f[q] ELSE c[q]
  BY DEF PutAll
<1> QED BY <1>1 DEF CacheTyped, View

LEMMA StartFlushView ==
  ASSUME Typed, Flagged, NEW st \in {"up", "closing"}, ext2fs_flush(st)
  PROVE  /\ ChannelTyped' /\ Seen(Desc)' = fs.desc /\ Seen(Itab)' = Seen(Itab)
         /\ \A g \in Groups \ LazyGroups :
              Seen(BB(g))' = IF "BB" \in fs.flags THEN fs.bb \cap GroupBlocks(g) ELSE Seen(BB(g))
         /\ \A g \in Groups :
              Seen(IB(g))' = IF "IB" \in fs.flags THEN fs.ib \cap GroupInodes(g) ELSE Seen(IB(g))
<1> DEFINE c1 == Put(cache, Desc, fs.desc)
           fb == BlockMapBlocks(fs)
           c2 == PutAll(c1, fb)
           fi == InodeMapBlocks(fs)
           c3 == PutAll(c2, fi)
<1>1. cache' = c3 /\ dev' = dev
  BY DEF ext2fs_flush
<1>2. CacheTyped(cache) /\ fs.desc \in Content(Desc)
  BY ContentIs DEF Typed, ChannelTyped, CacheTyped, Filsys
<1>3. CacheTyped(c1) /\ \A p : View(c1, p) = IF p = Desc THEN fs.desc ELSE View(cache, p)
  <2>1. DOMAIN c1 = DOMAIN cache \cup {Desc}
        /\ \A q \in DOMAIN c1 : c1[q] = IF q = Desc THEN fs.desc ELSE cache[q]
    BY DEF Put
  <2> QED BY <1>2, <2>1, PlaceFacts DEF CacheTyped, View
<1> HIDE DEF c1
<1>4. /\ CacheTyped(fb)
      /\ DOMAIN fb = IF "BB" \in fs.flags THEN {BB(g) : g \in Groups \ LazyGroups} ELSE {}
      /\ \A g \in Groups \ LazyGroups : "BB" \in fs.flags => fb[BB(g)] = fs.bb \cap GroupBlocks(g)
  <2>1. CASE "BB" \in fs.flags
    <3>1. {"bb"} \subseteq fs.maps
      BY <2>1 DEF Flagged
    <3>2. fb = [p \in {"bb"} \X (Groups \ LazyGroups) |-> fs.bb \cap GroupBlocks(p[2])]
      BY <2>1, <3>1 DEF BlockMapBlocks
    <3>3. {"bb"} \X (Groups \ LazyGroups) = {BB(g) : g \in Groups \ LazyGroups}
      BY DEF BB
    <3>4. \A g : BB(g)[2] = g
      BY DEF BB
    <3>5. DOMAIN fb = {BB(g) : g \in Groups \ LazyGroups}
      BY <3>2, <3>3
    <3>6. ASSUME NEW g \in Groups \ LazyGroups
          PROVE  fb[BB(g)] = fs.bb \cap GroupBlocks(g) /\ fb[BB(g)] \in Content(BB(g)) /\ BB(g) \in Places
      <4>1. fb[BB(g)] = fs.bb \cap GroupBlocks(g)
        BY <3>2, <3>3, <3>4
      <4> QED BY <4>1, ContentIs, PlaceFacts
    <3> HIDE DEF fb
    <3> QED BY <2>1, <3>5, <3>6 DEF CacheTyped
  <2>2. CASE "BB" \notin fs.flags
    BY <2>2 DEF BlockMapBlocks, Empty, CacheTyped
  <2> QED BY <2>1, <2>2
<1> HIDE DEF fb
<1>5. CacheTyped(c2) /\ \A p : View(c2, p) = IF p \in DOMAIN fb THEN fb[p] ELSE View(c1, p)
  BY <1>3, <1>4, PutAllView
<1> HIDE DEF c2
<1>6. /\ CacheTyped(fi)
      /\ DOMAIN fi = IF "IB" \in fs.flags THEN {IB(g) : g \in Groups} ELSE {}
      /\ \A g \in Groups : "IB" \in fs.flags => fi[IB(g)] = fs.ib \cap GroupInodes(g)
  <2>1. CASE "IB" \in fs.flags
    <3>1. {"ib"} \subseteq fs.maps
      BY <2>1 DEF Flagged
    <3>2. fi = [p \in {"ib"} \X Groups |-> fs.ib \cap GroupInodes(p[2])]
      BY <2>1, <3>1 DEF InodeMapBlocks
    <3>3. {"ib"} \X Groups = {IB(g) : g \in Groups}
      BY DEF IB
    <3>4. \A g : IB(g)[2] = g
      BY DEF IB
    <3>5. DOMAIN fi = {IB(g) : g \in Groups}
      BY <3>2, <3>3
    <3>6. ASSUME NEW g \in Groups
          PROVE  fi[IB(g)] = fs.ib \cap GroupInodes(g) /\ fi[IB(g)] \in Content(IB(g)) /\ IB(g) \in Places
      <4>1. fi[IB(g)] = fs.ib \cap GroupInodes(g)
        BY <3>2, <3>3, <3>4
      <4> QED BY <4>1, ContentIs, PlaceFacts
    <3> HIDE DEF fi
    <3> QED BY <2>1, <3>5, <3>6 DEF CacheTyped
  <2>2. CASE "IB" \notin fs.flags
    BY <2>2 DEF InodeMapBlocks, Empty, CacheTyped
  <2> QED BY <2>1, <2>2
<1> HIDE DEF fi
<1>7. CacheTyped(c3) /\ \A p : View(c3, p) = IF p \in DOMAIN fi THEN fi[p] ELSE View(c2, p)
  BY <1>5, <1>6, PutAllView
<1> HIDE DEF c3
<1>8. ChannelTyped'
  <2>1. DOMAIN cache' \subseteq Places /\ \A p \in DOMAIN cache' : cache'[p] \in Content(p)
    BY <1>1, <1>7 DEF CacheTyped
  <2> QED BY <1>1, <2>1 DEF ChannelTyped, Typed
<1>9. /\ \A p : Seen(p)' = View(c3, p)
      /\ \A p : Seen(p) = View(cache, p)
  BY <1>1 DEF Seen, View
<1>10. Desc \notin DOMAIN fb /\ Desc \notin DOMAIN fi /\ Itab \notin DOMAIN fb /\ Itab \notin DOMAIN fi
  BY <1>4, <1>6, PlaceFacts
<1>11. Seen(Desc)' = fs.desc /\ Seen(Itab)' = Seen(Itab)
  BY <1>3, <1>5, <1>7, <1>9, <1>10, PlaceFacts
<1>12. ASSUME NEW g \in Groups \ LazyGroups
       PROVE  Seen(BB(g))' = IF "BB" \in fs.flags THEN fs.bb \cap GroupBlocks(g) ELSE Seen(BB(g))
  <2>1. BB(g) \notin DOMAIN fi /\ BB(g) # Desc /\ (BB(g) \in DOMAIN fb <=> "BB" \in fs.flags)
    BY <1>4, <1>6, PlaceFacts
  <2>2. Seen(BB(g))' = IF "BB" \in fs.flags THEN fb[BB(g)] ELSE Seen(BB(g))
    BY <1>3, <1>5, <1>7, <1>9, <2>1
  <2> QED BY <1>4, <2>2
<1>13. ASSUME NEW g \in Groups
       PROVE  Seen(IB(g))' = IF "IB" \in fs.flags THEN fs.ib \cap GroupInodes(g) ELSE Seen(IB(g))
  <2>1. IB(g) \notin DOMAIN fb /\ IB(g) # Desc /\ (IB(g) \in DOMAIN fi <=> "IB" \in fs.flags)
    BY <1>4, <1>6, PlaceFacts
  <2>2. Seen(IB(g))' = IF "IB" \in fs.flags THEN fi[IB(g)] ELSE Seen(IB(g))
    BY <1>3, <1>5, <1>7, <1>9, <2>1
  <2> QED BY <1>6, <2>2
<1> QED BY <1>8, <1>11, <1>12, <1>13

LEMMA StartFlushCopy ==
  ASSUME Typed, Flagged, NEW st \in {"up", "closing"}, ext2fs_flush(st)
  PROVE  /\ fs' \in Filsys /\ fs'.state = st /\ fs'.maps = fs.maps /\ fs'.super = fs.super
         /\ fs'.orig = fs.orig /\ fs'.desc = fs.desc /\ fs'.bb = fs.bb /\ fs'.ib = fs.ib
         /\ fs'.flags = fs.flags \cap {"DIRTY"}
<1>1. fs.flags \ MapFlags(fs) = fs.flags \cap {"DIRTY"}
  <2>1. fs.flags \subseteq {"DIRTY", "BB", "IB"}
    BY DEF Typed, Filsys
  <2>2. "BB" \in fs.flags => "BB" \in MapFlags(fs)
    BY DEF Flagged, MapFlags
  <2>3. "IB" \in fs.flags => "IB" \in MapFlags(fs)
    BY DEF Flagged, MapFlags
  <2>4. "DIRTY" \notin MapFlags(fs)
    BY DEF MapFlags
  <2> QED BY <2>1, <2>2, <2>3, <2>4
<1>2. fs' = [fs EXCEPT !.flags = fs.flags \cap {"DIRTY"}, !.state = st]
  BY <1>1 DEF ext2fs_flush
<1> QED BY <1>2 DEF Typed, Filsys

----------------------------------------------------------------------------
(* Steps that move blocks to the device and leave the process's copy as it *)
(* is, but for the dirty flag and orig_super.                              *)

Quiet ==
  /\ fs'.maps = fs.maps /\ fs'.super = fs.super /\ fs'.desc = fs.desc
  /\ fs'.bb = fs.bb /\ fs'.ib = fs.ib
  /\ ("BB" \in fs'.flags <=> "BB" \in fs.flags) /\ ("IB" \in fs'.flags <=> "IB" \in fs.flags)
  /\ Open' => Open
  /\ (lost => lost') /\ (~lost' => SameView) /\ hurt' = hurt

LEMMA QuietSaved ==
  ASSUME Typed, Quiet, Saved,
         "DIRTY" \notin fs'.flags \/ pc' # "idle" => "DIRTY" \notin fs.flags \/ pc # "idle"
  PROVE  Saved'
<1> SUFFICES ASSUME Open', ~lost'
             PROVE  /\ "BB" \notin fs'.flags /\ "bb" \in fs'.maps =>
                         \A g \in Groups \ LazyGroups : Seen(BB(g))' = fs'.bb \cap GroupBlocks(g)
                    /\ "IB" \notin fs'.flags /\ "ib" \in fs'.maps =>
                         \A g \in Groups : Seen(IB(g))' = fs'.ib \cap GroupInodes(g)
                    /\ "DIRTY" \notin fs'.flags \/ pc' # "idle" => Seen(Desc)' = fs'.desc
  BY DEF Saved
<1>1. Open /\ ~lost /\ SameView
  BY DEF Quiet
<1>2. /\ "BB" \notin fs.flags /\ "bb" \in fs.maps =>
           \A g \in Groups \ LazyGroups : Seen(BB(g)) = fs.bb \cap GroupBlocks(g)
      /\ "IB" \notin fs.flags /\ "ib" \in fs.maps =>
           \A g \in Groups : Seen(IB(g)) = fs.ib \cap GroupInodes(g)
      /\ "DIRTY" \notin fs.flags \/ pc # "idle" => Seen(Desc) = fs.desc
  BY <1>1 DEF Saved
<1>3. Seen(Desc)' = Seen(Desc) /\ \A g \in Groups : Seen(BB(g))' = Seen(BB(g)) /\ Seen(IB(g))' = Seen(IB(g))
  BY <1>1, PlaceFacts DEF SameView
<1> QED BY <1>2, <1>3 DEF Quiet

LEMMA QuietAgrees ==
  ASSUME Typed, Quiet, Agrees
  PROVE  Agrees'
<1>1. SUFFICES ASSUME Open', ~lost', ~hurt' PROVE Agrees'
  BY DEF Agrees
<1>2. Open /\ ~lost /\ ~hurt /\ SameView
  BY <1>1 DEF Quiet
<1>3. Seen(Itab)' = Seen(Itab) /\ \A g \in Groups : Seen(BB(g))' = Seen(BB(g)) /\ Seen(IB(g))' = Seen(IB(g))
  BY <1>2, PlaceFacts DEF SameView
<1> DEFINE t == Seen(Itab)
<1>4. /\ OneOwner(t) /\ InodeCounts(fs.desc, fs.super, LiveIn(t))
      /\ BlockCounts(fs.desc, fs.super, OwnedBy(t))
      /\ "ib" \in fs.maps => fs.ib = LiveIn(t)
      /\ "bb" \in fs.maps => fs.bb = OwnedBy(t) \cup Lazy
      /\ "BB" \notin fs.flags =>
           \A g \in Groups \ LazyGroups : Seen(BB(g)) = OwnedBy(t) \cap GroupBlocks(g)
      /\ "IB" \notin fs.flags => \A g \in Groups : Seen(IB(g)) = LiveIn(t) \cap GroupInodes(g)
  BY <1>2 DEF Agrees
<1>5. t' = t
  BY <1>3
<1> HIDE DEF t
<1>6. /\ OneOwner(t') /\ InodeCounts(fs'.desc, fs'.super, LiveIn(t'))
      /\ BlockCounts(fs'.desc, fs'.super, OwnedBy(t'))
      /\ "ib" \in fs'.maps => fs'.ib = LiveIn(t')
      /\ "bb" \in fs'.maps => fs'.bb = OwnedBy(t') \cup Lazy
      /\ "BB" \notin fs'.flags =>
           \A g \in Groups \ LazyGroups : Seen(BB(g))' = OwnedBy(t') \cap GroupBlocks(g)
      /\ "IB" \notin fs'.flags => \A g \in Groups : Seen(IB(g))' = LiveIn(t') \cap GroupInodes(g)
  BY <1>3, <1>4, <1>5 DEF Quiet
<1> QED BY <1>6 DEF Agrees, t, OneOwner, InodeCounts, BlockCounts, LiveIn, OwnedBy

(* The parts that hold whatever fails.                                     *)
Base == Typed /\ Flagged /\ Saved

LEMMA FlushFirstStep ==
  ASSUME Base, io_channel_flush_first
  PROVE  Base' /\ Quiet
<1> USE DEF Base
<1>1. PICK refused \in SUBSET DOMAIN cache : FlushCached(FALSE, refused)
  BY DEF io_channel_flush_first
<1>2. pc = "flush" /\ pc' = "super" /\ sb' = sb /\ fs' = fs /\ hurt' = hurt
  BY DEF io_channel_flush_first
<1>3. ChannelTyped /\ lost \in BOOLEAN
  BY DEF Typed
<1>4. ChannelTyped' /\ lost' \in BOOLEAN /\ (lost => lost') /\ (~lost' => SameView)
  BY <1>1, <1>3, FlushView
<1>5. Quiet
  BY <1>2, <1>4 DEF Quiet, Open
<1>6. Open
  BY <1>2 DEF Typed
<1>7. Typed'
  BY <1>2, <1>4, <1>6 DEF Typed, Open
<1>8. Flagged'
  BY <1>2 DEF Flagged
<1>9. Saved'
  BY <1>2, <1>5, QuietSaved
<1> QED BY <1>5, <1>7, <1>8, <1>9

LEMMA FlushLastStep ==
  ASSUME Base, io_channel_flush_last
  PROVE  Base' /\ Quiet /\ fs'.orig = fs.super /\ fs'.flags = {} /\ sb' = sb /\ pc = "super_done"
         /\ pc' \in {"done", "failed"} /\ fs'.state = fs.state
<1> USE DEF Base
<1>1. PICK refused \in SUBSET DOMAIN cache : FlushCached(FALSE, refused) /\ pc' \in {"done", "failed"}
  BY DEF io_channel_flush_last
<1>2. pc = "super_done" /\ sb' = sb /\ hurt' = hurt /\ fs' = [fs EXCEPT !.orig = fs.super, !.flags = @ \ {"DIRTY"}]
  BY DEF io_channel_flush_last
<1>3. ChannelTyped /\ lost \in BOOLEAN
  BY DEF Typed
<1>4. ChannelTyped' /\ lost' \in BOOLEAN /\ (lost => lost') /\ (~lost' => SameView)
  BY <1>1, <1>3, FlushView
<1>5. fs.flags \subseteq {"DIRTY"}
  BY <1>2 DEF Flagged
<1>6. /\ fs' \in Filsys /\ fs'.state = fs.state /\ fs'.maps = fs.maps /\ fs'.super = fs.super
      /\ fs'.orig = fs.super /\ fs'.desc = fs.desc /\ fs'.bb = fs.bb /\ fs'.ib = fs.ib
      /\ fs'.flags = fs.flags \ {"DIRTY"}
  BY <1>2 DEF Typed, Filsys
<1>7. fs'.flags = {}
  BY <1>5, <1>6
<1>8. Quiet
  BY <1>2, <1>4, <1>5, <1>6, <1>7 DEF Quiet, Open
<1>9. Open
  BY <1>2 DEF Typed
<1>10. Typed'
  BY <1>1, <1>2, <1>4, <1>6, <1>9 DEF Typed, Open
<1>11. Flagged'
  BY <1>7 DEF Flagged
<1>12. Saved'
  BY <1>2, <1>8, QuietSaved
<1> QED BY <1>1, <1>2, <1>6, <1>7, <1>8, <1>10, <1>11, <1>12

LEMMA EvictStep ==
  ASSUME Base, NEW p \in Places, Evict(p)
  PROVE  Base' /\ Quiet /\ cache # Empty
<1> USE DEF Base
<1>1. sb' = sb /\ fs' = fs /\ pc' = pc /\ hurt' = hurt
  BY DEF Evict
<1>2. ChannelTyped /\ lost \in BOOLEAN
  BY DEF Typed
<1>3. /\ ChannelTyped' /\ lost' \in BOOLEAN /\ (lost => lost') /\ (~lost' => SameView)
      /\ cache # Empty
  BY <1>2, EvictView
<1>4. Quiet
  BY <1>1, <1>3 DEF Quiet, Open
<1>5. Open
  BY <1>3 DEF Typed
<1>6. Typed'
  BY <1>1, <1>3, <1>5 DEF Typed, Open
<1>7. Flagged'
  BY <1>1 DEF Flagged
<1>8. Saved'
  BY <1>1, <1>4, QuietSaved
<1> QED BY <1>3, <1>4, <1>6, <1>7, <1>8

(* One run of superblock words: either it is passed over, or it is written *)
(* once the cache is on the device, or the device refuses and the flush    *)
(* ends.                                                                   *)
WriteByteOutcome(field, next) ==
  \/ pc' = next /\ sb' = sb /\ field \notin Differs /\ cache' = cache
  \/ pc' = next /\ cache' = Empty /\ field = "wtime" /\ sb' = sb
  \/ /\ pc' = next /\ cache' = Empty /\ field # "wtime" /\ sb' = [sb EXCEPT ![field] = fs.super[field]]
     /\ ~lost' => \A p \in Places : dev'[p] = Seen(p)
  \/ pc' = "failed" /\ sb' = sb /\ (WholeSuper => cache # Empty)

LEMMA WriteByte ==
  ASSUME ChannelTyped, lost \in BOOLEAN, NEW field \in {"fb", "fi", "wtime"}, NEW next, write_byte(field, next)
  PROVE  /\ ChannelTyped' /\ lost' \in BOOLEAN /\ (lost => lost') /\ (~lost' => SameView)
         /\ fs' = fs /\ WriteByteOutcome(field, next)
<1> DEFINE wanted == field \in Differs \cup {"wtime"}
           Goal == /\ ChannelTyped' /\ lost' \in BOOLEAN /\ (lost => lost') /\ (~lost' => SameView)
                   /\ fs' = fs /\ WriteByteOutcome(field, next)
<1>1. CASE field \notin Differs /\ pc' = next /\ UNCHANGED <<dev, sb, cache, fs, ret, lost>>
  <2>1. SameView /\ ChannelTyped'
    BY <1>1 DEF SameView, Seen, ChannelTyped
  <2> QED BY <1>1, <2>1 DEF WriteByteOutcome
<1>2. CASE /\ \E refused \in (SUBSET DOMAIN cache) \ {{}} : FlushCached(TRUE, refused)
           /\ Fail /\ UNCHANGED sb
  <2>1. PICK refused \in (SUBSET DOMAIN cache) \ {{}} : FlushCached(TRUE, refused)
    BY <1>2
  <2>2. cache # Empty
    BY <2>1 DEF Empty
  <2>3. ChannelTyped' /\ lost' \in BOOLEAN /\ (lost => lost') /\ (~lost' => SameView)
    BY <2>1, FlushView
  <2> QED BY <1>2, <2>2, <2>3 DEF WriteByteOutcome, Fail
<1>3. CASE "byte" \in FaultsAt /\ FlushCached(TRUE, {}) /\ Fail /\ UNCHANGED sb
  <2>1. {} \in SUBSET DOMAIN cache
    OBVIOUS
  <2>2. ChannelTyped' /\ lost' \in BOOLEAN /\ (lost => lost') /\ (~lost' => SameView)
    BY <1>3, <2>1, FlushView
  <2> QED BY <1>3, <2>2 DEF WriteByteOutcome, Fail, WholeSuper
<1>4. CASE /\ FlushCached(TRUE, {})
           /\ sb' = IF field = "wtime" THEN sb ELSE [sb EXCEPT ![field] = fs.super[field]]
           /\ pc' = next /\ UNCHANGED <<fs, ret>>
  <2>1. {} \in SUBSET DOMAIN cache
    OBVIOUS
  <2>2. /\ ChannelTyped' /\ lost' \in BOOLEAN /\ (lost => lost') /\ (~lost' => SameView)
        /\ cache' = Empty /\ (~lost' => \A p \in Places : dev'[p] = Seen(p))
    BY <1>4, <2>1, FlushView
  <2> QED BY <1>4, <2>2 DEF WriteByteOutcome
<1> QED BY <1>1, <1>2, <1>3, <1>4 DEF write_byte


LEMMA WriteSuperStep ==
  ASSUME Base, write_primary_superblock
  PROVE  /\ Base' /\ Quiet /\ fs' = fs
         /\ \/ pc = "super" /\ WriteByteOutcome("fb", "super_fi")
            \/ pc = "super_fi" /\ WriteByteOutcome("fi", "super_wtime")
            \/ pc = "super_wtime" /\ WriteByteOutcome("wtime", "super_done")
<1> USE DEF Base
<1>1. ChannelTyped /\ lost \in BOOLEAN /\ sb \in Supers /\ fs \in Filsys
  BY DEF Typed
<1>2. hurt' = hurt
  BY DEF write_primary_superblock
<1>3. /\ ChannelTyped' /\ lost' \in BOOLEAN /\ (lost => lost') /\ (~lost' => SameView) /\ fs' = fs
      /\ \/ pc = "super" /\ WriteByteOutcome("fb", "super_fi")
         \/ pc = "super_fi" /\ WriteByteOutcome("fi", "super_wtime")
         \/ pc = "super_wtime" /\ WriteByteOutcome("wtime", "super_done")
  <2>1. CASE pc = "super" /\ write_byte("fb", "super_fi")
    BY <1>1, <2>1, WriteByte
  <2>2. CASE pc = "super_fi" /\ write_byte("fi", "super_wtime")
    BY <1>1, <2>2, WriteByte
  <2>3. CASE pc = "super_wtime" /\ write_byte("wtime", "super_done")
    BY <1>1, <2>3, WriteByte
  <2> QED BY <2>1, <2>2, <2>3 DEF write_primary_superblock
<1>4. pc # "idle" /\ pc' \in {"super_fi", "super_wtime", "super_done", "failed"}
  BY <1>3 DEF WriteByteOutcome
<1>5. sb' \in Supers
  <2>1. [sb EXCEPT !["fb"] = fs.super["fb"]] \in Supers /\ [sb EXCEPT !["fi"] = fs.super["fi"]] \in Supers
    BY <1>1 DEF Supers, Filsys
  <2> QED BY <1>1, <1>3, <2>1 DEF WriteByteOutcome
<1>6. Quiet
  BY <1>2, <1>3 DEF Quiet, Open
<1>7. Typed'
  BY <1>2, <1>3, <1>4, <1>5 DEF Typed, Open
<1>8. Flagged'
  BY <1>3, <1>4 DEF Flagged
<1>9. Saved'
  BY <1>4, <1>6, QuietSaved
<1> QED BY <1>3, <1>6, <1>7, <1>8, <1>9

(* The steps that touch neither the channel nor the copy.                  *)
LEMMA StillStep ==
  ASSUME Base, \/ op_fsync_reply \/ DeviceFails \/ DeviceRecovers \/ UNCHANGED vars
               \/ op_destroy /\ ~ext2fs_flush("closing")
  PROVE  /\ Base' /\ Quiet /\ sb' = sb /\ cache' = cache /\ dev' = dev
         /\ fs'.flags = fs.flags /\ fs'.orig = fs.orig
         /\ fs' = fs \/ (fs.state = "up" /\ fs'.state = "closing")
         /\ \/ pc' = pc
            \/ pc \in {"done", "failed"} /\ pc' = "idle"
            \/ pc = "idle" /\ pc' = "done" /\ fs.flags = {} /\ Open
<1> USE DEF Base
<1>1. dev' = dev /\ cache' = cache /\ sb' = sb /\ lost' = lost /\ hurt' = hurt
  BY DEF op_fsync_reply, DeviceFails, DeviceRecovers, op_destroy, vars
<1>2. SameView /\ ChannelTyped'
  BY <1>1 DEF SameView, Seen, Typed, ChannelTyped
<1>3. CASE fs' = fs /\ (pc' = pc \/ (pc \in {"done", "failed"} /\ pc' = "idle"))
  <2>1. Quiet
    BY <1>1, <1>2, <1>3 DEF Quiet, Open
  <2>2. Typed'
    BY <1>1, <1>2, <1>3 DEF Typed, Open
  <2>3. Flagged'
    BY <1>3 DEF Flagged
  <2>4. Saved'
    BY <1>3, <2>1, QuietSaved
  <2> QED BY <1>1, <1>3, <2>1, <2>2, <2>3, <2>4
<1>4. CASE /\ fs.state = "up" /\ pc = "idle" /\ "DIRTY" \notin fs.flags
           /\ fs' = [fs EXCEPT !.state = "closing"] /\ pc' = "done"
  <2>1. /\ fs' \in Filsys /\ fs'.state = "closing" /\ fs'.maps = fs.maps /\ fs'.super = fs.super
        /\ fs'.orig = fs.orig /\ fs'.desc = fs.desc /\ fs'.bb = fs.bb /\ fs'.ib = fs.ib
        /\ fs'.flags = fs.flags
    BY <1>4 DEF Typed, Filsys
  <2>2. fs.flags = {}
    BY <1>4 DEF Flagged
  <2>3. Open /\ Open'
    BY <1>4, <2>1 DEF Open
  <2>4. Quiet
    BY <1>1, <1>2, <2>1, <2>3 DEF Quiet
  <2>5. Typed'
    BY <1>1, <1>2, <1>4, <2>1, <2>3 DEF Typed
  <2>6. Flagged'
    BY <2>1, <2>2 DEF Flagged
  <2>7. Saved'
    BY <1>4, <2>4, QuietSaved
  <2> QED BY <1>1, <1>4, <2>1, <2>2, <2>3, <2>4, <2>5, <2>6, <2>7
<1> QED BY <1>3, <1>4 DEF op_fsync_reply, DeviceFails, DeviceRecovers, op_destroy, vars, Serving

----------------------------------------------------------------------------
(* The steps that change the copy.                                         *)

LEMMA StartFlushStep ==
  ASSUME Base, NEW st \in {"up", "closing"}, Serving, ext2fs_flush(st)
  PROVE  Base'
<1> USE DEF Base
<1>1. /\ fs' \in Filsys /\ fs'.state = st /\ fs'.maps = fs.maps /\ fs'.desc = fs.desc
      /\ fs'.bb = fs.bb /\ fs'.ib = fs.ib /\ fs'.flags = fs.flags \cap {"DIRTY"}
  BY StartFlushCopy
<1>2. pc' = "flush" /\ sb' = sb /\ lost' = lost /\ hurt' = hurt
  BY DEF ext2fs_flush
<1>3. /\ ChannelTyped' /\ Seen(Desc)' = fs.desc
      /\ \A g \in Groups \ LazyGroups :
           Seen(BB(g))' = IF "BB" \in fs.flags THEN fs.bb \cap GroupBlocks(g) ELSE Seen(BB(g))
      /\ \A g \in Groups :
           Seen(IB(g))' = IF "IB" \in fs.flags THEN fs.ib \cap GroupInodes(g) ELSE Seen(IB(g))
  BY StartFlushView
<1>4. Open /\ Open'
  BY <1>1 DEF Open, Serving
<1>5. Typed'
  BY <1>1, <1>2, <1>3, <1>4 DEF Typed
<1>6. Flagged'
  BY <1>1, <1>2 DEF Flagged
<1>7. Saved'
  <2> SUFFICES ASSUME ~lost
               PROVE  /\ "bb" \in fs.maps =>
                           \A g \in Groups \ LazyGroups : Seen(BB(g))' = fs.bb \cap GroupBlocks(g)
                      /\ "ib" \in fs.maps => \A g \in Groups : Seen(IB(g))' = fs.ib \cap GroupInodes(g)
    BY <1>1, <1>2, <1>3 DEF Saved
  <2>1. /\ "BB" \notin fs.flags /\ "bb" \in fs.maps =>
             \A g \in Groups \ LazyGroups : Seen(BB(g)) = fs.bb \cap GroupBlocks(g)
        /\ "IB" \notin fs.flags /\ "ib" \in fs.maps =>
             \A g \in Groups : Seen(IB(g)) = fs.ib \cap GroupInodes(g)
    BY <1>4 DEF Saved
  <2> QED BY <1>3, <2>1
<1> QED BY <1>5, <1>6, <1>7

LEMMA ReadMaps ==
  ASSUME ChannelTyped
  PROVE  /\ ReadBlockMap \subseteq Blocks /\ Lazy \subseteq ReadBlockMap
         /\ ReadInodeMap \subseteq Inodes
         /\ \A g \in Groups \ LazyGroups : ReadBlockMap \cap GroupBlocks(g) = dev[BB(g)]
         /\ \A g \in Groups : ReadInodeMap \cap GroupInodes(g) = dev[IB(g)]
<1>1. \A g \in Groups : dev[BB(g)] \in SUBSET GroupBlocks(g) /\ dev[IB(g)] \in SUBSET GroupInodes(g)
  BY PlaceFacts, ContentIs DEF ChannelTyped
<1>2. ReadBlockMap \subseteq Blocks /\ ReadInodeMap \subseteq Inodes
  BY <1>1, GroupFacts DEF ReadBlockMap, ReadInodeMap
<1>3. Lazy \subseteq ReadBlockMap
  BY SizeFacts DEF Lazy, ReadBlockMap
<1>4. ASSUME NEW g \in Groups \ LazyGroups PROVE ReadBlockMap \cap GroupBlocks(g) = dev[BB(g)]
  <2>1. ASSUME NEW b \in ReadBlockMap, b \in GroupBlocks(g) PROVE b \in dev[BB(g)]
    <3>1. PICK h \in Groups : b \in IF h \in LazyGroups THEN GroupBlocks(h) ELSE dev[BB(h)]
      BY DEF ReadBlockMap
    <3>2. b \in GroupBlocks(h)
      BY <1>1, <3>1
    <3>3. g = h
      BY <2>1, <3>2, GroupFacts
    <3> QED BY <3>1, <3>3
  <2>2. dev[BB(g)] \subseteq ReadBlockMap
    BY DEF ReadBlockMap
  <2> QED BY <1>1, <2>1, <2>2
<1>5. ASSUME NEW g \in Groups PROVE ReadInodeMap \cap GroupInodes(g) = dev[IB(g)]
  <2>1. ASSUME NEW i \in ReadInodeMap, i \in GroupInodes(g) PROVE i \in dev[IB(g)]
    <3>1. PICK h \in Groups : i \in dev[IB(h)]
      BY DEF ReadInodeMap
    <3>2. i \in GroupInodes(h)
      BY <1>1, <3>1
    <3>3. g = h
      BY <2>1, <3>2, GroupFacts
    <3> QED BY <3>1, <3>3
  <2>2. dev[IB(g)] \subseteq ReadInodeMap
    BY DEF ReadInodeMap
  <2> QED BY <1>1, <2>1, <2>2
<1> QED BY <1>2, <1>3, <1>4, <1>5

LEMMA OpenStep ==
  ASSUME Base, op_init
  PROVE  /\ Base' /\ fs.state = "down" /\ fs'.state = "up" /\ fs'.flags = {} /\ ~lost' /\ hurt' = hurt
         /\ fs'.super = sb /\ fs'.orig = sb /\ sb' = sb /\ dev' = dev /\ fs'.desc = dev[Desc] /\ pc' = "idle"
         /\ "bb" \in fs'.maps => fs'.bb = ReadBlockMap
         /\ "ib" \in fs'.maps => fs'.ib = ReadInodeMap
         /\ cache' = Empty /\ \A p \in Places : Seen(p)' = dev[p]
<1> USE DEF Base
<1>1. PICK maps \in {{}, {"ib"}, {"ib", "bb"}} : fs' = ext2fs_open2(maps)
  BY DEF op_init
<1>2. /\ fs.state = "down" /\ dev' = dev /\ sb' = sb /\ cache' = cache /\ pc' = pc /\ hurt' = hurt /\ ~lost'
      /\ lost' \in BOOLEAN
  BY DEF op_init
<1>3. cache = Empty /\ pc = "idle" /\ ChannelTyped /\ sb \in Supers
  BY <1>2 DEF Typed, Open
<1>4. dev[Desc] \in Descs
  BY <1>3, PlaceFacts, ContentIs DEF ChannelTyped
<1>5. /\ fs'.state = "up" /\ fs'.maps = maps /\ fs'.super = sb /\ fs'.orig = sb /\ fs'.desc = dev[Desc]
      /\ fs'.bb = (IF "bb" \in maps THEN ReadBlockMap ELSE {})
      /\ fs'.ib = (IF "ib" \in maps THEN ReadInodeMap ELSE {}) /\ fs'.flags = {}
  BY <1>1 DEF ext2fs_open2, ReadSuper, ReadDesc
<1>6. fs' \in Filsys
  <2>1. (IF "bb" \in maps THEN ReadBlockMap ELSE {}) \subseteq Blocks
        /\ (IF "ib" \in maps THEN ReadInodeMap ELSE {}) \subseteq Inodes
    BY <1>3, ReadMaps
  <2> QED BY <1>1, <1>3, <1>4, <2>1 DEF ext2fs_open2, ReadSuper, ReadDesc, Filsys
<1>7. Open'
  BY <1>5 DEF Open
<1>8. ChannelTyped' /\ \A p \in Places : Seen(p)' = dev[p]
  BY <1>2, <1>3 DEF ChannelTyped, Seen, Empty
<1>9. Lazy \subseteq ReadBlockMap
  BY <1>3, ReadMaps
<1>10. Typed'
  BY <1>2, <1>3, <1>5, <1>6, <1>7, <1>8, <1>9 DEF Typed
<1>11. Flagged'
  BY <1>2, <1>3, <1>5 DEF Flagged
<1>12. Saved'
  <2>1. Seen(Desc)' = fs'.desc
    BY <1>5, <1>8, PlaceFacts
  <2>2. "bb" \in maps => \A g \in Groups \ LazyGroups : Seen(BB(g))' = fs'.bb \cap GroupBlocks(g)
    BY <1>3, <1>5, <1>8, PlaceFacts, ReadMaps
  <2>3. "ib" \in maps => \A g \in Groups : Seen(IB(g))' = fs'.ib \cap GroupInodes(g)
    BY <1>3, <1>5, <1>8, PlaceFacts, ReadMaps
  <2> QED BY <1>5, <2>1, <2>2, <2>3 DEF Saved
<1> QED BY <1>2, <1>3, <1>5, <1>8, <1>10, <1>11, <1>12

(* A volume that ends unhurt was closed, and all of the channel reached    *)
(* the device.                                                             *)
ClosedWell ==
  /\ fs.state = "closing" /\ pc = "done" /\ ~lost /\ ~hurt /\ \A p \in Places : dev'[p] = Seen(p)

LEMMA EndStep ==
  ASSUME Base, op_init_fails \/ Crash \/ Abort \/ ext2fs_free
  PROVE  /\ Base' /\ ~Open' /\ sb' = sb
         /\ fs'.state = "down" /\ ~hurt' => ClosedWell
<1> USE DEF Base
<1>1. ChannelTyped /\ lost \in BOOLEAN /\ hurt \in BOOLEAN /\ sb \in Supers
  BY DEF Typed
<1>2. /\ ChannelTyped' /\ cache' = Empty /\ pc' = "idle" /\ lost' \in BOOLEAN /\ hurt' \in BOOLEAN /\ sb' = sb
      /\ fs' = Down \/ fs' = [Down EXCEPT !.state = "nofs"]
      /\ fs'.state = "down" /\ ~hurt' => ClosedWell
  <2>1. CASE op_init_fails
    <3>1. cache = Empty /\ pc = "idle"
      BY <2>1 DEF op_init_fails, Typed, Open
    <3>2. ChannelTyped'
      BY <1>1, <2>1 DEF op_init_fails, ChannelTyped
    <3> QED BY <1>1, <2>1, <3>1, <3>2, DownIs DEF op_init_fails
  <2>2. CASE Crash \/ Abort
    <3>1. /\ cache' = Empty /\ fs' = Down /\ pc' = "idle" /\ hurt' = TRUE /\ dev' = dev /\ sb' = sb /\ lost' = lost
      BY <2>2 DEF Crash, Abort
    <3>2. ChannelTyped'
      BY <1>1, <3>1 DEF ChannelTyped, Empty
    <3> QED BY <1>1, <3>1, <3>2
  <2>3. CASE ext2fs_free
    <3>1. fs.state = "closing" /\ fs' = Down /\ pc' = "idle" /\ sb' = sb
      BY <2>3 DEF ext2fs_free
    <3>2. CASE /\ pc = "done" /\ hurt' = (hurt \/ lost')
               /\ \E refused \in SUBSET DOMAIN cache : FlushCached(TRUE, refused)
      <4>1. PICK refused \in SUBSET DOMAIN cache : FlushCached(TRUE, refused)
        BY <3>2
      <4>2. /\ ChannelTyped' /\ lost' \in BOOLEAN /\ (lost => lost') /\ cache' = Empty
            /\ ~lost' => \A p \in Places : dev'[p] = Seen(p)
        BY <1>1, <4>1, FlushView
      <4> QED BY <1>1, <3>1, <3>2, <4>2 DEF ClosedWell
    <3>3. CASE cache' = Empty /\ lost' = TRUE /\ hurt' = TRUE /\ UNCHANGED dev
      <4>1. ChannelTyped'
        BY <1>1, <3>3 DEF ChannelTyped, Empty
      <4> QED BY <3>1, <3>3, <4>1
    <3> QED BY <2>3, <3>2, <3>3 DEF ext2fs_free
  <2> QED BY <2>1, <2>2, <2>3
<1>3. fs' \in Filsys /\ fs'.state \in {"down", "nofs"} /\ fs'.maps = {} /\ fs'.flags = {}
  BY <1>2, DownIs
<1>4. ~Open'
  BY <1>3 DEF Open
<1>5. Typed'
  BY <1>1, <1>2, <1>3, <1>4 DEF Typed
<1>6. Flagged'
  BY <1>2, <1>3 DEF Flagged
<1>7. Saved'
  BY <1>4 DEF Saved
<1> QED BY <1>2, <1>4, <1>5, <1>6, <1>7

----------------------------------------------------------------------------
(* Requests.                                                               *)

(* What the requests have in common.                                       *)
RequestStep(i, v) ==
  /\ fs.state = "up" /\ pc = "idle" /\ pc' = pc /\ dev' = dev /\ sb' = sb /\ lost' = lost /\ hurt' = hurt
  /\ fs' \in Filsys /\ fs'.state = "up" /\ fs'.maps = fs.maps /\ fs'.orig = fs.orig
  /\ fs'.super.valid = fs.super.valid
  /\ v \in {Dead, NoBlock} \cup Usable
  /\ cache' = Put(cache, Itab, [Seen(Itab) EXCEPT ![i] = v])
  /\ "DIRTY" \in fs'.flags /\ fs.flags \subseteq fs'.flags
  /\ "BB" \notin fs'.flags => fs'.bb = fs.bb
  /\ "IB" \notin fs'.flags => fs'.ib = fs.ib
  /\ "BB" \in fs'.flags => "bb" \in fs.maps
  /\ "IB" \in fs'.flags => "ib" \in fs.maps
  /\ "bb" \in fs.maps => Lazy \subseteq fs'.bb

LEMMA RequestView ==
  ASSUME Base, NEW i \in Inodes, NEW v, RequestStep(i, v)
  PROVE  /\ ChannelTyped' /\ Seen(Itab)' = [Seen(Itab) EXCEPT ![i] = v] /\ Seen(Itab)' \in Tables
         /\ \A g \in Groups : Seen(BB(g))' = Seen(BB(g)) /\ Seen(IB(g))' = Seen(IB(g))
<1> DEFINE t == [Seen(Itab) EXCEPT ![i] = v]
<1>1. ChannelTyped
  BY DEF Base, Typed
<1>2. t \in Tables
  BY SeenIs DEF Base, Tables, RequestStep
<1>3. t \in Content(Itab) /\ Itab \in Places
  BY <1>2, ContentIs, PlaceFacts
<1>4. cache' = Put(cache, Itab, t) /\ dev' = dev
  BY DEF RequestStep
<1> HIDE DEF t
<1>5. /\ ChannelTyped' /\ Seen(Itab)' = t
      /\ \A q \in Places \ {Itab} : Seen(q)' = Seen(q)
  BY <1>1, <1>3, <1>4, PutView
<1>6. \A g \in Groups : BB(g) \in Places \ {Itab} /\ IB(g) \in Places \ {Itab}
  BY PlaceFacts
<1>7. Seen(Itab)' = t /\ Seen(Itab)' \in Tables
  BY <1>2, <1>5
<1> QED BY <1>5, <1>6, <1>7 DEF t

LEMMA RequestBase ==
  ASSUME Base, NEW i \in Inodes, NEW v, RequestStep(i, v)
  PROVE  Base'
<1> USE DEF Base
<1>1. ChannelTyped' /\ \A g \in Groups : Seen(BB(g))' = Seen(BB(g)) /\ Seen(IB(g))' = Seen(IB(g))
  BY RequestView
<1>2. Open /\ Open'
  BY DEF Open, RequestStep
<1>3. Typed'
  BY <1>1, <1>2 DEF Typed, RequestStep
<1>4. Flagged'
  BY DEF Flagged, RequestStep
<1>5. Saved'
  <2> SUFFICES ASSUME ~lost
               PROVE  /\ "BB" \notin fs'.flags /\ "bb" \in fs'.maps =>
                           \A g \in Groups \ LazyGroups : Seen(BB(g))' = fs'.bb \cap GroupBlocks(g)
                      /\ "IB" \notin fs'.flags /\ "ib" \in fs'.maps =>
                           \A g \in Groups : Seen(IB(g))' = fs'.ib \cap GroupInodes(g)
    BY DEF Saved, RequestStep
  <2>1. /\ "BB" \notin fs.flags /\ "bb" \in fs.maps =>
             \A g \in Groups \ LazyGroups : Seen(BB(g)) = fs.bb \cap GroupBlocks(g)
        /\ "IB" \notin fs.flags /\ "ib" \in fs.maps =>
             \A g \in Groups : Seen(IB(g)) = fs.ib \cap GroupInodes(g)
    BY <1>2 DEF Saved
  <2> QED BY <1>1, <2>1 DEF RequestStep
<1> QED BY <1>3, <1>4, <1>5

LEMMA LowestIs ==
  ASSUME NEW S, S \subseteq Nat, S # {}
  PROVE  Lowest(S) \in S
<1>1. S \in SUBSET Nat
  OBVIOUS
<1>2. \E x \in S : \A y \in S : x <= y
  BY <1>1, LeastNat
<1> QED BY <1>2 DEF Lowest

LEMMA CreateStep ==
  ASSUME Base, op_create
  PROVE  \E i \in Inodes : /\ i \notin fs.ib /\ "ib" \in fs.maps
                           /\ fs' = ext2fs_inode_alloc_stats(fs, i, 1) /\ RequestStep(i, NoBlock)
<1> USE DEF Base
<1> DEFINE i == Lowest(FreeInodes)
<1>1. "ib" \in fs.maps /\ FreeInodes # {} /\ fs' = ext2fs_inode_alloc_stats(fs, i, 1)
      /\ cache' = Put(cache, Itab, [Seen(Itab) EXCEPT ![i] = NoBlock])
      /\ fs.state = "up" /\ pc = "idle" /\ pc' = pc /\ dev' = dev /\ sb' = sb /\ lost' = lost /\ hurt' = hurt
  BY DEF op_create, Request, Serving, ext2fs_write_inode
<1>2. FreeInodes \subseteq Nat
  BY SizeFacts DEF FreeInodes, Inodes
<1>3. i \in FreeInodes
  BY <1>1, <1>2, LowestIs
<1>4. i \in Inodes /\ i \notin fs.ib
  BY <1>3 DEF FreeInodes
<1> HIDE DEF i
<1>5. fs \in Filsys /\ 1 \in {1, -1}
  BY DEF Typed
<1>6. /\ fs' \in Filsys
      /\ fs'.state = fs.state /\ fs'.maps = fs.maps /\ fs'.orig = fs.orig /\ fs'.bb = fs.bb
      /\ fs'.flags = fs.flags \cup {"DIRTY", "IB"} /\ fs'.super.valid = fs.super.valid
  BY <1>1, <1>4, <1>5, InodeStats
<1>7. RequestStep(i, NoBlock)
  BY <1>1, <1>6 DEF RequestStep, Typed, Flagged
<1> QED BY <1>1, <1>4, <1>7

LEMMA WriteStep ==
  ASSUME Base, NEW i \in Inodes, op_write(i)
  PROVE  \E b \in Blocks : /\ b \notin fs.bb /\ b \in Usable /\ "bb" \in fs.maps /\ Seen(Itab)[i] = NoBlock
                           /\ fs' = ext2fs_block_alloc_stats(fs, b, 1) /\ RequestStep(i, b)
<1> USE DEF Base
<1> DEFINE b == Lowest(FreeBlocks)
<1>1. "bb" \in fs.maps /\ FreeBlocks # {} /\ fs' = ext2fs_block_alloc_stats(fs, b, 1)
      /\ cache' = Put(cache, Itab, [Seen(Itab) EXCEPT ![i] = b])
      /\ fs.state = "up" /\ pc = "idle" /\ pc' = pc /\ dev' = dev /\ sb' = sb /\ lost' = lost /\ hurt' = hurt
      /\ Seen(Itab)[i] = NoBlock
  BY DEF op_write, Request, Serving, ext2fs_write_inode
<1>2. FreeBlocks \subseteq Nat
  BY SizeFacts DEF FreeBlocks, Blocks
<1>3. b \in FreeBlocks
  BY <1>1, <1>2, LowestIs
<1>4. b \in Blocks /\ b \notin fs.bb
  BY <1>3 DEF FreeBlocks
<1>5. b \in Usable
  BY <1>1, <1>4, UsableFacts DEF Typed
<1> HIDE DEF b
<1>6. fs \in Filsys /\ 1 \in {1, -1}
  BY DEF Typed
<1>7. /\ fs' \in Filsys
      /\ fs'.state = fs.state /\ fs'.maps = fs.maps /\ fs'.orig = fs.orig /\ fs'.ib = fs.ib
      /\ fs'.flags = fs.flags \cup {"DIRTY", "BB"} /\ fs'.super.valid = fs.super.valid
      /\ fs'.bb = fs.bb \cup {b}
  BY <1>1, <1>4, <1>6, BlockStats
<1>8. RequestStep(i, b)
  BY <1>1, <1>5, <1>7 DEF RequestStep, Typed, Flagged
<1> QED BY <1>1, <1>4, <1>5, <1>8

LEMMA UnlinkStep ==
  ASSUME Base, NEW i \in Inodes, op_unlink(i)
  PROVE  /\ "ib" \in fs.maps /\ Seen(Itab)[i] # Dead /\ RequestStep(i, Dead)
         /\ \E f \in Filsys :
              /\ fs' = ext2fs_inode_alloc_stats(f, i, -1)
              /\ \/ Seen(Itab)[i] = NoBlock /\ f = fs
                 \/ /\ Seen(Itab)[i] \in Usable /\ "bb" \in fs.maps
                    /\ f = ext2fs_block_alloc_stats(fs, Seen(Itab)[i], -1)
<1> USE DEF Base
<1> DEFINE b == Seen(Itab)[i]
           f == IF b = NoBlock THEN fs ELSE ext2fs_block_alloc_stats(fs, b, -1)
<1>1. /\ "ib" \in fs.maps /\ b # Dead /\ (b # NoBlock => "bb" \in fs.maps)
      /\ fs' = ext2fs_inode_alloc_stats(f, i, -1)
      /\ cache' = Put(cache, Itab, [Seen(Itab) EXCEPT ![i] = Dead])
      /\ fs.state = "up" /\ pc = "idle" /\ pc' = pc /\ dev' = dev /\ sb' = sb /\ lost' = lost /\ hurt' = hurt
  BY DEF op_unlink, Request, Serving, ext2fs_write_inode
<1>2. b = NoBlock \/ b \in Usable
  BY <1>1, SeenIs DEF Tables
<1> HIDE DEF b
<1>3. fs \in Filsys /\ -1 \in {1, -1} /\ ~(-1 > 0)
  BY DEF Typed
<1>4. b # NoBlock => b \in Usable /\ b \in Blocks /\ b \notin Lazy
  BY <1>2, UsableFacts
<1>5. /\ f \in Filsys
      /\ f.state = fs.state /\ f.maps = fs.maps /\ f.orig = fs.orig /\ f.super.valid = fs.super.valid
      /\ "bb" \in fs.maps => Lazy \subseteq f.bb
      /\ \/ f.flags = fs.flags /\ f.bb = fs.bb
         \/ f.flags = fs.flags \cup {"DIRTY", "BB"} /\ "bb" \in fs.maps
  <2>1. CASE b = NoBlock
    BY <1>3, <2>1 DEF Typed
  <2>2. CASE b # NoBlock
    <3>1. f = ext2fs_block_alloc_stats(fs, b, -1) /\ b \in Blocks
      BY <1>4, <2>2
    <3> HIDE DEF f
    <3>2. /\ f \in Filsys
          /\ f.state = fs.state /\ f.maps = fs.maps /\ f.orig = fs.orig /\ f.super.valid = fs.super.valid
          /\ f.flags = fs.flags \cup {"DIRTY", "BB"} /\ f.bb = fs.bb \ {b}
      BY <1>3, <3>1, BlockStats
    <3>3. "bb" \in fs.maps => Lazy \subseteq f.bb
      BY <1>4, <2>2, <3>2 DEF Typed
    <3> QED BY <1>1, <2>2, <3>2, <3>3
  <2> QED BY <2>1, <2>2
<1>6. \/ b = NoBlock /\ f = fs
      \/ b \in Usable /\ "bb" \in fs.maps /\ f = ext2fs_block_alloc_stats(fs, b, -1)
  BY <1>1, <1>4
<1> HIDE DEF f
<1>7. /\ fs' \in Filsys
      /\ fs'.state = f.state /\ fs'.maps = f.maps /\ fs'.orig = f.orig /\ fs'.bb = f.bb
      /\ fs'.flags = f.flags \cup {"DIRTY", "IB"} /\ fs'.super.valid = f.super.valid
  BY <1>1, <1>3, <1>5, InodeStats
<1>8. RequestStep(i, Dead)
  BY <1>1, <1>5, <1>7 DEF RequestStep, Flagged
<1> QED BY <1>1, <1>5, <1>6, <1>8 DEF b

----------------------------------------------------------------------------
(* What the requests do to the table and to the counts.                    *)

LEMMA TableCreate ==
  ASSUME NEW t \in Tables, NEW i \in Inodes, t[i] = Dead, OneOwner(t), NEW u, u = [t EXCEPT ![i] = NoBlock]
  PROVE  LiveIn(u) = LiveIn(t) \cup {i} /\ OwnedBy(u) = OwnedBy(t) /\ OneOwner(u)
<1>1. \A j \in Inodes : u[j] = IF j = i THEN NoBlock ELSE t[j]
  BY DEF Tables
<1>2. LiveIn(u) = LiveIn(t) \cup {i}
  BY <1>1, UsableFacts DEF LiveIn
<1>3. OwnedBy(u) = OwnedBy(t)
  BY <1>1 DEF OwnedBy
<1>4. OneOwner(u)
  BY <1>1 DEF OneOwner
<1> QED BY <1>2, <1>3, <1>4

LEMMA TableWrite ==
  ASSUME NEW t \in Tables, NEW i \in Inodes, t[i] = NoBlock, OneOwner(t),
         NEW b \in Usable, b \notin OwnedBy(t), NEW u, u = [t EXCEPT ![i] = b]
  PROVE  LiveIn(u) = LiveIn(t) /\ OwnedBy(u) = OwnedBy(t) \cup {b} /\ OneOwner(u)
<1>1. \A j \in Inodes : u[j] = IF j = i THEN b ELSE t[j]
  BY DEF Tables
<1>2. b # Dead /\ b # NoBlock /\ Dead # NoBlock
  BY UsableFacts
<1>3. LiveIn(u) = LiveIn(t)
  BY <1>1, <1>2 DEF LiveIn
<1>4. OwnedBy(u) = OwnedBy(t) \cup {b}
  BY <1>1, <1>2 DEF OwnedBy
<1>5. \A j \in Inodes : t[j] # b
  BY <1>2 DEF OwnedBy
<1>6. OneOwner(u)
  BY <1>1, <1>5 DEF OneOwner
<1> QED BY <1>3, <1>4, <1>6

LEMMA TableUnlink ==
  ASSUME NEW t \in Tables, NEW i \in Inodes, t[i] # Dead, OneOwner(t), NEW u, u = [t EXCEPT ![i] = Dead]
  PROVE  LiveIn(u) = LiveIn(t) \ {i} /\ OwnedBy(u) = OwnedBy(t) \ {t[i]} /\ OneOwner(u)
<1>1. \A j \in Inodes : u[j] = IF j = i THEN Dead ELSE t[j]
  BY DEF Tables
<1>2. LiveIn(u) = LiveIn(t) \ {i}
  BY <1>1 DEF LiveIn
<1>3. OneOwner(u)
  BY <1>1 DEF OneOwner
<1>4. ASSUME NEW x \in OwnedBy(u) PROVE x \in OwnedBy(t) /\ x # t[i]
  <2>1. PICK j \in Inodes : x = u[j] /\ x # Dead /\ x # NoBlock
    BY DEF OwnedBy
  <2>2. j # i /\ x = t[j]
    BY <1>1, <2>1
  <2> QED BY <2>1, <2>2 DEF OwnedBy, OneOwner
<1>5. ASSUME NEW x \in OwnedBy(t), x # t[i] PROVE x \in OwnedBy(u)
  BY <1>1, <1>5 DEF OwnedBy
<1> QED BY <1>2, <1>3, <1>4, <1>5

LEMMA InodeTaken ==
  ASSUME NEW f \in Filsys, NEW i \in Inodes, NEW r, r = ext2fs_inode_alloc_stats(f, i, 1),
         NEW live, i \notin live, InodeCounts(f.desc, f.super, live)
  PROVE  InodeCounts(r.desc, r.super, live \cup {i})
<1>1. /\ r.super.fi = Count(f.super.fi - 1)
      /\ \A g \in Groups : r.desc[g].fi = IF i \in GroupInodes(g) THEN Count(f.desc[g].fi - 1) ELSE f.desc[g].fi
  BY InodeStats
<1>2. f.super.fi = Cardinality(Inodes \ live) /\ \A g \in Groups : f.desc[g].fi = Cardinality(GroupInodes(g) \ live)
  BY DEF InodeCounts
<1>3. r.super.fi = Cardinality(Inodes \ (live \cup {i}))
  BY <1>1, <1>2, CountTaken
<1>4. ASSUME NEW g \in Groups PROVE r.desc[g].fi = Cardinality(GroupInodes(g) \ (live \cup {i}))
  <2>1. CASE i \in GroupInodes(g)
    <3>1. GroupInodes(g) \subseteq Inodes
      BY GroupFacts
    <3>2. Count(Cardinality(GroupInodes(g) \ live) - 1) = Cardinality(GroupInodes(g) \ (live \cup {i}))
      BY <2>1, <3>1, CountTaken
    <3> QED BY <1>1, <1>2, <2>1, <3>2
  <2>2. CASE i \notin GroupInodes(g)
    <3>1. GroupInodes(g) \ (live \cup {i}) = GroupInodes(g) \ live
      BY <2>2
    <3> QED BY <1>1, <1>2, <2>2, <3>1
  <2> QED BY <2>1, <2>2
<1> QED BY <1>3, <1>4 DEF InodeCounts

LEMMA InodeGiven ==
  ASSUME NEW f \in Filsys, NEW i \in Inodes, NEW r, r = ext2fs_inode_alloc_stats(f, i, -1),
         NEW live, i \in live, InodeCounts(f.desc, f.super, live)
  PROVE  InodeCounts(r.desc, r.super, live \ {i})
<1>0. -1 \in {1, -1}
  OBVIOUS
<1>1. /\ r.super.fi = Count(f.super.fi - (-1))
      /\ \A g \in Groups : r.desc[g].fi = IF i \in GroupInodes(g) THEN Count(f.desc[g].fi - (-1)) ELSE f.desc[g].fi
  BY <1>0, InodeStats
<1>2. f.super.fi = Cardinality(Inodes \ live) /\ \A g \in Groups : f.desc[g].fi = Cardinality(GroupInodes(g) \ live)
  BY DEF InodeCounts
<1>3. r.super.fi = Cardinality(Inodes \ (live \ {i}))
  BY <1>1, <1>2, CountGiven
<1>4. ASSUME NEW g \in Groups PROVE r.desc[g].fi = Cardinality(GroupInodes(g) \ (live \ {i}))
  <2>1. CASE i \in GroupInodes(g)
    <3>1. GroupInodes(g) \subseteq Inodes
      BY GroupFacts
    <3>2. Count(Cardinality(GroupInodes(g) \ live) - (-1)) = Cardinality(GroupInodes(g) \ (live \ {i}))
      BY <2>1, <3>1, CountGiven
    <3> QED BY <1>1, <1>2, <2>1, <3>2
  <2>2. CASE i \notin GroupInodes(g)
    <3>1. GroupInodes(g) \ (live \ {i}) = GroupInodes(g) \ live
      BY <2>2
    <3> QED BY <1>1, <1>2, <2>2, <3>1
  <2> QED BY <2>1, <2>2
<1> QED BY <1>3, <1>4 DEF InodeCounts

LEMMA BlockTaken ==
  ASSUME NEW f \in Filsys, NEW b \in Usable, NEW r, r = ext2fs_block_alloc_stats(f, b, 1),
         NEW owned, b \notin owned, BlockCounts(f.desc, f.super, owned)
  PROVE  BlockCounts(r.desc, r.super, owned \cup {b})
<1>1. b \in Blocks /\ Usable \subseteq Blocks
  BY UsableFacts
<1>2. /\ r.super.fb = Count(f.super.fb - 1)
      /\ \A g \in Groups : r.desc[g].fb = IF b \in GroupBlocks(g) THEN Count(f.desc[g].fb - 1) ELSE f.desc[g].fb
  BY <1>1, BlockStats
<1>3. /\ f.super.fb = Cardinality(Usable \ owned)
      /\ \A g \in Groups \ LazyGroups : f.desc[g].fb = Cardinality(GroupBlocks(g) \ owned)
  BY DEF BlockCounts
<1>4. r.super.fb = Cardinality(Usable \ (owned \cup {b}))
  BY <1>1, <1>2, <1>3, CountTaken
<1>5. ASSUME NEW g \in Groups \ LazyGroups PROVE r.desc[g].fb = Cardinality(GroupBlocks(g) \ (owned \cup {b}))
  <2>1. CASE b \in GroupBlocks(g)
    <3>1. GroupBlocks(g) \subseteq Blocks
      BY GroupFacts
    <3>2. Count(Cardinality(GroupBlocks(g) \ owned) - 1) = Cardinality(GroupBlocks(g) \ (owned \cup {b}))
      BY <2>1, <3>1, CountTaken
    <3> QED BY <1>2, <1>3, <2>1, <3>2
  <2>2. CASE b \notin GroupBlocks(g)
    <3>1. GroupBlocks(g) \ (owned \cup {b}) = GroupBlocks(g) \ owned
      BY <2>2
    <3> QED BY <1>2, <1>3, <2>2, <3>1
  <2> QED BY <2>1, <2>2
<1> QED BY <1>4, <1>5 DEF BlockCounts

LEMMA BlockGiven ==
  ASSUME NEW f \in Filsys, NEW b \in Usable, NEW r, r = ext2fs_block_alloc_stats(f, b, -1),
         NEW owned, b \in owned, BlockCounts(f.desc, f.super, owned)
  PROVE  BlockCounts(r.desc, r.super, owned \ {b})
<1>0. -1 \in {1, -1}
  OBVIOUS
<1>1. b \in Blocks /\ Usable \subseteq Blocks
  BY UsableFacts
<1>2. /\ r.super.fb = Count(f.super.fb - (-1))
      /\ \A g \in Groups : r.desc[g].fb = IF b \in GroupBlocks(g) THEN Count(f.desc[g].fb - (-1)) ELSE f.desc[g].fb
  BY <1>0, <1>1, BlockStats
<1>3. /\ f.super.fb = Cardinality(Usable \ owned)
      /\ \A g \in Groups \ LazyGroups : f.desc[g].fb = Cardinality(GroupBlocks(g) \ owned)
  BY DEF BlockCounts
<1>4. r.super.fb = Cardinality(Usable \ (owned \ {b}))
  BY <1>1, <1>2, <1>3, CountGiven
<1>5. ASSUME NEW g \in Groups \ LazyGroups PROVE r.desc[g].fb = Cardinality(GroupBlocks(g) \ (owned \ {b}))
  <2>1. CASE b \in GroupBlocks(g)
    <3>1. GroupBlocks(g) \subseteq Blocks
      BY GroupFacts
    <3>2. Count(Cardinality(GroupBlocks(g) \ owned) - (-1)) = Cardinality(GroupBlocks(g) \ (owned \ {b}))
      BY <2>1, <3>1, CountGiven
    <3> QED BY <1>2, <1>3, <2>1, <3>2
  <2>2. CASE b \notin GroupBlocks(g)
    <3>1. GroupBlocks(g) \ (owned \ {b}) = GroupBlocks(g) \ owned
      BY <2>2
    <3> QED BY <1>2, <1>3, <2>2, <3>1
  <2> QED BY <2>1, <2>2
<1> QED BY <1>4, <1>5 DEF BlockCounts

----------------------------------------------------------------------------
(* The copy and the table agree after every step.                          *)

AgreesWith(f, t) ==
  /\ OneOwner(t) /\ InodeCounts(f.desc, f.super, LiveIn(t)) /\ BlockCounts(f.desc, f.super, OwnedBy(t))
  /\ "ib" \in f.maps => f.ib = LiveIn(t)
  /\ "bb" \in f.maps => f.bb = OwnedBy(t) \cup Lazy
MapsAgree(t) ==
  /\ "BB" \notin fs.flags =>
       \A g \in Groups \ LazyGroups : Seen(BB(g)) = OwnedBy(t) \cap GroupBlocks(g)
  /\ "IB" \notin fs.flags => \A g \in Groups : Seen(IB(g)) = LiveIn(t) \cap GroupInodes(g)

LEMMA AgreesIs ==
  Agrees <=> (Open /\ ~lost /\ ~hurt => AgreesWith(fs, Seen(Itab)) /\ MapsAgree(Seen(Itab)))
BY DEF Agrees, AgreesWith, MapsAgree

LEMMA AgreesNext ==
  ASSUME NEW u, u = Seen(Itab)',
         Open' /\ ~lost' /\ ~hurt' =>
           /\ AgreesWith(fs', u)
           /\ "BB" \notin fs'.flags =>
                \A g \in Groups \ LazyGroups : Seen(BB(g))' = OwnedBy(u) \cap GroupBlocks(g)
           /\ "IB" \notin fs'.flags => \A g \in Groups : Seen(IB(g))' = LiveIn(u) \cap GroupInodes(g)
  PROVE  Agrees'
BY DEF Agrees, AgreesWith, OneOwner, InodeCounts, BlockCounts, LiveIn, OwnedBy

LEMMA AgreesCreate ==
  ASSUME Base, Agrees, op_create
  PROVE  Agrees'
<1> USE DEF Base
<1>1. PICK i \in Inodes : /\ i \notin fs.ib /\ "ib" \in fs.maps
                          /\ fs' = ext2fs_inode_alloc_stats(fs, i, 1) /\ RequestStep(i, NoBlock)
  BY CreateStep
<1> DEFINE t == Seen(Itab)
           u == [t EXCEPT ![i] = NoBlock]
<1>2. /\ Seen(Itab)' = u /\ t \in Tables
      /\ \A g \in Groups : Seen(BB(g))' = Seen(BB(g)) /\ Seen(IB(g))' = Seen(IB(g))
  BY <1>1, RequestView, SeenIs
<1>3. Open /\ lost' = lost /\ hurt' = hurt /\ fs \in Filsys
  BY <1>1 DEF RequestStep, Open, Typed
<1>4. ~lost /\ ~hurt => AgreesWith(fs, t) /\ MapsAgree(t)
  BY <1>3, AgreesIs
<1> HIDE DEF t
<1>5. 1 \in {1, -1} /\ 1 > 0
  OBVIOUS
<1>6. /\ fs'.maps = fs.maps /\ fs'.bb = fs.bb
      /\ fs'.flags = fs.flags \cup {"DIRTY", "IB"} /\ fs'.ib = fs.ib \cup {i}
      /\ fs'.super.fb = fs.super.fb /\ \A g \in Groups : fs'.desc[g].fb = fs.desc[g].fb
  BY <1>1, <1>3, <1>5, InodeStats
<1>7. ASSUME ~lost, ~hurt
      PROVE  /\ AgreesWith(fs', u)
             /\ "BB" \notin fs'.flags =>
                  \A g \in Groups \ LazyGroups : Seen(BB(g))' = OwnedBy(u) \cap GroupBlocks(g)
             /\ "IB" \notin fs'.flags => \A g \in Groups : Seen(IB(g))' = LiveIn(u) \cap GroupInodes(g)
  <2>1. AgreesWith(fs, t) /\ MapsAgree(t)
    BY <1>4, <1>7
  <2>2. i \notin LiveIn(t) /\ t[i] = Dead
    BY <1>1, <2>1 DEF AgreesWith, LiveIn
  <2>3. LiveIn(u) = LiveIn(t) \cup {i} /\ OwnedBy(u) = OwnedBy(t) /\ OneOwner(u)
    BY <1>2, <2>1, <2>2, TableCreate DEF AgreesWith
  <2> HIDE DEF u
  <2>4. InodeCounts(fs'.desc, fs'.super, LiveIn(u))
    BY <1>1, <1>3, <2>1, <2>2, <2>3, InodeTaken DEF AgreesWith
  <2>5. BlockCounts(fs'.desc, fs'.super, OwnedBy(u))
    BY <1>6, <2>1, <2>3 DEF AgreesWith, BlockCounts
  <2>6. AgreesWith(fs', u)
    BY <1>6, <2>1, <2>3, <2>4, <2>5 DEF AgreesWith
  <2> QED BY <1>2, <1>6, <2>1, <2>3, <2>6 DEF MapsAgree
<1> QED BY <1>2, <1>3, <1>7, AgreesNext

LEMMA AgreesWrite ==
  ASSUME Base, Agrees, NEW i \in Inodes, op_write(i)
  PROVE  Agrees'
<1> USE DEF Base
<1>1. PICK b \in Blocks : /\ b \notin fs.bb /\ b \in Usable /\ "bb" \in fs.maps /\ Seen(Itab)[i] = NoBlock
                          /\ fs' = ext2fs_block_alloc_stats(fs, b, 1) /\ RequestStep(i, b)
  BY WriteStep
<1> DEFINE t == Seen(Itab)
           u == [t EXCEPT ![i] = b]
<1>2. /\ Seen(Itab)' = u /\ t \in Tables /\ t[i] = NoBlock
      /\ \A g \in Groups : Seen(BB(g))' = Seen(BB(g)) /\ Seen(IB(g))' = Seen(IB(g))
  BY <1>1, RequestView, SeenIs
<1>3. Open /\ lost' = lost /\ hurt' = hurt /\ fs \in Filsys
  BY <1>1 DEF RequestStep, Open, Typed
<1>4. ~lost /\ ~hurt => AgreesWith(fs, t) /\ MapsAgree(t)
  BY <1>3, AgreesIs
<1> HIDE DEF t
<1>5. 1 \in {1, -1} /\ 1 > 0
  OBVIOUS
<1>6. /\ fs'.maps = fs.maps /\ fs'.ib = fs.ib
      /\ fs'.flags = fs.flags \cup {"DIRTY", "BB"} /\ fs'.bb = fs.bb \cup {b}
      /\ fs'.super.fi = fs.super.fi /\ \A g \in Groups : fs'.desc[g].fi = fs.desc[g].fi
  BY <1>1, <1>3, <1>5, BlockStats
<1>7. ASSUME ~lost, ~hurt
      PROVE  /\ AgreesWith(fs', u)
             /\ "BB" \notin fs'.flags =>
                  \A g \in Groups \ LazyGroups : Seen(BB(g))' = OwnedBy(u) \cap GroupBlocks(g)
             /\ "IB" \notin fs'.flags => \A g \in Groups : Seen(IB(g))' = LiveIn(u) \cap GroupInodes(g)
  <2>1. AgreesWith(fs, t) /\ MapsAgree(t)
    BY <1>4, <1>7
  <2>2. b \notin OwnedBy(t)
    BY <1>1, <2>1 DEF AgreesWith
  <2>3. LiveIn(u) = LiveIn(t) /\ OwnedBy(u) = OwnedBy(t) \cup {b} /\ OneOwner(u)
    BY <1>1, <1>2, <2>1, <2>2, TableWrite DEF AgreesWith
  <2> HIDE DEF u
  <2>4. BlockCounts(fs'.desc, fs'.super, OwnedBy(u))
    BY <1>1, <1>3, <2>1, <2>2, <2>3, BlockTaken DEF AgreesWith
  <2>5. InodeCounts(fs'.desc, fs'.super, LiveIn(u))
    BY <1>6, <2>1, <2>3 DEF AgreesWith, InodeCounts
  <2>6. AgreesWith(fs', u)
    BY <1>6, <2>1, <2>3, <2>4, <2>5 DEF AgreesWith
  <2> QED BY <1>2, <1>6, <2>1, <2>3, <2>6 DEF MapsAgree
<1> QED BY <1>2, <1>3, <1>7, AgreesNext

LEMMA AgreesUnlink ==
  ASSUME Base, Agrees, NEW i \in Inodes, op_unlink(i)
  PROVE  Agrees'
<1> USE DEF Base
<1> DEFINE t == Seen(Itab)
           b == t[i]
           u == [t EXCEPT ![i] = Dead]
<1>1. /\ "ib" \in fs.maps /\ b # Dead /\ RequestStep(i, Dead)
      /\ \E f \in Filsys :
           /\ fs' = ext2fs_inode_alloc_stats(f, i, -1)
           /\ \/ b = NoBlock /\ f = fs
              \/ b \in Usable /\ "bb" \in fs.maps /\ f = ext2fs_block_alloc_stats(fs, b, -1)
  BY UnlinkStep
<1>2. /\ Seen(Itab)' = u /\ t \in Tables
      /\ \A g \in Groups : Seen(BB(g))' = Seen(BB(g)) /\ Seen(IB(g))' = Seen(IB(g))
  BY <1>1, RequestView, SeenIs
<1>3. Open /\ lost' = lost /\ hurt' = hurt /\ fs \in Filsys
  BY <1>1 DEF RequestStep, Open, Typed
<1>4. ~lost /\ ~hurt => AgreesWith(fs, t) /\ MapsAgree(t)
  BY <1>3, AgreesIs
<1> HIDE DEF t
<1>5. -1 \in {1, -1} /\ ~(-1 > 0)
  OBVIOUS
<1>6. PICK f \in Filsys :
        /\ fs' = ext2fs_inode_alloc_stats(f, i, -1)
        /\ \/ b = NoBlock /\ f = fs
           \/ b \in Usable /\ "bb" \in fs.maps /\ f = ext2fs_block_alloc_stats(fs, b, -1)
  BY <1>1
<1>7. /\ fs'.maps = f.maps /\ fs'.bb = f.bb
      /\ fs'.flags = f.flags \cup {"DIRTY", "IB"} /\ fs'.ib = f.ib \ {i}
      /\ fs'.super.fb = f.super.fb /\ \A g \in Groups : fs'.desc[g].fb = f.desc[g].fb
  BY <1>5, <1>6, InodeStats
<1>8. ASSUME ~lost, ~hurt
      PROVE  /\ AgreesWith(fs', u)
             /\ "BB" \notin fs'.flags =>
                  \A g \in Groups \ LazyGroups : Seen(BB(g))' = OwnedBy(u) \cap GroupBlocks(g)
             /\ "IB" \notin fs'.flags => \A g \in Groups : Seen(IB(g))' = LiveIn(u) \cap GroupInodes(g)
  <2>1. AgreesWith(fs, t) /\ MapsAgree(t)
    BY <1>4, <1>8
  <2>2. LiveIn(u) = LiveIn(t) \ {i} /\ OwnedBy(u) = OwnedBy(t) \ {b} /\ OneOwner(u)
    BY <1>1, <1>2, <2>1, TableUnlink DEF AgreesWith
  <2>3. i \in LiveIn(t)
    BY <1>1 DEF LiveIn
  <2>4. NoBlock \notin OwnedBy(t) /\ (b \in Usable => b \in OwnedBy(t))
    BY UsableFacts DEF OwnedBy
  <2> HIDE DEF u, b
  <2>5. /\ f.maps = fs.maps /\ f.ib = fs.ib
        /\ InodeCounts(f.desc, f.super, LiveIn(t))
        /\ BlockCounts(f.desc, f.super, OwnedBy(u))
        /\ "bb" \in fs.maps => f.bb = OwnedBy(u) \cup Lazy
        /\ \/ OwnedBy(u) = OwnedBy(t) /\ f.flags = fs.flags
           \/ "BB" \in f.flags
    <3>1. CASE b = NoBlock /\ f = fs
      <4>1. OwnedBy(u) = OwnedBy(t)
        BY <2>2, <2>4, <3>1
      <4> QED BY <2>1, <3>1, <4>1 DEF AgreesWith
    <3>2. CASE b \in Usable /\ "bb" \in fs.maps /\ f = ext2fs_block_alloc_stats(fs, b, -1)
      <4>1. b \in Blocks /\ b \notin Lazy
        BY <3>2, UsableFacts
      <4>2. /\ f.maps = fs.maps /\ f.ib = fs.ib /\ f.bb = fs.bb \ {b}
            /\ f.flags = fs.flags \cup {"DIRTY", "BB"}
            /\ f.super.fi = fs.super.fi /\ \A g \in Groups : f.desc[g].fi = fs.desc[g].fi
        BY <1>3, <1>5, <3>2, <4>1, BlockStats
      <4>3. BlockCounts(f.desc, f.super, OwnedBy(u))
        BY <1>3, <2>1, <2>2, <2>4, <3>2, BlockGiven DEF AgreesWith
      <4>4. InodeCounts(f.desc, f.super, LiveIn(t))
        BY <2>1, <4>2 DEF AgreesWith, InodeCounts
      <4>5. f.bb = OwnedBy(u) \cup Lazy
        BY <2>1, <2>2, <3>2, <4>1, <4>2 DEF AgreesWith
      <4> QED BY <4>2, <4>3, <4>4, <4>5
    <3> QED BY <1>6, <3>1, <3>2
  <2>6. InodeCounts(fs'.desc, fs'.super, LiveIn(u))
    BY <1>6, <2>2, <2>3, <2>5, InodeGiven
  <2>7. BlockCounts(fs'.desc, fs'.super, OwnedBy(u))
    BY <1>7, <2>5 DEF BlockCounts
  <2>8. fs'.ib = LiveIn(u)
    BY <1>1, <1>7, <2>1, <2>2, <2>5 DEF AgreesWith
  <2>9. AgreesWith(fs', u)
    BY <1>7, <2>2, <2>5, <2>6, <2>7, <2>8 DEF AgreesWith
  <2> QED BY <1>2, <1>7, <2>1, <2>5, <2>9 DEF MapsAgree
<1> QED BY <1>2, <1>3, <1>8, AgreesNext

LEMMA AgreesStartFlush ==
  ASSUME Base, Agrees, NEW st \in {"up", "closing"}, Serving, ext2fs_flush(st)
  PROVE  Agrees'
<1> USE DEF Base
<1> DEFINE t == Seen(Itab)
<1>1. /\ fs'.state = st /\ fs'.maps = fs.maps /\ fs'.desc = fs.desc /\ fs'.super = fs.super
      /\ fs'.bb = fs.bb /\ fs'.ib = fs.ib /\ fs'.flags = fs.flags \cap {"DIRTY"}
  BY StartFlushCopy
<1>2. lost' = lost /\ hurt' = hurt /\ Open
  BY DEF ext2fs_flush, Open, Serving
<1>3. /\ Seen(Itab)' = t
      /\ \A g \in Groups \ LazyGroups :
           Seen(BB(g))' = IF "BB" \in fs.flags THEN fs.bb \cap GroupBlocks(g) ELSE Seen(BB(g))
      /\ \A g \in Groups :
           Seen(IB(g))' = IF "IB" \in fs.flags THEN fs.ib \cap GroupInodes(g) ELSE Seen(IB(g))
  BY StartFlushView
<1>4. ~lost /\ ~hurt => AgreesWith(fs, t) /\ MapsAgree(t)
  BY <1>2, AgreesIs
<1> HIDE DEF t
<1>5. ASSUME ~lost, ~hurt
      PROVE  /\ AgreesWith(fs', t)
             /\ \A g \in Groups \ LazyGroups : Seen(BB(g))' = OwnedBy(t) \cap GroupBlocks(g)
             /\ \A g \in Groups : Seen(IB(g))' = LiveIn(t) \cap GroupInodes(g)
  <2>1. AgreesWith(fs, t) /\ MapsAgree(t)
    BY <1>4, <1>5
  <2>2. AgreesWith(fs', t)
    BY <1>1, <2>1 DEF AgreesWith
  <2>3. ASSUME NEW g \in Groups \ LazyGroups PROVE Seen(BB(g))' = OwnedBy(t) \cap GroupBlocks(g)
    <3>1. CASE "BB" \in fs.flags
      <4>1. fs.bb = OwnedBy(t) \cup Lazy
        BY <2>1, <3>1 DEF AgreesWith, Flagged
      <4>2. GroupBlocks(g) \cap Lazy = {}
        BY UsableFacts
      <4> QED BY <1>3, <3>1, <4>1, <4>2
    <3>2. CASE "BB" \notin fs.flags
      BY <1>3, <2>1, <3>2 DEF MapsAgree
    <3> QED BY <3>1, <3>2
  <2>4. ASSUME NEW g \in Groups PROVE Seen(IB(g))' = LiveIn(t) \cap GroupInodes(g)
    <3>1. CASE "IB" \in fs.flags
      <4>1. fs.ib = LiveIn(t)
        BY <2>1, <3>1 DEF AgreesWith, Flagged
      <4> QED BY <1>3, <3>1, <4>1
    <3>2. CASE "IB" \notin fs.flags
      BY <1>3, <2>1, <3>2 DEF MapsAgree
    <3> QED BY <3>1, <3>2
  <2> QED BY <2>2, <2>3, <2>4
<1> QED BY <1>2, <1>3, <1>5, AgreesNext

(* The union of a set's parts in the groups is the set.                    *)
LEMMA WholeFromGroups ==
  /\ \A S : S \subseteq Inodes => S = UNION {S \cap GroupInodes(g) : g \in Groups}
  /\ \A S : S \subseteq Blocks => S = UNION {S \cap GroupBlocks(g) : g \in Groups}
BY GroupFacts

LEMMA ConsistentIs ==
  Consistent <=>
    /\ \A g \in Groups \ LazyGroups : dev[BB(g)] = Owned \cap GroupBlocks(g)
    /\ \A g \in Groups : dev[IB(g)] = Live \cap GroupInodes(g)
    /\ InodeCounts(dev[Desc], sb, Live) /\ BlockCounts(dev[Desc], sb, Owned)
BY DEF Consistent, InodeCounts, BlockCounts

LEMMA AgreesOpen ==
  ASSUME Base, Left, op_init
  PROVE  Agrees'
<1> USE DEF Base
<1> DEFINE t == dev[Itab]
<1>1. /\ fs.state = "down" /\ fs'.flags = {} /\ hurt' = hurt /\ fs'.super = sb /\ fs'.desc = dev[Desc]
      /\ "bb" \in fs'.maps => fs'.bb = ReadBlockMap
      /\ "ib" \in fs'.maps => fs'.ib = ReadInodeMap
      /\ \A p \in Places : Seen(p)' = dev[p]
  BY OpenStep
<1>2. Seen(Itab)' = t /\ \A g \in Groups : Seen(BB(g))' = dev[BB(g)] /\ Seen(IB(g))' = dev[IB(g)]
  BY <1>1, PlaceFacts
<1>3. ChannelTyped /\ t \in Tables
  BY PlaceFacts, ContentIs DEF Typed, ChannelTyped
<1>4. OwnedBy(t) \subseteq Usable /\ LiveIn(t) \subseteq Inodes
  BY <1>3, TablesAre
<1>5. Owned = OwnedBy(t) /\ Live = LiveIn(t)
  BY DEF Owned, Live, OwnedBy, LiveIn
<1>6. ASSUME ~hurt
      PROVE  /\ OneOwner(t)
             /\ \A g \in Groups \ LazyGroups : dev[BB(g)] = OwnedBy(t) \cap GroupBlocks(g)
             /\ \A g \in Groups : dev[IB(g)] = LiveIn(t) \cap GroupInodes(g)
             /\ InodeCounts(dev[Desc], sb, LiveIn(t)) /\ BlockCounts(dev[Desc], sb, OwnedBy(t))
  BY <1>1, <1>5, <1>6, ConsistentIs DEF Left
<1> HIDE DEF t
<1>7. ASSUME ~hurt
      PROVE  /\ AgreesWith(fs', t)
             /\ \A g \in Groups \ LazyGroups : Seen(BB(g))' = OwnedBy(t) \cap GroupBlocks(g)
             /\ \A g \in Groups : Seen(IB(g))' = LiveIn(t) \cap GroupInodes(g)
  <2>1. ReadInodeMap = LiveIn(t)
    <3>1. ReadInodeMap = UNION {LiveIn(t) \cap GroupInodes(g) : g \in Groups}
      BY <1>6, <1>7 DEF ReadInodeMap
    <3> QED BY <1>4, <3>1, WholeFromGroups
  <2>2. ReadBlockMap = OwnedBy(t) \cup Lazy
    <3>1. ReadBlockMap \subseteq Blocks /\ Lazy \subseteq ReadBlockMap
          /\ \A g \in Groups \ LazyGroups : ReadBlockMap \cap GroupBlocks(g) = dev[BB(g)]
      BY <1>3, ReadMaps
    <3>2. ASSUME NEW b \in Blocks, b \notin Lazy PROVE b \in ReadBlockMap <=> b \in OwnedBy(t)
      <4> DEFINE g == ext2fs_group_of_blk(b)
      <4>1. g \in Groups \ LazyGroups /\ b \in GroupBlocks(g)
        BY <3>2, UsableFacts, GroupFacts
      <4>2. ReadBlockMap \cap GroupBlocks(g) = OwnedBy(t) \cap GroupBlocks(g)
        BY <1>6, <1>7, <3>1, <4>1
      <4> QED BY <4>1, <4>2
    <3>3. OwnedBy(t) \subseteq Blocks /\ Lazy \subseteq Blocks
      BY <1>4, UsableFacts
    <3> QED BY <3>1, <3>2, <3>3
  <2>3. AgreesWith(fs', t)
    BY <1>1, <1>6, <1>7, <2>1, <2>2 DEF AgreesWith
  <2> QED BY <1>2, <1>6, <1>7, <2>3
<1> QED BY <1>1, <1>2, <1>7, AgreesNext

(* What a well-closed mount leaves.                                        *)
LEMMA LeftClosed ==
  ASSUME Base, Agrees, Written, sb' = sb, ClosedWell
  PROVE  Consistent' /\ OneOwner(dev[Itab])'
<1> USE DEF Base
<1> DEFINE t == Seen(Itab)
<1>1. Open /\ ~lost /\ ~hurt /\ fs.flags = {} /\ pc = "done"
  BY DEF ClosedWell, Open, Flagged
<1>2. AgreesWith(fs, t) /\ MapsAgree(t)
  BY <1>1, AgreesIs
<1>3. sb = fs.super
  BY <1>1 DEF Written
<1>4. Seen(Desc) = fs.desc
  BY <1>1 DEF Saved
<1>5. /\ dev'[Itab] = t /\ dev'[Desc] = fs.desc
      /\ \A g \in Groups \ LazyGroups : dev'[BB(g)] = OwnedBy(t) \cap GroupBlocks(g)
      /\ \A g \in Groups : dev'[IB(g)] = LiveIn(t) \cap GroupInodes(g)
  BY <1>1, <1>2, <1>4, PlaceFacts DEF ClosedWell, MapsAgree
<1> HIDE DEF t
<1>6. OneOwner(dev[Itab])'
  BY <1>2, <1>5 DEF AgreesWith, OneOwner
<1>7. Owned' = OwnedBy(t) /\ Live' = LiveIn(t)
  BY <1>5 DEF Owned, Live, OwnedBy, LiveIn
<1>8. /\ InodeCounts(dev'[Desc], sb', LiveIn(t)) /\ BlockCounts(dev'[Desc], sb', OwnedBy(t))
  BY <1>2, <1>3, <1>5 DEF AgreesWith
<1>9. Consistent'
  <2>1. /\ \A g \in Groups \ LazyGroups : dev'[BB(g)] = Owned' \cap GroupBlocks(g)
        /\ \A g \in Groups : dev'[IB(g)] = Live' \cap GroupInodes(g)
        /\ InodeCounts(dev[Desc], sb, Live)' /\ BlockCounts(dev[Desc], sb, Owned)'
    BY <1>5, <1>7, <1>8 DEF InodeCounts, BlockCounts
  <2> QED BY <2>1 DEF Consistent, InodeCounts, BlockCounts
<1> QED BY <1>6, <1>9

----------------------------------------------------------------------------
(* The superblock on the device.                                           *)

LEMMA WrittenKept ==
  ASSUME Base, Written, Open' => Open, sb' = sb, fs'.super = fs.super, fs'.orig = fs.orig,
         "DIRTY" \in fs.flags => "DIRTY" \in fs'.flags,
         cache # Empty \/ cache' = cache,
         \/ pc' = pc
         \/ pc \in {"done", "failed"} /\ pc' = "idle"
         \/ pc = "idle" /\ pc' \in {"done", "flush"}
         \/ pc = "flush" /\ pc' = "super"
  PROVE  Written'
<1> SUFFICES ASSUME Open, Open' PROVE Written'
  BY DEF Written
<1>1. /\ sb.valid = fs.super.valid /\ fs.orig.valid = fs.super.valid
      /\ "DIRTY" \notin fs.flags => fs.orig = fs.super
      /\ pc \in {"idle", "flush", "super", "done", "failed"} => sb = fs.orig
      /\ pc = "super_fi" => /\ sb.fb = fs.super.fb /\ sb.fi = fs.orig.fi
                            /\ sb.fb # fs.orig.fb => cache = Empty
      /\ pc \in {"super_wtime", "super_done"} => sb = fs.super /\ (sb # fs.orig => cache = Empty)
  BY DEF Written
<1> QED BY <1>1 DEF Written

LEMMA SupersEqual ==
  ASSUME NEW s \in Supers, NEW r \in Supers, s.fb = r.fb, s.fi = r.fi, s.valid = r.valid
  PROVE  s = r
BY DEF Supers

LEMMA WrittenSuper ==
  ASSUME Base, Written, WholeSuper, write_primary_superblock
  PROVE  Written'
<1> USE DEF Base
<1>1. /\ fs' = fs
      /\ \/ pc = "super" /\ WriteByteOutcome("fb", "super_fi")
         \/ pc = "super_fi" /\ WriteByteOutcome("fi", "super_wtime")
         \/ pc = "super_wtime" /\ WriteByteOutcome("wtime", "super_done")
  BY WriteSuperStep
<1>2. Open
  BY <1>1 DEF Typed
<1>3. /\ sb.valid = fs.super.valid /\ fs.orig.valid = fs.super.valid
      /\ "DIRTY" \notin fs.flags => fs.orig = fs.super
      /\ pc = "super" => sb = fs.orig
      /\ pc = "super_fi" => /\ sb.fb = fs.super.fb /\ sb.fi = fs.orig.fi
                            /\ sb.fb # fs.orig.fb => cache = Empty
      /\ pc = "super_wtime" => sb = fs.super /\ (sb # fs.orig => cache = Empty)
  BY <1>2 DEF Written
<1>4. sb \in Supers /\ fs.super \in Supers /\ fs.orig \in Supers
  BY DEF Typed, Filsys
<1>5. CASE pc = "super" /\ WriteByteOutcome("fb", "super_fi")
  <2>1. CASE pc' = "super_fi" /\ sb' = sb /\ "fb" \notin Differs
    <3>1. fs.super.fb = fs.orig.fb
      BY <2>1 DEF Differs
    <3>2. sb' = fs.orig
      BY <1>3, <1>5, <2>1
    <3> QED BY <1>1, <1>3, <2>1, <3>1, <3>2 DEF Written
  <2>2. CASE pc' = "super_fi" /\ cache' = Empty /\ sb' = [sb EXCEPT !["fb"] = fs.super["fb"]]
    <3>1. sb'.fb = fs.super.fb /\ sb'.fi = sb.fi /\ sb'.valid = sb.valid
      BY <1>4, <2>2 DEF Supers
    <3> QED BY <1>1, <1>3, <1>5, <2>2, <3>1 DEF Written
  <2>3. CASE pc' = "failed" /\ sb' = sb
    <3>1. sb' = fs.orig
      BY <1>3, <1>5, <2>3
    <3> QED BY <1>1, <1>3, <2>3, <3>1 DEF Written
  <2> QED BY <1>5, <2>1, <2>2, <2>3 DEF WriteByteOutcome
<1>6. CASE pc = "super_fi" /\ WriteByteOutcome("fi", "super_wtime")
  <2>1. CASE pc' = "super_wtime" /\ sb' = sb /\ "fi" \notin Differs /\ cache' = cache
    <3>1. sb.fi = fs.super.fi
      BY <1>3, <1>6, <2>1 DEF Differs
    <3>2. sb = fs.super
      BY <1>3, <1>4, <1>6, <3>1, SupersEqual
    <3>3. sb # fs.orig => cache = Empty
      BY <1>3, <1>4, <1>6, SupersEqual
    <3> QED BY <1>1, <1>3, <2>1, <3>2, <3>3 DEF Written
  <2>2. CASE pc' = "super_wtime" /\ cache' = Empty /\ sb' = [sb EXCEPT !["fi"] = fs.super["fi"]]
    <3>1. sb' \in Supers /\ sb'.fi = fs.super.fi /\ sb'.fb = sb.fb /\ sb'.valid = sb.valid
      BY <1>4, <2>2 DEF Supers
    <3>2. sb' = fs.super
      BY <1>3, <1>4, <1>6, <3>1, SupersEqual
    <3> QED BY <1>1, <1>3, <2>2, <3>2 DEF Written
  <2>3. CASE pc' = "failed" /\ sb' = sb /\ cache # Empty
    <3>1. sb' = fs.orig
      BY <1>3, <1>4, <1>6, <2>3, SupersEqual
    <3> QED BY <1>1, <1>3, <2>3, <3>1 DEF Written
  <2> QED BY <1>6, <2>1, <2>2, <2>3 DEF WriteByteOutcome
<1>7. CASE pc = "super_wtime" /\ WriteByteOutcome("wtime", "super_done")
  <2>1. CASE pc' = "super_done" /\ sb' = sb /\ (cache' = cache \/ cache' = Empty)
    BY <1>1, <1>3, <1>7, <2>1 DEF Written
  <2>2. CASE pc' = "failed" /\ sb' = sb /\ cache # Empty
    <3>1. sb' = fs.orig
      BY <1>3, <1>7, <2>2
    <3> QED BY <1>1, <1>3, <2>2, <3>1 DEF Written
  <2> QED BY <1>7, <2>1, <2>2 DEF WriteByteOutcome
<1> QED BY <1>1, <1>5, <1>6, <1>7

LEMMA WrittenLast ==
  ASSUME Base, Written, io_channel_flush_last
  PROVE  Written'
<1>1. /\ fs'.orig = fs.super /\ fs'.flags = {} /\ sb' = sb /\ pc = "super_done"
      /\ pc' \in {"done", "failed"} /\ fs'.state = fs.state /\ fs'.super = fs.super
  BY FlushLastStep DEF Quiet
<1>2. Open
  BY <1>1 DEF Base, Typed
<1>3. sb = fs.super /\ sb.valid = fs.super.valid
  BY <1>1, <1>2 DEF Written
<1> QED BY <1>1, <1>3 DEF Written

LEMMA WrittenRequest ==
  ASSUME Base, Written, NEW i \in Inodes, NEW v, RequestStep(i, v)
  PROVE  Written'
<1>1. Open
  BY DEF RequestStep, Open
<1> QED BY <1>1 DEF RequestStep, Written

----------------------------------------------------------------------------
(* The invariant.                                                          *)

LEMMA FilesAre ==
  Files \subseteq Inodes /\ Files \subseteq Usable
<1> DEFINE lazy == {b \in 1..(NGroups * BlocksPer) : (b - 1) \div BlocksPer + 1 \in LazyGroups}
<1>1. /\ InitFiles \in Nat /\ InitFiles <= NGroups * InodesPer /\ InitFiles <= NGroups * BlocksPer
      /\ Files \cap lazy = {}
  BY MountAssumption DEF MountSizes, Files
<1>2. lazy = {b \in Blocks : ext2fs_group_of_blk(b) \in LazyGroups}
  BY DEF Blocks, ext2fs_group_of_blk
<1> HIDE DEF lazy
<1>3. Files \subseteq Inodes /\ Files \subseteq Blocks
  BY <1>1, SizeFacts DEF Files, Inodes, Blocks
<1>4. ASSUME NEW b \in Files PROVE b \in Usable
  <2>1. b \in Blocks /\ ext2fs_group_of_blk(b) \notin LazyGroups
    BY <1>1, <1>2, <1>3
  <2> QED BY <2>1, GroupFacts DEF Usable
<1> QED BY <1>3, <1>4

LEMMA InitDevice ==
  ASSUME Init
  PROVE  /\ DOMAIN dev = Places /\ dev[Desc] = FreshDesc
         /\ dev[Itab] = [i \in Inodes |-> IF i \in Files THEN i ELSE Dead]
         /\ \A g \in Groups \ LazyGroups : dev[BB(g)] = Files \cap GroupBlocks(g)
         /\ \A g \in LazyGroups : dev[BB(g)] = {}
         /\ \A g \in Groups : dev[IB(g)] = Files \cap GroupInodes(g)
<1>1. dev = [p \in Places |->
               CASE p = Desc -> FreshDesc
                 [] p = Itab -> [i \in Inodes |-> IF i \in Files THEN i ELSE Dead]
                 [] p[1] = "bb" -> IF p[2] \in LazyGroups THEN {} ELSE Files \cap GroupBlocks(p[2])
                 [] p[1] = "ib" -> Files \cap GroupInodes(p[2])]
  BY DEF Init
<1> HIDE DEF FreshDesc
<1>2. DOMAIN dev = Places
  BY <1>1
<1>3. Desc[1] = "desc" /\ Itab[1] = "itab" /\ Desc # Itab /\ Desc \in Places /\ Itab \in Places
  BY PlaceFacts DEF Desc, Itab
<1>4. dev[Desc] = FreshDesc
  BY <1>1, <1>3
<1>5. dev[Itab] = [i \in Inodes |-> IF i \in Files THEN i ELSE Dead]
  BY <1>1, <1>3
<1>6. ASSUME NEW g \in Groups
      PROVE  /\ dev[BB(g)] = IF g \in LazyGroups THEN {} ELSE Files \cap GroupBlocks(g)
             /\ dev[IB(g)] = Files \cap GroupInodes(g)
  <2>1. /\ BB(g)[1] = "bb" /\ BB(g)[2] = g /\ BB(g) # Desc /\ BB(g) # Itab /\ BB(g) \in Places
        /\ IB(g)[1] = "ib" /\ IB(g)[2] = g /\ IB(g) # Desc /\ IB(g) # Itab /\ IB(g) \in Places
    BY PlaceFacts DEF BB, IB
  <2>2. dev[BB(g)] = IF g \in LazyGroups THEN {} ELSE Files \cap GroupBlocks(g)
    BY <1>1, <2>1
  <2>3. dev[IB(g)] = Files \cap GroupInodes(g)
    BY <1>1, <2>1
  <2> QED BY <2>2, <2>3
<1> QED BY <1>2, <1>4, <1>5, <1>6, SizeFacts

LEMMA FreshCounts ==
  /\ FreshDesc \in Descs /\ FreshSuper \in Supers
  /\ InodeCounts(FreshDesc, FreshSuper, Files) /\ BlockCounts(FreshDesc, FreshSuper, Files)
<1>1. \A g : Cardinality(GroupBlocks(g) \ Files) \in Nat /\ Cardinality(GroupInodes(g) \ Files) \in Nat
  <2> SUFFICES ASSUME NEW g
               PROVE  Cardinality(GroupBlocks(g) \ Files) \in Nat /\ Cardinality(GroupInodes(g) \ Files) \in Nat
    OBVIOUS
  <2>1. GroupBlocks(g) \ Files \subseteq Blocks /\ GroupInodes(g) \ Files \subseteq Inodes
    BY GroupFacts
  <2> QED BY <2>1, SmallSets
<1>2. Cardinality(Usable \ Files) \in Nat /\ Cardinality(Inodes \ Files) \in Nat
  <2>1. Usable \ Files \subseteq Blocks /\ Inodes \ Files \subseteq Inodes
    BY UsableFacts
  <2> QED BY <2>1, SmallSets
<1>3. FreshDesc \in Descs
  BY <1>1 DEF FreshDesc, Descs
<1>4. FreshSuper \in Supers
  BY <1>2 DEF FreshSuper, Supers
<1>5. \A g \in Groups : /\ FreshDesc[g].fi = Cardinality(GroupInodes(g) \ Files)
                        /\ g \notin LazyGroups => FreshDesc[g].fb = Cardinality(GroupBlocks(g) \ Files)
  BY DEF FreshDesc
<1>6. FreshSuper.fi = Cardinality(Inodes \ Files) /\ FreshSuper.fb = Cardinality(Usable \ Files)
  BY DEF FreshSuper
<1> QED BY <1>3, <1>4, <1>5, <1>6 DEF InodeCounts, BlockCounts

LEMMA InitBase ==
  ASSUME Init
  PROVE  Base /\ ~Open /\ Left
<1>1. /\ DOMAIN dev = Places /\ dev[Desc] = FreshDesc
      /\ dev[Itab] = [i \in Inodes |-> IF i \in Files THEN i ELSE Dead]
      /\ \A g \in Groups \ LazyGroups : dev[BB(g)] = Files \cap GroupBlocks(g)
      /\ \A g \in LazyGroups : dev[BB(g)] = {}
      /\ \A g \in Groups : dev[IB(g)] = Files \cap GroupInodes(g)
  BY InitDevice
<1>2. /\ sb = FreshSuper /\ cache = Empty /\ fs = Down /\ pc = "idle" /\ lost = FALSE /\ hurt = FALSE
  BY DEF Init
<1>3. dev[Itab] \in Tables
  BY <1>1, FilesAre DEF Tables
<1>4. \A p \in Places : dev[p] \in Content(p)
  <2>1. ASSUME NEW g \in Groups PROVE dev[BB(g)] \in Content(BB(g)) /\ dev[IB(g)] \in Content(IB(g))
    <3>1. Content(BB(g)) = SUBSET GroupBlocks(g) /\ Content(IB(g)) = SUBSET GroupInodes(g)
      BY ContentIs
    <3>2. dev[BB(g)] \subseteq GroupBlocks(g) /\ dev[IB(g)] \subseteq GroupInodes(g)
      BY <1>1
    <3> QED BY <3>1, <3>2
  <2>2. dev[Desc] \in Content(Desc) /\ dev[Itab] \in Content(Itab)
    BY <1>1, <1>3, ContentIs, FreshCounts
  <2>3. \A p \in Places : p = Desc \/ p = Itab \/ \E g \in Groups : p = BB(g) \/ p = IB(g)
    BY DEF Places, BB, IB
  <2> QED BY <2>1, <2>2, <2>3
<1>5. ChannelTyped
  BY <1>1, <1>2, <1>4 DEF ChannelTyped, Empty
<1>6. ~Open
  BY <1>2, DownIs DEF Open
<1>7. Typed
  BY <1>2, <1>5, DownIs, FreshCounts DEF Typed
<1>8. Flagged /\ Saved
  BY <1>2, <1>6, DownIs DEF Flagged, Saved
<1>9. Files \subseteq Blocks /\ Dead \notin Files /\ NoBlock \notin Files /\ Dead # NoBlock
  BY FilesAre, UsableFacts
<1>10. Live = Files
  BY <1>1, <1>9, FilesAre DEF Live
<1>11. Owned = Files
  <2>1. ASSUME NEW x \in Owned PROVE x \in Files
    BY <1>1 DEF Owned
  <2>2. ASSUME NEW x \in Files PROVE x \in Owned
    <3>1. x \in Inodes /\ dev[Itab][x] = x
      BY <1>1, FilesAre
    <3> QED BY <1>9, <3>1 DEF Owned
  <2> QED BY <2>1, <2>2
<1>12. OneOwner(dev[Itab])
  BY <1>1, <1>9 DEF OneOwner
<1>13. Consistent
  BY <1>1, <1>2, <1>10, <1>11, ConsistentIs, FreshCounts
<1> QED BY <1>6, <1>7, <1>8, <1>12, <1>13 DEF Base, Left

LEMMA NextBase ==
  ASSUME Base, [Next]_vars
  PROVE  Base'
<1>1. CASE op_init
  BY <1>1, OpenStep
<1>2. CASE op_init_fails \/ Crash \/ Abort \/ ext2fs_free
  BY <1>2, EndStep
<1>3. CASE op_create
  BY <1>3, CreateStep, RequestBase
<1>4. ASSUME NEW i \in Inodes, op_write(i) PROVE Base'
  <2>1. \E b : RequestStep(i, b)
    BY <1>4, WriteStep
  <2> QED BY <2>1, RequestBase
<1>5. ASSUME NEW i \in Inodes, op_unlink(i) PROVE Base'
  BY <1>5, UnlinkStep, RequestBase
<1>6. CASE op_fsync
  BY <1>6, StartFlushStep DEF op_fsync
<1>7. CASE op_destroy
  <2>1. CASE ext2fs_flush("closing")
    BY <1>7, <2>1, StartFlushStep DEF op_destroy
  <2>2. CASE ~ext2fs_flush("closing")
    BY <1>7, <2>2, StillStep
  <2> QED BY <2>1, <2>2
<1>8. CASE op_fsync_reply \/ DeviceFails \/ DeviceRecovers \/ UNCHANGED vars
  BY <1>8, StillStep
<1>9. CASE io_channel_flush_first
  BY <1>9, FlushFirstStep
<1>10. CASE write_primary_superblock
  BY <1>10, WriteSuperStep
<1>11. CASE io_channel_flush_last
  BY <1>11, FlushLastStep
<1>12. ASSUME NEW p \in Places, Evict(p) PROVE Base'
  BY <1>12, EvictStep
<1> QED BY <1>1, <1>2, <1>3, <1>4, <1>5, <1>6, <1>7, <1>8, <1>9, <1>10, <1>11, <1>12 DEF Next, FlushStep

(* All parts, for a device on which the words of the superblock are        *)
(* written or the flush is refused before them.                            *)
Inv == Base /\ Written /\ Agrees /\ Left

LEMMA QuietInv ==
  ASSUME Base, Quiet, Agrees, Open
  PROVE  Agrees' /\ (Open' => Left')
<1>1. Agrees'
  BY QuietAgrees DEF Base
<1>2. Open' => Left'
  BY DEF Open, Left
<1> QED BY <1>1, <1>2

LEMMA NextInv ==
  ASSUME WholeSuper, Inv, [Next]_vars
  PROVE  Inv'
<1> USE DEF Inv
<1>0. Base'
  BY NextBase
<1>1. CASE op_init
  <2>1. /\ fs'.state = "up" /\ fs'.super = sb /\ fs'.orig = sb /\ sb' = sb /\ pc' = "idle"
    BY <1>1, OpenStep
  <2>2. Written' /\ Left'
    BY <2>1 DEF Written, Left
  <2> QED BY <1>0, <1>1, <2>2, AgreesOpen
<1>2. CASE op_init_fails \/ Crash \/ Abort \/ ext2fs_free
  <2>1. /\ ~Open' /\ sb' = sb /\ (fs'.state = "down" /\ ~hurt' => ClosedWell)
    BY <1>2, EndStep
  <2>2. Written' /\ Agrees'
    BY <2>1 DEF Written, Agrees
  <2>3. Left'
    BY <2>1, LeftClosed DEF Left
  <2> QED BY <1>0, <2>2, <2>3
<1>3. ASSUME NEW i \in Inodes, NEW v, RequestStep(i, v) PROVE Written' /\ Left'
  <2>1. fs'.state = "up"
    BY <1>3 DEF RequestStep
  <2> QED BY <1>3, <2>1, WrittenRequest DEF Left
<1>4. CASE op_create
  BY <1>0, <1>3, <1>4, CreateStep, AgreesCreate
<1>5. ASSUME NEW i \in Inodes, op_write(i) PROVE Inv'
  BY <1>0, <1>3, <1>5, WriteStep, AgreesWrite
<1>6. ASSUME NEW i \in Inodes, op_unlink(i) PROVE Inv'
  BY <1>0, <1>3, <1>6, UnlinkStep, AgreesUnlink
<1>7. ASSUME NEW st \in {"up", "closing"}, Serving, ext2fs_flush(st) PROVE Inv'
  <2>1. Agrees'
    BY <1>7, AgreesStartFlush
  <2>2. /\ fs'.state = st /\ fs'.super = fs.super /\ fs'.orig = fs.orig /\ fs'.flags = fs.flags \cap {"DIRTY"}
    BY <1>7, StartFlushCopy DEF Base
  <2>3. pc = "idle" /\ pc' = "flush" /\ sb' = sb /\ Open
    BY <1>7 DEF ext2fs_flush, Serving, Open
  <2>4. Written'
    <3>1. /\ sb.valid = fs.super.valid /\ fs.orig.valid = fs.super.valid
          /\ "DIRTY" \notin fs.flags => fs.orig = fs.super
          /\ sb = fs.orig
      BY <2>3 DEF Written
    <3> QED BY <2>2, <2>3, <3>1 DEF Written
  <2>5. Left'
    BY <2>2 DEF Left
  <2> QED BY <1>0, <2>1, <2>4, <2>5
<1>8. CASE op_fsync_reply \/ DeviceFails \/ DeviceRecovers \/ UNCHANGED vars \/ (op_destroy /\ ~ext2fs_flush("closing"))
  <2>1. /\ Quiet /\ sb' = sb /\ cache' = cache /\ dev' = dev
        /\ fs'.flags = fs.flags /\ fs'.orig = fs.orig
        /\ fs' = fs \/ (fs.state = "up" /\ fs'.state = "closing")
        /\ \/ pc' = pc
           \/ pc \in {"done", "failed"} /\ pc' = "idle"
           \/ pc = "idle" /\ pc' = "done" /\ fs.flags = {} /\ Open
    BY <1>8, StillStep
  <2>2. Written'
    BY <2>1, WrittenKept DEF Quiet
  <2>3. Agrees'
    BY <2>1, QuietAgrees DEF Base
  <2>4. Left'
    <3>1. CASE fs' = fs
      BY <2>1, <3>1 DEF Left, Quiet, Consistent, Owned, Live, OneOwner
    <3>2. CASE fs'.state = "closing"
      BY <3>2 DEF Left
    <3> QED BY <2>1, <3>1, <3>2
  <2> QED BY <1>0, <2>2, <2>3, <2>4
<1>9. CASE op_destroy
  <2>1. CASE ext2fs_flush("closing")
    BY <1>7, <1>9, <2>1 DEF op_destroy
  <2>2. CASE ~ext2fs_flush("closing")
    BY <1>8, <1>9, <2>2
  <2> QED BY <2>1, <2>2
<1>10. CASE op_fsync
  BY <1>7, <1>10 DEF op_fsync
<1>11. CASE FlushStep
  <2>1. pc # "idle" /\ Base' /\ Quiet /\ fs'.state = fs.state
    BY <1>11, FlushFirstStep, WriteSuperStep, FlushLastStep
    DEF FlushStep, io_channel_flush_first, write_primary_superblock
  <2>2. Open /\ Open'
    BY <2>1 DEF Base, Typed, Open
  <2>3. Agrees' /\ Left'
    BY <2>1, <2>2, QuietInv
  <2>4. Written'
    <3>1. CASE io_channel_flush_first
      <4>1. Quiet /\ sb' = sb /\ fs' = fs /\ pc = "flush" /\ pc' = "super"
        BY <2>1, <3>1 DEF io_channel_flush_first
      <4>2. sb = fs.orig /\ sb.valid = fs.super.valid /\ fs.orig.valid = fs.super.valid
            /\ ("DIRTY" \notin fs.flags => fs.orig = fs.super)
        BY <2>2, <4>1 DEF Written
      <4> QED BY <4>1, <4>2 DEF Written
    <3>2. CASE write_primary_superblock
      BY <3>2, WrittenSuper
    <3>3. CASE io_channel_flush_last
      BY <3>3, WrittenLast
    <3> QED BY <1>11, <3>1, <3>2, <3>3 DEF FlushStep
  <2> QED BY <1>0, <2>3, <2>4
<1>12. ASSUME NEW p \in Places, Evict(p) PROVE Inv'
  <2>1. Quiet /\ cache # Empty
    BY <1>12, EvictStep
  <2>2. sb' = sb /\ fs' = fs /\ pc' = pc
    BY <1>12 DEF Evict
  <2>3. Open
    BY <2>1 DEF Base, Typed
  <2>4. Open'
    BY <2>2, <2>3 DEF Open
  <2>5. Agrees' /\ Left'
    BY <2>1, <2>3, <2>4, QuietInv
  <2>6. Written'
    BY <2>1, <2>2, WrittenKept DEF Quiet
  <2> QED BY <1>0, <2>5, <2>6
<1> QED BY <1>1, <1>2, <1>4, <1>5, <1>6, <1>8, <1>9, <1>10, <1>11, <1>12 DEF Next

----------------------------------------------------------------------------
(* The theorems.                                                           *)

(* Whatever fails, dies or is refused: the process's copy of the volume    *)
(* stays well formed, a bitmap's flag is up only while the process has     *)
(* that bitmap, and as long as no block was dropped, a bitmap or a set of  *)
(* descriptors that no flag marks dirty is what a read through the channel *)
(* returns (ext2fs_mark_bb_dirty, ext2fs_mark_ib_dirty, write_bitmaps).    *)
THEOREM MountInvariant == Spec => []Base
<1>1. Init => Base
  BY InitBase
<1>2. Base /\ [Next]_vars => Base'
  BY NextBase
<1> QED BY <1>1, <1>2, PTL DEF Spec

(* ext2fs_flush writes a word of the primary superblock only when every    *)
(* other pending change is on the device and nothing is left in the cache, *)
(* also after a write-back that failed, unless a block was dropped; and    *)
(* under EXT2_FLAG_MASTER_SB_ONLY no backup superblock is ever written.    *)
THEOREM MountSuperblockLast == Spec => SuperblockLast
<1>1. Base /\ [Next]_vars => [SuperStep /\ backup' = backup]_vars
  <2> SUFFICES ASSUME Base, Next PROVE SuperStep /\ backup' = backup
    OBVIOUS
  <2>1. backup' = backup
    BY DEF Next, FlushStep, op_init, op_init_fails, op_create, op_write, op_unlink, Request, op_fsync,
       op_destroy, ext2fs_flush, write_backup_super, MasterSbOnly, op_fsync_reply, ext2fs_free,
       io_channel_flush_first, write_primary_superblock, io_channel_flush_last, Evict, Crash, Abort,
       DeviceFails, DeviceRecovers
  <2>2. CASE ~write_primary_superblock
    <3>1. sb' = sb
      BY <2>2 DEF Next, FlushStep, op_init, op_init_fails, op_create, op_write, op_unlink, Request, op_fsync,
         op_destroy, ext2fs_flush, op_fsync_reply, ext2fs_free,
         io_channel_flush_first, io_channel_flush_last, Evict, Crash, Abort, DeviceFails, DeviceRecovers
    <3> QED BY <2>1, <3>1 DEF SuperStep
  <2>3. CASE write_primary_superblock
    <3> SUFFICES ASSUME sb' # sb, ~lost'
                 PROVE  /\ cache' = Empty /\ dev'[Desc] = fs.desc
                        /\ fs.maps = {"ib", "bb"} =>
                             \A g \in Groups \ LazyGroups : dev'[BB(g)] = fs.bb \cap GroupBlocks(g)
      BY <2>1 DEF SuperStep
    <3>1. Quiet /\ pc # "idle"
      BY <2>3, WriteSuperStep
    <3>2. cache' = Empty /\ \A p \in Places : dev'[p] = Seen(p)
      BY <2>3, WriteSuperStep DEF WriteByteOutcome
    <3>3. Open /\ ~lost /\ fs.flags \subseteq {"DIRTY"}
      BY <3>1 DEF Quiet, Base, Typed, Flagged
    <3>4. /\ Seen(Desc) = fs.desc
          /\ "bb" \in fs.maps => \A g \in Groups \ LazyGroups : Seen(BB(g)) = fs.bb \cap GroupBlocks(g)
      BY <3>1, <3>3 DEF Base, Saved
    <3> QED BY <3>2, <3>4, PlaceFacts
  <2> QED BY <2>2, <2>3
<1> QED BY <1>1, MountInvariant, PTL DEF Spec, SuperblockLast

(* ext2fs_new_block never hands out a block of a group whose bitmap was    *)
(* never initialised: no inode on the device owns one, after any crash,    *)
(* fault or partly failed op_init (read_bitmaps, ext2fs_new_block).        *)
THEOREM MountLazyStaysUnused == Spec => []LazyStaysUnused
<1>1. Base => LazyStaysUnused
  <2> SUFFICES ASSUME Base, NEW g \in LazyGroups PROVE Owned \cap GroupBlocks(g) = {}
    BY DEF LazyStaysUnused
  <2>1. dev[Itab] \in Tables
    BY PlaceFacts, ContentIs DEF Base, Typed, ChannelTyped
  <2>2. OwnedBy(dev[Itab]) \subseteq Usable
    BY <2>1, TablesAre
  <2>3. Owned \subseteq Usable
    BY <2>2 DEF Owned, OwnedBy
  <2> QED BY <2>3, UsableFacts
<1> QED BY <1>1, MountInvariant, PTL

(* All parts together, when no device error hits between the words of the  *)
(* superblock: what memory holds agrees with the inode table, the          *)
(* superblock on the device is orig_super, and a closed volume is          *)
(* consistent.                                                             *)
THEOREM MountWhole ==
  ASSUME WholeSuper
  PROVE  Spec => []Inv
<1>1. Init => Inv
  <2> SUFFICES ASSUME Init PROVE Inv
    OBVIOUS
  <2>1. Base /\ ~Open /\ Left
    BY InitBase
  <2>2. Written /\ Agrees
    BY <2>1 DEF Written, Agrees
  <2> QED BY <2>1, <2>2 DEF Inv
<1>2. Inv /\ [Next]_vars => Inv'
  BY NextInv
<1> QED BY <1>1, <1>2, PTL DEF Spec

(* While a volume is mounted and no block was dropped, what memory holds   *)
(* and the channel does not, a dirty flag remembers, so what ext2fs_flush  *)
(* and ext2fs_close skip is already written; and a flush that reports      *)
(* success has written every superblock word that changed                  *)
(* (ext2fs_mark_super_dirty, write_primary_superblock, ext2fs_close).      *)
THEOREM MountFlagsSound ==
  ASSUME WholeSuper
  PROVE  Spec => []FlagsSound
<1>1. Inv => FlagsSound
  <2> SUFFICES ASSUME Inv PROVE FlagsSound
    OBVIOUS
  <2> USE DEF Inv, Base
  <2>1. ASSUME Open, "DIRTY" \notin fs.flags PROVE sb = fs.super
    <3>1. sb \in Supers /\ fs.super \in Supers
      BY DEF Typed, Filsys
    <3>2. /\ sb.valid = fs.super.valid /\ fs.orig = fs.super
          /\ pc \in {"idle", "flush", "super", "done", "failed"} => sb = fs.orig
          /\ pc = "super_fi" => sb.fb = fs.super.fb /\ sb.fi = fs.orig.fi
          /\ pc \in {"super_wtime", "super_done"} => sb = fs.super
      BY <2>1 DEF Written
    <3>3. pc = "super_fi" => sb = fs.super
      BY <3>1, <3>2, SupersEqual
    <3> QED BY <3>2, <3>3 DEF Typed
  <2>2. SuperWritten
    BY <2>1 DEF SuperWritten, Typed
  <2>3. FlagsCoverChanges
    <3> SUFFICES ASSUME fs.state = "up", ~lost
                 PROVE  /\ "BB" \notin fs.flags /\ "bb" \in fs.maps =>
                             \A g \in Groups \ LazyGroups : Seen(BB(g)) = fs.bb \cap GroupBlocks(g)
                        /\ "IB" \notin fs.flags /\ "ib" \in fs.maps =>
                             \A g \in Groups : Seen(IB(g)) = fs.ib \cap GroupInodes(g)
                        /\ "DIRTY" \notin fs.flags => Seen(Desc) = fs.desc /\ sb = fs.super
      BY DEF FlagsCoverChanges
    <3>1. Open
      BY DEF Open
    <3> QED BY <2>1, <3>1 DEF Saved
  <2> QED BY <2>2, <2>3 DEF FlagsSound
<1> QED BY <1>1, MountWhole, PTL

(* After any number of mounts, requests, evictions, refused and retried    *)
(* write-backs, none of which died or dropped a block, ext2fs_close leaves *)
(* a volume on which bitmaps, group descriptors, superblock and inode      *)
(* table agree; and no block of a lazy group is ever owned (ext2fs_close,  *)
(* ext2fs_flush, ext2fs_inode_alloc_stats2, ext2fs_block_alloc_stats).     *)
THEOREM MountVolumeSound ==
  ASSUME WholeSuper
  PROVE  Spec => []VolumeSound
<1>1. Inv => UnmountedIsConsistent
  BY DEF Inv, Left, UnmountedIsConsistent
<1>2. Inv => TypeOK
  BY DEF Inv, Base, Typed, ChannelTyped, Filsys, TypeOK
<1>3. Inv /\ LazyStaysUnused => VolumeSound
  BY <1>1, <1>2 DEF VolumeSound
<1> QED BY <1>3, MountWhole, MountLazyStaysUnused, PTL

----------------------------------------------------------------------------
(* The layout of a volume (Layout), which keeps a state of its own.        *)

CONSTANTS DescPerBlock, InodesPerBlock, BitsPerBlock, AddrPerBlock, Multiple, MinInodes,
          Slack, RetryMin, RetryStep, Params
VARIABLES param, lsb, lpc, grp, map, desc
Laid == INSTANCE Layout WITH sb <- lsb, pc <- lpc

SparseFlags == {p.sparse : p \in Params}
Superblocks ==
  [blocks : Int, first : {0, 1}, bpg : Nat \ {0}, inodes : Int, sparse : SparseFlags,
   meta : Nat \cup {-1}, reserved : Nat, groups : Nat, desc_blocks : Int, ipg : Int, table : Int]
GroupDescs == [bb : Int, ib : Int, it : Int, free : Int]

(* The blocks of a group that ext2fs_flush may write descriptors to.       *)
DescHome(s, g) ==
  LET loc == Laid!ext2fs_super_and_bgd_loc(s, g)
  IN  (IF loc.old = 0 THEN {} ELSE loc.old .. (loc.old + Laid!OldDescBlocks(s) - 1))
        \cup (IF loc.new = 0 THEN {} ELSE {loc.new})

(* The blocks of the tables of a descriptor d.                             *)
TablesOf(d) == {d.bb, d.ib} \cup (d.it .. (d.it + lsb.table - 1))
OwnApart(d) == d.bb # d.ib /\ {d.bb, d.ib} \cap (d.it .. (d.it + lsb.table - 1)) = {}

(* The groups whose descriptors have been reserved, and the groups whose   *)
(* tables have their place.                                                *)
LaidGroups == 0 .. (lsb.groups - 1)
ReservedGroups == IF lpc = "reserve" THEN 0 .. (grp - 1) ELSE LaidGroups
PlacedGroups == IF lpc = "done" THEN LaidGroups
                ELSE IF lpc = "tables" THEN 0 .. (grp - 1) ELSE {}

LayoutTypes ==
  /\ param \in Params /\ lsb \in Superblocks
  /\ lsb.blocks \in Nat /\ lsb.blocks >= lsb.first
  /\ lpc \in {"retry", "reserve", "tables", "done", "error"}
  /\ lpc = "retry" => grp = 0 /\ map = {}
  /\ lpc \in {"reserve", "tables", "done"} =>
       /\ lsb.groups # 0 /\ lsb.desc_blocks = Laid!ext2fs_div_ceil(lsb.groups, DescPerBlock)
       /\ desc \in [LaidGroups -> GroupDescs] /\ grp \in LaidGroups

(* The inductive invariant: what is reserved or placed is marked in the    *)
(* map, and what is placed lies apart.                                     *)
LayoutInv ==
  /\ LayoutTypes
  /\ lpc \in {"reserve", "tables", "done"} =>
       /\ \A g \in ReservedGroups : DescHome(lsb, g) \subseteq map
       /\ \A g \in PlacedGroups :
            /\ TablesOf(desc[g]) \subseteq map /\ OwnApart(desc[g])
            /\ \A h \in LaidGroups : TablesOf(desc[g]) \cap DescHome(lsb, h) = {}
            /\ \A h \in PlacedGroups : h # g => TablesOf(desc[g]) \cap TablesOf(desc[h]) = {}

(* Records of the superblock with some of their fields replaced.           *)
LEMMA SmallerGroups ==
  ASSUME NEW x \in Superblocks, NEW b \in Nat \ {0}, NEW c \in Int
  PROVE  LET y == [x EXCEPT !.bpg = b, !.blocks = c]
         IN  y \in Superblocks /\ y.blocks = c /\ y.first = x.first
BY DEF Superblocks

LEMMA FilledIn ==
  ASSUME NEW x \in Superblocks, NEW a \in Nat, NEW b \in Int, NEW c \in Int, NEW d \in Int,
         NEW e \in Int, NEW f \in Nat
  PROVE  [x EXCEPT !.groups = a, !.desc_blocks = b, !.ipg = c, !.table = d, !.inodes = e,
                   !.reserved = f] \in Superblocks
BY Zenon DEF Superblocks

LEMMA ProductNat ==
  ASSUME NEW a \in Nat, NEW b \in Nat
  PROVE  a * b \in Nat
OBVIOUS

LEMMA LayoutConstants ==
  ASSUME Laid!LayoutAssumption
  PROVE  /\ DescPerBlock \in Nat \ {0} /\ InodesPerBlock \in Nat \ {0} /\ Multiple \in Nat \ {0}
         /\ RetryStep \in Nat \ {0} /\ MinInodes \in Nat /\ RetryMin \in Nat /\ RetryMin > RetryStep
BY DEF Laid!LayoutAssumption

LEMMA DivCeilFacts ==
  ASSUME NEW a \in Nat, NEW b \in Nat \ {0}
  PROVE  /\ Laid!ext2fs_div_ceil(a, b) \in Nat
         /\ a # 0 => Laid!ext2fs_div_ceil(a, b) = (a - 1) \div b + 1
<1>1. CASE a = 0
  BY <1>1 DEF Laid!ext2fs_div_ceil
<1>2. CASE a # 0
  <2>1. a - 1 \in Nat
    BY <1>2
  <2>2. (a - 1) \div b \in Nat
    BY <2>1, DivisionNat
  <2> QED BY <1>2, <2>2 DEF Laid!ext2fs_div_ceil
<1> QED BY <1>1, <1>2

LEMMA DivCeilInt ==
  ASSUME NEW a \in Int, NEW b \in Nat \ {0}
  PROVE  Laid!ext2fs_div_ceil(a, b) \in Int
<1>1. (a - 1) \div b \in Int
  <2>1. a - 1 \in Int
    OBVIOUS
  <2> QED BY <2>1, Division
<1> QED BY <1>1 DEF Laid!ext2fs_div_ceil

LEMMA LaidInitInv ==
  ASSUME Laid!LayoutAssumption, Laid!Init PROVE LayoutInv
<1>1. /\ param \in Params /\ param.blocks \in Nat \ {0} /\ param.first \in {0, 1}
      /\ param.bpg \in Nat \ {0} /\ param.sparse \in SparseFlags /\ param.meta \in Nat \cup {-1}
  BY DEF Laid!Init, Laid!LayoutAssumption, SparseFlags
<1>2. lsb = [blocks |-> param.blocks, first |-> param.first, bpg |-> param.bpg,
           inodes |-> 0, sparse |-> param.sparse, meta |-> param.meta,
           reserved |-> 0, groups |-> 0, desc_blocks |-> 0, ipg |-> 0, table |-> 0]
      /\ lpc = "retry" /\ grp = 0 /\ map = {}
  BY DEF Laid!Init
<1>3. lsb \in Superblocks /\ lsb.blocks \in Nat /\ lsb.blocks >= lsb.first
  BY <1>1, <1>2 DEF Superblocks
<1> QED BY <1>1, <1>2, <1>3 DEF LayoutInv, LayoutTypes

(* One pass of ext2fs_initialize.                                          *)
LEMMA InitializeInv ==
  ASSUME Laid!LayoutAssumption, LayoutInv, Laid!ext2fs_initialize PROVE LayoutInv'
<1> DEFINE n == lsb.blocks - lsb.first
           groups == Laid!ext2fs_div_ceil(n, lsb.bpg)
           want == Laid!Max({param.inodes, MinInodes})
           ipg == Laid!ext2fs_div_ceil(want, groups)
           r == Laid!RoundInodes(ipg)
           dbs == Laid!ext2fs_div_ceil(groups, DescPerBlock)
           s == [lsb EXCEPT !.groups = groups, !.desc_blocks = dbs,
                            !.ipg = r.ipg, !.table = r.table,
                            !.inodes = r.ipg * groups, !.reserved = param.reserved]
           rem == n % lsb.bpg
<1>1. /\ lpc = "retry" /\ lsb \in Superblocks /\ lsb.blocks \in Nat /\ lsb.blocks >= lsb.first
      /\ param \in Params /\ grp = 0 /\ map = {} /\ lsb.first \in {0, 1} /\ lsb.bpg \in Nat \ {0}
  BY DEF Laid!ext2fs_initialize, LayoutInv, LayoutTypes, Superblocks
<1>2. param.inodes \in Nat \ {0} /\ param.blocks \in Nat \ {0} /\ param.reserved \in Nat
  BY <1>1 DEF Laid!LayoutAssumption
<1>3. \/ lpc' = "error" /\ lsb' = lsb /\ UNCHANGED <<param, grp, map, desc>>
      \/ /\ groups # 0 /\ lsb.bpg >= RetryMin
         /\ lsb' = [lsb EXCEPT !.bpg = @ - RetryStep, !.blocks = param.blocks]
         /\ UNCHANGED <<param, lpc, grp, map, desc>>
      \/ groups # 0 /\ lsb' = s /\ lpc' = "error" /\ UNCHANGED <<param, grp, map, desc>>
      \/ /\ groups # 0 /\ lsb' = [lsb EXCEPT !.blocks = @ - rem] /\ UNCHANGED <<param, lpc, grp, map, desc>>
      \/ /\ groups # 0 /\ lsb' = s /\ lpc' = "reserve"
         /\ desc' = [g \in 0 .. (groups - 1) |-> [bb |-> 0, ib |-> 0, it |-> 0, free |-> 0]]
         /\ UNCHANGED <<param, grp, map>>
  BY DEF Laid!ext2fs_initialize, Laid!Fail
<1>4. n \in Nat /\ rem \in 0 .. (lsb.bpg - 1) /\ rem <= n
  <2>1. n \in Nat
    BY <1>1
  <2>2. rem \in 0 .. (lsb.bpg - 1) /\ n = lsb.bpg * (n \div lsb.bpg) + rem
    <3> DEFINE b == lsb.bpg
    <3>1. b \in Nat \ {0} /\ n \in Int
      BY <1>1, <2>1
    <3> HIDE DEF n, b
    <3>2. n = b * (n \div b) + (n % b) /\ n % b \in 0 .. (b - 1)
      BY <3>1, Division
    <3> QED BY <3>2 DEF b
  <2>3. n \div lsb.bpg \in Nat
    <3> HIDE DEF n
    <3> QED BY <1>1, <2>1, DivisionNat
  <2>4. lsb.bpg * (n \div lsb.bpg) \in Nat
    <3> DEFINE q == n \div lsb.bpg
    <3>1. q \in Nat
      BY <2>3
    <3> HIDE DEF q
    <3> QED BY <1>1, <3>1, ProductNat DEF q
  <2> DEFINE y == lsb.bpg * (n \div lsb.bpg)
  <2>5. y \in Nat /\ n = y + rem
    BY <2>2, <2>4
  <2> HIDE DEF n, rem, y
  <2> QED BY <1>1, <2>1, <2>2, <2>5
<1>5. groups \in Nat
  BY <1>1, <1>4, DivCeilFacts
<1>6. groups # 0 => s \in Superblocks
  <2> SUFFICES ASSUME groups # 0 PROVE s \in Superblocks
    OBVIOUS
  <2> HIDE DEF groups
  <2>1. want \in Int
    <3>1. \E x \in {param.inodes, MinInodes} : \A y \in {param.inodes, MinInodes} : x >= y
      BY <1>2, LayoutConstants
    <3>2. want \in {param.inodes, MinInodes}
      BY <3>1 DEF Laid!Max
    <3> QED BY <1>2, <3>2, LayoutConstants
  <2> HIDE DEF want
  <2>2. ipg \in Int
    BY <1>5, <2>1, DivCeilInt
  <2> HIDE DEF ipg
  <2>3. r.ipg \in Int /\ r.table \in Int
    <3> DEFINE t == Laid!ext2fs_div_ceil(ipg, InodesPerBlock)
               x == t * InodesPerBlock
               y == x \div Multiple
               z == y * Multiple
    <3>1. t \in Int
      BY <2>2, DivCeilInt, LayoutConstants
    <3>2. r = [ipg |-> z, table |-> Laid!ext2fs_div_ceil(z, InodesPerBlock)]
      BY DEF Laid!RoundInodes
    <3> HIDE DEF t
    <3>3. x \in Int
      BY <3>1, LayoutConstants
    <3> HIDE DEF x
    <3>4. y \in Int
      BY <3>3, Division, LayoutConstants
    <3> HIDE DEF y
    <3>5. z \in Int
      BY <3>4, LayoutConstants
    <3> HIDE DEF z, r
    <3>6. Laid!ext2fs_div_ceil(z, InodesPerBlock) \in Int
      BY <3>5, DivCeilInt, LayoutConstants
    <3> QED BY <3>2, <3>5, <3>6
  <2> HIDE DEF r
  <2>4. dbs \in Nat
    BY <1>5, DivCeilFacts, LayoutConstants
  <2>5. r.ipg * groups \in Int
    BY <1>5, <2>3
  <2> HIDE DEF dbs
  <2>6. dbs \in Int
    BY <2>4
  <2> DEFINE e == r.ipg * groups
             res == param.reserved
             sp == [lsb EXCEPT !.groups = groups, !.desc_blocks = dbs, !.ipg = r.ipg,
                               !.table = r.table, !.inodes = e, !.reserved = res]
  <2>7. e \in Int /\ res \in Nat
    BY <1>2, <2>5
  <2>8. s = sp
    OBVIOUS
  <2> HIDE DEF e, res
  <2>9. sp \in Superblocks
    BY <1>1, <1>5, <2>3, <2>6, <2>7, FilledIn
  <2> HIDE DEF s, sp
  <2> QED BY <2>8, <2>9
<1>7. groups # 0 => /\ s.groups = groups /\ s.desc_blocks = dbs /\ s.blocks = lsb.blocks /\ s.first = lsb.first
  BY <1>1 DEF Superblocks
<1> HIDE DEF s, groups, rem, n
<1>8. CASE lpc' = "error" /\ lsb' = lsb /\ UNCHANGED <<param, grp, map, desc>>
  BY <1>1, <1>8 DEF LayoutInv, LayoutTypes
<1>9. CASE /\ groups # 0 /\ lsb.bpg >= RetryMin
           /\ lsb' = [lsb EXCEPT !.bpg = @ - RetryStep, !.blocks = param.blocks]
           /\ UNCHANGED <<param, lpc, grp, map, desc>>
  <2>1. lsb.bpg - RetryStep \in Nat \ {0}
    BY <1>1, <1>9, LayoutConstants
  <2>2. lsb' \in Superblocks /\ lsb'.blocks = param.blocks /\ lsb'.first = lsb.first
    <3> DEFINE b == lsb.bpg - RetryStep
               c == param.blocks
    <3>1. lsb' = [lsb EXCEPT !.bpg = b, !.blocks = c]
      BY <1>9
    <3>2. b \in Nat \ {0} /\ c \in Int
      BY <1>2, <2>1
    <3> HIDE DEF b, c
    <3>3. lsb' \in Superblocks /\ lsb'.blocks = c /\ lsb'.first = lsb.first
      BY <1>1, <3>1, <3>2, SmallerGroups
    <3> QED BY <3>3 DEF c
  <2>3. lsb'.blocks \in Nat /\ lsb'.blocks >= lsb'.first
    BY <1>1, <1>2, <2>2
  <2> QED BY <1>1, <1>9, <2>2, <2>3 DEF LayoutInv, LayoutTypes
<1>10. CASE groups # 0 /\ lsb' = s /\ lpc' = "error" /\ UNCHANGED <<param, grp, map, desc>>
  BY <1>1, <1>6, <1>7, <1>10 DEF LayoutInv, LayoutTypes
<1>11. CASE groups # 0 /\ lsb' = [lsb EXCEPT !.blocks = @ - rem] /\ UNCHANGED <<param, lpc, grp, map, desc>>
  <2>1. lsb.blocks - rem \in Nat /\ lsb.blocks - rem >= lsb.first
    BY <1>1, <1>4 DEF n
  <2>2. lsb' \in Superblocks /\ lsb'.blocks = lsb.blocks - rem /\ lsb'.first = lsb.first
    BY <1>1, <1>11, <2>1 DEF Superblocks
  <2> QED BY <1>1, <1>11, <2>1, <2>2 DEF LayoutInv, LayoutTypes
<1>12. CASE /\ groups # 0 /\ lsb' = s /\ lpc' = "reserve"
            /\ desc' = [g \in 0 .. (groups - 1) |-> [bb |-> 0, ib |-> 0, it |-> 0, free |-> 0]]
            /\ UNCHANGED <<param, grp, map>>
  <2>1. lsb' \in Superblocks /\ lsb'.groups = groups /\ lsb'.desc_blocks = dbs
        /\ lsb'.blocks = lsb.blocks /\ lsb'.first = lsb.first
    BY <1>6, <1>7, <1>12
  <2>2. LaidGroups' = 0 .. (groups - 1)
    BY <2>1 DEF LaidGroups
  <2>3. 0 \in 0 .. (groups - 1) /\ 0 .. (0 - 1) = {}
    BY <1>5, <1>12
  <2>4. desc' \in [0 .. (groups - 1) -> GroupDescs]
    BY <1>12 DEF GroupDescs
  <2>5. LayoutTypes'
    BY <1>1, <1>12, <2>1, <2>2, <2>3, <2>4 DEF LayoutTypes
  <2>6. ReservedGroups' = {} /\ PlacedGroups' = {}
    BY <1>1, <1>12, <2>3 DEF ReservedGroups, PlacedGroups
  <2> QED BY <2>5, <2>6 DEF LayoutInv
<1> QED BY <1>3, <1>8, <1>9, <1>10, <1>11, <1>12

(* ext2fs_reserve_super_and_bgd, for one group.                            *)
LEMMA NextGroup ==
  ASSUME LayoutTypes, lpc \in {"reserve", "tables"}, grp' = (grp + 1) % lsb.groups, lsb' = lsb
  PROVE  /\ lsb.groups \in Nat \ {0} /\ grp \in 0 .. (lsb.groups - 1)
         /\ LaidGroups' = LaidGroups /\ grp' \in LaidGroups
         /\ grp + 1 # lsb.groups => grp' = grp + 1 /\ 0 .. (grp' - 1) = (0 .. (grp - 1)) \cup {grp}
         /\ grp + 1 = lsb.groups => LaidGroups = (0 .. (grp - 1)) \cup {grp}
<1> DEFINE n == lsb.groups
<1>1. n \in Nat \ {0} /\ grp \in 0 .. (n - 1) /\ LaidGroups = 0 .. (n - 1) /\ LaidGroups' = LaidGroups
  BY DEF LayoutTypes, Superblocks, LaidGroups
<1>2. grp' = (grp + 1) % n
  OBVIOUS
<1> HIDE DEF n
<1>3. CASE grp + 1 = n
  <2>1. n % n = 0
    BY <1>1, Z3
  <2>2. grp' = 0
    BY <1>2, <1>3, <2>1
  <2> QED BY <1>1, <1>3, <2>2 DEF n
<1>4. CASE grp + 1 # n
  <2>1. grp + 1 \in 0 .. (n - 1)
    BY <1>1, <1>4
  <2>2. (grp + 1) % n = grp + 1
    BY <1>1, <2>1, Z3
  <2> QED BY <1>1, <1>2, <1>4, <2>1, <2>2 DEF n
<1> QED BY <1>3, <1>4

LEMMA ReserveInv ==
  ASSUME LayoutInv, Laid!ext2fs_reserve_super_and_bgd PROVE LayoutInv'
<1> DEFINE loc == Laid!ext2fs_super_and_bgd_loc(lsb, grp)
<1>1. /\ lpc = "reserve" /\ map' = map \cup Laid!ReservedBlocks(loc)
      /\ desc' = [desc EXCEPT ![grp].free = loc.left]
      /\ grp' = (grp + 1) % lsb.groups
      /\ lpc' = (IF grp + 1 = lsb.groups THEN "tables" ELSE lpc)
      /\ param' = param /\ lsb' = lsb
  BY DEF Laid!ext2fs_reserve_super_and_bgd
<1>2. LayoutTypes /\ \A g \in 0 .. (grp - 1) : DescHome(lsb, g) \subseteq map
  BY <1>1 DEF LayoutInv, ReservedGroups
<1>3. loc.left \in Int
  <2> DEFINE rest == (lsb.blocks - lsb.first) % lsb.bpg
             all == IF grp = lsb.groups - 1 /\ rest # 0 THEN rest ELSE lsb.bpg
  <2>1. rest \in Int /\ lsb.bpg \in Int /\ lsb.table \in Int /\ Laid!OldDescBlocks(lsb) \in Int
    <3> DEFINE n == lsb.blocks - lsb.first
               b == lsb.bpg
    <3>1. /\ n \in Int /\ b \in Nat \ {0} /\ lsb.table \in Int /\ lsb.meta \in Nat \cup {-1}
          /\ lsb.desc_blocks \in Int /\ lsb.reserved \in Nat
      BY <1>2 DEF LayoutTypes, Superblocks
    <3>2. Laid!OldDescBlocks(lsb) \in Int
      BY <3>1 DEF Laid!OldDescBlocks
    <3> HIDE DEF n, b
    <3>3. n % b \in 0 .. (b - 1)
      BY <3>1, Division
    <3>4. n % b \in Int /\ b \in Int
      BY <3>1, <3>3
    <3> QED BY <3>1, <3>2, <3>4 DEF n, b
  <2>2. all \in Int
    BY <2>1
  <2>3. \E x, y \in BOOLEAN, z \in BOOLEAN : loc.left = all - (IF x THEN 1 ELSE 0)
                   - (IF y THEN Laid!OldDescBlocks(lsb) ELSE IF z THEN 1 ELSE 0) - 2 - lsb.table
    BY DEF Laid!ext2fs_super_and_bgd_loc
  <2> HIDE DEF all, rest
  <2> QED BY <2>1, <2>2, <2>3
<1>4. DescHome(lsb, grp) \subseteq Laid!ReservedBlocks(loc)
  BY DEF DescHome, Laid!ReservedBlocks
<1>5. \A g \in (0 .. (grp - 1)) \cup {grp} : DescHome(lsb, g) \subseteq map'
  BY <1>1, <1>2, <1>4
<1> HIDE DEF loc
<1>6. desc' \in [LaidGroups -> GroupDescs]
  BY <1>1, <1>2, <1>3 DEF LayoutTypes, GroupDescs
<1>7. LayoutTypes'
  BY <1>1, <1>2, <1>6, NextGroup DEF LayoutTypes
<1>8. PlacedGroups' = {}
  <2>1. CASE grp + 1 = lsb.groups
    <3>1. grp' = 0
      BY <1>1, <1>2, <2>1, NextGroup DEF LayoutTypes
    <3> QED BY <1>1, <2>1, <3>1 DEF PlacedGroups
  <2>2. CASE grp + 1 # lsb.groups
    BY <1>1, <2>2 DEF PlacedGroups
  <2> QED BY <2>1, <2>2
<1>9. ReservedGroups' = (0 .. (grp - 1)) \cup {grp}
  BY <1>1, <1>2, NextGroup DEF ReservedGroups
<1> QED BY <1>1, <1>5, <1>7, <1>8, <1>9 DEF LayoutInv

(* What ext2fs_get_free_blocks finds is free.                              *)
LEMMA FreeBlocksAreFree ==
  ASSUME NEW m, NEW start \in Nat, NEW finish \in Int, NEW n \in Int,
         lsb.blocks \in Nat, lsb.first \in Nat,
         NEW res, res = Laid!ext2fs_get_free_blocks(m, start, finish, n), ~(res < 0)
  PROVE  res \in Nat /\ (res .. (res + n - 1)) \cap m = {}
<1> DEFINE limit == lsb.blocks - n + 1
           fits(b) == \A c \in b .. (b + n - 1) : c \notin m
           high == IF finish - 1 < limit THEN finish - 1 ELSE limit
           upper == {b \in start .. high : fits(b)}
           again == {b \in lsb.first .. limit : fits(b)}
<1>1. limit \in Int /\ high \in Int
  OBVIOUS
<1>2. upper \in SUBSET Nat /\ again \in SUBSET Nat
  <2> HIDE DEF limit, high
  <2> QED BY <1>1
<1>3. res = (IF upper # {} THEN Laid!Min(upper)
             ELSE IF start < finish /\ finish - 1 <= limit THEN -1
             ELSE IF again # {} THEN Laid!Min(again) ELSE -2)
  BY DEF Laid!ext2fs_get_free_blocks
<1>4. upper # {} => Laid!Min(upper) \in upper
  <2> HIDE DEF upper
  <2> QED BY <1>2, LeastNat DEF Laid!Min
<1>5. again # {} => Laid!Min(again) \in again
  <2> HIDE DEF again
  <2> QED BY <1>2, LeastNat DEF Laid!Min
<1>6. res \in upper \/ res \in again
  <2> HIDE DEF upper, again, limit
  <2> QED BY <1>3, <1>4, <1>5
<1>7. res \in Nat /\ fits(res)
  BY <1>2, <1>6
<1> QED BY <1>7

(* ext2fs_allocate_group_table.                                            *)
LEMMA TableInv ==
  ASSUME LayoutInv, Laid!ext2fs_allocate_group_table PROVE LayoutInv'
<1> DEFINE first == Laid!ext2fs_group_first_block(lsb, grp)
           last == Laid!ext2fs_group_last_block(lsb, grp)
           bb == Laid!ext2fs_get_free_blocks(map, first, last, 1)
           ib == Laid!ext2fs_get_free_blocks(map \cup {bb}, first, last, 1)
           it == Laid!ext2fs_get_free_blocks(map \cup {bb, ib}, first, last, lsb.table)
           new == {bb, ib} \cup (it .. (it + lsb.table - 1))
<1>1. lpc = "tables" /\ param' = param /\ lsb' = lsb /\ LayoutTypes
  BY DEF Laid!ext2fs_allocate_group_table, LayoutInv
<1>2. \/ lpc' = "error"
      \/ /\ ~(bb < 0 \/ ib < 0 \/ it < 0)
         /\ map' = map \cup {bb, ib} \cup (it .. (it + lsb.table - 1))
         /\ desc' = [desc EXCEPT ![grp].bb = bb, ![grp].ib = ib, ![grp].it = it]
         /\ grp' = (grp + 1) % lsb.groups
         /\ lpc' = (IF grp + 1 = lsb.groups THEN "done" ELSE lpc)
  BY DEF Laid!ext2fs_allocate_group_table
<1>3. CASE lpc' = "error"
  BY <1>1, <1>3 DEF LayoutInv, LayoutTypes
<1>4. CASE /\ ~(bb < 0 \/ ib < 0 \/ it < 0)
           /\ map' = map \cup {bb, ib} \cup (it .. (it + lsb.table - 1))
           /\ desc' = [desc EXCEPT ![grp].bb = bb, ![grp].ib = ib, ![grp].it = it]
           /\ grp' = (grp + 1) % lsb.groups
           /\ lpc' = (IF grp + 1 = lsb.groups THEN "done" ELSE lpc)
  <2>1. /\ lsb.blocks \in Nat /\ lsb.first \in Nat /\ lsb.table \in Int /\ lsb.bpg \in Nat
        /\ grp \in Nat /\ grp \in LaidGroups /\ lsb.groups \in Nat
    BY <1>1 DEF LayoutTypes, Superblocks, LaidGroups
  <2>2. first \in Nat /\ last \in Int
    <3> DEFINE p == grp * lsb.bpg
    <3>1. p \in Nat
      BY <2>1, ProductNat
    <3>2. first = lsb.first + p
      BY DEF Laid!ext2fs_group_first_block
    <3>3. last = (IF grp = lsb.groups - 1 THEN lsb.blocks - 1 ELSE first + lsb.bpg - 1)
      BY DEF Laid!ext2fs_group_last_block
    <3> HIDE DEF p, first, last
    <3> QED BY <2>1, <3>1, <3>2, <3>3
  <2> HIDE DEF first, last
  <2>3. bb \in Nat /\ (bb .. (bb + 1 - 1)) \cap map = {}
    <3>1. ~(bb < 0) /\ 1 \in Int
      BY <1>4
    <3>2. \A res : res = bb => res = Laid!ext2fs_get_free_blocks(map, first, last, 1)
      OBVIOUS
    <3> HIDE DEF bb
    <3> QED BY <2>1, <2>2, <3>1, <3>2, FreeBlocksAreFree
  <2>4. ib \in Nat /\ (ib .. (ib + 1 - 1)) \cap (map \cup {bb}) = {}
    <3> HIDE DEF bb
    <3>1. ~(ib < 0) /\ 1 \in Int
      BY <1>4
    <3>2. \A res : res = ib => res = Laid!ext2fs_get_free_blocks(map \cup {bb}, first, last, 1)
      OBVIOUS
    <3> HIDE DEF ib
    <3> QED BY <2>1, <2>2, <3>1, <3>2, FreeBlocksAreFree
  <2>5. it \in Nat /\ (it .. (it + lsb.table - 1)) \cap (map \cup {bb, ib}) = {}
    <3> HIDE DEF bb, ib
    <3>1. ~(it < 0)
      BY <1>4
    <3>2. \A res : res = it =>
            res = Laid!ext2fs_get_free_blocks(map \cup {bb, ib}, first, last, lsb.table)
      OBVIOUS
    <3> HIDE DEF it
    <3> QED BY <2>1, <2>2, <3>1, <3>2, FreeBlocksAreFree
  <2> HIDE DEF bb, ib, it
  <2>6. bb \notin map /\ ib \notin map /\ ib # bb
    BY <2>3, <2>4
  <2>7. new \cap map = {} /\ map' = map \cup new /\ {bb, ib} \cap (it .. (it + lsb.table - 1)) = {}
    BY <1>4, <2>5, <2>6
  <2>8. /\ desc' \in [LaidGroups -> GroupDescs]
        /\ desc'[grp].bb = bb /\ desc'[grp].ib = ib /\ desc'[grp].it = it
        /\ \A g \in LaidGroups : g # grp => desc'[g] = desc[g]
    <3>1. desc \in [LaidGroups -> GroupDescs]
      BY <1>1 DEF LayoutTypes
    <3>2. desc' = [desc EXCEPT ![grp] = [desc[grp] EXCEPT !.bb = bb, !.ib = ib, !.it = it]]
      BY <1>4, <2>1, <3>1 DEF GroupDescs
    <3> DEFINE d == [desc[grp] EXCEPT !.bb = bb, !.ib = ib, !.it = it]
    <3>3. desc[grp] \in GroupDescs
      BY <2>1, <3>1
    <3>4. d \in GroupDescs /\ d.bb = bb /\ d.ib = ib /\ d.it = it
      <4>1. bb \in Int /\ ib \in Int /\ it \in Int
        BY <2>3, <2>4, <2>5
      <4>2. d \in GroupDescs
        BY <3>3, <4>1, Zenon DEF GroupDescs
      <4>3. d.bb = bb /\ d.ib = ib /\ d.it = it
        BY <3>3, Zenon DEF GroupDescs
      <4> QED BY <4>2, <4>3
    <3>5. desc' = [desc EXCEPT ![grp] = d]
      BY <3>2
    <3> HIDE DEF d
    <3>6. desc' \in [LaidGroups -> GroupDescs] /\ desc'[grp] = d
      BY <2>1, <3>1, <3>4, <3>5
    <3>7. \A g \in LaidGroups : g # grp => desc'[g] = desc[g]
      BY <2>1, <3>1, <3>5
    <3> QED BY <3>4, <3>6, <3>7
  <2>9. /\ LaidGroups' = LaidGroups /\ grp' \in LaidGroups
        /\ PlacedGroups' = (0 .. (grp - 1)) \cup {grp} /\ PlacedGroups = 0 .. (grp - 1)
        /\ ReservedGroups' = LaidGroups /\ ReservedGroups = LaidGroups
        /\ PlacedGroups' \subseteq LaidGroups /\ grp \notin PlacedGroups
    BY <1>1, <1>4, <2>1, NextGroup DEF PlacedGroups, ReservedGroups, LaidGroups
  <2>10. /\ \A g \in LaidGroups : DescHome(lsb, g) \subseteq map
         /\ \A g \in PlacedGroups :
              /\ TablesOf(desc[g]) \subseteq map /\ OwnApart(desc[g])
              /\ \A h \in LaidGroups : TablesOf(desc[g]) \cap DescHome(lsb, h) = {}
              /\ \A h \in PlacedGroups : h # g => TablesOf(desc[g]) \cap TablesOf(desc[h]) = {}
    BY <1>1, <2>9 DEF LayoutInv
  <2>11. LayoutTypes'
    BY <1>1, <1>4, <2>8, <2>9 DEF LayoutTypes
  <2> DEFINE T(g) == IF g = grp THEN new ELSE TablesOf(desc[g])
  <2>12. /\ \A g \in PlacedGroups' : TablesOf(desc[g])' = T(g)
         /\ \A g \in PlacedGroups' : OwnApart(desc[g])'
    <3>1. \A g : g = grp => TablesOf(desc[g])' = new /\ OwnApart(desc[g])'
      BY <1>1, <2>6, <2>7, <2>8 DEF TablesOf, OwnApart
    <3>2. \A g \in PlacedGroups : TablesOf(desc[g])' = TablesOf(desc[g]) /\ OwnApart(desc[g])'
      BY <1>1, <2>8, <2>9, <2>10 DEF TablesOf, OwnApart
    <3>3. \A g \in PlacedGroups' : g = grp \/ (g # grp /\ g \in PlacedGroups)
      BY <2>9
    <3> HIDE DEF new
    <3> QED BY <3>1, <3>2, <3>3
  <2> HIDE DEF new
  <2>13. \A g \in PlacedGroups' :
            /\ T(g) \subseteq map'
            /\ \A h \in LaidGroups : T(g) \cap DescHome(lsb, h) = {}
            /\ \A h \in PlacedGroups' : h # g => T(g) \cap T(h) = {}
    <3>1. \A g \in PlacedGroups' : g = grp \/ (g # grp /\ g \in PlacedGroups)
      BY <2>9
    <3>2. \A g \in PlacedGroups : T(g) \subseteq map /\ T(g) = TablesOf(desc[g])
      BY <2>9, <2>10
    <3> QED BY <2>7, <2>10, <3>1, <3>2
  <2>14. \A g \in LaidGroups : DescHome(lsb, g) \subseteq map'
    BY <2>7, <2>10
  <2> HIDE DEF T
  <2> QED BY <1>1, <2>9, <2>11, <2>12, <2>13, <2>14 DEF LayoutInv
<1> QED BY <1>2, <1>3, <1>4

LEMMA LaidStepInv ==
  ASSUME Laid!LayoutAssumption, LayoutInv, [Laid!Next]_(Laid!vars) PROVE LayoutInv'
<1>1. CASE UNCHANGED Laid!vars
  <2>1. /\ param' = param /\ lsb' = lsb /\ lpc' = lpc /\ grp' = grp /\ map' = map /\ desc' = desc
    BY <1>1 DEF Laid!vars
  <2>2. LayoutTypes' /\ ReservedGroups' = ReservedGroups /\ PlacedGroups' = PlacedGroups
        /\ LaidGroups' = LaidGroups
    BY <2>1 DEF LayoutInv, LayoutTypes, ReservedGroups, PlacedGroups, LaidGroups
  <2>3. \A g : TablesOf(desc[g])' = TablesOf(desc[g]) /\ (OwnApart(desc[g])' <=> OwnApart(desc[g]))
    BY <2>1 DEF TablesOf, OwnApart
  <2> QED BY <2>1, <2>2, <2>3 DEF LayoutInv
<1> QED BY <1>1, InitializeInv, ReserveInv, TableInv DEF Laid!Next

(* Group 0 has the superblock, and the old descriptors right after it.     *)
LEMMA GroupZero ==
  ASSUME Laid!LayoutAssumption, lsb \in Superblocks,
         NEW k \in Nat, lsb.meta < 0 \/ k < lsb.meta
  PROVE  Laid!ext2fs_super_and_bgd_loc(lsb, 0).old = lsb.first + 1
<1>1. /\ lsb.first \in {0, 1} /\ lsb.bpg \in Nat \ {0} /\ lsb.meta \in Nat \cup {-1}
      /\ DescPerBlock \in Nat \ {0}
  BY LayoutConstants DEF Superblocks
<1>2. Laid!ext2fs_bg_has_super(lsb, 0)
  BY DEF Laid!ext2fs_bg_has_super, Laid!test_root
<1>3. Laid!ext2fs_group_first_block(lsb, 0) = lsb.first
  BY <1>1 DEF Laid!ext2fs_group_first_block
<1>4. 0 \div DescPerBlock = 0
  BY <1>1, Z3
<1>5. lsb.meta < 0 \/ 0 \div DescPerBlock < lsb.meta
  BY <1>1, <1>4
<1> HIDE DEF Laid!ext2fs_bg_has_super
<1> QED BY <1>2, <1>3, <1>5 DEF Laid!ext2fs_super_and_bgd_loc

(* The group that a descriptor block of META_BG lies in.                   *)
LEMMA MetaGroup ==
  ASSUME NEW n \in Nat \ {0}, NEW d \in Nat \ {0},
         NEW k \in 0 .. (Laid!ext2fs_div_ceil(n, d) - 1)
  PROVE  d * k \in 0 .. (n - 1) /\ (d * k) \div d = k /\ (d * k) % d = 0
<1> DEFINE q == (n - 1) \div d
           r == (n - 1) % d
           x == d * k
           y == d * q
<1>1. Laid!ext2fs_div_ceil(n, d) = q + 1
  BY DEF Laid!ext2fs_div_ceil
<1>2. q \in Nat /\ n - 1 = y + r /\ r \in 0 .. (d - 1)
  <2> DEFINE m == n - 1
  <2>1. m \in Nat /\ m \in Int
    OBVIOUS
  <2>2. q = m \div d /\ r = m % d
    OBVIOUS
  <2> HIDE DEF m, q, r
  <2>3. m = d * (m \div d) + (m % d) /\ m % d \in 0 .. (d - 1)
    BY <2>1, Division
  <2>4. m \div d \in Nat
    BY <2>1, DivisionNat
  <2> QED BY <2>2, <2>3, <2>4 DEF m
<1>3. k \in Nat /\ k <= q
  <2> HIDE DEF q
  <2> QED BY <1>1, <1>2
<1>4. x \in Nat /\ y \in Nat /\ x <= y
  <2> HIDE DEF q
  <2>1. k * d <= q * d
    BY <1>2, <1>3, ProductMonotone
  <2>2. k * d = x /\ q * d = y
    BY <1>2, <1>3
  <2>3. x \in Nat /\ y \in Nat
    BY <1>2, <1>3, ProductNat
  <2> QED BY <2>1, <2>2, <2>3
<1>5. x \in 0 .. (n - 1)
  <2> HIDE DEF x, y, r
  <2> QED BY <1>2, <1>4
<1>6. x \div d = k /\ x % d = 0
  <2> DEFINE a == x \div d
             s == x % d
  <2>1. a \in Int /\ s \in 0 .. (d - 1) /\ x = d * a + s
    <3>1. x \in Int
      BY <1>4
    <3> HIDE DEF x
    <3>2. x = d * (x \div d) + (x % d) /\ x \div d \in Int /\ x % d \in 0 .. (d - 1)
      BY <3>1, Division
    <3> QED BY <3>2
  <2> HIDE DEF a, s
  <2>2. k * d + 0 = a * d + s
    BY <1>3, <2>1
  <2>3. 0 \in 0 .. (d - 1)
    OBVIOUS
  <2>4. k = a /\ 0 = s
    BY <1>3, <2>1, <2>2, <2>3, UniqueDivision
  <2> QED BY <2>4 DEF a, s
<1> QED BY <1>5, <1>6

(* ext2fs_open2 finds every block of the descriptors where ext2fs_flush    *)
(* puts it.                                                                *)
LEMMA ReadWhereWritten ==
  ASSUME Laid!LayoutAssumption, LayoutInv, lpc = "done",
         NEW k \in 0 .. (lsb.desc_blocks - 1)
  PROVE  Laid!ext2fs_descriptor_block_loc(lsb, k) \in Laid!DescWrittenAt(lsb, k)
<1> DEFINE count == IF lsb.meta >= 0 THEN lsb.meta ELSE lsb.desc_blocks
           Of(g) == Laid!ext2fs_super_and_bgd_loc(lsb, g)
           near == {h \in 0 .. (lsb.groups - 1) : h \div DescPerBlock = k}
           loc == [g \in {0} \cup near |-> Of(g)]
           new == {loc[g].new : g \in {h \in DOMAIN loc : h \div DescPerBlock = k}} \ {0}
<1>1. /\ lsb \in Superblocks /\ lsb.groups \in Nat \ {0} /\ lsb.first \in {0, 1} /\ lsb.bpg \in Nat \ {0}
      /\ lsb.meta \in Nat \cup {-1} /\ DescPerBlock \in Nat \ {0}
      /\ lsb.desc_blocks = Laid!ext2fs_div_ceil(lsb.groups, DescPerBlock) /\ lsb.desc_blocks \in Int
  BY LayoutConstants DEF LayoutInv, LayoutTypes, Superblocks
<1>2. k \in Nat /\ k < lsb.desc_blocks
  BY <1>1
<1>3. Laid!DescWrittenAt(lsb, k) =
        (IF loc[0].old # 0 /\ k < count THEN new \cup {loc[0].old + k} ELSE new)
  BY DEF Laid!DescWrittenAt
<1>4. CASE lsb.meta < 0 \/ k < lsb.meta
  <2>1. loc[0].old = lsb.first + 1
    BY <1>1, <1>2, <1>4, GroupZero
  <2>2. k < count
    BY <1>1, <1>2, <1>4
  <2>3. Laid!ext2fs_descriptor_block_loc(lsb, k) = lsb.first + k + 1
    BY <1>4 DEF Laid!ext2fs_descriptor_block_loc
  <2> HIDE DEF loc, new, count
  <2>4. loc[0].old # 0 /\ loc[0].old + k = lsb.first + k + 1
    BY <1>1, <1>2, <2>1
  <2> QED BY <1>3, <2>2, <2>3, <2>4
<1>5. CASE ~(lsb.meta < 0 \/ k < lsb.meta)
  <2> DEFINE g == DescPerBlock * k
             super == Laid!ext2fs_bg_has_super(lsb, g)
             p == g * lsb.bpg
  <2>1. g \in 0 .. (lsb.groups - 1) /\ g \div DescPerBlock = k /\ g % DescPerBlock = 0
    BY <1>1, MetaGroup
  <2>2. Laid!ext2fs_descriptor_block_loc(lsb, k) = lsb.first + (IF super THEN 1 ELSE 0) + p
    BY <1>5 DEF Laid!ext2fs_descriptor_block_loc
  <2> HIDE DEF g
  <2>3. p \in Nat /\ (g # 0 => p # 0)
    <3>1. g \in Nat /\ lsb.bpg \in Nat \ {0}
      BY <1>1, <2>1
    <3> DEFINE b == lsb.bpg
    <3> HIDE DEF b
    <3>2. g * b \in Nat
      BY <3>1, ProductNat DEF b
    <3>3. g # 0 => 1 * b <= g * b
      BY <3>1, ProductMonotone DEF b
    <3>4. b \in Nat \ {0} /\ 1 * b = b
      BY <3>1 DEF b
    <3>5. g * b = p
      BY DEF b
    <3> HIDE DEF p
    <3> QED BY <3>2, <3>3, <3>4, <3>5
  <2>4. g = 0 => super
    BY DEF Laid!ext2fs_bg_has_super, Laid!test_root
  <2>5. Of(g).new = (lsb.first + p) + (IF super THEN 1 ELSE 0)
    BY <1>5, <2>1 DEF Laid!ext2fs_super_and_bgd_loc, Laid!ext2fs_group_first_block
  <2> HIDE DEF super, p
  <2>6. Of(g).new = lsb.first + (IF super THEN 1 ELSE 0) + p /\ Of(g).new # 0
    <3> DEFINE x == Of(g).new
    <3>1. x = (lsb.first + p) + (IF super THEN 1 ELSE 0)
      BY <2>5
    <3> HIDE DEF x, Of
    <3>2. x = lsb.first + (IF super THEN 1 ELSE 0) + p /\ x # 0
      BY <1>1, <2>3, <2>4, <3>1
    <3> QED BY <3>2 DEF x
  <2> HIDE DEF Of
  <2>7. g \in near
    BY <2>1
  <2>8. Of(g).new \in new
    <3>1. g \in DOMAIN loc /\ loc[g] = Of(g)
      BY <2>7
    <3> HIDE DEF loc
    <3> QED BY <2>1, <2>6, <3>1
  <2> HIDE DEF new, loc, count
  <2> QED BY <1>3, <2>2, <2>6, <2>8
<1> QED BY <1>4, <1>5

(* What ext2fs_flush writes of the descriptors goes to a place of theirs.  *)
LEMMA WrittenAtHome ==
  ASSUME Laid!LayoutAssumption, LayoutInv, lpc = "done",
         NEW k \in 0 .. (lsb.desc_blocks - 1), NEW b \in Laid!DescWrittenAt(lsb, k)
  PROVE  \E h \in LaidGroups : b \in DescHome(lsb, h)
<1> DEFINE count == IF lsb.meta >= 0 THEN lsb.meta ELSE lsb.desc_blocks
           Of(g) == Laid!ext2fs_super_and_bgd_loc(lsb, g)
           near == {h \in 0 .. (lsb.groups - 1) : h \div DescPerBlock = k}
           loc == [g \in {0} \cup near |-> Of(g)]
           new == {loc[g].new : g \in {h \in DOMAIN loc : h \div DescPerBlock = k}} \ {0}
<1>1. /\ lsb \in Superblocks /\ lsb.groups \in Nat \ {0} /\ lsb.first \in {0, 1}
      /\ lsb.meta \in Nat \cup {-1} /\ lsb.reserved \in Nat /\ lsb.desc_blocks \in Int
  BY DEF LayoutInv, LayoutTypes, Superblocks
<1>2. k \in Nat /\ k < lsb.desc_blocks
  BY <1>1
<1>3. Laid!DescWrittenAt(lsb, k) =
        (IF loc[0].old # 0 /\ k < count THEN new \cup {loc[0].old + k} ELSE new)
  BY DEF Laid!DescWrittenAt
<1>4. 0 \in LaidGroups /\ {0} \cup near \subseteq LaidGroups
  BY <1>1 DEF LaidGroups
<1>5. CASE b \in new
  <2>1. PICK g \in {0} \cup near : b = loc[g].new /\ b # 0
    BY <1>5
  <2>2. b = Of(g).new /\ g \in LaidGroups
    BY <1>4, <2>1
  <2> HIDE DEF loc, near, new
  <2>3. b \in DescHome(lsb, g)
    BY <2>1, <2>2 DEF DescHome
  <2> QED BY <2>2, <2>3
<1>6. CASE loc[0].old # 0 /\ k < count /\ b = loc[0].old + k
  <2> DEFINE o == Of(0).old
  <2>1. o # 0 /\ b = o + k /\ k < count
    BY <1>6
  <2>2. lsb.meta < 0 \/ k < lsb.meta
    BY <1>1, <2>1
  <2>3. o \in Nat
    BY <1>1, <1>2, <2>2, GroupZero
  <2>4. Laid!OldDescBlocks(lsb) \in Int /\ k < Laid!OldDescBlocks(lsb)
    BY <1>1, <1>2, <2>1 DEF Laid!OldDescBlocks
  <2>5. DescHome(lsb, 0) = (o .. (o + Laid!OldDescBlocks(lsb) - 1))
                              \cup (IF Of(0).new = 0 THEN {} ELSE {Of(0).new})
    BY <2>1 DEF DescHome
  <2> HIDE DEF o, Of, loc, new, near, count
  <2>6. b \in o .. (o + Laid!OldDescBlocks(lsb) - 1)
    BY <1>2, <2>1, <2>3, <2>4
  <2> QED BY <1>4, <2>5, <2>6
<1> HIDE DEF loc, new, count
<1> QED BY <1>3, <1>5, <1>6

(* On a volume that ext2fs_initialize and ext2fs_allocate_tables have laid *)
(* out, of any size and with or without META_BG, sparse superblocks and    *)
(* reserved descriptor blocks: no block serves as two of the bitmaps and   *)
(* inode tables, ext2fs_open2 reads the descriptors from where             *)
(* ext2fs_flush writes them, and no flush of them overwrites a bitmap or a *)
(* table.                                                                  *)
THEOREM LayoutPlaces ==
  Laid!LayoutAssumption =>
    (Laid!Spec => [](Laid!TablesApart /\ Laid!DescReadWhereWritten /\ Laid!DescApartFromTables))
<1> SUFFICES ASSUME Laid!LayoutAssumption
             PROVE  Laid!Spec => [](Laid!TablesApart /\ Laid!DescReadWhereWritten
                                     /\ Laid!DescApartFromTables)
  OBVIOUS
<1>1. Laid!Init => LayoutInv
  BY LaidInitInv
<1>2. LayoutInv /\ [Laid!Next]_(Laid!vars) => LayoutInv'
  BY LaidStepInv
<1>3. LayoutInv => Laid!TablesApart /\ Laid!DescReadWhereWritten /\ Laid!DescApartFromTables
  <2> SUFFICES ASSUME LayoutInv, lpc = "done"
               PROVE  Laid!TablesApart /\ Laid!DescReadWhereWritten /\ Laid!DescApartFromTables
    BY DEF Laid!TablesApart, Laid!DescReadWhereWritten, Laid!DescApartFromTables
  <2>1. /\ DOMAIN desc = LaidGroups /\ PlacedGroups = LaidGroups
        /\ \A g : Laid!TableBlocks(g) = TablesOf(desc[g])
    BY DEF LayoutInv, LayoutTypes, PlacedGroups, Laid!TableBlocks, TablesOf
  <2>2. \A g \in LaidGroups :
            /\ OwnApart(desc[g])
            /\ \A h \in LaidGroups : TablesOf(desc[g]) \cap DescHome(lsb, h) = {}
            /\ \A h \in LaidGroups : h # g => TablesOf(desc[g]) \cap TablesOf(desc[h]) = {}
    BY <2>1 DEF LayoutInv
  <2>3. Laid!TablesApart
    BY <2>1, <2>2 DEF Laid!TablesApart, OwnApart
  <2>4. Laid!DescReadWhereWritten
    BY ReadWhereWritten DEF Laid!DescReadWhereWritten
  <2>5. Laid!DescApartFromTables
    BY <2>1, <2>2, WrittenAtHome DEF Laid!DescApartFromTables
  <2> QED BY <2>3, <2>4, <2>5
<1> QED BY <1>1, <1>2, <1>3, PTL DEF Laid!Spec
=============================================================================
