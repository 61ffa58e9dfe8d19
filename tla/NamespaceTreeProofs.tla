------------------------ MODULE NamespaceTreeProofs ------------------------
(***************************************************************************)
(* Proof that names never lead to freed inodes, that link counts cover     *)
(* what refers to an inode, that the names stay a tree, and that every     *)
(* request is an operation of NameTree, for every set of names and every   *)
(* size of the volume, while link counts do not wrap and ext2fs_unlink has *)
(* patched no wrong entry.                                                 *)
(***************************************************************************)
EXTENDS NamespaceProofs

(* Directory d has an entry that leads from n to i.                        *)
Has(v, d, n, i) == \E s \in Slots : v.ent[d][s].name = n /\ v.ent[d][s].ino = i

(* A directory that the root reaches, or that has a name.                  *)
Live(v, d) == IsDir(v, d) /\ (d = RootIno \/ \E c \in Inos, n \in Names : Has(v, c, n, d))

UpSlots(v, d) == {s \in Slots : v.ent[d][s].name = ".." /\ v.ent[d][s].ino # 0}

(***************************************************************************)
(* The inductive invariant has two parts.  Kept holds between any two      *)
(* procedures of a request too: entries are in directories and lead to     *)
(* inodes in use, no two are the same, and counts cover them.  Shaped and  *)
(* Rooted hold between requests only, since a rename goes through two      *)
(* names of a directory, two targets of a name and two "..".               *)
(***************************************************************************)
Proper(v) ==
  /\ \A d \in Inos, s \in Slots : v.ent[d][s].ino # 0 => v.ent[d][s].name \in DirNames
  /\ \A d, i \in Inos, n \in DirNames : Has(v, d, n, i) =>
       /\ IsDir(v, d)
       /\ n = "." => i = d
       /\ n = ".." /\ d = RootIno => i = RootIno
       /\ n \in Names => v.inode[i].kind # "none"

OneSlot(v) ==
  \A d \in Inos, s, t \in Slots :
    /\ v.ent[d][s].name = v.ent[d][t].name /\ v.ent[d][s].ino = v.ent[d][t].ino
    /\ v.ent[d][s].ino # 0 /\ v.ent[d][s].name # ".."
    => s = t

(* What must be counted of an inode.                                       *)
Due(v, i) == IF IsDir(v, i) THEN 2 + Cardinality(Subdirs(v, i)) ELSE Cardinality(Refs(v, i))

Covered(v) == \A i \in Inos : v.inode[i].links >= Due(v, i)

Kept(v) == Proper(v) /\ OneSlot(v) /\ Covered(v)

Shaped(v) ==
  /\ \A d, i, j \in Inos, n \in Names : Has(v, d, n, i) /\ Has(v, d, n, j) => i = j
  /\ \A c, d, i \in Inos, n, m \in Names :
       Has(v, c, n, i) /\ Has(v, d, m, i) /\ IsDir(v, i) => c = d /\ n = m
  /\ \A d, i \in Inos, n \in Names :
       Has(v, d, n, i) => Live(v, d) /\ (IsDir(v, i) => Has(v, i, "..", d))
  /\ \A d \in Inos : \A s, t \in UpSlots(v, d) : s = t

Rooted(v) == \A d \in Inos : Live(v, d) => IsAncestor(v, RootIno, d)

Tree(v) == Kept(v) /\ Shaped(v) /\ Rooted(v)

----------------------------------------------------------------------------
(* What a procedure does to the entries, the types and the link counts.    *)

(* One slot is written.                                                    *)
Wrote(v, w, d, s, e) ==
  /\ \A c \in Inos, t \in Slots : w.ent[c][t] = IF c = d /\ t = s THEN e ELSE v.ent[c][t]
  /\ \A j \in Inos : w.inode[j].kind = v.inode[j].kind /\ w.inode[j].links = v.inode[j].links
  /\ w.damaged = v.damaged

(* One link count is written.                                              *)
Relinked(v, w, i, k) ==
  /\ \A c \in Inos, t \in Slots : w.ent[c][t] = v.ent[c][t]
  /\ \A j \in Inos : /\ w.inode[j].kind = v.inode[j].kind
                     /\ w.inode[j].links = IF j = i THEN k ELSE v.inode[j].links
  /\ w.damaged = v.damaged

(* One inode is given other contents.                                      *)
Replaced(v, w, i, ip, es) ==
  /\ \A c \in Inos, t \in Slots : w.ent[c][t] = IF c = i THEN es[t] ELSE v.ent[c][t]
  /\ \A j \in Inos : w.inode[j] = IF j = i THEN ip ELSE v.inode[j]
  /\ w.damaged = v.damaged

Empty == [s \in Slots |-> Unused]

LEMMA ZeroIsNoInode == 0 \notin Inos
BY SizeFacts DEF Inos, NewInos, RootIno, FirstIno

LEMMA UnusedIs == Unused.ino = 0 /\ Unused.name = ""
BY DEF Unused

LEMMA EntryTypes ==
  ASSUME NEW v, Counted(v), NEW d \in Inos, NEW s \in Slots
  PROVE  /\ v.ent[d][s].ino \in Inos \cup {0}
         /\ v.ent[d][s].name \in DirNames \cup {""}
<1>1. v.ent[d][s] \in Dirent
  BY VolumeFields DEF Counted, Sound
<1> QED BY <1>1 DEF Dirent

LEMMA LinksType ==
  ASSUME NEW v, Counted(v), NEW i \in Inos
  PROVE  v.inode[i].links \in Nat /\ v.inode[i].links < LinkMod
<1>1. v.inode[i] \in Inode
  BY VolumeFields DEF Counted, Sound
<1> QED BY <1>1, SizeFacts DEF Inode

LEMMA LinkWrites ==
  ASSUME NEW v, Counted(v), NEW d \in Inos, FreeSlots(v, d) # {}, NEW n, NEW i
  PROVE  \E s \in Slots : /\ v.ent[d][s].ino = 0
                          /\ Wrote(v, ext2fs_link(v, d, n, i), d, s, [name |-> n, ino |-> i])
<1> DEFINE s == Least(FreeSlots(v, d))
           e == [name |-> n, ino |-> i]
           w == ext2fs_link(v, d, n, i)
<1>0. v \in Volume
  BY DEF Counted, Sound
<1>1. FreeSlots(v, d) \in SUBSET Slots /\ FreeSlots(v, d) \in SUBSET Nat
  BY <1>0, DirSlotsAreSlots DEF FreeSlots
<1>2. s \in FreeSlots(v, d)
  BY <1>1, LeastIn
<1>3. s \in Slots /\ v.ent[d][s].ino = 0
  BY <1>1, <1>2 DEF FreeSlots
<1>4. w = [v EXCEPT !.ent[d][s] = e]
  BY DEF ext2fs_link
<1> HIDE DEF s, e
<1>5. w.ent = [v.ent EXCEPT ![d][s] = e] /\ w.inode = v.inode /\ w.damaged = v.damaged
  BY <1>0, <1>4 DEF Volume
<1>6. v.ent \in [Inos -> [Slots -> Dirent]]
  BY <1>0, VolumeFields
<1> HIDE DEF w
<1>7. Wrote(v, w, d, s, e)
  BY <1>3, <1>5, <1>6 DEF Wrote
<1> QED BY <1>3, <1>7 DEF w, e

LEMMA DoLinkWrites ==
  ASSUME NEW v, Counted(v), NEW d \in Inos, LinkOk(v, d), NEW n, NEW i
  PROVE  \E s \in Slots : /\ v.ent[d][s].ino = 0
                          /\ Wrote(v, do_link(v, d, n, i), d, s, [name |-> n, ino |-> i])
<1>0. Sound(v) /\ v \in Volume
  BY DEF Counted, Sound
<1>1. CASE FreeSlots(v, d) # {}
  BY <1>1, LinkWrites DEF do_link
<1>2. CASE FreeSlots(v, d) = {}
  <2> DEFINE w == ext2fs_expand_dir(v, d)
  <2>1. CanExpand(v, d)
    BY <1>2 DEF LinkOk
  <2>2. Counted(w) /\ FreeSlots(w, d) # {}
    BY <1>0, <2>1, ExpandCounted, ExpandSound
  <2>3. /\ w.ent = v.ent /\ w.damaged = v.damaged
        /\ w.inode = [v.inode EXCEPT ![d].blocks = @ + 1]
    BY <1>0 DEF Volume, ext2fs_expand_dir
  <2>4. v.inode \in [Inos -> Inode]
    BY <1>0, VolumeFields
  <2>5. \A j \in Inos : w.inode[j].kind = v.inode[j].kind /\ w.inode[j].links = v.inode[j].links
    BY <2>3, <2>4 DEF Inode
  <2>6. do_link(v, d, n, i) = ext2fs_link(w, d, n, i)
    BY <1>2, <2>1 DEF do_link
  <2> HIDE DEF w
  <2>7. PICK s \in Slots : /\ w.ent[d][s].ino = 0
                           /\ Wrote(w, ext2fs_link(w, d, n, i), d, s, [name |-> n, ino |-> i])
    BY <2>2, LinkWrites
  <2>8. Wrote(v, do_link(v, d, n, i), d, s, [name |-> n, ino |-> i])
    BY <2>3, <2>5, <2>6, <2>7 DEF Wrote
  <2> QED BY <2>3, <2>7, <2>8
<1> QED BY <1>1, <1>2

LEMMA UnlinkWrites ==
  ASSUME NEW v, Counted(v), NEW d \in Inos, NEW n, NEW i, SlotsOf(v, d, n, i) # {},
         ~ext2fs_unlink(v, d, n, i).damaged
  PROVE  \E s \in Slots : /\ s \in SlotsOf(v, d, n, i)
                          /\ Wrote(v, ext2fs_unlink(v, d, n, i), d, s, Unused)
<1> DEFINE S == SlotsOf(v, d, n, i)
           s == Least(S)
           w == ext2fs_unlink(v, d, n, i)
<1>0. v \in Volume
  BY DEF Counted, Sound
<1>1. S \in SUBSET Slots /\ S \in SUBSET Nat
  BY <1>0, DirSlotsAreSlots DEF SlotsOf
<1>2. s \in S
  BY <1>1, LeastIn
<1>3. CASE BlockHead(s)
  <2>1. w = [v EXCEPT !.damaged = TRUE]
    BY <1>3 DEF ext2fs_unlink
  <2>2. w.damaged
    BY <1>0, <2>1 DEF Volume
  <2> QED BY <2>2
<1>4. CASE ~BlockHead(s)
  <2>1. w = [v EXCEPT !.ent[d][s] = Unused]
    BY <1>4 DEF ext2fs_unlink
  <2> HIDE DEF s, S
  <2>2. w.ent = [v.ent EXCEPT ![d][s] = Unused] /\ w.inode = v.inode /\ w.damaged = v.damaged
    BY <1>0, <2>1 DEF Volume
  <2>3. v.ent \in [Inos -> [Slots -> Dirent]]
    BY <1>0, VolumeFields
  <2> HIDE DEF w
  <2>4. Wrote(v, w, d, s, Unused)
    BY <1>1, <1>2, <2>2, <2>3 DEF Wrote
  <2> QED BY <1>1, <1>2, <2>4 DEF w, S
<1> QED BY <1>3, <1>4

(* Once an entry was patched wrongly the volume stays marked so.           *)
LEMMA UnlinkDamaged ==
  ASSUME NEW v, Counted(v), NEW d, NEW n, NEW i, v.damaged
  PROVE  ext2fs_unlink(v, d, n, i).damaged
BY DEF ext2fs_unlink, Counted, Sound, Volume

LEMMA RelinkedBy ==
  ASSUME NEW v, Counted(v), NEW i \in Inos, NEW k
  PROVE  Relinked(v, [v EXCEPT !.inode[i].links = k], i, k)
<1> DEFINE w == [v EXCEPT !.inode[i].links = k]
<1>0. v \in Volume
  BY DEF Counted, Sound
<1>1. /\ w.ent = v.ent /\ w.damaged = v.damaged
      /\ w.inode = [v.inode EXCEPT ![i].links = k]
  BY <1>0 DEF Volume
<1>2. v.inode \in [Inos -> Inode]
  BY <1>0, VolumeFields
<1>3. \A j \in Inos : /\ w.inode[j].kind = v.inode[j].kind
                      /\ w.inode[j].links = IF j = i THEN k ELSE v.inode[j].links
  BY <1>1, <1>2 DEF Inode
<1> HIDE DEF w
<1>4. Relinked(v, w, i, k)
  BY <1>1, <1>3 DEF Relinked
<1> QED BY <1>4 DEF w

(* Counting up and down, where the count does not wrap.                    *)
LEMMA RaisedBy ==
  ASSUME NEW v, Counted(v), NEW i \in Inos, v.inode[i].links + 1 < LinkMod
  PROVE  Relinked(v, AddLinks(v, i, 1), i, v.inode[i].links + 1)
<1>1. v.inode[i].links \in Nat /\ LinkMod \in Nat \ {0}
  BY LinksType, SizesAssumption
<1> DEFINE x == v.inode[i].links + 1
<1>2. x \in Nat /\ x < LinkMod
  BY <1>1
<1> HIDE DEF x
<1>3. x % LinkMod = x
  BY <1>1, <1>2
<1>4. AddLinks(v, i, 1) = [v EXCEPT !.inode[i].links = x]
  <2>1. AddLinks(v, i, 1) = [v EXCEPT !.inode[i].links = x % LinkMod]
    BY DEF AddLinks, x
  <2> QED BY <1>3, <2>1
<1>5. Relinked(v, AddLinks(v, i, 1), i, x)
  BY <1>4, RelinkedBy
<1> QED BY <1>5 DEF x

LEMMA LoweredBy ==
  ASSUME NEW v, Counted(v), NEW i \in Inos, v.inode[i].links > 0
  PROVE  Relinked(v, AddLinks(v, i, -1), i, v.inode[i].links - 1)
<1>1. v.inode[i].links \in Nat /\ v.inode[i].links < LinkMod /\ LinkMod \in Nat \ {0}
  BY LinksType, SizesAssumption
<1> DEFINE x == v.inode[i].links + -1
<1>2. x \in Nat /\ x < LinkMod /\ x = v.inode[i].links - 1
  BY <1>1
<1> HIDE DEF x
<1>3. x % LinkMod = x
  BY <1>1, <1>2
<1>4. AddLinks(v, i, -1) = [v EXCEPT !.inode[i].links = x]
  <2>1. AddLinks(v, i, -1) = [v EXCEPT !.inode[i].links = x % LinkMod]
    BY DEF AddLinks, x
  <2> QED BY <1>3, <2>1
<1>5. Relinked(v, AddLinks(v, i, -1), i, x)
  BY <1>4, RelinkedBy
<1> QED BY <1>2, <1>5

(* kill_file_by_inode of an inode with blocks, and of a symlink without.   *)
LEMMA KillReplaces ==
  ASSUME NEW v, Counted(v), NEW i \in Inos
  PROVE  LET w == kill_file_by_inode(v, i)
         IN IF ext2fs_inode_has_valid_blocks(v.inode[i])
            THEN Replaced(v, w, i, NoInode, Empty) ELSE Relinked(v, w, i, 0)
<1> DEFINE w == kill_file_by_inode(v, i)
<1>0. v \in Volume
  BY DEF Counted, Sound
<1>1. CASE ~ext2fs_inode_has_valid_blocks(v.inode[i])
  BY <1>1, RelinkedBy DEF kill_file_by_inode
<1>2. CASE ext2fs_inode_has_valid_blocks(v.inode[i])
  <2>1. /\ w.inode = [v.inode EXCEPT ![i] = NoInode] /\ w.damaged = v.damaged
        /\ w.ent = [v.ent EXCEPT ![i] = [s \in Slots |-> Unused]]
    BY <1>0, <1>2 DEF kill_file_by_inode, ext2fs_inode_alloc_stats2, Volume
  <2>2. v.inode \in [Inos -> Inode] /\ v.ent \in [Inos -> [Slots -> Dirent]]
    BY <1>0, VolumeFields
  <2> HIDE DEF w
  <2>3. Replaced(v, w, i, NoInode, Empty)
    BY <2>1, <2>2 DEF Replaced, Empty
  <2> QED BY <1>2, <2>3 DEF w
<1> QED BY <1>1, <1>2

----------------------------------------------------------------------------
(* Entries and counts after one change.                                    *)

LEMMA SlotsFinite == IsFiniteSet(Slots) /\ IsFiniteSet(Inos \X Slots)
<1>1. MaxDirBlocks * SlotsPerBlock \in Int
  BY SizeFacts
<1>2. IsFiniteSet(Slots)
  BY <1>1, FS_Interval DEF Slots
<1> QED BY <1>2, InoFacts, FS_Product

LEMMA RefsFinite ==
  ASSUME NEW v, NEW i
  PROVE  /\ IsFiniteSet(Refs(v, i)) /\ Cardinality(Refs(v, i)) \in Nat
         /\ IsFiniteSet(Subdirs(v, i)) /\ Cardinality(Subdirs(v, i)) \in Nat
<1>1. IsFiniteSet(Refs(v, i))
  BY SlotsFinite, FS_Subset DEF Refs
<1>2. IsFiniteSet(Subdirs(v, i))
  BY SlotsFinite, FS_Subset DEF Subdirs
<1> QED BY <1>1, <1>2, FS_CardinalityType

LEMMA DueType ==
  ASSUME NEW v, NEW i
  PROVE  Due(v, i) \in Nat
BY RefsFinite DEF Due

(* The name n of d leads to i in w, and to what it led in v.               *)
Added(v, w, d, n, i) ==
  \A c, j \in Inos, k \in DirNames :
    Has(w, c, k, j) <=> Has(v, c, k, j) \/ (c = d /\ k = n /\ j = i)

Removed(v, w, d, n, i) ==
  \A c, j \in Inos, k \in DirNames :
    Has(w, c, k, j) <=> Has(v, c, k, j) /\ ~(c = d /\ k = n /\ j = i)

SameKinds(v, w) == \A j \in Inos : w.inode[j].kind = v.inode[j].kind

SameHas(v, w) == \A c, j \in Inos, k \in DirNames : Has(w, c, k, j) <=> Has(v, c, k, j)

FewerUps(v, w) == \A c \in Inos : UpSlots(w, c) \subseteq UpSlots(v, c)

LEMMA LinkAdds ==
  ASSUME NEW v, NEW w, NEW d \in Inos, NEW s \in Slots, NEW n \in DirNames, NEW i \in Inos,
         v.ent[d][s].ino = 0, Wrote(v, w, d, s, [name |-> n, ino |-> i])
  PROVE  Added(v, w, d, n, i)
<1> DEFINE e == [name |-> n, ino |-> i]
<1>1. e.name = n /\ e.ino = i
  OBVIOUS
<1>2. \A c \in Inos, t \in Slots : w.ent[c][t] = IF c = d /\ t = s THEN e ELSE v.ent[c][t]
  BY DEF Wrote
<1> HIDE DEF e
<1> SUFFICES ASSUME NEW c \in Inos, NEW j \in Inos, NEW k \in DirNames
             PROVE  Has(w, c, k, j) <=> Has(v, c, k, j) \/ (c = d /\ k = n /\ j = i)
  BY DEF Added
<1>3. ASSUME Has(w, c, k, j) PROVE Has(v, c, k, j) \/ (c = d /\ k = n /\ j = i)
  BY <1>1, <1>2, <1>3 DEF Has
<1>4. ASSUME Has(v, c, k, j) PROVE Has(w, c, k, j)
  BY <1>2, <1>4, ZeroIsNoInode DEF Has
<1>5. ASSUME c = d, k = n, j = i PROVE Has(w, c, k, j)
  BY <1>1, <1>2, <1>5 DEF Has
<1> QED BY <1>3, <1>4, <1>5

LEMMA LinkKept ==
  ASSUME NEW v, Counted(v), Kept(v), NEW w, NEW d \in Inos, NEW s \in Slots, NEW n \in Names,
         NEW i \in Inos, v.ent[d][s].ino = 0, Wrote(v, w, d, s, [name |-> n, ino |-> i]),
         IsDir(v, d), v.inode[i].kind # "none", ~Has(v, d, n, i),
         IF IsDir(v, i) THEN v.inode[d].links > Due(v, d) ELSE v.inode[i].links > Due(v, i),
         \A j \in Inos : v.inode[j].links \in Nat
  PROVE  Kept(w) /\ Added(v, w, d, n, i) /\ SameKinds(v, w) /\ FewerUps(v, w)
<1> DEFINE e == [name |-> n, ino |-> i]
<1>0. n \in DirNames /\ n # "." /\ n # ".."
  BY NamesAssumption DEF DirNames
<1>1. e.name = n /\ e.ino = i
  OBVIOUS
<1>2. \A c \in Inos, t \in Slots : w.ent[c][t] = IF c = d /\ t = s THEN e ELSE v.ent[c][t]
  BY DEF Wrote
<1>3. /\ \A j \in Inos : w.inode[j].kind = v.inode[j].kind /\ w.inode[j].links = v.inode[j].links
      /\ \A j \in Inos : IsDir(w, j) <=> IsDir(v, j)
  BY DEF Wrote, IsDir
<1>4. Added(v, w, d, n, i)
  BY <1>0, LinkAdds
<1> HIDE DEF e
<1>5. Proper(w)
  <2>1. \A c \in Inos, t \in Slots : w.ent[c][t].ino # 0 => w.ent[c][t].name \in DirNames
    BY <1>0, <1>1, <1>2 DEF Kept, Proper
  <2>2. ASSUME NEW c \in Inos, NEW j \in Inos, NEW k \in DirNames, Has(w, c, k, j)
        PROVE  /\ IsDir(w, c)
               /\ k = "." => j = c
               /\ k = ".." /\ c = RootIno => j = RootIno
               /\ k \in Names => w.inode[j].kind # "none"
    BY <1>0, <1>3, <1>4, <2>2 DEF Kept, Proper, Added
  <2> QED BY <2>1, <2>2 DEF Proper
<1>6. OneSlot(w)
  <2> SUFFICES ASSUME NEW c \in Inos, NEW t \in Slots, NEW u \in Slots,
                      w.ent[c][t].name = w.ent[c][u].name, w.ent[c][t].ino = w.ent[c][u].ino,
                      w.ent[c][t].ino # 0, w.ent[c][t].name # ".."
               PROVE  t = u
    BY DEF OneSlot
  <2>1. ~(v.ent[d][t].name = n /\ v.ent[d][t].ino = i)
    BY DEF Has
  <2>2. ~(v.ent[d][u].name = n /\ v.ent[d][u].ino = i)
    BY DEF Has
  <2> QED BY <1>1, <1>2, <2>1, <2>2, SMTT(60) DEF Kept, OneSlot
<1>7. Covered(w)
  <2> SUFFICES ASSUME NEW j \in Inos PROVE w.inode[j].links >= Due(w, j)
    BY DEF Covered
  <2>1. v.inode[j].links >= Due(v, j) /\ v.inode[j].links \in Nat
    BY DEF Kept, Covered
  <2>2. CASE IsDir(v, j)
    <3>1. Subdirs(w, j) = IF j = d /\ IsDir(v, i) THEN Subdirs(v, j) \cup {s} ELSE Subdirs(v, j)
      <4>1. i # 0
        BY ZeroIsNoInode
      <4>2. \A t \in Slots : t \in Subdirs(w, j) <=>
              IF j = d /\ t = s THEN IsDir(v, i) ELSE t \in Subdirs(v, j)
        <5> TAKE t \in Slots
        <5>1. CASE j = d /\ t = s
          <6>1. w.ent[j][t] = e
            BY <1>2, <5>1
          <6> QED BY <1>1, <1>3, <4>1, <5>1, <6>1 DEF Subdirs
        <5>2. CASE ~(j = d /\ t = s)
          <6>1. w.ent[j][t] = v.ent[j][t]
            BY <1>2, <5>2
          <6>2. v.ent[j][t].ino # 0 => v.ent[j][t].ino \in Inos
            BY EntryTypes
          <6> QED BY <1>3, <5>2, <6>1, <6>2 DEF Subdirs
        <5> QED BY <5>1, <5>2
      <4>3. Subdirs(w, j) \subseteq Slots /\ Subdirs(v, j) \subseteq Slots
        BY DEF Subdirs
      <4>4. j = d => s \notin Subdirs(v, j)
        BY DEF Subdirs
      <4> QED BY <4>2, <4>3, <4>4
    <3>2. j = d => s \notin Subdirs(v, j)
      BY DEF Subdirs
    <3>3. j = d => Cardinality(Subdirs(v, j) \cup {s}) = Cardinality(Subdirs(v, j)) + 1
      BY <3>2, RefsFinite, FS_AddElement
    <3>4. Due(v, j) = 2 + Cardinality(Subdirs(v, j)) /\ Due(w, j) = 2 + Cardinality(Subdirs(w, j))
      BY <1>3, <2>2 DEF Due
    <3>5. Cardinality(Subdirs(v, j)) \in Nat
      BY RefsFinite
    <3>6. CASE j = d /\ IsDir(v, i)
      BY <1>3, <2>1, <3>1, <3>3, <3>4, <3>5, <3>6
    <3>7. CASE ~(j = d /\ IsDir(v, i))
      BY <1>3, <2>1, <3>1, <3>4, <3>7
    <3> QED BY <3>6, <3>7
  <2>3. CASE ~IsDir(v, j)
    <3>1. Refs(w, j) = IF j = i THEN Refs(v, j) \cup {<<d, s>>} ELSE Refs(v, j)
      <4>0. i # 0
        BY ZeroIsNoInode
      <4>1. \A c \in Inos, t \in Slots : <<c, t>> \in Refs(w, j) <=>
              IF c = d /\ t = s THEN j = i ELSE <<c, t>> \in Refs(v, j)
        BY <1>1, <1>2 DEF Refs
      <4>2. Refs(w, j) \subseteq Inos \X Slots /\ Refs(v, j) \subseteq Inos \X Slots
        BY DEF Refs
      <4>3. <<d, s>> \notin Refs(v, j)
        BY ZeroIsNoInode DEF Refs
      <4> QED BY <4>1, <4>2, <4>3
    <3>2. <<d, s>> \notin Refs(v, j)
      BY ZeroIsNoInode DEF Refs
    <3>3. Cardinality(Refs(v, j) \cup {<<d, s>>}) = Cardinality(Refs(v, j)) + 1
      BY <3>2, RefsFinite, FS_AddElement
    <3>4. Due(v, j) = Cardinality(Refs(v, j)) /\ Due(w, j) = Cardinality(Refs(w, j))
      BY <1>3, <2>3 DEF Due
    <3>5. Cardinality(Refs(v, j)) \in Nat
      BY RefsFinite
    <3>6. CASE j = i
      BY <1>3, <2>1, <2>3, <3>1, <3>3, <3>4, <3>5, <3>6
    <3>7. CASE j # i
      BY <1>3, <2>1, <3>1, <3>4, <3>7
    <3> QED BY <3>6, <3>7
  <2> QED BY <2>2, <2>3
<1>8. FewerUps(v, w)
  BY <1>0, <1>1, <1>2 DEF FewerUps, UpSlots
<1> QED BY <1>3, <1>4, <1>5, <1>6, <1>7, <1>8 DEF Kept, SameKinds

(* An entry of i is freed.                                                 *)
LEMMA UnlinkKept ==
  ASSUME NEW v, Counted(v), Kept(v), NEW w, NEW d \in Inos, NEW s \in Slots, NEW n \in Names,
         NEW i \in Inos, v.ent[d][s].name = n, v.ent[d][s].ino = i, Wrote(v, w, d, s, Unused)
  PROVE  /\ Kept(w) /\ Removed(v, w, d, n, i) /\ SameKinds(v, w) /\ FewerUps(v, w)
         /\ IF IsDir(v, i) THEN Due(w, d) = Due(v, d) - 1 ELSE Due(w, i) = Due(v, i) - 1
<1>0. n \in DirNames /\ n # "." /\ n # ".." /\ i # 0
  BY NamesAssumption, ZeroIsNoInode DEF DirNames
<1>1. Unused.ino = 0 /\ Unused.name = "" /\ "" \notin Names
  BY UnusedIs, NamesAssumption
<1>2. \A c \in Inos, t \in Slots : w.ent[c][t] = IF c = d /\ t = s THEN Unused ELSE v.ent[c][t]
  BY DEF Wrote
<1>3. /\ \A j \in Inos : w.inode[j].kind = v.inode[j].kind /\ w.inode[j].links = v.inode[j].links
      /\ \A j \in Inos : IsDir(w, j) <=> IsDir(v, j)
  BY DEF Wrote, IsDir
<1>4. Removed(v, w, d, n, i)
  <2> SUFFICES ASSUME NEW c \in Inos, NEW j \in Inos, NEW k \in DirNames
               PROVE  Has(w, c, k, j) <=> Has(v, c, k, j) /\ ~(c = d /\ k = n /\ j = i)
    BY DEF Removed
  <2>1. ASSUME NEW t \in Slots, w.ent[c][t].name = k, w.ent[c][t].ino = j
        PROVE  Has(v, c, k, j) /\ ~(c = d /\ k = n /\ j = i)
    <3>1. ~(c = d /\ t = s)
      BY <1>1, <1>2, <2>1, ZeroIsNoInode
    <3>2. v.ent[c][t].name = k /\ v.ent[c][t].ino = j
      BY <1>2, <2>1, <3>1
    <3>3. c = d /\ k = n /\ j = i => t = s
      BY <1>0, <3>2 DEF Kept, OneSlot
    <3> QED BY <3>1, <3>2, <3>3 DEF Has
  <2>2. ASSUME NEW t \in Slots, v.ent[c][t].name = k, v.ent[c][t].ino = j,
               ~(c = d /\ k = n /\ j = i)
        PROVE  Has(w, c, k, j)
    <3>1. ~(c = d /\ t = s)
      BY <2>2
    <3> QED BY <1>2, <2>2, <3>1 DEF Has
  <2> QED BY <2>1, <2>2 DEF Has
<1>5. Proper(w)
  <2>1. \A c \in Inos, t \in Slots : w.ent[c][t].ino # 0 => w.ent[c][t].name \in DirNames
    BY <1>1, <1>2 DEF Kept, Proper
  <2>2. ASSUME NEW c \in Inos, NEW j \in Inos, NEW k \in DirNames, Has(w, c, k, j)
        PROVE  /\ IsDir(w, c)
               /\ k = "." => j = c
               /\ k = ".." /\ c = RootIno => j = RootIno
               /\ k \in Names => w.inode[j].kind # "none"
    BY <1>3, <1>4, <2>2 DEF Kept, Proper, Removed
  <2> QED BY <2>1, <2>2 DEF Proper
<1>6. OneSlot(w)
  <2> SUFFICES ASSUME NEW c \in Inos, NEW t \in Slots, NEW u \in Slots,
                      w.ent[c][t].name = w.ent[c][u].name, w.ent[c][t].ino = w.ent[c][u].ino,
                      w.ent[c][t].ino # 0, w.ent[c][t].name # ".."
               PROVE  t = u
    BY DEF OneSlot
  <2>1. w.ent[c][t] = v.ent[c][t] /\ w.ent[c][u] = v.ent[c][u]
    BY <1>1, <1>2
  <2> QED BY <2>1 DEF Kept, OneSlot
<1>7. \A j \in Inos : IsDir(v, j) =>
        /\ Subdirs(w, j) = IF j = d /\ IsDir(v, i) THEN Subdirs(v, j) \ {s} ELSE Subdirs(v, j)
        /\ j = d /\ IsDir(v, i) => s \in Subdirs(v, j)
  <2> TAKE j \in Inos
  <2> HAVE IsDir(v, j)
  <2>1. \A t \in Slots : t \in Subdirs(w, j) <=> t \in Subdirs(v, j) /\ ~(j = d /\ t = s)
    <3> TAKE t \in Slots
    <3>1. CASE j = d /\ t = s
      <4>1. w.ent[j][t] = Unused
        BY <1>2, <3>1
      <4> QED BY <1>1, <3>1, <4>1 DEF Subdirs
    <3>2. CASE ~(j = d /\ t = s)
      <4>1. w.ent[j][t] = v.ent[j][t]
        BY <1>2, <3>2
      <4>2. v.ent[j][t].ino # 0 => v.ent[j][t].ino \in Inos
        BY EntryTypes
      <4> QED BY <1>3, <3>2, <4>1, <4>2 DEF Subdirs
    <3> QED BY <3>1, <3>2
  <2>2. Subdirs(w, j) \subseteq Slots /\ Subdirs(v, j) \subseteq Slots
    BY DEF Subdirs
  <2>3. j = d => (s \in Subdirs(v, j) <=> IsDir(v, i))
    BY <1>0 DEF Subdirs
  <2> QED BY <2>1, <2>2, <2>3
<1>8. \A j \in Inos : /\ Refs(w, j) = IF j = i THEN Refs(v, j) \ {<<d, s>>} ELSE Refs(v, j)
                      /\ j = i => <<d, s>> \in Refs(v, j)
  <2> TAKE j \in Inos
  <2>1. \A c \in Inos, t \in Slots : <<c, t>> \in Refs(w, j) <=>
          <<c, t>> \in Refs(v, j) /\ ~(c = d /\ t = s)
    <3> TAKE c \in Inos, t \in Slots
    <3>1. CASE c = d /\ t = s
      <4>1. w.ent[c][t] = Unused
        BY <1>2, <3>1
      <4> QED BY <1>1, <3>1, <4>1 DEF Refs
    <3>2. CASE ~(c = d /\ t = s)
      <4>1. w.ent[c][t] = v.ent[c][t]
        BY <1>2, <3>2
      <4> QED BY <3>2, <4>1 DEF Refs
    <3> QED BY <3>1, <3>2
  <2>2. Refs(w, j) \subseteq Inos \X Slots /\ Refs(v, j) \subseteq Inos \X Slots
    BY DEF Refs
  <2>3. <<d, s>> \in Refs(v, j) <=> j = i
    BY DEF Refs
  <2> QED BY <2>1, <2>2, <2>3
<1>9. \A j \in Inos :
        Due(w, j) = IF (IsDir(v, i) /\ j = d) \/ (~IsDir(v, i) /\ j = i) THEN Due(v, j) - 1
                    ELSE Due(v, j)
  <2> TAKE j \in Inos
  <2>1. IsDir(v, d)
    BY <1>0 DEF Kept, Proper, Has
  <2>2. CASE IsDir(v, j)
    <3>1. s \in Subdirs(v, j) =>
            Cardinality(Subdirs(v, j) \ {s}) = Cardinality(Subdirs(v, j)) - 1
      BY RefsFinite, FS_RemoveElement
    <3>2. Due(v, j) = 2 + Cardinality(Subdirs(v, j)) /\ Due(w, j) = 2 + Cardinality(Subdirs(w, j))
      BY <1>3, <2>2 DEF Due
    <3>3. Cardinality(Subdirs(v, j)) \in Nat
      BY RefsFinite
    <3>4. CASE IsDir(v, i) /\ j = d
      BY <1>7, <2>2, <3>1, <3>2, <3>3, <3>4
    <3>5. CASE ~(IsDir(v, i) /\ j = d)
      <4>1. Subdirs(w, j) = Subdirs(v, j)
        BY <1>7, <2>2, <3>5
      <4> QED BY <2>2, <3>2, <3>5, <4>1
    <3> QED BY <3>4, <3>5
  <2>3. CASE ~IsDir(v, j)
    <3>1. <<d, s>> \in Refs(v, j) =>
            Cardinality(Refs(v, j) \ {<<d, s>>}) = Cardinality(Refs(v, j)) - 1
      BY RefsFinite, FS_RemoveElement
    <3>2. Due(v, j) = Cardinality(Refs(v, j)) /\ Due(w, j) = Cardinality(Refs(w, j))
      BY <1>3, <2>3 DEF Due
    <3> QED BY <1>8, <2>1, <2>3, <3>1, <3>2
  <2> QED BY <2>2, <2>3
<1>10. Covered(w)
  <2> SUFFICES ASSUME NEW j \in Inos PROVE w.inode[j].links >= Due(w, j)
    BY DEF Covered
  <2>1. /\ v.inode[j].links >= Due(v, j) /\ w.inode[j].links = v.inode[j].links
        /\ v.inode[j].links \in Nat /\ Due(v, j) \in Nat
    BY <1>3, LinksType, DueType DEF Kept, Covered
  <2> QED BY <1>9, <2>1
<1>11. FewerUps(v, w)
  BY <1>1, <1>2 DEF FewerUps, UpSlots
<1> QED BY <1>3, <1>4, <1>5, <1>6, <1>9, <1>10, <1>11 DEF Kept, SameKinds

(* A count is changed, and still covers what is due.                       *)
LEMMA RelinkKept ==
  ASSUME NEW v, Counted(v), Kept(v), NEW w, NEW i \in Inos, NEW k \in Nat,
         Relinked(v, w, i, k), k >= Due(v, i)
  PROVE  /\ Kept(w) /\ SameHas(v, w) /\ SameKinds(v, w) /\ FewerUps(v, w)
         /\ \A j \in Inos : Due(w, j) = Due(v, j)
<1>1. \A c \in Inos, t \in Slots : w.ent[c][t] = v.ent[c][t]
  BY DEF Relinked
<1>2. /\ \A j \in Inos : /\ w.inode[j].kind = v.inode[j].kind
                         /\ w.inode[j].links = IF j = i THEN k ELSE v.inode[j].links
      /\ \A j \in Inos : IsDir(w, j) <=> IsDir(v, j)
  BY DEF Relinked, IsDir
<1>3. SameHas(v, w) /\ FewerUps(v, w)
  BY <1>1 DEF SameHas, Has, FewerUps, UpSlots
<1>4. \A j \in Inos : Due(w, j) = Due(v, j)
  <2> TAKE j \in Inos
  <2>1. Refs(w, j) = Refs(v, j)
    BY <1>1 DEF Refs
  <2>2. Subdirs(w, j) = Subdirs(v, j)
    <3>1. \A t \in Slots : v.ent[j][t].ino # 0 => v.ent[j][t].ino \in Inos
      BY EntryTypes
    <3> QED BY <1>1, <1>2, <3>1 DEF Subdirs
  <2> QED BY <1>2, <2>1, <2>2 DEF Due
<1>5. Proper(w)
  BY <1>1, <1>2, <1>3 DEF Kept, Proper, SameHas
<1>6. OneSlot(w)
  BY <1>1 DEF Kept, OneSlot
<1>7. Covered(w)
  BY <1>2, <1>4 DEF Kept, Covered
<1> QED BY <1>2, <1>3, <1>4, <1>5, <1>6, <1>7 DEF Kept, SameKinds

(* No name leads to i, and none is in it.                                  *)
Unnamed(v, i) ==
  /\ \A c \in Inos, n \in Names : ~Has(v, c, n, i)
  /\ \A s \in Slots : v.ent[i][s].ino # 0 => v.ent[i][s].name \notin Names

(* Contents of an inode that holds no name.                                *)
NewContents(i, ip, es) ==
  /\ ip.links \in Nat
  /\ ip.kind = "dir" => ip.links >= 2
  /\ \A s \in Slots : es[s].ino # 0 => es[s].name \in {".", ".."} /\ ip.kind = "dir"
  /\ \A s \in Slots : es[s].ino # 0 /\ es[s].name = "." => es[s].ino = i
  /\ \A s, t \in Slots : es[s].ino # 0 /\ es[t].ino # 0 /\ es[s].name = es[t].name => s = t

(* An inode without a name is given other contents: a free one is put to   *)
(* use, or one that has lost its names is wiped.                           *)
LEMMA ReplaceKept ==
  ASSUME NEW v, Counted(v), Kept(v), NEW w, NEW i \in Inos, NEW ip, NEW es,
         Replaced(v, w, i, ip, es), i # RootIno, Unnamed(v, i), NewContents(i, ip, es)
  PROVE  /\ Kept(w)
         /\ \A c, j \in Inos, k \in DirNames : c # i => (Has(w, c, k, j) <=> Has(v, c, k, j))
         /\ \A j \in Inos, k \in Names : ~Has(w, i, k, j)
         /\ Due(w, i) = IF ip.kind = "dir" THEN 2 ELSE 0
         /\ \A j \in Inos : j # i => Due(w, j) = Due(v, j)
<1>1. \A c \in Inos, t \in Slots : w.ent[c][t] = IF c = i THEN es[t] ELSE v.ent[c][t]
  BY DEF Replaced
<1>2. /\ \A j \in Inos : w.inode[j] = IF j = i THEN ip ELSE v.inode[j]
      /\ \A j \in Inos : j # i => (IsDir(w, j) <=> IsDir(v, j))
      /\ IsDir(w, i) <=> ip.kind = "dir"
  BY DEF Replaced, IsDir
<1>3. \A c, j \in Inos, k \in DirNames : c # i => (Has(w, c, k, j) <=> Has(v, c, k, j))
  BY <1>1 DEF Has
<1>4. "." \notin Names /\ ".." \notin Names
  BY NamesAssumption
<1>5. \A j \in Inos, k \in Names : ~Has(w, i, k, j)
  BY <1>1, <1>4, ZeroIsNoInode DEF Has, NewContents
<1>6. \A t \in Slots : w.ent[i][t].ino # 0 => w.ent[i][t].name \notin Names
  BY <1>1, <1>4 DEF NewContents
<1>7. \A c \in Inos, t \in Slots : w.ent[c][t].name \in Names => w.ent[c][t].ino # i
  <2> SUFFICES ASSUME NEW c \in Inos, NEW t \in Slots, w.ent[c][t].name \in Names,
                      w.ent[c][t].ino = i
               PROVE  FALSE
    OBVIOUS
  <2>1. c # i
    BY <1>6, ZeroIsNoInode
  <2>2. Has(v, c, v.ent[c][t].name, i) /\ v.ent[c][t].name \in Names
    BY <1>1, <2>1 DEF Has
  <2> QED BY <2>2 DEF Unnamed
<1>8. \A c \in Inos, t \in Slots : v.ent[c][t].name \in Names => v.ent[c][t].ino # i
  BY DEF Has, Unnamed
<1>9. \A j \in Inos : j # i => Due(w, j) = Due(v, j)
  <2> SUFFICES ASSUME NEW j \in Inos, j # i PROVE Due(w, j) = Due(v, j)
    OBVIOUS
  <2>1. Refs(w, j) = Refs(v, j)
    <3>1. \A c \in Inos, t \in Slots : <<c, t>> \in Refs(w, j) <=> <<c, t>> \in Refs(v, j)
      <4> TAKE c \in Inos, t \in Slots
      <4>1. CASE c # i
        BY <1>1, <4>1 DEF Refs
      <4>2. CASE c = i
        BY <1>6, <4>2, ZeroIsNoInode DEF Refs, Unnamed
      <4> QED BY <4>1, <4>2
    <3>2. Refs(w, j) \subseteq Inos \X Slots /\ Refs(v, j) \subseteq Inos \X Slots
      BY DEF Refs
    <3> QED BY <3>1, <3>2
  <2>2. Subdirs(w, j) = Subdirs(v, j)
    <3>1. \A t \in Slots : v.ent[j][t].ino # 0 => v.ent[j][t].ino \in Inos
      BY EntryTypes
    <3> QED BY <1>1, <1>2, <1>8, <3>1 DEF Subdirs
  <2> QED BY <1>2, <2>1, <2>2 DEF Due
<1>10. Due(w, i) = IF ip.kind = "dir" THEN 2 ELSE 0
  <2>1. Refs(w, i) = {}
    BY <1>7 DEF Refs
  <2>2. Subdirs(w, i) = {}
    BY <1>6 DEF Subdirs
  <2>3. Cardinality({}) = 0
    BY FS_EmptySet
  <2> QED BY <1>2, <2>1, <2>2, <2>3 DEF Due
<1>11. Proper(w)
  <2>1. \A c \in Inos, t \in Slots : w.ent[c][t].ino # 0 => w.ent[c][t].name \in DirNames
    BY <1>1 DEF Kept, Proper, DirNames, NewContents
  <2>2. ASSUME NEW c \in Inos, NEW j \in Inos, NEW k \in DirNames, Has(w, c, k, j)
        PROVE  /\ IsDir(w, c)
               /\ k = "." => j = c
               /\ k = ".." /\ c = RootIno => j = RootIno
               /\ k \in Names => w.inode[j].kind # "none"
    <3>1. CASE c = i
      <4>1. PICK t \in Slots : w.ent[i][t].name = k /\ w.ent[i][t].ino = j
        BY <2>2, <3>1 DEF Has
      <4>2. es[t].name = k /\ es[t].ino = j /\ j # 0
        BY <1>1, <4>1, ZeroIsNoInode
      <4>3. IsDir(w, c) /\ (k = "." => j = c) /\ k \notin Names
        BY <1>2, <1>4, <3>1, <4>2 DEF NewContents
      <4> QED BY <3>1, <4>3
    <3>2. CASE c # i
      <4>1. Has(v, c, k, j)
        BY <1>3, <2>2, <3>2
      <4>2. k \in Names => j # i
        BY <4>1 DEF Unnamed
      <4> QED BY <1>2, <3>2, <4>1, <4>2 DEF Kept, Proper
    <3> QED BY <3>1, <3>2
  <2> QED BY <2>1, <2>2 DEF Proper
<1>12. OneSlot(w)
  <2> SUFFICES ASSUME NEW c \in Inos, NEW t \in Slots, NEW u \in Slots,
                      w.ent[c][t].name = w.ent[c][u].name, w.ent[c][t].ino = w.ent[c][u].ino,
                      w.ent[c][t].ino # 0, w.ent[c][t].name # ".."
               PROVE  t = u
    BY DEF OneSlot
  <2>1. CASE c = i
    BY <1>1, <2>1 DEF NewContents
  <2>2. CASE c # i
    BY <1>1, <2>2 DEF Kept, OneSlot
  <2> QED BY <2>1, <2>2
<1>13. Covered(w)
  <2> SUFFICES ASSUME NEW j \in Inos PROVE w.inode[j].links >= Due(w, j)
    BY DEF Covered
  <2>1. CASE j = i
    BY <1>2, <1>10, <2>1 DEF NewContents
  <2>2. CASE j # i
    BY <1>2, <1>9, <2>2 DEF Kept, Covered
  <2> QED BY <2>1, <2>2
<1> QED BY <1>3, <1>5, <1>9, <1>10, <1>11, <1>12, <1>13 DEF Kept

(* The inode i and what it held are gone.                                  *)
Gone(v, w, i) ==
  /\ \A c, j \in Inos, k \in DirNames : Has(w, c, k, j) <=> Has(v, c, k, j) /\ c # i
  /\ \A j \in Inos : j # i => /\ w.inode[j].kind = v.inode[j].kind
                              /\ w.inode[j].links = v.inode[j].links
                              /\ Due(w, j) = Due(v, j)
  /\ ~IsDir(w, i)
  /\ FewerUps(v, w)
  /\ w.damaged = v.damaged

LEMMA KillKept ==
  ASSUME NEW v, Counted(v), Kept(v), NEW i \in Inos, i # RootIno, Unnamed(v, i),
         v.inode[i].kind # "none"
  PROVE  Kept(kill_file_by_inode(v, i)) /\ Gone(v, kill_file_by_inode(v, i), i)
<1> DEFINE w == kill_file_by_inode(v, i)
<1>1. CASE ext2fs_inode_has_valid_blocks(v.inode[i])
  <2>1. Replaced(v, w, i, NoInode, Empty)
    BY <1>1, KillReplaces
  <2>2. \A s \in Slots : Empty[s].ino = 0
    BY UnusedIs DEF Empty
  <2>3. NoInode.kind = "none" /\ NoInode.links = 0
    BY DEF NoInode
  <2>4. NewContents(i, NoInode, Empty)
    BY <2>2, <2>3 DEF NewContents
  <2> HIDE DEF w
  <2>5. /\ Kept(w)
        /\ \A c, j \in Inos, k \in DirNames : c # i => (Has(w, c, k, j) <=> Has(v, c, k, j))
        /\ \A j \in Inos : j # i => Due(w, j) = Due(v, j)
    BY <2>1, <2>4, ReplaceKept
  <2>6. \A j \in Inos : \A k : ~Has(w, i, k, j)
    BY <2>1, <2>2, ZeroIsNoInode DEF Has, Replaced
  <2>7. ~IsDir(w, i)
    BY <2>1, <2>3 DEF IsDir, Replaced
  <2>8. FewerUps(v, w)
    BY <2>1, <2>2 DEF FewerUps, UpSlots, Replaced
  <2>9. Gone(v, w, i)
    BY <2>1, <2>5, <2>6, <2>7, <2>8 DEF Gone, Replaced
  <2> QED BY <2>5, <2>9 DEF w
<1>2. CASE ~ext2fs_inode_has_valid_blocks(v.inode[i])
  <2>1. Relinked(v, w, i, 0)
    BY <1>2, KillReplaces
  <2>2. v.inode[i].kind = "symlink"
    <3>1. v.inode[i] \in Inode
      BY VolumeFields DEF Counted, Sound
    <3> QED BY <1>2, <3>1 DEF Inode, Kinds, ext2fs_inode_has_valid_blocks
  <2>3. ~IsDir(v, i)
    BY <2>2 DEF IsDir
  <2>4. Due(v, i) = 0
    <3>1. Refs(v, i) = {}
      BY DEF Refs, Unnamed, Has
    <3> QED BY <2>3, <3>1, FS_EmptySet DEF Due
  <2> HIDE DEF w
  <2>5. /\ Kept(w) /\ SameHas(v, w) /\ SameKinds(v, w) /\ FewerUps(v, w)
        /\ \A j \in Inos : Due(w, j) = Due(v, j)
    BY <2>1, <2>4, RelinkKept
  <2>6. \A j \in Inos, k \in DirNames : ~Has(v, i, k, j)
    BY <2>3 DEF Kept, Proper
  <2>7. ~IsDir(w, i)
    BY <2>3, <2>5 DEF IsDir, SameKinds
  <2>8. Gone(v, w, i)
    BY <2>1, <2>5, <2>6, <2>7 DEF Gone, Relinked, SameHas
  <2> QED BY <2>5, <2>8 DEF w
<1> QED BY <1>1, <1>2

(* A free inode.                                                           *)
LEMMA FreeUnnamed ==
  ASSUME NEW v, Counted(v), Kept(v), NEW i \in FreeInos(v)
  PROVE  /\ i \in Inos /\ i # RootIno /\ Unnamed(v, i)
         /\ \A s \in Slots : v.ent[i][s].ino = 0
         /\ v.inode[i].kind = "none" /\ ~IsDir(v, i)
<1>1. i \in Inos /\ i # RootIno /\ i \notin v.imap
  BY InoFacts DEF FreeInos
<1>2. v.inode[i].kind = "none"
  BY <1>1 DEF Counted
<1>3. \A s \in Slots : v.ent[i][s].ino = 0
  BY <1>1 DEF Counted, Blank
<1>4. \A n \in Names : n \in DirNames
  BY DEF DirNames
<1>5. Unnamed(v, i)
  BY <1>1, <1>2, <1>3, <1>4 DEF Kept, Proper, Unnamed
<1> QED BY <1>1, <1>2, <1>3, <1>5 DEF IsDir

----------------------------------------------------------------------------
(* Looking up.                                                             *)

LEMMA SlotsHas ==
  ASSUME NEW v, Counted(v), NEW d \in Inos, NEW n, NEW i \in Inos
  PROVE  SlotsOf(v, d, n, i) # {} <=> Has(v, d, n, i)
<1>0. v \in Volume /\ Beyond(v)
  BY DEF Counted, Sound
<1>1. DirSlots(v, d) \subseteq Slots
  BY <1>0, DirSlotsAreSlots
<1>2. i # 0
  BY ZeroIsNoInode
<1>3. ASSUME NEW s \in SlotsOf(v, d, n, i) PROVE Has(v, d, n, i)
  BY <1>1, <1>2 DEF SlotsOf, Has
<1>4. ASSUME NEW s \in Slots, v.ent[d][s].name = n, v.ent[d][s].ino = i
      PROVE  s \in SlotsOf(v, d, n, i)
  BY <1>0, <1>2, <1>4 DEF SlotsOf, Beyond
<1> QED BY <1>3, <1>4 DEF Has

LEMMA AnySlotsHas ==
  ASSUME NEW v, Counted(v), NEW d \in Inos, NEW n
  PROVE  SlotsOf(v, d, n, 0) # {} <=> \E i \in Inos : Has(v, d, n, i)
<1>0. v \in Volume /\ Beyond(v)
  BY DEF Counted, Sound
<1>1. DirSlots(v, d) \subseteq Slots
  BY <1>0, DirSlotsAreSlots
<1>3. ASSUME NEW s \in SlotsOf(v, d, n, 0) PROVE \E i \in Inos : Has(v, d, n, i)
  <2>1. s \in Slots /\ v.ent[d][s].ino \in Inos \cup {0}
    BY <1>1, EntryTypes DEF SlotsOf
  <2>2. v.ent[d][s].ino \in Inos /\ v.ent[d][s].name = n
    BY <2>1 DEF SlotsOf
  <2> QED BY <2>1, <2>2 DEF Has
<1>4. ASSUME NEW i \in Inos, NEW s \in Slots, v.ent[d][s].name = n, v.ent[d][s].ino = i
      PROVE  s \in SlotsOf(v, d, n, 0)
  BY <1>0, <1>4, ZeroIsNoInode DEF SlotsOf, Beyond
<1> QED BY <1>3, <1>4 DEF Has

LEMMA LookupHas ==
  ASSUME NEW v, Counted(v), NEW d \in Inos, NEW n
  PROVE  /\ ext2fs_lookup(v, d, n) # 0 =>
              ext2fs_lookup(v, d, n) \in Inos /\ Has(v, d, n, ext2fs_lookup(v, d, n))
         /\ ext2fs_lookup(v, d, n) = 0 => \A i \in Inos : ~Has(v, d, n, i)
<1> DEFINE S == SlotsOf(v, d, n, 0)
<1>0. v \in Volume
  BY DEF Counted, Sound
<1>1. S \in SUBSET Slots /\ S \in SUBSET Nat
  BY <1>0, DirSlotsAreSlots DEF SlotsOf
<1>2. CASE S = {}
  BY <1>2, AnySlotsHas DEF ext2fs_lookup
<1>3. CASE S # {}
  <2>1. Least(S) \in S /\ Least(S) \in Slots
    BY <1>1, <1>3, LeastIn
  <2>2. v.ent[d][Least(S)].name = n /\ v.ent[d][Least(S)].ino # 0
    BY <2>1 DEF SlotsOf
  <2>3. ext2fs_lookup(v, d, n) = v.ent[d][Least(S)].ino
    BY <1>3 DEF ext2fs_lookup
  <2>4. v.ent[d][Least(S)].ino \in Inos
    BY <2>1, <2>2, EntryTypes
  <2> HIDE DEF S
  <2> QED BY <2>1, <2>2, <2>3, <2>4, ZeroIsNoInode DEF Has
<1> QED BY <1>2, <1>3

LEMMA LiveIs ==
  ASSUME NEW v, Counted(v), NEW d \in Inos
  PROVE  LiveDir(v, d) <=> Live(v, d)
<1>1. v \in Volume /\ Beyond(v)
  BY DEF Counted, Sound
<1>2. \A c \in Inos : DirSlots(v, c) \subseteq Slots
  BY <1>1, DirSlotsAreSlots
<1>3. Named(v, d) <=> \E c \in Inos, n \in Names : Has(v, c, n, d)
  <2>1. ASSUME NEW c \in Inos, NEW s \in DirSlots(v, c), v.ent[c][s].ino = d,
               v.ent[c][s].name \in Names
        PROVE  \E b \in Inos, n \in Names : Has(v, b, n, d)
    BY <1>2, <2>1 DEF Has
  <2>2. ASSUME NEW c \in Inos, NEW n \in Names, NEW s \in Slots, v.ent[c][s].name = n,
               v.ent[c][s].ino = d
        PROVE  s \in DirSlots(v, c)
    BY <1>1, <2>2, ZeroIsNoInode DEF Beyond
  <2> QED BY <2>1, <2>2 DEF Named, Has
<1> QED BY <1>3 DEF LiveDir, Live

----------------------------------------------------------------------------
(* The shape of the names.                                                 *)

LEMMA RootIsLive ==
  ASSUME NEW v, Counted(v)
  PROVE  RootIno \in Inos /\ Live(v, RootIno)
BY InoFacts DEF Counted, Live

(* The parent of a live directory is live.                                 *)
LEMMA LiveParent ==
  ASSUME NEW v, Counted(v), Proper(v), Shaped(v), NEW c \in Inos, NEW a \in Inos,
         Live(v, c), Has(v, c, "..", a)
  PROVE  Live(v, a)
<1>1. CASE c = RootIno
  <2>1. ".." \in DirNames
    BY DEF DirNames
  <2>2. a = RootIno
    BY <1>1, <2>1 DEF Proper
  <2> QED BY <2>2, RootIsLive
<1>2. CASE c # RootIno
  <2>1. PICK b \in Inos, n \in Names : Has(v, b, n, c)
    BY <1>2 DEF Live
  <2>2. Live(v, b) /\ Has(v, c, "..", b)
    BY <2>1 DEF Shaped, Live
  <2>3. a = b
    BY <2>2, ZeroIsNoInode DEF Has, Shaped, UpSlots
  <2> QED BY <2>2, <2>3
<1> QED BY <1>1, <1>2

LEMMA AncestorIs ==
  ASSUME NEW v, Counted(v), NEW a, NEW d
  PROVE  IsAncestor(v, a, d) <=>
           \A S \in SUBSET Inos :
             d \in S /\ (\A c \in S, b \in Inos : Has(v, c, "..", b) => b \in S) => a \in S
<1>1. ASSUME NEW S \in SUBSET Inos
      PROVE  (\A c \in S : \A s \in Slots :
                v.ent[c][s].name = ".." /\ v.ent[c][s].ino # 0 => v.ent[c][s].ino \in S)
             <=> (\A c \in S, b \in Inos : Has(v, c, "..", b) => b \in S)
  <2>1. \A c \in S : \A s \in Slots : v.ent[c][s].ino # 0 => v.ent[c][s].ino \in Inos
    BY EntryTypes
  <2>2. ASSUME \A c \in S : \A s \in Slots :
                 v.ent[c][s].name = ".." /\ v.ent[c][s].ino # 0 => v.ent[c][s].ino \in S,
               NEW c \in S, NEW b \in Inos, Has(v, c, "..", b)
        PROVE  b \in S
    BY <2>2, ZeroIsNoInode DEF Has
  <2>3. ASSUME \A c \in S, b \in Inos : Has(v, c, "..", b) => b \in S,
               NEW c \in S, NEW s \in Slots, v.ent[c][s].name = "..", v.ent[c][s].ino # 0
        PROVE  v.ent[c][s].ino \in S
    BY <2>1, <2>3 DEF Has
  <2> QED BY <2>2, <2>3
<1> QED BY <1>1 DEF IsAncestor

(* Directories T go, others keep their "..", and a new one has a live      *)
(* directory for its parent.                                               *)
LEMMA RootedStep ==
  ASSUME NEW v, Counted(v), Proper(v), Shaped(v), Rooted(v), NEW w, Counted(w),
         NEW T \in SUBSET Inos,
         \A c, a \in Inos : Live(v, c) /\ c \notin T /\ Has(v, c, "..", a)
                              => a \notin T /\ Has(w, c, "..", a),
         \A d \in Inos : Live(w, d) =>
           \/ Live(v, d) /\ d \notin T
           \/ \E a \in Inos : Live(v, a) /\ a \notin T /\ Has(w, d, "..", a)
  PROVE  Rooted(w)
<1> SUFFICES ASSUME NEW d \in Inos, Live(w, d), NEW S \in SUBSET Inos, d \in S,
                    \A c \in S, b \in Inos : Has(w, c, "..", b) => b \in S
             PROVE  RootIno \in S
  BY AncestorIs DEF Rooted
<1> DEFINE R == {x \in S : Live(v, x) /\ x \notin T}
<1>1. PICK e \in Inos : e \in R
  BY DEF Rooted
<1>2. ASSUME NEW c \in R, NEW b \in Inos, Has(v, c, "..", b)
      PROVE  b \in R
  <2>1. b \notin T /\ Has(w, c, "..", b)
    BY <1>2
  <2>2. Live(v, b)
    BY <1>2, LiveParent
  <2> QED BY <2>1, <2>2
<1>3. IsAncestor(v, RootIno, e)
  BY <1>1 DEF Rooted
<1>4. R \in SUBSET Inos
  OBVIOUS
<1>5. R \subseteq S
  OBVIOUS
<1> HIDE DEF R
<1>6. RootIno \in R
  BY <1>1, <1>2, <1>3, <1>4, AncestorIs
<1> QED BY <1>5, <1>6

SameDirs(v, w) == \A j \in Inos : IsDir(w, j) <=> IsDir(v, j)

(* Nothing changes but names of files.                                     *)
FileStep(v, w) ==
  /\ SameDirs(v, w) /\ FewerUps(v, w)
  /\ \A c, j \in Inos : Has(w, c, "..", j) <=> Has(v, c, "..", j)
  /\ \A c, j \in Inos, n \in Names : IsDir(v, j) => (Has(w, c, n, j) <=> Has(v, c, n, j))
  /\ \A c, j \in Inos, n \in Names : Has(w, c, n, j) => Live(v, c)
  /\ \A d, i, j \in Inos, n \in Names : Has(w, d, n, i) /\ Has(w, d, n, j) => i = j

LEMMA FileStepTree ==
  ASSUME NEW v, Counted(v), Tree(v), NEW w, Counted(w), Kept(w), FileStep(v, w)
  PROVE  Tree(w)
<1>1. \A d \in Inos : Live(w, d) <=> Live(v, d)
  BY DEF FileStep, SameDirs, Live
<1>2. Shaped(w)
  <2>1. \A c, d, i \in Inos, n, m \in Names :
          Has(w, c, n, i) /\ Has(w, d, m, i) /\ IsDir(w, i) => c = d /\ n = m
    BY DEF Tree, Shaped, FileStep, SameDirs
  <2>2. \A d, i \in Inos, n \in Names :
          Has(w, d, n, i) => Live(w, d) /\ (IsDir(w, i) => Has(w, i, "..", d))
    BY <1>1 DEF Tree, Shaped, FileStep, SameDirs
  <2>3. \A d \in Inos : \A s, t \in UpSlots(w, d) : s = t
    BY DEF Tree, Shaped, FileStep, FewerUps
  <2> QED BY <2>1, <2>2, <2>3 DEF Shaped, FileStep
<1>3. Rooted(w)
  <2> DEFINE T == {}
  <2>1. /\ \A c, a \in Inos : Live(v, c) /\ c \notin T /\ Has(v, c, "..", a)
                                => a \notin T /\ Has(w, c, "..", a)
        /\ \A d \in Inos : Live(w, d) => Live(v, d) /\ d \notin T
    BY <1>1 DEF FileStep
  <2>2. T \in SUBSET Inos
    OBVIOUS
  <2> HIDE DEF T
  <2> QED BY <2>1, <2>2, RootedStep DEF Tree, Kept
<1> QED BY <1>2, <1>3 DEF Tree

(* The names of Names and ".." are names of entries.                       *)
LEMMA NameFacts ==
  /\ \A n \in Names : n \in DirNames /\ n # "." /\ n # ".."
  /\ "." \in DirNames /\ ".." \in DirNames /\ ".." \notin Names /\ "." \notin Names
BY NamesAssumption DEF DirNames

(***************************************************************************)
(* What a request does to the names and to the types of what they lead to. *)
(***************************************************************************)
KeptNames(v, w) == \A c, j \in Inos, k \in Names : Has(w, c, k, j) <=> Has(v, c, k, j)

(* Types change of free inodes only.                                       *)
GrownKinds(v, w) ==
  \A j \in Inos : w.inode[j].kind = v.inode[j].kind \/ v.inode[j].kind = "none"

(* Types stay of what has a name afterwards.                               *)
NamedKinds(v, w) ==
  \A c, j \in Inos, k \in Names : Has(w, c, k, j) => w.inode[j].kind = v.inode[j].kind

NameAdded(v, w, d, n, i) ==
  /\ i # RootIno /\ (IsDir(v, i) => \A c \in Inos, k \in Names : ~Has(v, c, k, i))
  /\ \A c, j \in Inos, k \in Names :
       Has(w, c, k, j) <=> Has(v, c, k, j) \/ (c = d /\ k = n /\ j = i)

NameRemoved(v, w, d, n, i) ==
  /\ Has(v, d, n, i) /\ (IsDir(v, i) => \A j \in Inos, k \in Names : ~Has(v, i, k, j))
  /\ \A c, j \in Inos, k \in Names :
       Has(w, c, k, j) <=> Has(v, c, k, j) /\ ~(c = d /\ k = n /\ j = i)

(* The name n of d is new, or nothing a user can name has changed.         *)
Grown(v, w, d, n) ==
  /\ GrownKinds(v, w)
  /\ KeptNames(v, w) \/ \E i \in Inos : NameAdded(v, w, d, n, i)

(* One name is gone, or nothing a user can name has changed.               *)
Shrunk(v, w) ==
  /\ NamedKinds(v, w)
  /\ KeptNames(v, w) \/ \E d, i \in Inos, n \in Names : NameRemoved(v, w, d, n, i)

LEMMA SelfGrown ==
  ASSUME NEW v, NEW d, NEW n
  PROVE  Grown(v, v, d, n) /\ Shrunk(v, v)
BY DEF Grown, Shrunk, GrownKinds, NamedKinds, KeptNames

LEMMA GrownAfter ==
  ASSUME NEW v, NEW u, KeptNames(v, u), GrownKinds(v, u), NEW w, NEW d, NEW n,
         Grown(u, w, d, n)
  PROVE  Grown(v, w, d, n)
<1>1. GrownKinds(v, w)
  BY DEF Grown, GrownKinds
<1>2. CASE KeptNames(u, w)
  BY <1>1, <1>2 DEF Grown, KeptNames
<1>3. ASSUME NEW i \in Inos, NameAdded(u, w, d, n, i)
      PROVE  NameAdded(v, w, d, n, i)
  <2>1. IsDir(v, i) => IsDir(u, i)
    BY DEF GrownKinds, IsDir
  <2> QED BY <1>3, <2>1 DEF NameAdded, KeptNames
<1> QED BY <1>1, <1>2, <1>3 DEF Grown

LEMMA GrownThen ==
  ASSUME NEW v, NEW u, NEW d, NEW n, Grown(v, u, d, n), NEW w, KeptNames(u, w), SameKinds(u, w)
  PROVE  Grown(v, w, d, n)
<1>1. GrownKinds(v, w)
  BY DEF Grown, GrownKinds, SameKinds
<1>2. CASE KeptNames(v, u)
  BY <1>1, <1>2 DEF Grown, KeptNames
<1>3. ASSUME NEW i \in Inos, NameAdded(v, u, d, n, i)
      PROVE  NameAdded(v, w, d, n, i)
  BY <1>3 DEF NameAdded, KeptNames
<1> QED BY <1>1, <1>2, <1>3 DEF Grown

LEMMA AddedGrown ==
  ASSUME NEW v, NEW w, NEW d, NEW n \in Names, NEW i \in Inos, i # RootIno,
         Added(v, w, d, n, i), SameKinds(v, w),
         IsDir(v, i) => \A c \in Inos, k \in Names : ~Has(v, c, k, i)
  PROVE  Grown(v, w, d, n)
<1>1. NameAdded(v, w, d, n, i)
  BY NameFacts DEF Added, NameAdded
<1> QED BY <1>1 DEF Grown, SameKinds, GrownKinds

LEMMA SameHasGrown ==
  ASSUME NEW v, NEW w, SameHas(v, w), SameKinds(v, w)
  PROVE  KeptNames(v, w) /\ GrownKinds(v, w) /\ NamedKinds(v, w) /\ Shrunk(v, w)
<1>1. KeptNames(v, w)
  BY NameFacts DEF SameHas, KeptNames
<1> QED BY <1>1 DEF GrownKinds, NamedKinds, SameKinds, Shrunk

(* The same entries.                                                       *)
LEMMA SameStep ==
  ASSUME NEW v, Counted(v), Tree(v), NEW w, SameHas(v, w), SameDirs(v, w), FewerUps(v, w)
  PROVE  FileStep(v, w)
<1>1. \A c, j \in Inos, n \in Names : Has(w, c, n, j) <=> Has(v, c, n, j)
  BY NameFacts DEF SameHas
<1>2. \A c, j \in Inos : Has(w, c, "..", j) <=> Has(v, c, "..", j)
  BY NameFacts DEF SameHas
<1>3. /\ \A c, j \in Inos, n \in Names : Has(w, c, n, j) => Live(v, c)
      /\ \A d, i, j \in Inos, n \in Names : Has(w, d, n, i) /\ Has(w, d, n, j) => i = j
  BY <1>1 DEF Tree, Shaped
<1> QED BY <1>1, <1>2, <1>3 DEF FileStep

(* A count is changed.                                                     *)
LEMMA RelinkTree ==
  ASSUME NEW v, Counted(v), Tree(v), NEW w, Counted(w), NEW i \in Inos, NEW k \in Nat,
         Relinked(v, w, i, k), k >= Due(v, i)
  PROVE  Tree(w)
<1>1. Kept(w) /\ SameHas(v, w) /\ SameKinds(v, w) /\ FewerUps(v, w)
  BY RelinkKept DEF Tree
<1>2. SameDirs(v, w)
  BY <1>1 DEF SameKinds, SameDirs, IsDir
<1> QED BY <1>1, <1>2, SameStep, FileStepTree

(* The entries and the inodes stay, but for what i_blocks and the counts   *)
(* of the volume say.                                                      *)
LEMMA SameTree ==
  ASSUME NEW v, Counted(v), Tree(v), NEW w, Counted(w), w.ent = v.ent, w.damaged = v.damaged,
         \A j \in Inos : /\ w.inode[j].kind = v.inode[j].kind
                         /\ w.inode[j].links = v.inode[j].links
  PROVE  Tree(w)
<1> DEFINE k == v.inode[RootIno].links
<1>1. RootIno \in Inos
  BY InoFacts
<1>2. k \in Nat /\ k >= Due(v, RootIno)
  BY <1>1, LinksType DEF Tree, Kept, Covered
<1>3. Relinked(v, w, RootIno, k)
  BY DEF Relinked
<1> HIDE DEF k
<1> QED BY <1>1, <1>2, <1>3, RelinkTree

SameLinks(v, w) == \A j \in Inos : w.inode[j].links = v.inode[j].links

(* do_link of a name.                                                      *)
LEMMA DoLinkKept ==
  ASSUME NEW v, Counted(v), Kept(v), NEW d \in Inos, LinkOk(v, d), NEW n \in Names,
         NEW i \in Inos, IsDir(v, d), v.inode[i].kind # "none", ~Has(v, d, n, i),
         IF IsDir(v, i) THEN v.inode[d].links > Due(v, d) ELSE v.inode[i].links > Due(v, i)
  PROVE  LET w == do_link(v, d, n, i)
         IN /\ Kept(w) /\ Added(v, w, d, n, i) /\ SameKinds(v, w) /\ FewerUps(v, w)
            /\ SameLinks(v, w) /\ w.damaged = v.damaged
<1> DEFINE w == do_link(v, d, n, i)
<1>1. PICK s \in Slots : /\ v.ent[d][s].ino = 0
                         /\ Wrote(v, w, d, s, [name |-> n, ino |-> i])
  BY DoLinkWrites
<1>2. \A j \in Inos : v.inode[j].links \in Nat
  BY LinksType
<1> HIDE DEF w
<1>3. Kept(w) /\ Added(v, w, d, n, i) /\ SameKinds(v, w) /\ FewerUps(v, w)
  BY <1>1, <1>2, LinkKept
<1>4. SameLinks(v, w) /\ w.damaged = v.damaged
  BY <1>1 DEF Wrote, SameLinks
<1> QED BY <1>3, <1>4 DEF w

(* x, given to ext2fs_unlink, selects the entry of n that leads to i.       *)
Selects(v, d, n, x, i) ==
  Has(v, d, n, i) /\ (x = i \/ (x = 0 /\ \A j \in Inos : Has(v, d, n, j) => j = i))

LEMMA SelectedSlot ==
  ASSUME NEW v, Counted(v), NEW d \in Inos, NEW n, NEW i \in Inos, NEW x,
         Selects(v, d, n, x, i)
  PROVE  /\ SlotsOf(v, d, n, x) # {}
         /\ \A s \in SlotsOf(v, d, n, x) : v.ent[d][s].name = n /\ v.ent[d][s].ino = i
<1>1. Has(v, d, n, i) /\ (x = i \/ (x = 0 /\ \A j \in Inos : Has(v, d, n, j) => j = i))
  BY DEF Selects
<1>2. SlotsOf(v, d, n, x) # {}
  BY <1>1, SlotsHas, AnySlotsHas
<1>3. ASSUME NEW s \in SlotsOf(v, d, n, x)
      PROVE  v.ent[d][s].name = n /\ v.ent[d][s].ino = i
  <2>0. s \in Slots
    BY DirSlotsAreSlots DEF SlotsOf, Counted, Sound
  <2>1. v.ent[d][s].name = n /\ v.ent[d][s].ino # 0 /\ (x # 0 => v.ent[d][s].ino = x)
    BY DEF SlotsOf
  <2>2. v.ent[d][s].ino \in Inos \cup {0}
    BY <2>0, EntryTypes
  <2>3. v.ent[d][s].ino \in Inos
    BY <2>1, <2>2
  <2>4. Has(v, d, n, v.ent[d][s].ino)
    BY <2>0, <2>1 DEF Has
  <2> QED BY <1>1, <2>1, <2>3, <2>4, ZeroIsNoInode
<1> QED BY <1>2, <1>3

(* ext2fs_unlink of a name, with the inode it leads to or without.         *)
LEMMA UnlinkNameKept ==
  ASSUME NEW v, Counted(v), Kept(v), NEW d \in Inos, NEW n \in Names, NEW i \in Inos,
         NEW x, Selects(v, d, n, x, i),
         ~ext2fs_unlink(v, d, n, x).damaged
  PROVE  LET w == ext2fs_unlink(v, d, n, x)
         IN /\ Counted(w) /\ Kept(w) /\ Removed(v, w, d, n, i) /\ SameKinds(v, w)
            /\ FewerUps(v, w) /\ SameLinks(v, w) /\ ~v.damaged
            /\ IF IsDir(v, i) THEN Due(w, d) = Due(v, d) - 1 ELSE Due(w, i) = Due(v, i) - 1
<1> DEFINE w == ext2fs_unlink(v, d, n, x)
<1>1. /\ SlotsOf(v, d, n, x) # {}
      /\ \A s \in SlotsOf(v, d, n, x) : v.ent[d][s].name = n /\ v.ent[d][s].ino = i
  BY SelectedSlot
<1>2. PICK s \in Slots : s \in SlotsOf(v, d, n, x) /\ Wrote(v, w, d, s, Unused)
  BY <1>1, UnlinkWrites
<1>3. v.ent[d][s].name = n /\ v.ent[d][s].ino = i
  BY <1>1, <1>2
<1>4. Counted(w) /\ ~w.damaged
  BY UnlinkCounted
<1> HIDE DEF w
<1>5. /\ Kept(w) /\ Removed(v, w, d, n, i) /\ SameKinds(v, w) /\ FewerUps(v, w)
      /\ IF IsDir(v, i) THEN Due(w, d) = Due(v, d) - 1 ELSE Due(w, i) = Due(v, i) - 1
  BY <1>2, <1>3, UnlinkKept, SMTT(60)
<1>6. SameLinks(v, w) /\ ~v.damaged
  BY <1>2, <1>4 DEF Wrote, SameLinks
<1> QED BY <1>4, <1>5, <1>6 DEF w

LEMMA KillDamaged ==
  ASSUME NEW v, Counted(v), NEW i \in Inos
  PROVE  kill_file_by_inode(v, i).damaged = v.damaged
BY KillReplaces DEF Replaced, Relinked

(* do_unlink_on_ino of a file: it goes with its last name.                 *)
LEMMA UnlinkOnInoKept ==
  ASSUME NEW v, Counted(v), Kept(v), NEW p \in Inos, NEW n \in Names, NEW i \in Inos,
         Has(v, p, n, i), ~IsDir(v, i), ~do_unlink_on_ino(v, p, n, i, -1).damaged
  PROVE  LET w == do_unlink_on_ino(v, p, n, i, -1)
         IN /\ Kept(w) /\ Removed(v, w, p, n, i) /\ SameDirs(v, w) /\ FewerUps(v, w)
            /\ ~v.damaged
            /\ \A j \in Inos : j # i => w.inode[j].kind = v.inode[j].kind
            /\ NamedKinds(v, w)
<1> DEFINE links == IF v.inode[i].links > 0 THEN v.inode[i].links + -1 ELSE 0
           u == ext2fs_unlink(v, p, n, i)
           w == do_unlink_on_ino(v, p, n, i, -1)
<1>1. w = IF links < 1 THEN kill_file_by_inode(u, i) ELSE [u EXCEPT !.inode[i].links = links]
  BY DEF do_unlink_on_ino
<1>2. Counted(u)
  BY UnlinkCounted
<1> HIDE DEF links, u, w
<1>3. ~u.damaged
  <2>1. kill_file_by_inode(u, i).damaged = u.damaged
    BY <1>2, KillDamaged
  <2>2. [u EXCEPT !.inode[i].links = links].damaged = u.damaged
    BY <1>2 DEF Counted, Sound, Volume
  <2> QED BY <1>1, <2>1, <2>2 DEF w
<1>4. /\ Kept(u) /\ Removed(v, u, p, n, i) /\ SameKinds(v, u) /\ FewerUps(v, u)
      /\ SameLinks(v, u) /\ ~v.damaged /\ Due(u, i) = Due(v, i) - 1
  <2>1. Selects(v, p, n, i, i)
    BY DEF Selects
  <2> QED BY <1>3, <2>1, UnlinkNameKept DEF u
<1>5. SameDirs(v, u) /\ ~IsDir(u, i)
  BY <1>4 DEF SameDirs, SameKinds, IsDir
<1>6. links \in Nat /\ links >= Due(u, i) /\ Due(u, i) \in Nat
  <2>1. v.inode[i].links >= Due(v, i) /\ v.inode[i].links \in Nat /\ Due(v, i) \in Nat
    BY LinksType, DueType DEF Kept, Covered
  <2>2. Due(u, i) \in Nat
    BY DueType
  <2> QED BY <1>4, <2>1, <2>2 DEF links
<1>7. CASE links < 1
  <2>1. Due(u, i) = 0
    BY <1>6, <1>7
  <2>2. Refs(u, i) = {}
    <3>1. Cardinality(Refs(u, i)) = 0 /\ IsFiniteSet(Refs(u, i))
      BY <1>5, <2>1, RefsFinite DEF Due
    <3> QED BY <3>1, FS_EmptySet
  <2>3. \A c \in Inos, k \in Names : ~Has(u, c, k, i)
    <3> SUFFICES ASSUME NEW c \in Inos, NEW k \in Names, NEW s \in Slots,
                        u.ent[c][s].name = k, u.ent[c][s].ino = i
                 PROVE  FALSE
      BY DEF Has
    <3>1. <<c, s>> \in Refs(u, i)
      BY DEF Refs
    <3> QED BY <2>2, <3>1
  <2>4. \A s \in Slots : u.ent[i][s].ino # 0 => u.ent[i][s].name \notin Names
    <3> SUFFICES ASSUME NEW s \in Slots, u.ent[i][s].ino # 0, u.ent[i][s].name \in Names
                 PROVE  FALSE
      OBVIOUS
    <3>1. u.ent[i][s].ino \in Inos
      BY <1>2, EntryTypes
    <3>2. Has(u, i, u.ent[i][s].name, u.ent[i][s].ino)
      BY DEF Has
    <3> QED BY <1>4, <1>5, <3>1, <3>2, NameFacts DEF Kept, Proper
  <2>5. Unnamed(u, i)
    BY <2>3, <2>4 DEF Unnamed
  <2>6. i # RootIno /\ u.inode[i].kind # "none"
    <3>1. i # RootIno
      BY DEF Counted
    <3>2. v.inode[i].kind # "none"
      BY NameFacts DEF Kept, Proper
    <3> QED BY <1>4, <3>1, <3>2 DEF SameKinds
  <2>7. w = kill_file_by_inode(u, i)
    BY <1>1, <1>7
  <2>8. Kept(w) /\ Gone(u, w, i)
    BY <1>2, <1>4, <2>5, <2>6, <2>7, KillKept
  <2>9. \A j \in Inos, k \in DirNames : ~Has(u, i, k, j)
    BY <1>4, <1>5 DEF Kept, Proper
  <2>10. Removed(v, w, p, n, i)
    BY <1>4, <2>8, <2>9 DEF Removed, Gone
  <2>11. SameDirs(v, w)
    BY <1>5, <2>8 DEF SameDirs, Gone, IsDir
  <2>12. FewerUps(v, w)
    BY <1>4, <2>8 DEF FewerUps, Gone
  <2>13. \A j \in Inos : j # i => w.inode[j].kind = v.inode[j].kind
    BY <1>4, <2>8 DEF SameKinds, Gone
  <2>14. \A c \in Inos, k \in Names : ~Has(w, c, k, i)
    BY <2>3, <2>8, NameFacts DEF Gone
  <2>15. NamedKinds(v, w)
    BY <2>13, <2>14 DEF NamedKinds
  <2> QED BY <1>4, <2>8, <2>10, <2>11, <2>12, <2>13, <2>15 DEF w
<1>8. CASE ~(links < 1)
  <2>1. w = [u EXCEPT !.inode[i].links = links]
    BY <1>1, <1>8
  <2>2. Relinked(u, w, i, links)
    BY <1>2, <2>1, RelinkedBy
  <2>3. Kept(w) /\ SameHas(u, w) /\ SameKinds(u, w) /\ FewerUps(u, w)
    BY <1>2, <1>4, <1>6, <2>2, RelinkKept
  <2>4. Removed(v, w, p, n, i)
    BY <1>4, <2>3 DEF Removed, SameHas
  <2>5. SameDirs(v, w) /\ \A j \in Inos : w.inode[j].kind = v.inode[j].kind
    BY <1>4, <2>3 DEF SameDirs, SameKinds, IsDir
  <2>6. FewerUps(v, w)
    BY <1>4, <2>3 DEF FewerUps
  <2>7. NamedKinds(v, w)
    BY <2>5 DEF NamedKinds
  <2> QED BY <1>4, <2>3, <2>4, <2>5, <2>6, <2>7 DEF w
<1> QED BY <1>7, <1>8

----------------------------------------------------------------------------
(* Files: create, symlink, link, unlink.                                   *)

(* A free inode is put to use; no name leads to it yet.                    *)
LEMMA AllocTree ==
  ASSUME NEW v, Counted(v), Tree(v), NEW w, Counted(w), NEW i \in FreeInos(v), NEW ip, NEW es,
         Replaced(v, w, i, ip, es), NewContents(i, ip, es)
  PROVE  /\ Tree(w)
         /\ \A d \in Inos : Live(w, d) <=> Live(v, d)
         /\ \A c, j \in Inos, k \in Names : Has(w, c, k, j) <=> Has(v, c, k, j)
         /\ Due(w, i) = IF ip.kind = "dir" THEN 2 ELSE 0
         /\ \A j \in Inos : j # i => Due(w, j) = Due(v, j)
<1>1. /\ i \in Inos /\ i # RootIno /\ Unnamed(v, i) /\ ~IsDir(v, i)
      /\ \A s \in Slots : v.ent[i][s].ino = 0
  BY FreeUnnamed DEF Tree
<1>2. /\ Kept(w)
      /\ \A c, j \in Inos, k \in DirNames : c # i => (Has(w, c, k, j) <=> Has(v, c, k, j))
      /\ \A j \in Inos, k \in Names : ~Has(w, i, k, j)
      /\ Due(w, i) = IF ip.kind = "dir" THEN 2 ELSE 0
      /\ \A j \in Inos : j # i => Due(w, j) = Due(v, j)
  BY <1>1, ReplaceKept DEF Tree
<1>3. \A j \in Inos : \A k : ~Has(v, i, k, j)
  BY <1>1, ZeroIsNoInode DEF Has
<1>4. \A c, j \in Inos, k \in Names : Has(w, c, k, j) <=> Has(v, c, k, j)
  BY <1>2, <1>3, NameFacts
<1>5. \A c \in Inos, k \in Names : ~Has(w, c, k, i)
  BY <1>1, <1>4 DEF Unnamed
<1>6. \A j \in Inos : j # i => (IsDir(w, j) <=> IsDir(v, j))
  BY DEF Replaced, IsDir
<1>7. \A d \in Inos : Live(w, d) <=> Live(v, d)
  <2> TAKE d \in Inos
  <2>1. CASE d = i
    BY <1>1, <1>5, <2>1 DEF Live
  <2>2. CASE d # i
    BY <1>4, <1>6, <2>2 DEF Live
  <2> QED BY <2>1, <2>2
<1>8. \A c, j \in Inos : c # i => (Has(w, c, "..", j) <=> Has(v, c, "..", j))
  BY <1>2, NameFacts
<1>9. Shaped(w)
  <2>1. \A d, x, y \in Inos, n \in Names : Has(w, d, n, x) /\ Has(w, d, n, y) => x = y
    BY <1>4 DEF Tree, Shaped
  <2>2. \A c, d, x \in Inos, n, m \in Names :
          Has(w, c, n, x) /\ Has(w, d, m, x) /\ IsDir(w, x) => c = d /\ n = m
    BY <1>4, <1>5, <1>6 DEF Tree, Shaped
  <2>3. ASSUME NEW d \in Inos, NEW x \in Inos, NEW n \in Names, Has(w, d, n, x)
        PROVE  Live(w, d) /\ (IsDir(w, x) => Has(w, x, "..", d))
    <3>1. x # i /\ Has(v, d, n, x)
      BY <1>4, <1>5, <2>3
    <3>2. Live(v, d) /\ (IsDir(v, x) => Has(v, x, "..", d))
      BY <3>1 DEF Tree, Shaped
    <3> QED BY <1>6, <1>7, <1>8, <3>1, <3>2
  <2>4. ASSUME NEW d \in Inos, NEW s \in UpSlots(w, d), NEW t \in UpSlots(w, d)
        PROVE  s = t
    <3>1. CASE d = i
      BY <3>1 DEF UpSlots, Replaced, NewContents
    <3>2. CASE d # i
      <4>1. UpSlots(w, d) = UpSlots(v, d)
        BY <3>2 DEF UpSlots, Replaced
      <4> QED BY <4>1 DEF Tree, Shaped
    <3> QED BY <3>1, <3>2
  <2> QED BY <2>1, <2>2, <2>3, <2>4 DEF Shaped
<1>10. Rooted(w)
  <2> DEFINE T == {}
  <2>1. /\ \A c, a \in Inos : Live(v, c) /\ c \notin T /\ Has(v, c, "..", a)
                                => a \notin T /\ Has(w, c, "..", a)
        /\ \A d \in Inos : Live(w, d) => Live(v, d) /\ d \notin T
    BY <1>3, <1>7, <1>8
  <2>2. T \in SUBSET Inos
    OBVIOUS
  <2> HIDE DEF T
  <2> QED BY <2>1, <2>2, RootedStep DEF Tree, Kept
<1> QED BY <1>2, <1>4, <1>7, <1>9, <1>10 DEF Tree

(* A free name of a live directory is given to a file.                     *)
LEMMA NewNameStep ==
  ASSUME NEW v, Counted(v), Tree(v), NEW w, NEW d \in Inos, NEW n \in Names, NEW i \in Inos,
         Live(v, d), ~IsDir(v, i), \A j \in Inos : ~Has(v, d, n, j),
         Added(v, w, d, n, i), SameKinds(v, w), FewerUps(v, w)
  PROVE  FileStep(v, w)
<1>1. SameDirs(v, w)
  BY DEF SameKinds, SameDirs, IsDir
<1>2. \A c, j \in Inos, k \in Names :
        Has(w, c, k, j) <=> Has(v, c, k, j) \/ (c = d /\ k = n /\ j = i)
  BY NameFacts DEF Added
<1>3. \A c, j \in Inos : Has(w, c, "..", j) <=> Has(v, c, "..", j)
  BY NameFacts DEF Added
<1>4. \A c, j \in Inos, k \in Names : Has(w, c, k, j) => Live(v, c)
  BY <1>2 DEF Tree, Shaped
<1>5. \A c, x, y \in Inos, k \in Names : Has(w, c, k, x) /\ Has(w, c, k, y) => x = y
  BY <1>2 DEF Tree, Shaped
<1> QED BY <1>1, <1>2, <1>3, <1>4, <1>5 DEF FileStep

(* A name of a file goes.                                                  *)
LEMMA OldNameStep ==
  ASSUME NEW v, Counted(v), Tree(v), NEW w, NEW d \in Inos, NEW n \in Names, NEW i \in Inos,
         ~IsDir(v, i), Removed(v, w, d, n, i), SameDirs(v, w), FewerUps(v, w)
  PROVE  FileStep(v, w)
<1>2. \A c, j \in Inos, k \in Names :
        Has(w, c, k, j) <=> Has(v, c, k, j) /\ ~(c = d /\ k = n /\ j = i)
  BY NameFacts DEF Removed
<1>3. \A c, j \in Inos : Has(w, c, "..", j) <=> Has(v, c, "..", j)
  BY NameFacts DEF Removed
<1>4. /\ \A c, j \in Inos, k \in Names : Has(w, c, k, j) => Live(v, c)
      /\ \A c, x, y \in Inos, k \in Names : Has(w, c, k, x) /\ Has(w, c, k, y) => x = y
  BY <1>2 DEF Tree, Shaped
<1> QED BY <1>2, <1>3, <1>4 DEF FileStep

(* do_create.                                                              *)
LEMMA CreateTree ==
  ASSUME NEW v, Counted(v), Tree(v), NEW p \in Inos, Live(v, p), NEW n \in Names,
         \A j \in Inos : ~Has(v, p, n, j), NEW kind \in {"file", "symlink"}
  PROVE  Tree(do_create(v, p, n, kind).vol) /\ Grown(v, do_create(v, p, n, kind).vol, p, n)
<1>0. v \in Volume /\ p \in v.imap
  BY DEF Counted, Sound, Live, IsDir
<1>1. CASE FreeInos(v) = {}
  BY <1>1, SelfGrown DEF do_create
<1>2. CASE FreeInos(v) # {}
  <2> DEFINE i == ext2fs_new_inode(v, p)
             ip == [kind |-> kind, links |-> 1, blocks |-> 0]
             new == [v EXCEPT !.inode[i] = ip]
             marked == ext2fs_inode_alloc_stats2(new, i, 1, FALSE)
             es == v.ent[i]
  <2>1. i \in FreeInos(v)
    BY <1>2, NewInodeFree
  <2>2. /\ i \in Inos /\ i # RootIno /\ v.inode[i].kind = "none"
        /\ \A s \in Slots : v.ent[i][s].ino = 0
    BY <2>1, FreeUnnamed DEF Tree
  <2>3. ip.kind = kind /\ ip.links = 1 /\ kind # "none" /\ kind # "dir"
    OBVIOUS
  <2>4. do_create(v, p, n, kind).vol = do_link(marked, p, n, i)
    BY <1>2 DEF do_create
  <2>5. marked.ent = v.ent /\ marked.damaged = v.damaged
        /\ marked.inode = [v.inode EXCEPT ![i] = ip]
    BY <1>0 DEF ext2fs_inode_alloc_stats2, Volume
  <2>6. Counted(marked)
    BY <1>0, <1>2, CreateMarked
  <2> HIDE DEF i, ip, new, marked
  <2>7. \A j \in Inos : marked.inode[j] = IF j = i THEN ip ELSE v.inode[j]
    BY <1>0, <2>5, VolumeFields
  <2>8. Replaced(v, marked, i, ip, es)
    BY <2>5, <2>7 DEF Replaced
  <2>9. NewContents(i, ip, es)
    BY <2>2, <2>3 DEF NewContents
  <2> HIDE DEF es
  <2>10. /\ Tree(marked) /\ Due(marked, i) = 0
         /\ \A d \in Inos : Live(marked, d) <=> Live(v, d)
         /\ \A c, j \in Inos, k \in Names : Has(marked, c, k, j) <=> Has(v, c, k, j)
    BY <2>1, <2>3, <2>6, <2>8, <2>9, AllocTree
  <2>13. KeptNames(v, marked) /\ GrownKinds(v, marked)
    BY <2>2, <2>7, <2>10 DEF KeptNames, GrownKinds
  <2> DEFINE w == do_link(marked, p, n, i)
  <2>11. CASE ~LinkOk(marked, p)
    BY <2>4, <2>10, <2>11, <2>13 DEF do_link, LinkOk, Grown
  <2>12. CASE LinkOk(marked, p)
    <3>1. Live(marked, p) /\ IsDir(marked, p) /\ \A j \in Inos : ~Has(marked, p, n, j)
      BY <2>10 DEF Live
    <3>2. marked.inode[i].kind # "none" /\ ~IsDir(marked, i) /\ marked.inode[i].links = 1
      BY <2>2, <2>3, <2>7 DEF IsDir
    <3>3. marked.inode[i].links > Due(marked, i)
      BY <2>10, <3>2
    <3>4. Kept(w) /\ Added(marked, w, p, n, i) /\ SameKinds(marked, w) /\ FewerUps(marked, w)
      BY <2>2, <2>6, <2>10, <2>12, <3>1, <3>2, <3>3, DoLinkKept DEF Tree
    <3>5. Counted(w)
      BY <1>0, <2>4, CreateCounted
    <3> HIDE DEF w
    <3>6. FileStep(marked, w)
      BY <2>2, <2>6, <2>10, <3>1, <3>2, <3>4, NewNameStep
    <3>7. Tree(w)
      BY <2>6, <2>10, <3>4, <3>5, <3>6, FileStepTree
    <3>8. Grown(marked, w, p, n)
      BY <2>2, <3>2, <3>4, AddedGrown
    <3>9. Grown(v, w, p, n)
      BY <2>13, <3>8, GrownAfter
    <3> QED BY <2>4, <3>7, <3>9 DEF w
  <2> QED BY <2>11, <2>12
<1> QED BY <1>1, <1>2

LEMMA SymlinkTree ==
  ASSUME NEW v, Counted(v), Tree(v), NEW perm, NEW p \in Inos, Live(v, p), NEW n \in Names,
         \A j \in Inos : ~Has(v, p, n, j)
  PROVE  /\ Tree(symlink_request(v, perm, p, n).vol)
         /\ Grown(v, symlink_request(v, perm, p, n).vol, p, n)
<1> DEFINE r == do_create(v, p, n, "symlink")
           w == [r.vol EXCEPT !.inode[r.ino].blocks = 1, !.freeBlocks = @ - 1]
<1>0. p \in v.imap
  BY DEF Counted, Live, IsDir
<1>1. Counted(r.vol) /\ (r.rc = "0" => r.ino \in Inos)
  BY <1>0, CreateCounted
<1>2. Tree(r.vol) /\ Grown(v, r.vol, p, n)
  BY CreateTree
<1>3. Counted(symlink_request(v, perm, p, n).vol)
  BY <1>0, SymlinkCounted
<1>4. CASE ~perm \/ r.rc # "0" \/ r.vol.freeBlocks = 0
  BY <1>2, <1>4, SelfGrown DEF symlink_request
<1>5. CASE ~(~perm \/ r.rc # "0" \/ r.vol.freeBlocks = 0)
  <2>1. symlink_request(v, perm, p, n).vol = w
    BY <1>5 DEF symlink_request
  <2> HIDE DEF r
  <2>2. r.vol \in Volume /\ r.ino \in Inos
    BY <1>1, <1>5 DEF Counted, Sound
  <2>3. /\ w.ent = r.vol.ent /\ w.damaged = r.vol.damaged
        /\ w.inode = [r.vol.inode EXCEPT ![r.ino].blocks = 1]
    BY <2>2 DEF Volume
  <2>4. \A j \in Inos : /\ w.inode[j].kind = r.vol.inode[j].kind
                        /\ w.inode[j].links = r.vol.inode[j].links
    BY <2>2, <2>3, VolumeFields DEF Inode
  <2>5. Counted(w)
    BY <1>3, <2>1
  <2> HIDE DEF w
  <2>6. Tree(w)
    BY <1>1, <1>2, <2>3, <2>4, <2>5, SameTree
  <2>7. KeptNames(r.vol, w) /\ SameKinds(r.vol, w)
    BY <2>3, <2>4 DEF KeptNames, SameKinds, Has
  <2>8. Grown(v, w, p, n)
    BY <1>2, <2>7, GrownThen
  <2> QED BY <2>1, <2>6, <2>8
<1> QED BY <1>4, <1>5

(* A raised count covers one more.                                         *)
LEMMA RaiseTree ==
  ASSUME NEW v, Counted(v), Tree(v), NEW i \in Inos, v.inode[i].links + 1 < LinkMod
  PROVE  LET w == AddLinks(v, i, 1)
         IN /\ Counted(w) /\ Tree(w) /\ Relinked(v, w, i, v.inode[i].links + 1)
            /\ SameHas(v, w) /\ SameKinds(v, w)
            /\ w.inode[i].links > Due(w, i) /\ w.inode[i].links = v.inode[i].links + 1
<1> DEFINE w == AddLinks(v, i, 1)
           k == v.inode[i].links + 1
<1>1. Relinked(v, w, i, k)
  BY RaisedBy
<1>2. v.inode[i].links \in Nat /\ v.inode[i].links >= Due(v, i) /\ Due(v, i) \in Nat
  BY LinksType, DueType DEF Tree, Kept, Covered
<1>3. k \in Nat /\ k > Due(v, i) /\ k >= Due(v, i)
  BY <1>2
<1>4. Counted(w)
  BY AddLinksCounted
<1> HIDE DEF w, k
<1>5. SameHas(v, w) /\ SameKinds(v, w) /\ Due(w, i) = Due(v, i)
  BY <1>1, <1>3, RelinkKept DEF Tree
<1>6. Tree(w)
  BY <1>1, <1>3, <1>4, RelinkTree
<1>7. w.inode[i].links = k
  BY <1>1 DEF Relinked
<1>8. w.inode[i].links > Due(w, i)
  BY <1>3, <1>5, <1>7
<1> QED BY <1>1, <1>4, <1>5, <1>6, <1>7, <1>8 DEF w, k

(* A count that covers more than is due is lowered.                        *)
LEMMA LowerTree ==
  ASSUME NEW v, Counted(v), Tree(v), NEW i \in Inos, v.inode[i].links > Due(v, i)
  PROVE  LET w == AddLinks(v, i, -1) IN Tree(w) /\ SameHas(v, w) /\ SameKinds(v, w)
<1> DEFINE k == v.inode[i].links - 1
<1>1. v.inode[i].links \in Nat /\ Due(v, i) \in Nat
  BY LinksType, DueType
<1>2. v.inode[i].links > 0 /\ k \in Nat /\ k >= Due(v, i)
  BY <1>1
<1>3. Relinked(v, AddLinks(v, i, -1), i, k)
  BY <1>2, LoweredBy
<1>4. Counted(AddLinks(v, i, -1))
  BY AddLinksCounted
<1> HIDE DEF k
<1>5. SameHas(v, AddLinks(v, i, -1)) /\ SameKinds(v, AddLinks(v, i, -1))
  BY <1>2, <1>3, RelinkKept DEF Tree
<1> QED BY <1>2, <1>3, <1>4, <1>5, RelinkTree

LEMMA LinkTree ==
  ASSUME NEW v, Counted(v), Tree(v), NEW i \in Inos, ~IsDir(v, i), v.inode[i].kind # "none",
         v.inode[i].links + 1 < LinkMod,
         NEW q \in Inos, Live(v, q), NEW m \in Names, \A j \in Inos : ~Has(v, q, m, j)
  PROVE  Tree(link_request(v, i, q, m).vol) /\ Grown(v, link_request(v, i, q, m).vol, q, m)
<1> DEFINE u == AddLinks(v, i, 1)
           w == do_link(u, q, m, i)
<1>1. /\ Counted(u) /\ Tree(u) /\ SameHas(v, u) /\ SameKinds(v, u)
      /\ u.inode[i].links > Due(u, i)
  BY RaiseTree
<1>2. link_request(v, i, q, m).vol = IF LinkOk(u, q) THEN w ELSE AddLinks(u, i, -1)
  BY DEF link_request
<1>3. i # RootIno /\ q \in v.imap
  BY DEF Counted, Live, IsDir
<1>4. u.imap = v.imap
  BY AddLinksCounted
<1> HIDE DEF u
<1>7. KeptNames(v, u) /\ GrownKinds(v, u)
  BY <1>1, SameHasGrown
<1>5. CASE ~LinkOk(u, q)
  <2> DEFINE x == AddLinks(u, i, -1)
  <2>1. Tree(x) /\ SameHas(u, x) /\ SameKinds(u, x)
    BY <1>1, LowerTree
  <2> HIDE DEF x
  <2>2. Grown(u, x, q, m)
    BY <2>1, SameHasGrown DEF Grown
  <2>3. Grown(v, x, q, m)
    BY <1>7, <2>2, GrownAfter
  <2> QED BY <1>2, <1>5, <2>1, <2>3 DEF x
<1>6. CASE LinkOk(u, q)
  <2>1. ~IsDir(u, i) /\ u.inode[i].kind # "none"
    BY <1>1 DEF SameKinds, IsDir
  <2>2. Live(u, q) /\ \A j \in Inos : ~Has(u, q, m, j)
    BY <1>1, NameFacts DEF Live, SameHas, SameKinds, IsDir
  <2>3. IsDir(u, q)
    BY <2>2 DEF Live
  <2>4. Kept(w) /\ Added(u, w, q, m, i) /\ SameKinds(u, w) /\ FewerUps(u, w)
    BY <1>1, <1>6, <2>1, <2>2, <2>3, DoLinkKept DEF Tree
  <2>5. Counted(w)
    BY <1>1, <1>3, <1>4, NameFacts, DoLinkCounted
  <2> HIDE DEF w
  <2>6. FileStep(u, w)
    BY <1>1, <2>1, <2>2, <2>4, NewNameStep
  <2>7. Tree(w)
    BY <1>1, <2>4, <2>5, <2>6, FileStepTree
  <2>8. Grown(u, w, q, m)
    BY <1>3, <2>1, <2>4, AddedGrown
  <2>9. Grown(v, w, q, m)
    BY <1>7, <2>8, GrownAfter
  <2> QED BY <1>2, <1>6, <2>7, <2>9
<1> QED BY <1>5, <1>6

(* do_unlink_on_ino of a name of a file.                                   *)
LEMMA UnlinkOnInoTree ==
  ASSUME NEW v, Counted(v), Tree(v), NEW p \in Inos, NEW n \in Names, NEW i \in Inos,
         Has(v, p, n, i), ~IsDir(v, i), ~do_unlink_on_ino(v, p, n, i, -1).damaged
  PROVE  LET w == do_unlink_on_ino(v, p, n, i, -1) IN Tree(w) /\ Shrunk(v, w)
<1> DEFINE w == do_unlink_on_ino(v, p, n, i, -1)
<1>1. /\ Kept(w) /\ Removed(v, w, p, n, i) /\ SameDirs(v, w) /\ FewerUps(v, w)
      /\ NamedKinds(v, w)
  BY UnlinkOnInoKept DEF Tree
<1>2. Counted(w)
  <2>1. i # RootIno
    BY DEF Counted
  <2> QED BY <2>1, UnlinkOnInoCounted
<1> HIDE DEF w
<1>3. FileStep(v, w)
  BY <1>1, OldNameStep
<1>4. Tree(w)
  BY <1>1, <1>2, <1>3, FileStepTree
<1>5. NameRemoved(v, w, p, n, i)
  BY <1>1, NameFacts DEF NameRemoved, Removed
<1>6. Shrunk(v, w)
  BY <1>1, <1>5 DEF Shrunk
<1> QED BY <1>4, <1>6 DEF w

LEMMA UnlinkTree ==
  ASSUME NEW v, Counted(v), Tree(v), NEW p \in Inos, NEW n \in Names,
         ~IsDir(v, ext2fs_lookup(v, p, n)), ~do_unlink(v, p, n, -1).damaged
  PROVE  Tree(do_unlink(v, p, n, -1)) /\ Shrunk(v, do_unlink(v, p, n, -1))
<1> DEFINE i == ext2fs_lookup(v, p, n)
<1>1. CASE i = 0
  BY <1>1, SelfGrown DEF do_unlink
<1>2. CASE i # 0
  <2>1. do_unlink(v, p, n, -1) = do_unlink_on_ino(v, p, n, i, -1)
    BY <1>2 DEF do_unlink
  <2>2. i \in Inos /\ Has(v, p, n, i)
    BY <1>2, LookupHas
  <2> HIDE DEF i
  <2>3. ~IsDir(v, i)
    BY DEF i
  <2> QED BY <2>1, <2>2, <2>3, UnlinkOnInoTree
<1> QED BY <1>1, <1>2

----------------------------------------------------------------------------
(* mkdir.                                                                  *)

LEMMA NewDirContents ==
  ASSUME NEW i \in Inos, NEW p \in Inos
  PROVE  LET ip == [kind |-> "dir", links |-> 2, blocks |-> 1]
             es == NewDirEntries(i, p)
         IN /\ NewContents(i, ip, es)
            /\ \E s \in Slots : es[s].name = ".." /\ es[s].ino = p
<1> DEFINE ip == [kind |-> "dir", links |-> 2, blocks |-> 1]
           es == NewDirEntries(i, p)
<1>1. ip.kind = "dir" /\ ip.links = 2
  OBVIOUS
<1>2. 1 \in Slots /\ 2 \in Slots
  <2>1. MaxDirBlocks * SlotsPerBlock \in Nat /\ MaxDirBlocks * SlotsPerBlock >= 2
    <3>1. 1 * SlotsPerBlock <= MaxDirBlocks * SlotsPerBlock
      BY SizeFacts, ProductMonotone
    <3> QED BY <3>1, SizeFacts
  <2> QED BY <2>1 DEF Slots
<1>3. \A s \in Slots : /\ s = 1 => es[s].name = "." /\ es[s].ino = i
                       /\ s = 2 => es[s].name = ".." /\ es[s].ino = p
                       /\ s # 1 /\ s # 2 => es[s].ino = 0
  <2> TAKE s \in Slots
  <2>1. CASE s = 1
    <3>1. es[s] = [name |-> ".", ino |-> i]
      BY <2>1 DEF NewDirEntries
    <3> QED BY <2>1, <3>1
  <2>2. CASE s = 2
    <3>1. es[s] = [name |-> "..", ino |-> p]
      BY <2>2 DEF NewDirEntries
    <3> QED BY <2>2, <3>1
  <2>3. CASE s # 1 /\ s # 2
    <3>1. es[s] = Unused
      BY <2>3 DEF NewDirEntries
    <3> QED BY <2>3, <3>1, UnusedIs
  <2> QED BY <2>1, <2>2, <2>3
<1> HIDE DEF ip, es
<1>4. NewContents(i, ip, es)
  <2>1. \A s \in Slots : es[s].ino # 0 => es[s].name \in {".", ".."} /\ ip.kind = "dir"
    BY <1>1, <1>3
  <2>2. \A s \in Slots : es[s].ino # 0 /\ es[s].name = "." => es[s].ino = i
    BY <1>3
  <2>3. \A s, t \in Slots : es[s].ino # 0 /\ es[t].ino # 0 /\ es[s].name = es[t].name => s = t
    BY <1>3
  <2> QED BY <1>1, <2>1, <2>2, <2>3 DEF NewContents
<1> QED BY <1>2, <1>3, <1>4 DEF ip, es

(* The directory of an attempt, before it has a name.                      *)
LEMMA MarkedDirTree ==
  ASSUME NEW v, Counted(v), Tree(v), NEW p \in Inos, Live(v, p), FreeInos(v) # {},
         v.freeBlocks # 0
  PROVE  LET w == MarkedDir(v, p)
             i == ext2fs_new_inode(v, p)
         IN /\ Counted(w) /\ Tree(w) /\ p \in w.imap /\ w.damaged = v.damaged
            /\ \A d \in Inos : Live(w, d) <=> Live(v, d)
            /\ \A c, j \in Inos, k \in Names : Has(w, c, k, j) <=> Has(v, c, k, j)
            /\ KeptNames(v, w) /\ GrownKinds(v, w)
            /\ w.inode[p].links = v.inode[p].links
            /\ i \in Inos /\ i # RootIno /\ IsDir(w, i) /\ Has(w, i, "..", p)
            /\ \A c \in Inos, k \in Names : ~Has(w, c, k, i)
<1> DEFINE w == MarkedDir(v, p)
           i == ext2fs_new_inode(v, p)
           ip == [kind |-> "dir", links |-> 2, blocks |-> 1]
           es == NewDirEntries(i, p)
<1>1. i \in FreeInos(v)
  BY NewInodeFree
<1>2. i \in Inos /\ i # RootIno /\ Unnamed(v, i) /\ ~IsDir(v, i) /\ v.inode[i].kind = "none"
  BY <1>1, FreeUnnamed DEF Tree
<1>3. p # i
  BY <1>2 DEF Live
<1>4. Counted(w) /\ w.imap = v.imap \cup {i} /\ w.damaged = v.damaged
  BY MarkedDirCounted
<1>5. \A j \in Inos : w.inode[j] = (IF j = i THEN ip ELSE v.inode[j])
                      /\ w.ent[j] = (IF j = i THEN es ELSE v.ent[j])
  BY MarkedDirCounted
<1>6. NewContents(i, ip, es) /\ \E s \in Slots : es[s].name = ".." /\ es[s].ino = p
  BY <1>2, NewDirContents
<1>7. ip.kind = "dir"
  OBVIOUS
<1>8. p \in v.imap
  BY DEF Counted, Live, IsDir
<1> HIDE DEF w, i, ip, es
<1>9. Replaced(v, w, i, ip, es)
  BY <1>4, <1>5 DEF Replaced
<1>10. /\ Tree(w)
       /\ \A d \in Inos : Live(w, d) <=> Live(v, d)
       /\ \A c, j \in Inos, k \in Names : Has(w, c, k, j) <=> Has(v, c, k, j)
  BY <1>1, <1>4, <1>6, <1>9, AllocTree
<1>11. IsDir(w, i) /\ Has(w, i, "..", p)
  BY <1>2, <1>5, <1>6, <1>7 DEF IsDir, Has
<1>12. w.inode[p].links = v.inode[p].links
  BY <1>3, <1>5
<1>13. \A c \in Inos, k \in Names : ~Has(w, c, k, i)
  BY <1>2, <1>10 DEF Unnamed
<1>14. KeptNames(v, w) /\ GrownKinds(v, w)
  BY <1>2, <1>5, <1>10 DEF KeptNames, GrownKinds
<1> QED BY <1>2, <1>4, <1>8, <1>10, <1>11, <1>12, <1>13, <1>14 DEF w, i

(* A directory without a name gets one in the directory its ".." names.    *)
LEMMA NewDirStep ==
  ASSUME NEW v, Counted(v), Tree(v), NEW w, Counted(w), Kept(w), NEW p \in Inos, Live(v, p),
         NEW n \in Names, \A j \in Inos : ~Has(v, p, n, j),
         NEW i \in Inos, \A c \in Inos, k \in Names : ~Has(v, c, k, i), Has(v, i, "..", p),
         Added(v, w, p, n, i), SameKinds(v, w), FewerUps(v, w)
  PROVE  Tree(w)
<1>1. \A j \in Inos : IsDir(w, j) <=> IsDir(v, j)
  BY DEF SameKinds, IsDir
<1>2. \A c, j \in Inos, k \in Names :
        Has(w, c, k, j) <=> Has(v, c, k, j) \/ (c = p /\ k = n /\ j = i)
  BY NameFacts DEF Added
<1>3. \A c, j \in Inos : Has(w, c, "..", j) <=> Has(v, c, "..", j)
  BY NameFacts DEF Added
<1>4. \A d \in Inos : Live(v, d) => Live(w, d)
  BY <1>1, <1>2 DEF Live
<1>5. Shaped(w)
  <2>1. \A d, x, y \in Inos, k \in Names : Has(w, d, k, x) /\ Has(w, d, k, y) => x = y
    BY <1>2 DEF Tree, Shaped
  <2>2. \A c, d, x \in Inos, k, m \in Names :
          Has(w, c, k, x) /\ Has(w, d, m, x) /\ IsDir(w, x) => c = d /\ k = m
    BY <1>1, <1>2 DEF Tree, Shaped
  <2>3. ASSUME NEW d \in Inos, NEW x \in Inos, NEW k \in Names, Has(w, d, k, x)
        PROVE  Live(w, d) /\ (IsDir(w, x) => Has(w, x, "..", d))
    <3>1. CASE Has(v, d, k, x)
      BY <1>1, <1>3, <1>4, <3>1 DEF Tree, Shaped
    <3>2. CASE d = p /\ x = i
      BY <1>3, <1>4, <3>2
    <3> QED BY <1>2, <2>3, <3>1, <3>2
  <2>4. \A d \in Inos : \A s, t \in UpSlots(w, d) : s = t
    BY DEF Tree, Shaped, FewerUps
  <2> QED BY <2>1, <2>2, <2>3, <2>4 DEF Shaped
<1>6. Rooted(w)
  <2> DEFINE T == {}
  <2>1. \A c, a \in Inos : Live(v, c) /\ c \notin T /\ Has(v, c, "..", a)
                             => a \notin T /\ Has(w, c, "..", a)
    BY <1>3
  <2>2. \A d \in Inos : Live(w, d) =>
          \/ Live(v, d) /\ d \notin T
          \/ \E a \in Inos : Live(v, a) /\ a \notin T /\ Has(w, d, "..", a)
    BY <1>1, <1>2, <1>3 DEF Live
  <2>3. T \in SUBSET Inos
    OBVIOUS
  <2> HIDE DEF T
  <2> QED BY <2>1, <2>2, <2>3, RootedStep DEF Tree, Kept
<1> QED BY <1>5, <1>6 DEF Tree

LEMMA NewMkdirTree ==
  ASSUME NEW v, Counted(v), Tree(v), NEW perm, NEW p \in Inos, Live(v, p), NEW n \in Names,
         \A j \in Inos : ~Has(v, p, n, j), v.inode[p].links + 1 < LinkMod
  PROVE  /\ Tree(new_ext2fs_mkdir(v, perm, p, n).vol)
         /\ Grown(v, new_ext2fs_mkdir(v, perm, p, n).vol, p, n)
<1>0. p \in v.imap
  BY DEF Counted, Live, IsDir
<1>1. CASE FreeInos(v) = {} \/ v.freeBlocks = 0 \/ ~perm
  BY <1>1, SelfGrown DEF new_ext2fs_mkdir
<1>2. CASE ~(FreeInos(v) = {} \/ v.freeBlocks = 0 \/ ~perm)
  <2> DEFINE i == ext2fs_new_inode(v, p)
             x == MarkedDir(v, p)
             u == AddLinks(x, p, 1)
             l == ext2fs_link(x, p, n, i)
             w == AddLinks(l, p, 1)
  <2>1. new_ext2fs_mkdir(v, perm, p, n).vol = IF FreeSlots(x, p) = {} THEN x ELSE w
    BY <1>2, NewMkdirIs
  <2>2. /\ Counted(x) /\ Tree(x) /\ p \in x.imap
        /\ \A d \in Inos : Live(x, d) <=> Live(v, d)
        /\ \A c, j \in Inos, k \in Names : Has(x, c, k, j) <=> Has(v, c, k, j)
        /\ KeptNames(v, x) /\ GrownKinds(v, x)
        /\ x.inode[p].links = v.inode[p].links
        /\ i \in Inos /\ i # RootIno /\ IsDir(x, i) /\ Has(x, i, "..", p)
        /\ \A c \in Inos, k \in Names : ~Has(x, c, k, i)
    BY <1>2, MarkedDirTree
  <2> HIDE DEF i, x
  <2>3. CASE FreeSlots(x, p) = {}
    BY <2>1, <2>2, <2>3 DEF Grown
  <2>4. CASE FreeSlots(x, p) # {}
    <3> DEFINE e == [name |-> n, ino |-> i]
               k == x.inode[p].links + 1
    <3>1. /\ Counted(u) /\ Tree(u) /\ Relinked(x, u, p, k) /\ SameHas(x, u)
          /\ SameKinds(x, u) /\ u.inode[p].links > Due(u, p)
      BY <2>2, RaiseTree
    <3>2. PICK s \in Slots : x.ent[p][s].ino = 0 /\ Wrote(x, l, p, s, e)
      BY <2>2, <2>4, LinkWrites
    <3>3. Counted(l)
      BY <2>2, <2>4, NameFacts, LinkCounted
    <3>4. l.inode[p].links = x.inode[p].links
      BY <3>2 DEF Wrote
    <3> HIDE DEF l, u, e
    <3>5. Relinked(l, w, p, k) /\ Counted(w)
      BY <2>2, <3>3, <3>4, RaisedBy, AddLinksCounted
    <3> HIDE DEF w, k
    <3>6. Wrote(u, w, p, s, e) /\ u.ent[p][s].ino = 0
      BY <3>1, <3>2, <3>5 DEF Wrote, Relinked
    <3>7. IsDir(u, p) /\ IsDir(u, i) /\ u.inode[i].kind # "none" /\ Live(u, p)
      <4>1. Live(x, p)
        BY <2>2
      <4>2. IsDir(u, p) /\ IsDir(u, i)
        BY <2>2, <3>1, <4>1 DEF SameKinds, IsDir, Live
      <4> QED BY <2>2, <3>1, <4>1, <4>2, NameFacts DEF Live, IsDir, SameHas
    <3>8. /\ \A j \in Inos : ~Has(u, p, n, j)
          /\ \A c \in Inos, m \in Names : ~Has(u, c, m, i)
          /\ Has(u, i, "..", p)
      BY <2>2, <3>1, NameFacts DEF SameHas
    <3>9. \A j \in Inos : u.inode[j].links \in Nat
      BY <3>1, LinksType
    <3>10. Kept(w) /\ Added(u, w, p, n, i) /\ SameKinds(u, w) /\ FewerUps(u, w)
      BY <2>2, <3>1, <3>6, <3>7, <3>8, <3>9, LinkKept DEF Tree, e
    <3>11. Tree(w)
      BY <2>2, <3>1, <3>5, <3>7, <3>8, <3>10, NewDirStep
    <3>12. Grown(u, w, p, n)
      BY <2>2, <3>8, <3>10, AddedGrown
    <3>13. Grown(x, w, p, n)
      BY <3>1, <3>12, SameHasGrown, GrownAfter
    <3>14. Grown(v, w, p, n)
      BY <2>2, <3>13, GrownAfter
    <3> QED BY <2>1, <2>4, <3>11, <3>14
  <2> QED BY <2>3, <2>4
<1> QED BY <1>1, <1>2

(* A second attempt follows the expansion of the parent.                   *)
LEMMA MkdirTree ==
  ASSUME NEW v, Counted(v), Tree(v), NEW perm, NEW p \in Inos, Live(v, p), NEW n \in Names,
         \A j \in Inos : ~Has(v, p, n, j), v.inode[p].links + 1 < LinkMod
  PROVE  Tree(do_mkdir(v, perm, p, n).vol) /\ Grown(v, do_mkdir(v, perm, p, n).vol, p, n)
<1> DEFINE first == new_ext2fs_mkdir(v, perm, p, n)
           x == first.vol
           w == ext2fs_expand_dir(x, p)
<1>1. Tree(x) /\ Grown(v, x, p, n)
  BY NewMkdirTree
<1>2. CASE first.rc # "DIR_NO_SPACE"
  BY <1>1, <1>2 DEF do_mkdir
<1>3. CASE first.rc = "DIR_NO_SPACE" /\ ~CanExpand(x, p)
  BY <1>1, <1>3 DEF do_mkdir
<1>4. CASE first.rc = "DIR_NO_SPACE" /\ CanExpand(x, p)
  <2>1. do_mkdir(v, perm, p, n) = new_ext2fs_mkdir(w, perm, p, n)
    BY <1>4 DEF do_mkdir
  <2>2. FreeInos(v) # {} /\ v.freeBlocks # 0 /\ perm
    BY <1>4 DEF new_ext2fs_mkdir
  <2>3. x = MarkedDir(v, p)
    <3> DEFINE y == MarkedDir(v, p)
               z == AddLinks(ext2fs_link(y, p, n, ext2fs_new_inode(v, p)), p, 1)
    <3>1. first = IF FreeSlots(y, p) = {} THEN [vol |-> y, rc |-> "DIR_NO_SPACE"]
                  ELSE [vol |-> z, rc |-> "0"]
      BY <2>2, NewMkdirIs
    <3> HIDE DEF first, y, z
    <3>2. FreeSlots(y, p) = {}
      BY <1>4, <3>1
    <3> QED BY <3>1, <3>2 DEF y
  <2> HIDE DEF x
  <2>4. /\ Counted(x) /\ Live(x, p) /\ x.inode[p].links = v.inode[p].links
        /\ \A j \in Inos : ~Has(x, p, n, j)
        /\ KeptNames(v, x) /\ GrownKinds(v, x)
    BY <2>2, <2>3, MarkedDirTree
  <2>5. Counted(w)
    BY <1>4, <2>4, ExpandCounted
  <2>6. x \in Volume
    BY <2>4 DEF Counted, Sound
  <2>7. /\ w.ent = x.ent /\ w.damaged = x.damaged
        /\ w.inode = [x.inode EXCEPT ![p].blocks = @ + 1]
    BY <2>6 DEF Volume, ext2fs_expand_dir
  <2> HIDE DEF w
  <2>8. \A j \in Inos : w.inode[j].kind = x.inode[j].kind /\ w.inode[j].links = x.inode[j].links
    BY <2>6, <2>7, VolumeFields DEF Inode
  <2>9. Tree(w)
    BY <1>1, <2>4, <2>5, <2>7, <2>8, SameTree
  <2>10. Live(w, p) /\ (\A j \in Inos : ~Has(w, p, n, j)) /\ w.inode[p].links + 1 < LinkMod
    BY <2>4, <2>7, <2>8 DEF Live, Has, IsDir
  <2>11. KeptNames(v, w) /\ GrownKinds(v, w)
    BY <2>4, <2>7, <2>8 DEF KeptNames, GrownKinds, Has
  <2> DEFINE y == new_ext2fs_mkdir(w, perm, p, n).vol
  <2>12. Tree(y) /\ Grown(w, y, p, n)
    BY <2>5, <2>9, <2>10, NewMkdirTree
  <2> HIDE DEF y
  <2>13. Grown(v, y, p, n)
    BY <2>11, <2>12, GrownAfter
  <2> QED BY <2>1, <2>12, <2>13 DEF y
<1> QED BY <1>2, <1>3, <1>4

----------------------------------------------------------------------------
(* rmdir.                                                                  *)

LEMMA EmptyHas ==
  ASSUME NEW v, Counted(v), NEW d \in Inos, DirEmpty(v, d)
  PROVE  \A j \in Inos, k \in Names : ~Has(v, d, k, j)
<1> SUFFICES ASSUME NEW j \in Inos, NEW k \in Names, NEW s \in Slots,
                    v.ent[d][s].name = k, v.ent[d][s].ino = j
             PROVE  FALSE
  BY DEF Has
<1>1. s \in DirSlots(v, d)
  BY ZeroIsNoInode DEF Counted, Sound, Beyond
<1>2. k \in {".", ".."}
  BY <1>1, ZeroIsNoInode DEF DirEmpty
<1> QED BY <1>2, NameFacts

LEMMA AddLinksDamaged ==
  ASSUME NEW v, Counted(v), NEW i, NEW n
  PROVE  AddLinks(v, i, n).damaged = v.damaged
BY DEF AddLinks, Counted, Sound, Volume

(* An empty directory goes, and its name n in p.                           *)
Rmdired(v, w, p, n, i) ==
  /\ \A c, j \in Inos, k \in DirNames :
       Has(w, c, k, j) <=> Has(v, c, k, j) /\ c # i /\ ~(c = p /\ k = n /\ j = i)
  /\ \A j \in Inos : j # i => w.inode[j].kind = v.inode[j].kind
  /\ ~IsDir(w, i)
  /\ FewerUps(v, w)
  /\ ~v.damaged

LEMMA RmdirOnInoKept ==
  ASSUME NEW v, Counted(v), Kept(v), NEW p \in Inos, NEW n \in Names, NEW i \in Inos,
         Has(v, p, n, i), IsDir(v, i), i # RootIno, \A j \in Inos, k \in Names : ~Has(v, i, k, j),
         \A c \in Inos, k \in Names : Has(v, c, k, i) => c = p /\ k = n,
         ~do_rmdir_on_ino(v, p, n, i).damaged
  PROVE  LET w == do_rmdir_on_ino(v, p, n, i)
         IN Counted(w) /\ Kept(w) /\ Rmdired(v, w, p, n, i)
<1> DEFINE u == ext2fs_unlink(v, p, n, i)
           x == kill_file_by_inode(u, i)
           y == AddLinks(x, p, -1)
           w == do_rmdir_on_ino(v, p, n, i)
<1>1. w = IF SlotsOf(v, i, "..", 0) # {} /\ x.inode[p].links > 1 THEN y ELSE x
  BY DEF do_rmdir_on_ino
<1>2. Counted(u)
  BY UnlinkCounted
<1>3. Counted(x) /\ x.damaged = u.damaged
  BY <1>2, KillCounted, KillDamaged
<1>4. y.damaged = x.damaged
  BY <1>3, AddLinksDamaged
<1>5. ~u.damaged
  BY <1>1, <1>3, <1>4
<1>6. /\ Kept(u) /\ Removed(v, u, p, n, i) /\ SameKinds(v, u) /\ FewerUps(v, u)
      /\ SameLinks(v, u) /\ ~v.damaged /\ Due(u, p) = Due(v, p) - 1
  <2>1. Selects(v, p, n, i, i)
    BY DEF Selects
  <2> QED BY <1>5, <2>1, UnlinkNameKept
<1>7. Counted(w)
  BY RmdirOnInoCounted
<1> HIDE DEF u, w
<1>8. p # i
  OBVIOUS
<1>9. Unnamed(u, i) /\ u.inode[i].kind # "none"
  <2>1. \A c \in Inos, k \in Names : ~Has(u, c, k, i)
    BY <1>6, NameFacts DEF Removed
  <2>2. ASSUME NEW s \in Slots, u.ent[i][s].ino # 0, u.ent[i][s].name \in Names PROVE FALSE
    <3>0. u.ent[i][s].ino \in Inos \cup {0}
      BY <1>2, EntryTypes
    <3>1. u.ent[i][s].ino \in Inos
      BY <2>2, <3>0
    <3>2. Has(u, i, u.ent[i][s].name, u.ent[i][s].ino)
      BY DEF Has
    <3>3. Has(v, i, u.ent[i][s].name, u.ent[i][s].ino)
      BY <1>6, <2>2, <3>1, <3>2, NameFacts DEF Removed
    <3> QED BY <2>2, <3>1, <3>3
  <2> QED BY <1>6, <2>1, <2>2 DEF Unnamed, SameKinds, IsDir
<1>10. Kept(x) /\ Gone(u, x, i)
  BY <1>2, <1>6, <1>9, KillKept
<1> HIDE DEF x
<1>11. \A c, j \in Inos, k \in DirNames :
         Has(x, c, k, j) <=> Has(v, c, k, j) /\ c # i /\ ~(c = p /\ k = n /\ j = i)
  BY <1>6, <1>10 DEF Removed, Gone
<1>12. Rmdired(v, x, p, n, i)
  <2>1. \A j \in Inos : j # i => x.inode[j].kind = v.inode[j].kind
    BY <1>6, <1>10 DEF SameKinds, Gone
  <2>2. ~IsDir(x, i) /\ FewerUps(v, x)
    BY <1>6, <1>10 DEF Gone, FewerUps
  <2> QED BY <1>6, <1>11, <2>1, <2>2 DEF Rmdired
<1>13. CASE ~(SlotsOf(v, i, "..", 0) # {} /\ x.inode[p].links > 1)
  BY <1>1, <1>7, <1>10, <1>12, <1>13 DEF w
<1>14. CASE SlotsOf(v, i, "..", 0) # {} /\ x.inode[p].links > 1
  <2> DEFINE k == x.inode[p].links - 1
  <2>1. x.inode[p].links = v.inode[p].links /\ Due(x, p) = Due(v, p) - 1
    BY <1>6, <1>8, <1>10 DEF Gone, SameLinks
  <2>2. v.inode[p].links \in Nat /\ v.inode[p].links >= Due(v, p) /\ Due(v, p) \in Nat
    BY LinksType, DueType DEF Kept, Covered
  <2>3. k \in Nat /\ k >= Due(x, p) /\ x.inode[p].links > 0
    BY <1>14, <2>1, <2>2
  <2>4. Relinked(x, y, p, k)
    BY <1>3, <2>3, LoweredBy
  <2> HIDE DEF k, y
  <2>5. Kept(y) /\ SameHas(x, y) /\ SameKinds(x, y) /\ FewerUps(x, y)
    BY <1>3, <1>10, <2>3, <2>4, RelinkKept
  <2>6. Rmdired(v, y, p, n, i)
    <3>1. \A j \in Inos : j # i => y.inode[j].kind = v.inode[j].kind
      BY <1>12, <2>5 DEF SameKinds, Rmdired
    <3>2. ~IsDir(y, i) /\ FewerUps(v, y)
      BY <1>12, <2>5 DEF SameKinds, Rmdired, IsDir, FewerUps
    <3>3. \A c, j \in Inos, m \in DirNames :
            Has(y, c, m, j) <=> Has(v, c, m, j) /\ c # i /\ ~(c = p /\ m = n /\ j = i)
      BY <1>11, <2>5 DEF SameHas
    <3> QED BY <1>6, <3>1, <3>2, <3>3 DEF Rmdired
  <2>7. w = y
    BY <1>1, <1>14
  <2> QED BY <1>7, <2>5, <2>6, <2>7 DEF w
<1> QED BY <1>13, <1>14

LEMMA RmdiredTree ==
  ASSUME NEW v, Counted(v), Tree(v), NEW w, Counted(w), Kept(w), NEW p \in Inos,
         NEW n \in Names, NEW i \in Inos, i # RootIno,
         \A j \in Inos, k \in Names : ~Has(v, i, k, j), Has(v, p, n, i), IsDir(v, i),
         Rmdired(v, w, p, n, i)
  PROVE  Tree(w) /\ Shrunk(v, w)
<1>1. \A j \in Inos : IsDir(w, j) <=> IsDir(v, j) /\ j # i
  BY DEF Rmdired, IsDir
<1>2. \A c, j \in Inos, k \in Names : Has(w, c, k, j) <=> Has(v, c, k, j) /\ j # i
  <2>1. \A c \in Inos, k \in Names : Has(v, c, k, i) => c = p /\ k = n
    BY DEF Tree, Shaped
  <2> QED BY <2>1, NameFacts DEF Rmdired
<1>3. \A c, j \in Inos : Has(w, c, "..", j) <=> Has(v, c, "..", j) /\ c # i
  BY NameFacts DEF Rmdired
<1>4. \A d \in Inos : Live(w, d) <=> Live(v, d) /\ d # i
  BY <1>1, <1>2 DEF Live
<1>5. Shaped(w)
  <2>1. \A d, x, y \in Inos, k \in Names : Has(w, d, k, x) /\ Has(w, d, k, y) => x = y
    BY <1>2 DEF Tree, Shaped
  <2>2. \A c, d, x \in Inos, k, m \in Names :
          Has(w, c, k, x) /\ Has(w, d, m, x) /\ IsDir(w, x) => c = d /\ k = m
    BY <1>1, <1>2 DEF Tree, Shaped
  <2>3. ASSUME NEW d \in Inos, NEW x \in Inos, NEW k \in Names, Has(w, d, k, x)
        PROVE  Live(w, d) /\ (IsDir(w, x) => Has(w, x, "..", d))
    <3>1. Has(v, d, k, x) /\ d # i /\ x # i
      BY <1>2, <2>3
    <3>2. Live(v, d) /\ (IsDir(v, x) => Has(v, x, "..", d))
      BY <3>1 DEF Tree, Shaped
    <3> QED BY <1>1, <1>3, <1>4, <3>1, <3>2
  <2>4. \A d \in Inos : \A s, t \in UpSlots(w, d) : s = t
    BY DEF Tree, Shaped, FewerUps, Rmdired
  <2> QED BY <2>1, <2>2, <2>3, <2>4 DEF Shaped
<1>6. Rooted(w)
  <2> DEFINE T == {i}
  <2>1. ASSUME NEW c \in Inos, NEW a \in Inos, Live(v, c), c # i, Has(v, c, "..", a)
        PROVE  a # i /\ Has(w, c, "..", a)
    <3>1. CASE c = RootIno
      BY <1>3, <2>1, <3>1, NameFacts DEF Tree, Kept, Proper
    <3>2. CASE c # RootIno
      <4>1. PICK b \in Inos, k \in Names : Has(v, b, k, c)
        BY <2>1, <3>2 DEF Live
      <4>2. Has(v, c, "..", b)
        BY <2>1, <4>1 DEF Tree, Shaped, Live
      <4>3. a = b
        BY <2>1, <4>2, ZeroIsNoInode DEF Has, Tree, Shaped, UpSlots
      <4> QED BY <1>3, <2>1, <4>1, <4>3
    <3> QED BY <3>1, <3>2
  <2>2. /\ \A c, a \in Inos : Live(v, c) /\ c \notin T /\ Has(v, c, "..", a)
                                => a \notin T /\ Has(w, c, "..", a)
        /\ \A d \in Inos : Live(w, d) => Live(v, d) /\ d \notin T
    BY <1>4, <2>1
  <2>3. T \in SUBSET Inos
    OBVIOUS
  <2> HIDE DEF T
  <2> QED BY <2>2, <2>3, RootedStep DEF Tree, Kept
<1>7. Shrunk(v, w)
  <2>1. NamedKinds(v, w)
    BY <1>2 DEF NamedKinds, Rmdired
  <2>2. \A c \in Inos, k \in Names : Has(v, c, k, i) => c = p /\ k = n
    BY DEF Tree, Shaped
  <2>3. NameRemoved(v, w, p, n, i)
    BY <1>2, <2>2 DEF NameRemoved
  <2> QED BY <2>1, <2>3 DEF Shrunk
<1> QED BY <1>5, <1>6, <1>7 DEF Tree

LEMMA RmdirTree ==
  ASSUME NEW v, Counted(v), Tree(v), NEW perm, NEW p \in Inos, NEW n \in Names,
         ~do_rmdir(v, perm, p, n).vol.damaged
  PROVE  Tree(do_rmdir(v, perm, p, n).vol) /\ Shrunk(v, do_rmdir(v, perm, p, n).vol)
<1> DEFINE i == ext2fs_lookup(v, p, n)
           rc == RmdirRc(v, perm, p, n, i)
           w == do_rmdir_on_ino(v, p, n, i)
<1>1. CASE i = 0 \/ rc # "0"
  BY <1>1, SelfGrown DEF do_rmdir
<1>2. CASE ~(i = 0 \/ rc # "0")
  <2>1. do_rmdir(v, perm, p, n).vol = w
    BY <1>2 DEF do_rmdir
  <2>2. i \in Inos /\ Has(v, p, n, i) /\ i # RootIno
    BY <1>2, LookupHas, LookupNotRoot
  <2>3. IsDir(v, i) /\ DirEmpty(v, i)
    BY <1>2 DEF RmdirRc
  <2> HIDE DEF i
  <2>4. \A j \in Inos, k \in Names : ~Has(v, i, k, j)
    BY <2>2, <2>3, EmptyHas
  <2>5. \A c \in Inos, k \in Names : Has(v, c, k, i) => c = p /\ k = n
    BY <2>2, <2>3 DEF Tree, Shaped
  <2>6. Counted(w) /\ Kept(w) /\ Rmdired(v, w, p, n, i)
    BY <2>1, <2>2, <2>3, <2>4, <2>5, RmdirOnInoKept DEF Tree
  <2> HIDE DEF w
  <2>7. Tree(w) /\ Shrunk(v, w)
    BY <2>2, <2>3, <2>4, <2>6, RmdiredTree
  <2> QED BY <2>1, <2>7
<1> QED BY <1>1, <1>2

----------------------------------------------------------------------------
(* rename.                                                                 *)

(* The name of a directory goes, and its parent is counted down.           *)
LEMMA UnlinkLower ==
  ASSUME NEW v, Counted(v), Kept(v), NEW d \in Inos, NEW n \in Names, NEW i \in Inos,
         IsDir(v, i), NEW x, Selects(v, d, n, x, i),
         ~AddLinks(ext2fs_unlink(v, d, n, x), d, -1).damaged
  PROVE  LET w == AddLinks(ext2fs_unlink(v, d, n, x), d, -1)
         IN /\ Counted(w) /\ Kept(w) /\ Removed(v, w, d, n, i) /\ SameKinds(v, w)
            /\ FewerUps(v, w) /\ ~v.damaged
<1> DEFINE u == ext2fs_unlink(v, d, n, x)
           w == AddLinks(u, d, -1)
           k == u.inode[d].links - 1
<1>1. Counted(u)
  BY UnlinkCounted
<1>2. ~u.damaged
  BY <1>1, AddLinksDamaged
<1>3. /\ Kept(u) /\ Removed(v, u, d, n, i) /\ SameKinds(v, u) /\ FewerUps(v, u)
      /\ SameLinks(v, u) /\ ~v.damaged /\ Due(u, d) = Due(v, d) - 1
  BY <1>2, UnlinkNameKept
<1> HIDE DEF u
<1>4. /\ u.inode[d].links \in Nat /\ u.inode[d].links >= Due(v, d)
      /\ Due(u, d) \in Nat /\ Due(v, d) \in Nat
  BY <1>1, <1>3, LinksType, DueType DEF Kept, Covered, SameLinks
<1>5. k \in Nat /\ k >= Due(u, d) /\ u.inode[d].links > 0
  BY <1>3, <1>4
<1>6. Relinked(u, w, d, k)
  BY <1>1, <1>5, LoweredBy
<1>7. Counted(w)
  BY <1>1, AddLinksCounted
<1> HIDE DEF k, w
<1>8. Kept(w) /\ SameHas(u, w) /\ SameKinds(u, w) /\ FewerUps(u, w)
  BY <1>1, <1>3, <1>5, <1>6, RelinkKept
<1>9. Removed(v, w, d, n, i)
  BY <1>3, <1>8 DEF Removed, SameHas
<1>10. SameKinds(v, w) /\ FewerUps(v, w)
  BY <1>3, <1>8 DEF SameKinds, FewerUps
<1> QED BY <1>3, <1>7, <1>8, <1>9, <1>10 DEF w, u

(* ".." of i has moved to q.                                               *)
UpMoved(v, w, i, q) ==
  /\ \A c, j \in Inos, k \in DirNames :
       Has(w, c, k, j) <=> IF c = i /\ k = ".." THEN j = q ELSE Has(v, c, k, j)
  /\ SameKinds(v, w)
  /\ \A c \in Inos : c # i => UpSlots(w, c) \subseteq UpSlots(v, c)
  /\ \A s, t \in UpSlots(w, i) : s = t

(* What the slots of i hold then: ".." in r and nothing in o, which were   *)
(* the slot of the old ".." and a free one.                                *)
UpSlotsMoved(v, w, i, p, q, s0, s1, r, o) ==
  /\ \A c \in Inos, x \in Slots : (c = i => x # s0 /\ x # s1) => w.ent[c][x] = v.ent[c][x]
  /\ \A x \in Slots : x # s0 /\ x # s1 => ~(v.ent[i][x].name = ".." /\ v.ent[i][x].ino # 0)
  /\ v.ent[i][s0].name = ".." /\ v.ent[i][s0].ino = p
  /\ v.ent[i][s1].ino = 0
  /\ {r, o} = {s0, s1}
  /\ w.ent[i][r].name = ".." /\ w.ent[i][r].ino = q
  /\ w.ent[i][o].ino = 0
  /\ \A j \in Inos : w.inode[j].kind = v.inode[j].kind /\ w.inode[j].links = v.inode[j].links

LEMMA UpMovedKept ==
  ASSUME NEW v, Counted(v), Kept(v), NEW w, NEW i \in Inos, i # RootIno, IsDir(v, i),
         NEW p \in Inos, NEW q \in Inos, NEW s0 \in Slots, NEW s1 \in Slots,
         NEW r \in Slots, NEW o \in Slots, UpSlotsMoved(v, w, i, p, q, s0, s1, r, o)
  PROVE  Kept(w) /\ UpMoved(v, w, i, q)
<1>1. \A c \in Inos, x \in Slots : (c = i => x # s0 /\ x # s1) => w.ent[c][x] = v.ent[c][x]
  BY DEF UpSlotsMoved
<1>2. \A x \in Slots : x # s0 /\ x # s1 => ~(v.ent[i][x].name = ".." /\ v.ent[i][x].ino # 0)
  BY DEF UpSlotsMoved
<1>3. /\ v.ent[i][s0].name = ".." /\ v.ent[i][s0].ino = p /\ v.ent[i][s1].ino = 0
      /\ w.ent[i][r].name = ".." /\ w.ent[i][r].ino = q /\ w.ent[i][o].ino = 0
      /\ \A x : (x = s0 \/ x = s1) <=> (x = r \/ x = o)
  BY DEF UpSlotsMoved
<1>4. /\ \A j \in Inos : w.inode[j].kind = v.inode[j].kind /\ w.inode[j].links = v.inode[j].links
      /\ \A j \in Inos : IsDir(w, j) <=> IsDir(v, j)
  BY DEF UpSlotsMoved, IsDir
<1>5. p # 0 /\ q # 0
  BY ZeroIsNoInode
<1>6. \A c, j \in Inos, k \in DirNames :
        Has(w, c, k, j) <=> IF c = i /\ k = ".." THEN j = q ELSE Has(v, c, k, j)
  <2> TAKE c, j \in Inos, k \in DirNames
  <2>0. j # 0
    BY ZeroIsNoInode
  <2>1. CASE c # i
    BY <1>1, <2>1 DEF Has
  <2>2. CASE c = i /\ k = ".."
    <3>1. j = q => Has(w, c, k, j)
      BY <1>3, <2>2 DEF Has
    <3>2. ASSUME NEW x \in Slots, w.ent[i][x].name = "..", w.ent[i][x].ino = j PROVE j = q
      <4>1. x = r \/ x = o
        BY <1>1, <1>2, <1>3, <2>0, <3>2
      <4> QED BY <1>3, <2>0, <3>2, <4>1
    <3> QED BY <2>2, <3>1, <3>2 DEF Has
  <2>3. CASE c = i /\ k # ".."
    <3>1. ASSUME NEW x \in Slots, w.ent[i][x].name = k, w.ent[i][x].ino = j
          PROVE  v.ent[i][x].name = k /\ v.ent[i][x].ino = j
      <4>1. x # r /\ x # o
        BY <1>3, <2>0, <2>3, <3>1
      <4> QED BY <1>1, <1>3, <3>1, <4>1
    <3>2. ASSUME NEW x \in Slots, v.ent[i][x].name = k, v.ent[i][x].ino = j
          PROVE  w.ent[i][x].name = k /\ w.ent[i][x].ino = j
      <4>1. x # s0 /\ x # s1
        BY <1>3, <2>0, <2>3, <3>2
      <4> QED BY <1>1, <3>2, <4>1
    <3> QED BY <2>3, <3>1, <3>2 DEF Has
  <2> QED BY <2>1, <2>2, <2>3
<1>7. \A c \in Inos, x \in Slots : w.ent[c][x].ino # 0 =>
        (c = i /\ x = r) \/ (w.ent[c][x] = v.ent[c][x] /\ (c = i => x # s0 /\ x # s1))
  BY <1>1, <1>3
<1>8. Proper(w)
  <2>1. \A c \in Inos, x \in Slots : w.ent[c][x].ino # 0 => w.ent[c][x].name \in DirNames
    BY <1>3, <1>7, NameFacts DEF Kept, Proper
  <2>2. ASSUME NEW c \in Inos, NEW j \in Inos, NEW k \in DirNames, Has(w, c, k, j)
        PROVE  /\ IsDir(w, c)
               /\ k = "." => j = c
               /\ k = ".." /\ c = RootIno => j = RootIno
               /\ k \in Names => w.inode[j].kind # "none"
    <3>1. CASE c = i /\ k = ".."
      <4>1. k # "." /\ k \notin Names
        BY <3>1, NameFacts
      <4> QED BY <1>4, <3>1, <4>1
    <3>2. CASE ~(c = i /\ k = "..")
      <4>1. Has(v, c, k, j)
        BY <1>6, <2>2, <3>2
      <4> QED BY <1>4, <4>1 DEF Kept, Proper
    <3> QED BY <3>1, <3>2
  <2> QED BY <2>1, <2>2 DEF Proper
<1>9. OneSlot(w)
  <2> SUFFICES ASSUME NEW c \in Inos, NEW x \in Slots, NEW y \in Slots,
                      w.ent[c][x].name = w.ent[c][y].name, w.ent[c][x].ino = w.ent[c][y].ino,
                      w.ent[c][x].ino # 0, w.ent[c][x].name # ".."
               PROVE  x = y
    BY DEF OneSlot
  <2>1. w.ent[c][x] = v.ent[c][x] /\ w.ent[c][y] = v.ent[c][y]
    BY <1>3, <1>7
  <2> QED BY <2>1 DEF Kept, OneSlot
<1>10. \A c \in Inos, x \in Slots :
         /\ w.ent[c][x].name \in Names /\ w.ent[c][x].ino # 0 => w.ent[c][x] = v.ent[c][x]
         /\ v.ent[c][x].name \in Names /\ v.ent[c][x].ino # 0 => w.ent[c][x] = v.ent[c][x]
  BY <1>1, <1>3, <1>7, NameFacts
<1>11. \A j \in Inos : Due(w, j) = Due(v, j)
  <2> TAKE j \in Inos
  <2>1. Refs(w, j) = Refs(v, j)
    <3>1. \A c \in Inos, x \in Slots : <<c, x>> \in Refs(w, j) <=> <<c, x>> \in Refs(v, j)
      BY <1>10, ZeroIsNoInode DEF Refs
    <3>2. Refs(w, j) \subseteq Inos \X Slots /\ Refs(v, j) \subseteq Inos \X Slots
      BY DEF Refs
    <3> QED BY <3>1, <3>2
  <2>2. Subdirs(w, j) = Subdirs(v, j)
    <3>1. \A x \in Slots : v.ent[j][x].ino # 0 => v.ent[j][x].ino \in Inos
      BY EntryTypes
    <3>2. \A x \in Slots : x \in Subdirs(w, j) <=> x \in Subdirs(v, j)
      BY <1>4, <1>10, <3>1 DEF Subdirs
    <3>3. Subdirs(w, j) \subseteq Slots /\ Subdirs(v, j) \subseteq Slots
      BY DEF Subdirs
    <3> QED BY <3>2, <3>3
  <2> QED BY <1>4, <2>1, <2>2 DEF Due
<1>12. Covered(w)
  BY <1>4, <1>11 DEF Kept, Covered
<1>13. /\ \A c \in Inos : c # i => UpSlots(w, c) \subseteq UpSlots(v, c)
       /\ \A s, t \in UpSlots(w, i) : s = t
  <2>1. \A c \in Inos : c # i => UpSlots(w, c) \subseteq UpSlots(v, c)
    BY <1>1 DEF UpSlots
  <2>2. \A s \in UpSlots(w, i) : s = r
    BY <1>2, <1>7 DEF UpSlots
  <2> QED BY <2>1, <2>2
<1> QED BY <1>4, <1>6, <1>8, <1>9, <1>12, <1>13 DEF Kept, UpMoved, SameKinds

(* do_link of ".." to q and ext2fs_unlink of ".." to p.                    *)
LEMMA MoveUp ==
  ASSUME NEW v, Counted(v), Kept(v), NEW i \in Inos, i # RootIno, IsDir(v, i), LinkOk(v, i),
         NEW p \in Inos, NEW q \in Inos, Has(v, i, "..", p), \A s, t \in UpSlots(v, i) : s = t,
         ~ext2fs_unlink(do_link(v, i, "..", q), i, "..", p).damaged
  PROVE  LET u == do_link(v, i, "..", q)
             w == ext2fs_unlink(u, i, "..", p)
         IN SlotsOf(u, i, "..", p) # {} /\ Counted(w) /\ Kept(w) /\ UpMoved(v, w, i, q)
<1> DEFINE e == [name |-> "..", ino |-> q]
           u == do_link(v, i, "..", q)
           w == ext2fs_unlink(u, i, "..", p)
<1>0. i \in v.imap /\ ".." \in DirNames /\ ".." \notin Names /\ p # 0 /\ q # 0
  BY NameFacts, ZeroIsNoInode DEF Counted, IsDir
<1>1. PICK s1 \in Slots : v.ent[i][s1].ino = 0 /\ Wrote(v, u, i, s1, e)
  BY DoLinkWrites
<1>2. Counted(u)
  BY <1>0, DoLinkCounted
<1>3. e.name = ".." /\ e.ino = q /\ ~w.damaged
  OBVIOUS
<1> HIDE DEF u, e
<1>4. PICK s0 \in Slots : v.ent[i][s0].name = ".." /\ v.ent[i][s0].ino = p
  BY DEF Has
<1>5. s0 # s1 /\ u.ent[i][s0] = v.ent[i][s0]
  BY <1>0, <1>1, <1>4 DEF Wrote
<1>6. SlotsOf(u, i, "..", p) # {}
  <2>1. Has(u, i, "..", p)
    BY <1>4, <1>5 DEF Has
  <2> QED BY <1>2, <2>1, SlotsHas
<1>7. PICK s \in Slots : s \in SlotsOf(u, i, "..", p) /\ Wrote(u, w, i, s, Unused)
  BY <1>2, <1>3, <1>6, UnlinkWrites
<1>8. Counted(w)
  BY <1>2, UnlinkCounted
<1> HIDE DEF w
<1>9. u.ent[i][s].name = ".." /\ u.ent[i][s].ino = p
  BY <1>0, <1>7 DEF SlotsOf
<1>10. \A x \in Slots : x # s0 /\ x # s1 => ~(v.ent[i][x].name = ".." /\ v.ent[i][x].ino # 0)
  BY <1>0, <1>4 DEF UpSlots
<1>11. u.ent[i][s1] = e /\ \A c \in Inos, x \in Slots : ~(c = i /\ x = s1) => u.ent[c][x] = v.ent[c][x]
  BY <1>1 DEF Wrote
<1>12. /\ w.ent[i][s] = Unused
       /\ \A c \in Inos, x \in Slots : ~(c = i /\ x = s) => w.ent[c][x] = u.ent[c][x]
  BY <1>7 DEF Wrote
<1>13. s = s0 \/ (s = s1 /\ p = q)
  BY <1>0, <1>3, <1>9, <1>10, <1>11
<1>14. \A c \in Inos, x \in Slots : (c = i => x # s0 /\ x # s1) => w.ent[c][x] = v.ent[c][x]
  BY <1>11, <1>12, <1>13
<1>15. \A j \in Inos : w.inode[j].kind = v.inode[j].kind /\ w.inode[j].links = v.inode[j].links
  BY <1>1, <1>7 DEF Wrote
<1>16. CASE s = s0
  <2>1. w.ent[i][s1] = e /\ w.ent[i][s0].ino = 0
    BY <1>5, <1>11, <1>12, <1>16, UnusedIs
  <2>2. UpSlotsMoved(v, w, i, p, q, s0, s1, s1, s0)
    BY <1>1, <1>3, <1>4, <1>10, <1>14, <1>15, <2>1 DEF UpSlotsMoved
  <2>3. Kept(w) /\ UpMoved(v, w, i, q)
    BY <2>2, UpMovedKept
  <2> QED BY <1>6, <1>8, <2>3 DEF w, u
<1>17. CASE s = s1 /\ p = q
  <2>1. w.ent[i][s0] = v.ent[i][s0] /\ w.ent[i][s1].ino = 0
    BY <1>5, <1>12, <1>17, UnusedIs
  <2>2. UpSlotsMoved(v, w, i, p, q, s0, s1, s0, s1)
    BY <1>1, <1>4, <1>10, <1>14, <1>15, <1>17, <2>1 DEF UpSlotsMoved
  <2>3. Kept(w) /\ UpMoved(v, w, i, q)
    BY <2>2, UpMovedKept
  <2> QED BY <1>6, <1>8, <2>3 DEF w, u
<1> QED BY <1>13, <1>16, <1>17

(* A wrongly patched entry stays known to the rest of a rename.            *)
LEMMA DoLinkDamaged ==
  ASSUME NEW v, Counted(v), NEW d \in Inos, NEW n, NEW i
  PROVE  do_link(v, d, n, i).damaged = v.damaged
<1>1. CASE LinkOk(v, d)
  <2> DEFINE w == do_link(v, d, n, i)
  <2>1. PICK s \in Slots : Wrote(v, w, d, s, [name |-> n, ino |-> i])
    BY <1>1, DoLinkWrites
  <2> HIDE DEF w
  <2>2. w.damaged = v.damaged
    BY <2>1 DEF Wrote
  <2> QED BY <2>2 DEF w
<1>2. CASE ~LinkOk(v, d)
  BY <1>2 DEF do_link, LinkOk
<1> QED BY <1>1, <1>2

LEMMA CleanupDamaged ==
  ASSUME NEW v, Counted(v), v.damaged, NEW q \in Inos, NEW m, NEW i
  PROVE  rename_cleanup(v, q, m, i).damaged
<1>1. Counted(ext2fs_unlink(v, q, m, i)) /\ ext2fs_unlink(v, q, m, i).damaged
  BY UnlinkCounted, UnlinkDamaged
<1>2. \A j : AddLinks(ext2fs_unlink(v, q, m, i), j, -1).damaged
  BY <1>1, AddLinksDamaged
<1> QED BY <1>2 DEF rename_cleanup

LEMMA UnlinkOnInoDamaged ==
  ASSUME NEW v, Counted(v), v.damaged, NEW p \in Inos, NEW n, NEW i \in Inos
  PROVE  do_unlink_on_ino(v, p, n, i, -1).damaged
<1> DEFINE links == IF v.inode[i].links > 0 THEN v.inode[i].links + -1 ELSE 0
           u == ext2fs_unlink(v, p, n, i)
<1>1. do_unlink_on_ino(v, p, n, i, -1) =
        IF links < 1 THEN kill_file_by_inode(u, i) ELSE [u EXCEPT !.inode[i].links = links]
  BY DEF do_unlink_on_ino
<1>2. Counted(u) /\ u.damaged
  BY UnlinkCounted, UnlinkDamaged
<1> HIDE DEF links, u
<1>3. kill_file_by_inode(u, i).damaged
  BY <1>2, KillDamaged
<1>4. [u EXCEPT !.inode[i].links = links].damaged
  BY <1>2 DEF Counted, Sound, Volume
<1> QED BY <1>1, <1>3, <1>4

LEMMA UnlinkOldDamaged ==
  ASSUME NEW v, Counted(v), v.damaged, NEW p \in Inos, NEW n \in Names, NEW q \in Inos, NEW m,
         NEW i \in Inos
  PROVE  rename_unlink_old(v, p, n, q, m, i).vol.damaged
<1>1. rename_cleanup(v, q, m, i).damaged
  BY CleanupDamaged
<1>2. CASE ~IsDir(v, i)
  <2>1. ext2fs_lookup(v, p, n) # 0 => do_unlink(v, p, n, -1).damaged
    BY LookupHas, UnlinkOnInoDamaged DEF do_unlink
  <2> QED BY <1>1, <1>2, <2>1 DEF rename_unlink_old
<1>3. CASE IsDir(v, i) /\ ~LinkOk(v, i)
  BY <1>1, <1>3 DEF rename_unlink_old
<1>4. CASE IsDir(v, i) /\ LinkOk(v, i)
  <2> DEFINE u == do_link(v, i, "..", q)
             x == ext2fs_unlink(u, i, "..", p)
             y == ext2fs_unlink(x, p, n, 0)
             z == AddLinks(y, p, -1)
  <2>0. i \in v.imap
    BY <1>4 DEF Counted, IsDir
  <2>1. Counted(u) /\ u.damaged
    BY <2>0, NameFacts, DoLinkCounted, DoLinkDamaged
  <2>2. Counted(x) /\ x.damaged
    BY <2>1, UnlinkCounted, UnlinkDamaged
  <2>3. Counted(y) /\ y.damaged
    BY <2>2, UnlinkCounted, UnlinkDamaged
  <2>4. z.damaged
    BY <2>3, AddLinksDamaged
  <2>5. rename_cleanup(x, q, m, i).damaged
    BY <2>2, CleanupDamaged
  <2>6. rename_unlink_old(v, p, n, q, m, i) =
          IF SlotsOf(u, i, "..", p) = {} \/ SlotsOf(x, p, n, 0) = {}
          THEN [vol |-> rename_cleanup(x, q, m, i), rc |-> "EIO"]
          ELSE [vol |-> z, rc |-> "0"]
    BY <1>4 DEF rename_unlink_old
  <2> QED BY <2>4, <2>5, <2>6
<1> QED BY <1>2, <1>3, <1>4

(* The name m of q, which led to t (0: to nothing), leads to i, and the    *)
(* name n of p is gone.                                                    *)
NamesMoved(v, w, p, n, q, m, i, t) ==
  \A c, j \in Inos, k \in Names :
    Has(w, c, k, j) <=> /\ Has(v, c, k, j) \/ (c = q /\ k = m /\ j = i)
                        /\ ~(c = q /\ k = m /\ j = t)
                        /\ ~(c = p /\ k = n /\ j = i)

(* What a rename may be asked.                                             *)
Asked(v, p, n, q, m, i, t) ==
  /\ p \in Inos /\ q \in Inos /\ n \in Names /\ m \in Names /\ i \in Inos
  /\ t \in Inos \cup {0} /\ i # t /\ i # RootIno /\ t # RootIno
  /\ Has(v, p, n, i)
  /\ \A j \in Inos : Has(v, q, m, j) <=> j = t
  /\ Live(v, p) /\ Live(v, q)
  /\ t # 0 => (IsDir(v, t) <=> IsDir(v, i))

(* A rename is seen in one piece, or only in the name it clobbered, or not *)
(* at all.                                                                 *)
NameMoved(v, w, p, n, q, m, i, t) ==
  /\ Asked(v, p, n, q, m, i, t) /\ NamesMoved(v, w, p, n, q, m, i, t)
  /\ IsDir(v, i) => ~IsAncestor(v, i, q)
  /\ t # 0 /\ IsDir(v, t) => \A j \in Inos, k \in Names : ~Has(v, t, k, j)

Renamed(v, w) ==
  \/ Shrunk(v, w)
  \/ /\ NamedKinds(v, w)
     /\ \E p, q, i \in Inos, n, m \in Names, t \in Inos \cup {0} :
          NameMoved(v, w, p, n, q, m, i, t)

(* A directory that has no entry free and may not grow.                    *)
Full(v, d) == FreeSlots(v, d) = {} /\ v.nblk[d] = MaxDirBlocks

(* What the answer says of the names: success, that the name has moved; an *)
(* error, that they are as they were, unless the directory to be moved was *)
(* full, and then the one it was to replace is gone.                       *)
Answered(v, r, p, n, q, m, i, t) ==
  IF r.rc = "0" THEN NamesMoved(v, r.vol, p, n, q, m, i, t)
  ELSE \/ KeptNames(v, r.vol)
       \/ t # 0 /\ IsDir(v, i) /\ Full(v, i) /\ NameRemoved(v, r.vol, q, m, t)

LEMMA RenameAsked ==
  ASSUME NEW v, Counted(v), Tree(v), NEW p \in Inos, NEW q \in Inos, NEW n \in Names,
         NEW m \in Names, RenameAllowed(v, p, n, q, m)
  PROVE  Asked(v, p, n, q, m, ext2fs_lookup(v, p, n), ext2fs_lookup(v, q, m))
<1> DEFINE i == ext2fs_lookup(v, p, n)
           t == ext2fs_lookup(v, q, m)
<1>1. i # 0 /\ i # t /\ LiveDir(v, p) /\ LiveDir(v, q) /\ (t # 0 => (IsDir(v, t) <=> IsDir(v, i)))
  BY DEF RenameAllowed, UsedName
<1>2. Live(v, p) /\ Live(v, q)
  BY <1>1, LiveIs
<1>3. i \in Inos /\ i # RootIno /\ Has(v, p, n, i)
  BY <1>1, LookupHas, LookupNotRoot
<1>4. t # 0 => t \in Inos /\ t # RootIno /\ Has(v, q, m, t)
  BY LookupHas, LookupNotRoot
<1>5. t = 0 => \A j \in Inos : ~Has(v, q, m, j)
  BY LookupHas
<1> HIDE DEF i, t
<1>6. \A j \in Inos : Has(v, q, m, j) <=> j = t
  BY <1>4, <1>5, ZeroIsNoInode DEF Tree, Shaped
<1>7. t # RootIno
  BY <1>4 DEF RootIno
<1> QED BY <1>1, <1>2, <1>3, <1>4, <1>6, <1>7 DEF Asked, i, t

(* The rename of a file.                                                   *)
LEMMA FileMovedTree ==
  ASSUME NEW v, Counted(v), Tree(v), NEW w, Counted(w), Kept(w), NEW p, NEW n, NEW q, NEW m,
         NEW i, NEW t, Asked(v, p, n, q, m, i, t), ~IsDir(v, i),
         NamesMoved(v, w, p, n, q, m, i, t), SameDirs(v, w), FewerUps(v, w),
         \A c, j \in Inos : Has(w, c, "..", j) <=> Has(v, c, "..", j)
  PROVE  Tree(w)
<1>1. /\ p \in Inos /\ q \in Inos /\ n \in Names /\ m \in Names /\ i \in Inos
      /\ \A j \in Inos : Has(v, q, m, j) <=> j = t
      /\ Live(v, q)
  BY DEF Asked
<1>2. \A c, j \in Inos, k \in Names : Has(w, c, k, j) =>
        (Has(v, c, k, j) /\ ~(c = q /\ k = m)) \/ (c = q /\ k = m /\ j = i)
  BY <1>1 DEF NamesMoved
<1>3. \A c, j \in Inos, k \in Names : IsDir(v, j) => (Has(w, c, k, j) <=> Has(v, c, k, j))
  <2> SUFFICES ASSUME NEW c \in Inos, NEW j \in Inos, NEW k \in Names, IsDir(v, j)
               PROVE  Has(w, c, k, j) <=> Has(v, c, k, j)
    OBVIOUS
  <2>1. j # i
    OBVIOUS
  <2>2. j # t
    BY ZeroIsNoInode DEF Asked
  <2> QED BY <2>1, <2>2 DEF NamesMoved
<1>4. \A c, j \in Inos, k \in Names : Has(w, c, k, j) => Live(v, c)
  BY <1>1, <1>2 DEF Tree, Shaped
<1>5. \A c, x, y \in Inos, k \in Names : Has(w, c, k, x) /\ Has(w, c, k, y) => x = y
  BY <1>1, <1>2 DEF Tree, Shaped
<1>6. FileStep(v, w)
  BY <1>3, <1>4, <1>5 DEF FileStep
<1> QED BY <1>6, FileStepTree

(* The volume once the new name is linked, as the rest of do_rename has it.*)
Linked(v, l, q, m, i) ==
  Counted(l) /\ Kept(l) /\ Added(v, l, q, m, i) /\ SameKinds(v, l) /\ FewerUps(v, l)

(* Counting and linking the new name.  x is what is counted: the new       *)
(* parent of a directory, or the file.                                     *)
LEMMA RenameLinks ==
  ASSUME NEW v, Counted(v), Tree(v), NEW p, NEW n, NEW q, NEW m, NEW i, NEW t,
         Asked(v, p, n, q, m, i, t), NEW x, x = IF IsDir(v, i) THEN q ELSE i,
         v.inode[x].links + 1 < LinkMod
  PROVE  LET u == AddLinks(v, x, 1)
         IN /\ Counted(u) /\ Tree(u) /\ Renamed(v, u) /\ KeptNames(v, u)
            /\ ~LinkOk(u, q) => rename_cleanup(u, q, m, i) = u
            /\ LinkOk(u, q) => Linked(v, do_link(u, q, m, i), q, m, i)
<1> DEFINE u == AddLinks(v, x, 1)
           l == do_link(u, q, m, i)
<1>0. /\ q \in Inos /\ m \in Names /\ i \in Inos /\ i # t /\ i # RootIno /\ Live(v, q)
      /\ Has(v, p, n, i) /\ p \in Inos /\ n \in Names
      /\ \A j \in Inos : Has(v, q, m, j) <=> j = t
  BY DEF Asked
<1>1. x \in Inos
  BY <1>0
<1>2. /\ Counted(u) /\ Tree(u) /\ SameHas(v, u) /\ SameKinds(v, u)
      /\ u.inode[x].links > Due(u, x)
  BY <1>1, RaiseTree
<1>3. q \in v.imap /\ u.imap = v.imap
  <2>1. u.imap = v.imap
    BY <1>1, AddLinksCounted
  <2>2. q \in v.imap
    BY <1>0 DEF Counted, Live, IsDir
  <2> QED BY <2>1, <2>2
<1>4. FewerUps(v, u)
  <2>1. Relinked(v, u, x, v.inode[x].links + 1)
    BY <1>1, RaiseTree
  <2> HIDE DEF u
  <2> QED BY <2>1 DEF FewerUps, UpSlots, Relinked
<1> HIDE DEF u
<1>5. ~Has(u, q, m, i)
  BY <1>0, <1>2, NameFacts DEF SameHas
<1>6. ~LinkOk(u, q) => rename_cleanup(u, q, m, i) = u
  BY <1>0, <1>2, <1>5, SlotsHas DEF rename_cleanup
<1>7. ASSUME LinkOk(u, q) PROVE Linked(v, l, q, m, i)
  <2>1. IsDir(u, q) /\ (IsDir(u, i) <=> IsDir(v, i))
    BY <1>0, <1>2 DEF SameKinds, IsDir, Live
  <2>2. u.inode[i].kind # "none"
    <3>1. v.inode[i].kind # "none"
      BY <1>0, NameFacts DEF Tree, Kept, Proper
    <3> QED BY <1>0, <1>2, <3>1 DEF SameKinds
  <2>3. Kept(l) /\ Added(u, l, q, m, i) /\ SameKinds(u, l) /\ FewerUps(u, l)
    <3>1. IF IsDir(u, i) THEN u.inode[q].links > Due(u, q) ELSE u.inode[i].links > Due(u, i)
      BY <1>2, <2>1
    <3> QED BY <1>0, <1>2, <1>5, <1>7, <2>1, <2>2, <3>1, DoLinkKept DEF Tree
  <2>4. Counted(l)
    BY <1>0, <1>2, <1>3, NameFacts, DoLinkCounted
  <2> HIDE DEF l
  <2>5. Added(v, l, q, m, i)
    BY <1>2, <2>3 DEF Added, SameHas
  <2>6. SameKinds(v, l) /\ FewerUps(v, l)
    BY <1>2, <1>4, <2>3 DEF SameKinds, FewerUps
  <2> QED BY <2>3, <2>4, <2>5, <2>6 DEF Linked
<1>8. Renamed(v, u) /\ KeptNames(v, u)
  BY <1>2, SameHasGrown, NameFacts DEF Renamed, SameHas, KeptNames
<1> QED BY <1>2, <1>6, <1>7, <1>8 DEF u

LEMMA RenameIs ==
  ASSUME NEW v, NEW perm, NEW p, NEW n, NEW q, NEW m, ext2fs_lookup(v, p, n) # 0
  PROVE  LET i == ext2fs_lookup(v, p, n)
             t == ext2fs_lookup(v, q, m)
             u == AddLinks(v, IF IsDir(v, i) THEN q ELSE i, 1)
             l == do_link(u, q, m, i)
             r == rename_clobber(l, perm, q, m, i, t)
         IN do_rename(v, perm, p, n, q, m) =
              IF ~LinkOk(u, q) THEN [vol |-> rename_cleanup(u, q, m, i), rc |-> "EIO"]
              ELSE IF t = 0 THEN rename_unlink_old(l, p, n, q, m, i)
              ELSE IF r.rc # "0" THEN r ELSE rename_unlink_old(r.vol, p, n, q, m, i)
<1> DEFINE i == ext2fs_lookup(v, p, n)
           t == ext2fs_lookup(v, q, m)
           u == AddLinks(v, IF IsDir(v, i) THEN q ELSE i, 1)
           l == do_link(u, q, m, i)
           r == rename_clobber(l, perm, q, m, i, t)
           e == [vol |-> rename_cleanup(u, q, m, i), rc |-> "EIO"]
           b == IF t = 0 THEN [vol |-> l, rc |-> "0"] ELSE r
<1>1. do_rename(v, perm, p, n, q, m) =
        IF ~LinkOk(u, q) THEN e
        ELSE IF b.rc # "0" THEN b ELSE rename_unlink_old(b.vol, p, n, q, m, i)
  BY DEF do_rename
<1> HIDE DEF i, u, l, r, e
<1>2. CASE t = 0
  <2>1. b.rc = "0" /\ b.vol = l
    BY <1>2
  <2> HIDE DEF b
  <2>2. do_rename(v, perm, p, n, q, m) =
          IF ~LinkOk(u, q) THEN e ELSE rename_unlink_old(l, p, n, q, m, i)
    BY <1>1, <2>1
  <2> QED BY <1>2, <2>2 DEF i, u, l, r, e
<1>3. CASE t # 0
  <2>1. b = r
    BY <1>3
  <2> HIDE DEF b
  <2>2. do_rename(v, perm, p, n, q, m) =
          IF ~LinkOk(u, q) THEN e
          ELSE IF r.rc # "0" THEN r ELSE rename_unlink_old(r.vol, p, n, q, m, i)
    BY <1>1, <2>1
  <2> QED BY <1>3, <2>2 DEF i, u, l, r, e
<1> QED BY <1>2, <1>3

(* The old name of a file goes.                                            *)
LEMMA FileUnlinkOld ==
  ASSUME NEW v, Counted(v), Tree(v), NEW p, NEW n, NEW q, NEW m, NEW i, NEW t,
         Asked(v, p, n, q, m, i, t), ~IsDir(v, i), NEW c, Counted(c), Kept(c),
         \A d, j \in Inos, k \in DirNames :
           Has(c, d, k, j) <=> /\ Has(v, d, k, j) \/ (d = q /\ k = m /\ j = i)
                               /\ ~(d = q /\ k = m /\ j = t),
         SameDirs(v, c), FewerUps(v, c), NamedKinds(v, c),
         ~rename_unlink_old(c, p, n, q, m, i).vol.damaged
  PROVE  LET r == rename_unlink_old(c, p, n, q, m, i)
         IN Tree(r.vol) /\ Renamed(v, r.vol) /\ Answered(v, r, p, n, q, m, i, t)
<1> DEFINE w == do_unlink_on_ino(c, p, n, i, -1)
<1>0. /\ p \in Inos /\ q \in Inos /\ n \in Names /\ m \in Names /\ i \in Inos /\ i # t
      /\ Has(v, p, n, i) /\ i # RootIno
      /\ \A j \in Inos : Has(v, q, m, j) <=> j = t
  BY DEF Asked
<1>1. ~IsDir(c, i)
  BY <1>0 DEF SameDirs
<1>2. Has(c, p, n, i) /\ \A j \in Inos : Has(c, p, n, j) => j = i
  <2>1. Has(c, p, n, i)
    BY <1>0, NameFacts
  <2>2. \A j \in Inos : Has(v, p, n, j) => j = i
    BY <1>0 DEF Tree, Shaped
  <2> QED BY <1>0, <2>1, <2>2, NameFacts
<1>3. ext2fs_lookup(c, p, n) = i
  BY <1>0, <1>2, LookupHas
<1>4. rename_unlink_old(c, p, n, q, m, i).vol = w /\ rename_unlink_old(c, p, n, q, m, i).rc = "0"
  <2>1. i # 0
    BY <1>0, ZeroIsNoInode
  <2>2. /\ rename_unlink_old(c, p, n, q, m, i).vol = do_unlink(c, p, n, -1)
        /\ rename_unlink_old(c, p, n, q, m, i).rc = "0"
    BY <1>1, <1>3, <2>1 DEF rename_unlink_old
  <2> QED BY <1>3, <2>1, <2>2 DEF do_unlink
<1>5. /\ Kept(w) /\ Removed(c, w, p, n, i) /\ SameDirs(c, w) /\ FewerUps(c, w)
      /\ NamedKinds(c, w)
  BY <1>0, <1>1, <1>2, <1>4, UnlinkOnInoKept
<1>6. Counted(w)
  BY <1>0, UnlinkOnInoCounted
<1> HIDE DEF w
<1>7. NamesMoved(v, w, p, n, q, m, i, t)
  BY <1>5, NameFacts DEF NamesMoved, Removed
<1>8. \A d, j \in Inos : Has(w, d, "..", j) <=> Has(v, d, "..", j)
  BY <1>0, <1>5, NameFacts DEF Removed
<1>9. SameDirs(v, w) /\ FewerUps(v, w)
  BY <1>5 DEF SameDirs, FewerUps
<1>10. Tree(w)
  BY <1>5, <1>6, <1>7, <1>8, <1>9, FileMovedTree
<1>11. NamedKinds(v, w)
  BY <1>5, NameFacts DEF NamedKinds, Removed
<1>12. t \in Inos \cup {0} /\ (t # 0 => ~IsDir(v, t))
  BY DEF Asked
<1>13. NameMoved(v, w, p, n, q, m, i, t)
  BY <1>7, <1>12 DEF NameMoved
<1>14. Renamed(v, w)
  BY <1>0, <1>11, <1>12, <1>13 DEF Renamed
<1> QED BY <1>4, <1>7, <1>10, <1>14 DEF Answered

LEMMA RenameFileTree ==
  ASSUME NEW v, Counted(v), Tree(v), NEW perm, NEW p \in Inos, NEW n \in Names,
         NEW q \in Inos, NEW m \in Names, RenameAllowed(v, p, n, q, m),
         ~IsDir(v, ext2fs_lookup(v, p, n)),
         v.inode[ext2fs_lookup(v, p, n)].links + 1 < LinkMod,
         ~do_rename(v, perm, p, n, q, m).vol.damaged
  PROVE  LET r == do_rename(v, perm, p, n, q, m)
         IN /\ Tree(r.vol) /\ Renamed(v, r.vol)
            /\ Answered(v, r, p, n, q, m, ext2fs_lookup(v, p, n), ext2fs_lookup(v, q, m))
<1> DEFINE i == ext2fs_lookup(v, p, n)
           t == ext2fs_lookup(v, q, m)
           x == IF IsDir(v, i) THEN q ELSE i
           u == AddLinks(v, x, 1)
           l == do_link(u, q, m, i)
           r == rename_clobber(l, perm, q, m, i, t)
           w == do_rename(v, perm, p, n, q, m)
<1>1. Asked(v, p, n, q, m, i, t) /\ ~IsDir(v, i) /\ i # 0
  BY RenameAsked DEF RenameAllowed, UsedName
<1>2. w = IF ~LinkOk(u, q) THEN [vol |-> rename_cleanup(u, q, m, i), rc |-> "EIO"]
          ELSE IF t = 0 THEN rename_unlink_old(l, p, n, q, m, i)
          ELSE IF r.rc # "0" THEN r ELSE rename_unlink_old(r.vol, p, n, q, m, i)
  BY <1>1, RenameIs
<1>3. v.inode[x].links + 1 < LinkMod
  BY <1>1
<1> HIDE DEF i, t, w
<1>4. /\ Counted(u) /\ Tree(u) /\ Renamed(v, u) /\ KeptNames(v, u)
      /\ ~LinkOk(u, q) => rename_cleanup(u, q, m, i) = u
      /\ LinkOk(u, q) => Linked(v, l, q, m, i)
  BY <1>1, <1>3, RenameLinks
<1>5. ~w.vol.damaged
  BY DEF w
<1> HIDE DEF u, x
<1>6. CASE ~LinkOk(u, q)
  <2>1. w.rc = "EIO" /\ w.vol = u
    BY <1>2, <1>4, <1>6
  <2>2. Answered(v, w, p, n, q, m, i, t)
    BY <1>4, <2>1 DEF Answered
  <2> QED BY <1>4, <2>1, <2>2 DEF w, i, t
<1>7. CASE LinkOk(u, q)
  <2>0. /\ i \in Inos /\ i # t /\ (t # 0 => t \in Inos) /\ (t # 0 => ~IsDir(v, t))
        /\ \A j \in Inos : Has(v, q, m, j) <=> j = t
    BY <1>1 DEF Asked
  <2>1. Counted(l) /\ Kept(l) /\ Added(v, l, q, m, i) /\ SameKinds(v, l) /\ FewerUps(v, l)
    BY <1>4, <1>7 DEF Linked
  <2> HIDE DEF l
  <2>2. SameDirs(v, l)
    BY <2>1 DEF SameKinds, SameDirs, IsDir
  <2>3. CASE t = 0
    <3>1. \A d, j \in Inos, k \in DirNames :
            Has(l, d, k, j) <=> /\ Has(v, d, k, j) \/ (d = q /\ k = m /\ j = i)
                                /\ ~(d = q /\ k = m /\ j = t)
      BY <2>1, <2>3, ZeroIsNoInode DEF Added
    <3>2. w = rename_unlink_old(l, p, n, q, m, i)
      BY <1>2, <1>7, <2>3
    <3>4. NamedKinds(v, l)
      BY <2>1 DEF SameKinds, NamedKinds
    <3>3. Tree(w.vol) /\ Renamed(v, w.vol) /\ Answered(v, w, p, n, q, m, i, t)
      BY <1>1, <1>5, <2>1, <2>2, <3>1, <3>2, <3>4, FileUnlinkOld
    <3> QED BY <3>3 DEF w, i, t
  <2>4. CASE t # 0
    <3> DEFINE c == do_unlink_on_ino(l, q, m, t, -1)
    <3>1. ~IsDir(l, i) /\ ~IsDir(l, t) /\ Has(l, q, m, t)
      <4>1. t \in Inos /\ Has(v, q, m, t)
        BY <2>0, <2>4
      <4> QED BY <1>1, <2>0, <2>1, <2>2, <2>4, <4>1, NameFacts DEF Added, SameDirs
    <3>2. r.rc = "0" /\ r.vol = c
      BY <3>1 DEF rename_clobber
    <3>3. w = rename_unlink_old(c, p, n, q, m, i)
      BY <1>2, <1>7, <2>4, <3>2
    <3>4. Counted(c)
      <4>1. t # RootIno /\ t \in Inos
        BY <1>1, <2>4 DEF Asked
      <4> QED BY <2>1, <4>1, UnlinkOnInoCounted
    <3>5. ~c.damaged
      BY <1>5, <2>0, <3>3, <3>4, UnlinkOldDamaged
    <3>6. /\ Kept(c) /\ Removed(l, c, q, m, t) /\ SameDirs(l, c) /\ FewerUps(l, c)
          /\ NamedKinds(l, c)
      BY <2>0, <2>1, <2>4, <3>1, <3>5, UnlinkOnInoKept
    <3> HIDE DEF c
    <3>7. \A d, j \in Inos, k \in DirNames :
            Has(c, d, k, j) <=> /\ Has(v, d, k, j) \/ (d = q /\ k = m /\ j = i)
                                /\ ~(d = q /\ k = m /\ j = t)
      BY <2>1, <3>6 DEF Added, Removed
    <3>8. SameDirs(v, c) /\ FewerUps(v, c)
      BY <2>1, <2>2, <3>6 DEF SameDirs, FewerUps
    <3>10. NamedKinds(v, c)
      BY <2>1, <3>6 DEF SameKinds, NamedKinds
    <3>9. Tree(w.vol) /\ Renamed(v, w.vol) /\ Answered(v, w, p, n, q, m, i, t)
      BY <1>1, <1>5, <3>3, <3>4, <3>6, <3>7, <3>8, <3>10, FileUnlinkOld
    <3> QED BY <3>9 DEF w, i, t
  <2> QED BY <2>3, <2>4
<1> QED BY <1>6, <1>7

(* The rename of a directory: what the names and ".." lead to.             *)
DirMoved(v, w, p, n, q, m, i, t) ==
  /\ NamesMoved(v, w, p, n, q, m, i, t)
  /\ \A c, j \in Inos :
       Has(w, c, "..", j) <=> IF c = i THEN j = q ELSE Has(v, c, "..", j) /\ c # t
  /\ \A j \in Inos : IsDir(w, j) <=> IsDir(v, j) /\ j # t
  /\ \A c \in Inos : \A s, x \in UpSlots(w, c) : s = x

(* A directory that holds no name is no parent.                            *)
LEMMA EmptyNoParent ==
  ASSUME NEW v, Counted(v), Tree(v), NEW t \in Inos, t # RootIno,
         \A j \in Inos, k \in Names : ~Has(v, t, k, j),
         NEW c \in Inos, NEW a \in Inos, Live(v, c), Has(v, c, "..", a)
  PROVE  a # t
<1>1. CASE c = RootIno
  BY <1>1, NameFacts DEF Tree, Kept, Proper
<1>2. CASE c # RootIno
  <2>1. PICK b \in Inos, k \in Names : Has(v, b, k, c)
    BY <1>2 DEF Live
  <2>2. Has(v, c, "..", b)
    BY <2>1 DEF Tree, Shaped, Live
  <2>3. a = b
    BY <2>2, ZeroIsNoInode DEF Has, Tree, Shaped, UpSlots
  <2> QED BY <2>1, <2>3
<1> QED BY <1>1, <1>2

LEMMA DirMovedTree ==
  ASSUME NEW v, Counted(v), Tree(v), NEW w, Counted(w), Kept(w), NEW p, NEW n, NEW q, NEW m,
         NEW i, NEW t, Asked(v, p, n, q, m, i, t), IsDir(v, i), ~IsAncestor(v, i, q),
         t # 0 => \A j \in Inos, k \in Names : ~Has(v, t, k, j),
         DirMoved(v, w, p, n, q, m, i, t)
  PROVE  Tree(w)
<1>0. /\ p \in Inos /\ q \in Inos /\ n \in Names /\ m \in Names /\ i \in Inos
      /\ i # t /\ i # RootIno /\ t # RootIno /\ Has(v, p, n, i)
      /\ \A j \in Inos : Has(v, q, m, j) <=> j = t
      /\ Live(v, p) /\ Live(v, q) /\ (t \in Inos \/ t = 0)
  BY DEF Asked
<1>1. \A j \in Inos : IsDir(w, j) <=> IsDir(v, j) /\ j # t
  BY DEF DirMoved
<1>2. \A c, j \in Inos, k \in Names : Has(w, c, k, j) =>
        (Has(v, c, k, j) /\ ~(c = q /\ k = m) /\ ~(c = p /\ k = n)) \/ (c = q /\ k = m /\ j = i)
  <2>1. \A j \in Inos : Has(v, p, n, j) => j = i
    BY <1>0 DEF Tree, Shaped
  <2> QED BY <1>0, <2>1 DEF DirMoved, NamesMoved
<1>3. \A c, j \in Inos, k \in Names : Has(v, c, k, j) /\ j # i /\ j # t => Has(w, c, k, j)
  BY DEF DirMoved, NamesMoved
<1>4. \A c, j \in Inos :
        Has(w, c, "..", j) <=> IF c = i THEN j = q ELSE Has(v, c, "..", j) /\ c # t
  BY DEF DirMoved
<1>5. ~(p = q /\ n = m) /\ Has(w, q, m, i)
  <2>1. ~(p = q /\ n = m)
    BY <1>0
  <2> QED BY <1>0, <2>1 DEF DirMoved, NamesMoved
<1>6. q # t
  BY <1>0, ZeroIsNoInode
<1>7. \A d \in Inos : Live(w, d) <=> Live(v, d) /\ d # t
  <2> TAKE d \in Inos
  <2>1. ASSUME Live(v, d), d # t PROVE Live(w, d)
    <3>1. CASE d = RootIno
      BY <1>1, <2>1, <3>1 DEF Live
    <3>2. CASE d = i
      BY <1>0, <1>1, <1>5, <2>1, <3>2 DEF Live
    <3>3. CASE d # RootIno /\ d # i
      BY <1>1, <1>3, <2>1, <3>3 DEF Live
    <3> QED BY <3>1, <3>2, <3>3
  <2>2. ASSUME Live(w, d) PROVE Live(v, d) /\ d # t
    <3>1. IsDir(v, d) /\ d # t
      BY <1>1, <2>2 DEF Live
    <3>2. CASE d = RootIno
      BY <3>1, <3>2 DEF Live
    <3>3. CASE d = i
      BY <1>0, <3>1, <3>3 DEF Live
    <3>4. CASE d # RootIno /\ d # i
      BY <1>2, <2>2, <3>1, <3>4 DEF Live
    <3> QED BY <3>1, <3>2, <3>3, <3>4
  <2> QED BY <2>1, <2>2
<1>8. Shaped(w)
  <2>1. \A d, x, y \in Inos, k \in Names : Has(w, d, k, x) /\ Has(w, d, k, y) => x = y
    BY <1>2 DEF Tree, Shaped
  <2>2. ASSUME NEW c \in Inos, NEW d \in Inos, NEW x \in Inos, NEW k \in Names,
               NEW l \in Names, Has(w, c, k, x), Has(w, d, l, x), IsDir(w, x)
        PROVE  c = d /\ k = l
    <3>1. CASE x = i
      <4>1. \A e \in Inos, h \in Names : Has(v, e, h, i) => e = p /\ h = n
        BY <1>0 DEF Tree, Shaped
      <4> QED BY <1>2, <2>2, <3>1, <4>1
    <3>2. CASE x # i
      BY <1>1, <1>2, <2>2, <3>2 DEF Tree, Shaped
    <3> QED BY <3>1, <3>2
  <2>3. ASSUME NEW d \in Inos, NEW x \in Inos, NEW k \in Names, Has(w, d, k, x)
        PROVE  Live(w, d) /\ (IsDir(w, x) => Has(w, x, "..", d))
    <3>1. CASE d = q /\ x = i
      BY <1>0, <1>4, <1>6, <1>7, <3>1
    <3>2. CASE Has(v, d, k, x) /\ ~(d = p /\ k = n)
      <4>1. Live(v, d) /\ (IsDir(v, x) => Has(v, x, "..", d))
        BY <3>2 DEF Tree, Shaped
      <4>2. d # t
        BY <1>0, <3>2, ZeroIsNoInode
      <4>3. IsDir(w, x) => x # i /\ x # t /\ IsDir(v, x)
        <5>1. IsDir(v, i) /\ Has(v, d, k, i) => d = p /\ k = n
          BY <1>0 DEF Tree, Shaped
        <5> QED BY <1>1, <3>2, <5>1
      <4> QED BY <1>4, <1>7, <4>1, <4>2, <4>3
    <3> QED BY <1>2, <2>3, <3>1, <3>2
  <2>4. \A d \in Inos : \A s, x \in UpSlots(w, d) : s = x
    BY DEF DirMoved
  <2> QED BY <2>1, <2>2, <2>3, <2>4 DEF Shaped
<1>9. Rooted(w)
  <2> SUFFICES ASSUME NEW d \in Inos, Live(w, d), NEW S \in SUBSET Inos, d \in S,
                      \A c \in S, b \in Inos : Has(w, c, "..", b) => b \in S
               PROVE  RootIno \in S
    BY AncestorIs DEF Rooted
  <2>1. ASSUME NEW c \in S, Live(v, c), c # t, c # i, NEW b \in Inos, Has(v, c, "..", b)
        PROVE  b \in S /\ Live(v, b) /\ b # t
    <3>1. Has(w, c, "..", b)
      BY <1>4, <2>1
    <3>2. Live(v, b)
      BY <2>1, LiveParent DEF Tree, Kept
    <3>3. b # t
      <4>1. CASE t = 0
        BY <4>1, ZeroIsNoInode
      <4>2. CASE t # 0
        BY <1>0, <2>1, <4>2, EmptyNoParent
      <4> QED BY <4>1, <4>2
    <3> QED BY <3>1, <3>2, <3>3
  <2>2. Live(v, d) /\ d # t
    BY <1>7
  <2>3. ASSUME NEW R \in SUBSET Inos, NEW e \in R, Live(v, e),
               \A c \in R, b \in Inos : Has(v, c, "..", b) => b \in R
        PROVE  RootIno \in R
    <3>1. IsAncestor(v, RootIno, e)
      BY <2>3 DEF Tree, Rooted
    <3> QED BY <2>3, <3>1, AncestorIs
  <2>4. CASE i \notin S
    <3> DEFINE R == {c \in S : Live(v, c) /\ c # t}
    <3>1. \A c \in R, b \in Inos : Has(v, c, "..", b) => b \in R
      BY <2>1, <2>4
    <3>2. d \in R /\ R \in SUBSET Inos /\ R \subseteq S
      BY <2>2
    <3> HIDE DEF R
    <3>3. RootIno \in R
      BY <2>2, <2>3, <3>1, <3>2
    <3> QED BY <3>2, <3>3
  <2>5. CASE i \in S
    <3>1. PICK P \in SUBSET Inos : /\ q \in P /\ i \notin P
                                   /\ \A c \in P, b \in Inos : Has(v, c, "..", b) => b \in P
      BY <1>0, AncestorIs
    <3>2. q \in S
      BY <1>0, <1>4, <2>5
    <3> DEFINE R == {c \in S : Live(v, c) /\ c # t /\ c \in P}
    <3>3. \A c \in R, b \in Inos : Has(v, c, "..", b) => b \in R
      BY <2>1, <3>1
    <3>4. q \in R /\ R \in SUBSET Inos /\ R \subseteq S
      BY <1>0, <1>6, <3>1, <3>2
    <3> HIDE DEF R
    <3>5. RootIno \in R
      BY <1>0, <2>3, <3>3, <3>4
    <3> QED BY <3>4, <3>5
  <2> QED BY <2>4, <2>5
<1> QED BY <1>8, <1>9 DEF Tree

(* A change to another directory leaves the entries of d alone.            *)
SameRoom(v, w, d) == w.nblk[d] = v.nblk[d] /\ w.ent[d] = v.ent[d]

LEMMA RoomFree ==
  ASSUME NEW v, NEW w, NEW d, SameRoom(v, w, d)
  PROVE  FreeSlots(w, d) = FreeSlots(v, d)
BY DEF SameRoom, FreeSlots, DirSlots

LEMMA AddLinksRoom ==
  ASSUME NEW v, Counted(v), NEW i, NEW n, NEW d
  PROVE  SameRoom(v, AddLinks(v, i, n), d)
<1>1. v \in Volume
  BY DEF Counted, Sound
<1> QED BY <1>1 DEF AddLinks, SameRoom, Volume

LEMMA LinkRoom ==
  ASSUME NEW v, Counted(v), NEW q, NEW m, NEW i, NEW d \in Inos, d # q
  PROVE  SameRoom(v, ext2fs_link(v, q, m, i), d)
<1> DEFINE s == Least(FreeSlots(v, q))
           w == [v EXCEPT !.ent[q][s] = [name |-> m, ino |-> i]]
<1>1. v \in Volume /\ v.ent \in [Inos -> [Slots -> Dirent]]
  BY VolumeFields DEF Counted, Sound
<1> HIDE DEF s
<1>2. w.ent = [v.ent EXCEPT ![q][s] = [name |-> m, ino |-> i]] /\ w.nblk = v.nblk
  BY <1>1 DEF Volume
<1>3. ext2fs_link(v, q, m, i) = w
  BY DEF ext2fs_link, s
<1> HIDE DEF w
<1> QED BY <1>1, <1>2, <1>3 DEF SameRoom

LEMMA DoLinkRoom ==
  ASSUME NEW v, Counted(v), NEW q \in Inos, NEW m, NEW i, NEW d \in Inos, d # q
  PROVE  SameRoom(v, do_link(v, q, m, i), d)
<1>1. CASE FreeSlots(v, q) # {}
  BY <1>1, LinkRoom DEF do_link
<1>2. CASE FreeSlots(v, q) = {} /\ CanExpand(v, q)
  <2> DEFINE e == ext2fs_expand_dir(v, q)
  <2>1. Counted(e)
    BY <1>2, ExpandCounted
  <2>2. SameRoom(v, e, d)
    <3>1. v \in Volume /\ v.nblk \in [Inos -> 0 .. MaxDirBlocks]
      BY VolumeFields DEF Counted, Sound
    <3>2. e.ent = v.ent /\ e.nblk = [v.nblk EXCEPT ![q] = @ + 1]
      BY <3>1 DEF ext2fs_expand_dir, Volume
    <3> QED BY <3>1, <3>2 DEF SameRoom
  <2>3. do_link(v, q, m, i) = ext2fs_link(e, q, m, i)
    BY <1>2 DEF do_link
  <2> HIDE DEF e
  <2>4. SameRoom(e, ext2fs_link(e, q, m, i), d)
    BY <2>1, LinkRoom
  <2> QED BY <2>2, <2>3, <2>4 DEF SameRoom
<1>3. CASE FreeSlots(v, q) = {} /\ ~CanExpand(v, q)
  BY <1>3 DEF do_link, SameRoom
<1> QED BY <1>1, <1>2, <1>3

LEMMA UnlinkRoom ==
  ASSUME NEW v, Counted(v), NEW q, NEW m, NEW i, NEW d \in Inos, d # q
  PROVE  SameRoom(v, ext2fs_unlink(v, q, m, i), d)
<1> DEFINE s == Least(SlotsOf(v, q, m, i))
           w == [v EXCEPT !.ent[q][s] = Unused]
           x == [v EXCEPT !.damaged = TRUE]
<1>1. v \in Volume /\ v.ent \in [Inos -> [Slots -> Dirent]]
  BY VolumeFields DEF Counted, Sound
<1>2. ext2fs_unlink(v, q, m, i) \in {v, w, x}
  BY DEF ext2fs_unlink
<1> HIDE DEF s
<1>3. w.ent = [v.ent EXCEPT ![q][s] = Unused] /\ w.nblk = v.nblk
  BY <1>1 DEF Volume
<1>4. x.ent = v.ent /\ x.nblk = v.nblk
  BY <1>1 DEF Volume
<1> HIDE DEF w, x
<1>5. SameRoom(v, w, d)
  BY <1>1, <1>3 DEF SameRoom
<1> QED BY <1>2, <1>4, <1>5 DEF SameRoom

LEMMA KillRoom ==
  ASSUME NEW v, Counted(v), NEW t, NEW d \in Inos, d # t
  PROVE  SameRoom(v, kill_file_by_inode(v, t), d)
<1> DEFINE w == kill_file_by_inode(v, t)
<1>1. /\ v \in Volume /\ v.ent \in [Inos -> [Slots -> Dirent]]
      /\ v.nblk \in [Inos -> 0 .. MaxDirBlocks]
  BY VolumeFields DEF Counted, Sound
<1>2. CASE ext2fs_inode_has_valid_blocks(v.inode[t])
  <2>1. w.ent = [v.ent EXCEPT ![t] = [s \in Slots |-> Unused]] /\ w.nblk = [v.nblk EXCEPT ![t] = 0]
    BY <1>1, <1>2 DEF kill_file_by_inode, ext2fs_inode_alloc_stats2, Volume
  <2> HIDE DEF w
  <2>2. SameRoom(v, w, d)
    BY <1>1, <2>1 DEF SameRoom
  <2> QED BY <2>2 DEF w
<1>3. CASE ~ext2fs_inode_has_valid_blocks(v.inode[t])
  <2>1. w.ent = v.ent /\ w.nblk = v.nblk
    BY <1>1, <1>3 DEF kill_file_by_inode, Volume
  <2> QED BY <2>1 DEF SameRoom
<1> QED BY <1>2, <1>3

(* The directory to be moved has the room it had when the target is gone.  *)
LEMMA RmdirOnInoRoom ==
  ASSUME NEW v, Counted(v), NEW q \in Inos, NEW m, NEW t \in Inos, t # RootIno,
         NEW d \in Inos, d # q, d # t
  PROVE  SameRoom(v, do_rmdir_on_ino(v, q, m, t), d)
<1> DEFINE u == ext2fs_unlink(v, q, m, t)
           k == kill_file_by_inode(u, t)
           w == do_rmdir_on_ino(v, q, m, t)
<1>1. Counted(u) /\ SameRoom(v, u, d)
  BY UnlinkCounted, UnlinkRoom
<1>2. w = k \/ w = AddLinks(k, q, -1)
  BY DEF do_rmdir_on_ino
<1> HIDE DEF u
<1>3. Counted(k) /\ SameRoom(u, k, d)
  BY <1>1, KillCounted, KillRoom
<1> HIDE DEF k, w
<1>4. SameRoom(k, w, d)
  BY <1>2, <1>3, AddLinksRoom DEF SameRoom
<1> QED BY <1>1, <1>3, <1>4 DEF SameRoom, w

(* A directory has a block, which is free when the directory is gone.      *)
LEMMA RmdirOnInoFrees ==
  ASSUME NEW v, Counted(v), NEW q \in Inos, NEW m, NEW t \in Inos, IsDir(v, t),
         NEW k, NEW j \in Inos, Has(v, t, k, j)
  PROVE  do_rmdir_on_ino(v, q, m, t).freeBlocks > 0
<1> DEFINE u == ext2fs_unlink(v, q, m, t)
           x == kill_file_by_inode(u, t)
           w == do_rmdir_on_ino(v, q, m, t)
<1>1. Sound(v) /\ v \in Volume /\ v.inode[t].blocks = v.nblk[t]
  BY DEF Counted, Sound
<1>2. v.nblk[t] \in Nat /\ v.nblk[t] # 0
  <2>1. v.nblk[t] \in 0 .. MaxDirBlocks
    BY <1>1, VolumeFields
  <2>2. PICK s \in Slots : v.ent[t][s].ino = j
    BY DEF Has
  <2>3. s \in DirSlots(v, t)
    BY <1>1, <2>2, ZeroIsNoInode DEF Sound, Beyond
  <2>4. v.nblk[t] # 0
    <3> SUFFICES ASSUME v.nblk[t] = 0 PROVE FALSE
      OBVIOUS
    <3>1. s \in 1 .. (0 * SlotsPerBlock) /\ SlotsPerBlock \in Nat
      BY <2>3, SizesAssumption DEF DirSlots
    <3> QED BY <3>1
  <2> QED BY <2>1, <2>4
<1>3. u.inode = v.inode /\ u.freeBlocks = v.freeBlocks /\ u \in Volume
  <2>1. u \in Volume
    BY UnlinkCounted DEF Counted, Sound
  <2>2. u.inode = v.inode /\ u.freeBlocks = v.freeBlocks
    BY <1>1 DEF ext2fs_unlink, Volume
  <2> QED BY <2>1, <2>2
<1>4. w = x \/ w = AddLinks(x, q, -1)
  BY DEF do_rmdir_on_ino
<1> HIDE DEF u
<1>5. x \in Volume /\ x.freeBlocks = u.freeBlocks + u.inode[t].blocks
  <2>1. ext2fs_inode_has_valid_blocks(u.inode[t])
    BY <1>3 DEF ext2fs_inode_has_valid_blocks, IsDir
  <2>2. x.freeBlocks = u.freeBlocks + u.inode[t].blocks
    BY <1>3, <2>1 DEF kill_file_by_inode, ext2fs_inode_alloc_stats2, Volume
  <2>3. Counted(u)
    BY UnlinkCounted DEF u
  <2>4. x \in Volume
    BY <2>3, KillSound DEF Counted, Sound
  <2> QED BY <2>2, <2>4
<1> HIDE DEF x
<1>6. AddLinks(x, q, -1).freeBlocks = x.freeBlocks
  BY <1>5 DEF AddLinks, Volume
<1>7. v.freeBlocks \in Nat
  BY <1>1, VolumeFields
<1>8. w.freeBlocks = v.freeBlocks + v.nblk[t]
  BY <1>1, <1>3, <1>4, <1>5, <1>6
<1> HIDE DEF w
<1>9. w.freeBlocks > 0
  BY <1>2, <1>7, <1>8
<1> QED BY <1>9 DEF w

(* The new name is linked, and the directory t it led to (0: none) gone.   *)
Cleared(v, c, q, m, i, t) ==
  /\ Counted(c) /\ Kept(c)
  /\ \A d, j \in Inos, k \in DirNames :
       Has(c, d, k, j) <=> /\ Has(v, d, k, j) \/ (d = q /\ k = m /\ j = i)
                           /\ d # t /\ ~(d = q /\ k = m /\ j = t)
  /\ \A j \in Inos : j # t => c.inode[j].kind = v.inode[j].kind
  /\ t # 0 => ~IsDir(c, t)
  /\ FewerUps(v, c)

(* t may be deleted for a directory that is to have its name.              *)
Deletable(v, q, m, t) ==
  t # 0 => /\ t \in Inos /\ t # RootIno /\ IsDir(v, t) /\ Has(v, q, m, t)
           /\ \A j \in Inos, k \in Names : ~Has(v, t, k, j)

LEMMA ClearedDirs ==
  ASSUME NEW v, NEW c, NEW q, NEW m, NEW i, NEW t, Cleared(v, c, q, m, i, t)
  PROVE  \A j \in Inos : IsDir(c, j) <=> IsDir(v, j) /\ j # t
<1> TAKE j \in Inos
<1>1. CASE j = t
  BY <1>1, ZeroIsNoInode DEF Cleared
<1>2. CASE j # t
  BY <1>2 DEF Cleared, IsDir
<1> QED BY <1>1, <1>2

(* The cleanup label: the new name goes again.                             *)
LEMMA DirCleanupTree ==
  ASSUME NEW v, Counted(v), Tree(v), ~v.damaged, NEW q \in Inos, NEW m \in Names, NEW i \in Inos,
         IsDir(v, i), ~Has(v, q, m, i), NEW t, i # t, q # t, Deletable(v, q, m, t),
         NEW c, Cleared(v, c, q, m, i, t), ~rename_cleanup(c, q, m, i).damaged
  PROVE  LET w == rename_cleanup(c, q, m, i)
         IN /\ Tree(w) /\ Shrunk(v, w)
            /\ IF t = 0 THEN KeptNames(v, w) ELSE NameRemoved(v, w, q, m, t)
<1> DEFINE w == AddLinks(ext2fs_unlink(c, q, m, i), q, -1)
<1>1. Counted(c) /\ Kept(c) /\ IsDir(c, i) /\ Has(c, q, m, i)
  <2>1. IsDir(c, i)
    BY ClearedDirs
  <2> QED BY <2>1, NameFacts DEF Cleared
<1>2. rename_cleanup(c, q, m, i) = w
  BY <1>1, SlotsHas DEF rename_cleanup
<1>3. Selects(c, q, m, i, i)
  BY <1>1 DEF Selects
<1>4. /\ Counted(w) /\ Kept(w) /\ Removed(c, w, q, m, i) /\ SameKinds(c, w)
      /\ FewerUps(c, w)
  BY <1>1, <1>2, <1>3, UnlinkLower
<1> HIDE DEF w
<1>5. \A d, j \in Inos, k \in DirNames :
        Has(w, d, k, j) <=> Has(v, d, k, j) /\ d # t /\ ~(d = q /\ k = m /\ j = t)
  BY <1>4 DEF Cleared, Removed
<1>6. FewerUps(v, w)
  BY <1>4 DEF Cleared, FewerUps
<1>7. \A j \in Inos : j # t => w.inode[j].kind = v.inode[j].kind
  BY <1>4 DEF Cleared, SameKinds
<1>8. CASE t = 0
  <2>1. SameHas(v, w)
    BY <1>5, <1>8, ZeroIsNoInode DEF SameHas
  <2>2. SameDirs(v, w)
    BY <1>7, <1>8, ZeroIsNoInode DEF SameDirs, IsDir
  <2>3. Tree(w)
    BY <1>4, <1>6, <2>1, <2>2, SameStep, FileStepTree
  <2>4. SameKinds(v, w)
    BY <1>7, <1>8, ZeroIsNoInode DEF SameKinds
  <2>5. Shrunk(v, w)
    BY <2>1, <2>4, SameHasGrown
  <2>6. KeptNames(v, w)
    BY <2>1, NameFacts DEF SameHas, KeptNames
  <2> QED BY <1>2, <1>8, <2>3, <2>5, <2>6
<1>9. CASE t # 0
  <2>1. /\ t \in Inos /\ t # RootIno /\ IsDir(v, t) /\ Has(v, q, m, t)
        /\ \A j \in Inos, k \in Names : ~Has(v, t, k, j)
    BY <1>9 DEF Deletable
  <2>2. ~IsDir(w, t)
    BY <1>4, <1>9, <2>1 DEF Cleared, SameKinds, IsDir
  <2>3. Rmdired(v, w, q, m, t)
    BY <1>5, <1>6, <1>7, <2>2 DEF Rmdired
  <2>4. Tree(w) /\ Shrunk(v, w)
    BY <1>4, <2>1, <2>3, RmdiredTree
  <2>5. NameRemoved(v, w, q, m, t)
    BY <1>5, <2>1, NameFacts DEF NameRemoved
  <2> QED BY <1>2, <1>9, <2>4, <2>5
<1> QED BY <1>8, <1>9

(* The second half of the rename of a directory.                           *)
LEMMA DirUnlinkOld ==
  ASSUME NEW v, Counted(v), Tree(v), ~v.damaged, NEW p, NEW n, NEW q, NEW m, NEW i, NEW t,
         Asked(v, p, n, q, m, i, t), IsDir(v, i), ~IsAncestor(v, i, q), Deletable(v, q, m, t),
         NEW c, Cleared(v, c, q, m, i, t), SameRoom(v, c, i), t # 0 => c.freeBlocks > 0,
         ~rename_unlink_old(c, p, n, q, m, i).vol.damaged
  PROVE  LET r == rename_unlink_old(c, p, n, q, m, i)
         IN Tree(r.vol) /\ Renamed(v, r.vol) /\ Answered(v, r, p, n, q, m, i, t)
<1>0. /\ p \in Inos /\ q \in Inos /\ n \in Names /\ m \in Names /\ i \in Inos
      /\ i # t /\ i # RootIno /\ Has(v, p, n, i)
      /\ \A j \in Inos : Has(v, q, m, j) <=> j = t
      /\ Live(v, p) /\ Live(v, q)
  BY DEF Asked
<1>1. q # t /\ p # t /\ ~Has(v, q, m, i) /\ ~(p = q /\ n = m)
  BY <1>0, ZeroIsNoInode DEF Deletable
<1>2. Counted(c) /\ Kept(c) /\ IsDir(c, i)
  <2>1. IsDir(c, i)
    BY <1>0, ClearedDirs
  <2> QED BY <2>1 DEF Cleared
<1>3. CASE ~LinkOk(c, i)
  <2> DEFINE r == rename_unlink_old(c, p, n, q, m, i)
             w == rename_cleanup(c, q, m, i)
  <2>1. r.vol = w /\ r.rc = "EIO"
    BY <1>2, <1>3 DEF rename_unlink_old
  <2>2. /\ Tree(w) /\ Shrunk(v, w)
        /\ IF t = 0 THEN KeptNames(v, w) ELSE NameRemoved(v, w, q, m, t)
    BY <1>0, <1>1, <2>1, DirCleanupTree
  <2>3. t # 0 => Full(v, i)
    <3>1. v.nblk[i] \in 0 .. MaxDirBlocks /\ MaxDirBlocks \in Nat
      BY <1>0, VolumeFields, SizesAssumption DEF Counted, Sound
    <3>2. FreeSlots(v, i) = {} /\ c.nblk[i] = v.nblk[i]
      BY <1>3, RoomFree DEF LinkOk, SameRoom
    <3>3. t # 0 => ~(c.nblk[i] < MaxDirBlocks)
      BY <1>3 DEF LinkOk, CanExpand
    <3> QED BY <3>1, <3>2, <3>3 DEF Full
  <2> HIDE DEF w, r
  <2>4. Answered(v, r, p, n, q, m, i, t)
    BY <2>1, <2>2, <2>3 DEF Answered
  <2> QED BY <2>1, <2>2, <2>4 DEF Renamed, r
<1>4. CASE LinkOk(c, i)
  <2> DEFINE u == do_link(c, i, "..", q)
             z == ext2fs_unlink(u, i, "..", p)
             y == ext2fs_unlink(z, p, n, 0)
             w == AddLinks(y, p, -1)
             r == rename_unlink_old(c, p, n, q, m, i)
  <2>1. r = IF SlotsOf(u, i, "..", p) = {} \/ SlotsOf(z, p, n, 0) = {}
            THEN [vol |-> rename_cleanup(z, q, m, i), rc |-> "EIO"]
            ELSE [vol |-> w, rc |-> "0"]
    BY <1>2, <1>4 DEF rename_unlink_old
  <2>2. Counted(z)
    <3>1. i \in c.imap
      BY <1>0, <1>2 DEF Counted, IsDir
    <3>2. Counted(u)
      BY <1>0, <1>2, <3>1, NameFacts, DoLinkCounted
    <3> QED BY <1>0, <3>2, UnlinkCounted
  <2>3. ~z.damaged
    <3> SUFFICES ASSUME z.damaged PROVE FALSE
      OBVIOUS
    <3> HIDE DEF z
    <3>1. rename_cleanup(z, q, m, i).damaged
      BY <1>0, <2>2, CleanupDamaged
    <3>2. Counted(y) /\ y.damaged
      BY <1>0, <2>2, UnlinkCounted, UnlinkDamaged
    <3>3. w.damaged
      BY <3>2, AddLinksDamaged
    <3>4. r.vol.damaged
      BY <2>1, <3>1, <3>3
    <3> QED BY <3>4
  <2>4. Has(c, i, "..", p) /\ \A s, x \in UpSlots(c, i) : s = x
    <3>1. Has(v, i, "..", p)
      BY <1>0 DEF Tree, Shaped
    <3>2. Has(c, i, "..", p)
      BY <1>0, <3>1, NameFacts DEF Cleared
    <3>3. UpSlots(c, i) \subseteq UpSlots(v, i) /\ \A s, x \in UpSlots(v, i) : s = x
      BY <1>0 DEF Cleared, FewerUps, Tree, Shaped
    <3> QED BY <3>2, <3>3
  <2>5. SlotsOf(u, i, "..", p) # {} /\ Kept(z) /\ UpMoved(c, z, i, q)
    BY <1>0, <1>2, <1>4, <2>3, <2>4, MoveUp
  <2> HIDE DEF r, u, z
  <2>6. \A d, j \in Inos, k \in Names :
          Has(z, d, k, j) <=> /\ Has(v, d, k, j) \/ (d = q /\ k = m /\ j = i)
                              /\ d # t /\ ~(d = q /\ k = m /\ j = t)
    <3>1. \A d, j \in Inos, k \in Names : Has(z, d, k, j) <=> Has(c, d, k, j)
      BY <2>5, NameFacts DEF UpMoved
    <3> QED BY <3>1, NameFacts DEF Cleared
  <2>7. Has(z, p, n, i) /\ \A j \in Inos : Has(z, p, n, j) => j = i
    <3>1. \A j \in Inos : Has(v, p, n, j) => j = i
      BY <1>0 DEF Tree, Shaped
    <3> QED BY <1>0, <1>1, <2>6, <3>1
  <2>8. SlotsOf(z, p, n, 0) # {} /\ Selects(z, p, n, 0, i)
    BY <1>0, <2>2, <2>7, AnySlotsHas DEF Selects
  <2>9. r.vol = w /\ r.rc = "0"
    BY <2>1, <2>5, <2>8
  <2>10. ~w.damaged
    BY <2>9 DEF r
  <2>11. IsDir(z, i)
    BY <1>0, <1>2, <2>5 DEF UpMoved, SameKinds, IsDir
  <2>12. /\ Counted(w) /\ Kept(w) /\ Removed(z, w, p, n, i) /\ SameKinds(z, w)
         /\ FewerUps(z, w)
    BY <1>0, <2>2, <2>5, <2>8, <2>10, <2>11, UnlinkLower
  <2> HIDE DEF w
  <2>13. NamesMoved(v, w, p, n, q, m, i, t)
    <3> SUFFICES ASSUME NEW d \in Inos, NEW j \in Inos, NEW k \in Names
                 PROVE  Has(w, d, k, j) <=> /\ Has(v, d, k, j) \/ (d = q /\ k = m /\ j = i)
                                            /\ ~(d = q /\ k = m /\ j = t)
                                            /\ ~(d = p /\ k = n /\ j = i)
      BY DEF NamesMoved
    <3>1. Has(w, d, k, j) <=> Has(z, d, k, j) /\ ~(d = p /\ k = n /\ j = i)
      BY <2>12, NameFacts DEF Removed
    <3>2. d = t => ~Has(v, d, k, j) /\ d # q
      BY <1>1, ZeroIsNoInode DEF Deletable
    <3> QED BY <2>6, <3>1, <3>2
  <2>14. \A d, j \in Inos :
           Has(w, d, "..", j) <=> IF d = i THEN j = q ELSE Has(v, d, "..", j) /\ d # t
    <3> TAKE d, j \in Inos
    <3>1. Has(w, d, "..", j) <=> Has(z, d, "..", j)
      BY <1>0, <2>12, NameFacts DEF Removed
    <3>2. Has(z, d, "..", j) <=> IF d = i THEN j = q ELSE Has(c, d, "..", j)
      BY <2>5, NameFacts DEF UpMoved
    <3>3. Has(c, d, "..", j) <=> Has(v, d, "..", j) /\ d # t
      BY <1>0, NameFacts DEF Cleared
    <3> QED BY <3>1, <3>2, <3>3
  <2>15. \A j \in Inos : IsDir(w, j) <=> IsDir(v, j) /\ j # t
    <3>1. \A j \in Inos : IsDir(w, j) <=> IsDir(c, j)
      BY <2>5, <2>12 DEF UpMoved, SameKinds, IsDir
    <3> QED BY <3>1, ClearedDirs
  <2>16. \A d \in Inos : \A s, x \in UpSlots(w, d) : s = x
    <3> TAKE d \in Inos
    <3>1. UpSlots(w, d) \subseteq UpSlots(z, d)
      BY <2>12 DEF FewerUps
    <3>2. CASE d = i
      BY <2>5, <3>1, <3>2 DEF UpMoved
    <3>3. CASE d # i
      <4>1. UpSlots(z, d) \subseteq UpSlots(c, d) /\ UpSlots(c, d) \subseteq UpSlots(v, d)
        BY <2>5, <3>3 DEF UpMoved, Cleared, FewerUps
      <4>2. \A s, x \in UpSlots(v, d) : s = x
        BY DEF Tree, Shaped
      <4> QED BY <3>1, <4>1, <4>2
    <3> QED BY <3>2, <3>3
  <2>17. DirMoved(v, w, p, n, q, m, i, t)
    BY <2>13, <2>14, <2>15, <2>16 DEF DirMoved
  <2>18. t # 0 => \A j \in Inos, k \in Names : ~Has(v, t, k, j)
    BY DEF Deletable
  <2>19. Tree(w)
    BY <2>12, <2>17, <2>18, DirMovedTree
  <2>20. NamedKinds(v, w)
    <3> SUFFICES ASSUME NEW d \in Inos, NEW j \in Inos, NEW k \in Names, Has(w, d, k, j)
                 PROVE  w.inode[j].kind = v.inode[j].kind
      BY DEF NamedKinds
    <3>1. j # t
      <4> SUFFICES ASSUME j = t PROVE FALSE
        OBVIOUS
      <4>1. Has(v, d, k, t) /\ ~(d = q /\ k = m)
        BY <1>0, <2>13 DEF NamesMoved
      <4>2. IsDir(v, t) /\ Has(v, q, m, t)
        BY ZeroIsNoInode DEF Deletable
      <4> QED BY <1>0, <4>1, <4>2 DEF Tree, Shaped
    <3>2. c.inode[j].kind = v.inode[j].kind
      BY <3>1 DEF Cleared
    <3>3. w.inode[j].kind = c.inode[j].kind
      BY <2>5, <2>12 DEF UpMoved, SameKinds
    <3> QED BY <3>2, <3>3
  <2>21. NameMoved(v, w, p, n, q, m, i, t) /\ t \in Inos \cup {0}
    BY <2>13, <2>18 DEF NameMoved, Asked
  <2>22. Renamed(v, w)
    BY <1>0, <2>20, <2>21 DEF Renamed
  <2>23. Answered(v, r, p, n, q, m, i, t)
    BY <2>9, <2>13 DEF Answered
  <2> QED BY <2>9, <2>19, <2>22, <2>23 DEF r
<1> QED BY <1>3, <1>4

LEMMA LinkedCleared ==
  ASSUME NEW v, NEW l, NEW q, NEW m, NEW i, Linked(v, l, q, m, i)
  PROVE  Cleared(v, l, q, m, i, 0)
BY ZeroIsNoInode DEF Linked, Cleared, Added, SameKinds

LEMMA RenameDirTree ==
  ASSUME NEW v, Counted(v), Tree(v), ~v.damaged, NEW perm, NEW p \in Inos, NEW n \in Names,
         NEW q \in Inos, NEW m \in Names, RenameAllowed(v, p, n, q, m),
         IsDir(v, ext2fs_lookup(v, p, n)),
         v.inode[q].links + 1 < LinkMod, ~do_rename(v, perm, p, n, q, m).vol.damaged
  PROVE  LET r == do_rename(v, perm, p, n, q, m)
         IN /\ Tree(r.vol) /\ Renamed(v, r.vol)
            /\ Answered(v, r, p, n, q, m, ext2fs_lookup(v, p, n), ext2fs_lookup(v, q, m))
<1> DEFINE i == ext2fs_lookup(v, p, n)
           t == ext2fs_lookup(v, q, m)
           x == IF IsDir(v, i) THEN q ELSE i
           u == AddLinks(v, x, 1)
           l == do_link(u, q, m, i)
           r == rename_clobber(l, perm, q, m, i, t)
           w == do_rename(v, perm, p, n, q, m)
<1>1. Asked(v, p, n, q, m, i, t) /\ IsDir(v, i) /\ i # 0 /\ ~IsAncestor(v, i, q)
  BY RenameAsked DEF RenameAllowed, UsedName
<1>2. w = IF ~LinkOk(u, q) THEN [vol |-> rename_cleanup(u, q, m, i), rc |-> "EIO"]
          ELSE IF t = 0 THEN rename_unlink_old(l, p, n, q, m, i)
          ELSE IF r.rc # "0" THEN r ELSE rename_unlink_old(r.vol, p, n, q, m, i)
  BY <1>1, RenameIs
<1>3. v.inode[x].links + 1 < LinkMod
  BY <1>1
<1> HIDE DEF i, t, w
<1>4. /\ Counted(u) /\ Tree(u) /\ Renamed(v, u) /\ KeptNames(v, u)
      /\ ~LinkOk(u, q) => rename_cleanup(u, q, m, i) = u
      /\ LinkOk(u, q) => Linked(v, l, q, m, i)
  BY <1>1, <1>3, RenameLinks
<1>8. i # q /\ SameRoom(v, l, i)
  <2>1. i # q
    <3> SUFFICES ASSUME i = q PROVE FALSE
      OBVIOUS
    <3>1. ~IsAncestor(v, i, i)
      BY <1>1
    <3> QED BY <3>1 DEF IsAncestor
  <2>2. SameRoom(v, u, i)
    BY AddLinksRoom
  <2>3. i \in Inos
    BY <1>1 DEF Asked
  <2> HIDE DEF u
  <2>4. SameRoom(u, l, i)
    BY <1>4, <2>1, <2>3, DoLinkRoom
  <2> QED BY <2>1, <2>2, <2>4 DEF SameRoom
<1>5. ~w.vol.damaged
  BY DEF w
<1> HIDE DEF u, x
<1>6. CASE ~LinkOk(u, q)
  <2>1. w.rc = "EIO" /\ w.vol = u
    BY <1>2, <1>4, <1>6
  <2>2. Answered(v, w, p, n, q, m, i, t)
    BY <1>4, <2>1 DEF Answered
  <2> QED BY <1>4, <2>1, <2>2 DEF w, i, t
<1>7. CASE LinkOk(u, q)
  <2>0. /\ i \in Inos /\ i # t /\ (t # 0 => t \in Inos /\ t # RootIno /\ IsDir(v, t))
        /\ \A j \in Inos : Has(v, q, m, j) <=> j = t
    BY <1>1 DEF Asked
  <2>1. Linked(v, l, q, m, i) /\ Cleared(v, l, q, m, i, 0) /\ Deletable(v, q, m, 0)
    BY <1>4, <1>7, LinkedCleared DEF Deletable
  <2> HIDE DEF l
  <2>3. CASE t = 0
    <3>1. w = rename_unlink_old(l, p, n, q, m, i)
      BY <1>2, <1>7, <2>3
    <3>2. Tree(w.vol) /\ Renamed(v, w.vol) /\ Answered(v, w, p, n, q, m, i, t)
      BY <1>1, <1>5, <1>8, <2>1, <2>3, <3>1, DirUnlinkOld
    <3> QED BY <3>2 DEF w, i, t
  <2>4. CASE t # 0
    <3> DEFINE rc == RmdirRc(l, perm, q, m, t)
               c == do_rmdir_on_ino(l, q, m, t)
    <3>0. t \in Inos /\ t # RootIno /\ IsDir(v, t) /\ Has(v, q, m, t)
      BY <2>0, <2>4
    <3>1. IsDir(l, i) /\ IsDir(l, t) /\ Has(l, q, m, t)
      BY <1>1, <2>0, <2>1, <3>0, NameFacts DEF Linked, Added, SameKinds, IsDir
    <3>2. rc # "EISDIR"
      BY DEF RmdirRc
    <3>3. r.rc = rc /\ r.vol = IF rc = "0" THEN c ELSE rename_cleanup(l, q, m, i)
      BY <3>1, <3>2 DEF rename_clobber
    <3>4. CASE rc # "0"
      <4>1. w.vol = rename_cleanup(l, q, m, i) /\ w.rc = rc
        BY <1>2, <1>7, <2>4, <3>3, <3>4
      <4>2. i # 0 /\ q # 0 /\ ~Has(v, q, m, i)
        BY <2>0, ZeroIsNoInode
      <4>3. Tree(w.vol) /\ Shrunk(v, w.vol) /\ KeptNames(v, w.vol)
        BY <1>1, <1>5, <2>0, <2>1, <4>1, <4>2, DirCleanupTree
      <4>4. Answered(v, w, p, n, q, m, i, t)
        BY <3>4, <4>1, <4>3 DEF Answered
      <4> QED BY <4>3, <4>4 DEF w, i, t, Renamed
    <3>5. CASE rc = "0"
      <4>1. w = rename_unlink_old(c, p, n, q, m, i)
        BY <1>2, <1>7, <2>4, <3>3, <3>5
      <4>2. Counted(l) /\ Kept(l) /\ Added(v, l, q, m, i) /\ SameKinds(v, l) /\ FewerUps(v, l)
        BY <2>1 DEF Linked
      <4>3. DirEmpty(l, t)
        BY <3>1, <3>5 DEF RmdirRc
      <4>4. \A j \in Inos, k \in Names : ~Has(l, t, k, j)
        BY <3>0, <4>2, <4>3, EmptyHas
      <4>5. \A d \in Inos, k \in Names : Has(l, d, k, t) => d = q /\ k = m
        <5>1. \A d \in Inos, k \in Names : Has(v, d, k, t) => d = q /\ k = m
          BY <3>0 DEF Tree, Shaped
        <5> QED BY <2>0, <3>0, <4>2, <5>1, NameFacts DEF Added
      <4>6. Counted(c)
        BY <3>0, <4>2, RmdirOnInoCounted
      <4>7. ~c.damaged
        BY <1>5, <2>0, <4>1, <4>6, UnlinkOldDamaged
      <4>8. Kept(c) /\ Rmdired(l, c, q, m, t)
        BY <3>0, <3>1, <4>2, <4>4, <4>5, <4>7, RmdirOnInoKept
      <4> HIDE DEF c
      <4>9. Cleared(v, c, q, m, i, t)
        <5>1. \A d, j \in Inos, k \in DirNames :
                Has(c, d, k, j) <=> /\ Has(v, d, k, j) \/ (d = q /\ k = m /\ j = i)
                                    /\ d # t /\ ~(d = q /\ k = m /\ j = t)
          BY <4>2, <4>8 DEF Added, Rmdired
        <5>2. /\ \A j \in Inos : j # t => c.inode[j].kind = v.inode[j].kind
              /\ ~IsDir(c, t) /\ FewerUps(v, c)
          BY <4>2, <4>8 DEF SameKinds, Rmdired, FewerUps
        <5> QED BY <4>6, <4>8, <5>1, <5>2 DEF Cleared
      <4>10. Deletable(v, q, m, t)
        <5>1. \A j \in Inos, k \in Names : ~Has(v, t, k, j)
          BY <3>0, <4>2, <4>4, NameFacts DEF Added
        <5> QED BY <3>0, <5>1 DEF Deletable
      <4>12. SameRoom(v, c, i) /\ c.freeBlocks > 0
        <5>1. SameRoom(l, c, i)
          BY <1>8, <2>0, <3>0, <4>2, RmdirOnInoRoom DEF c
        <5>2. Has(v, t, "..", q)
          BY <3>0 DEF Tree, Shaped
        <5>3. Has(l, t, "..", q)
          BY <3>0, <4>2, <5>2, NameFacts DEF Added
        <5>4. c.freeBlocks > 0
          BY <3>0, <3>1, <4>2, <5>3, RmdirOnInoFrees DEF c
        <5> QED BY <1>8, <5>1, <5>4 DEF SameRoom
      <4>11. Tree(w.vol) /\ Renamed(v, w.vol) /\ Answered(v, w, p, n, q, m, i, t)
        BY <1>1, <1>5, <4>1, <4>9, <4>10, <4>12, DirUnlinkOld
      <4> QED BY <4>11 DEF w, i, t
    <3> QED BY <3>4, <3>5
  <2> QED BY <2>3, <2>4
<1> QED BY <1>6, <1>7

LEMMA RenameTree ==
  ASSUME NEW v, Counted(v), Tree(v), ~v.damaged, NEW perm, NEW p \in Inos, NEW n \in Names,
         NEW q \in Inos, NEW m \in Names, RenameAllowed(v, p, n, q, m),
         LET i == ext2fs_lookup(v, p, n)
         IN v.inode[IF IsDir(v, i) THEN q ELSE i].links + 1 < LinkMod,
         ~do_rename(v, perm, p, n, q, m).vol.damaged
  PROVE  LET r == do_rename(v, perm, p, n, q, m)
         IN /\ Tree(r.vol) /\ Renamed(v, r.vol)
            /\ Answered(v, r, p, n, q, m, ext2fs_lookup(v, p, n), ext2fs_lookup(v, q, m))
<1>1. CASE IsDir(v, ext2fs_lookup(v, p, n))
  <2>1. v.inode[q].links + 1 < LinkMod
    BY <1>1
  <2> QED BY <1>1, <2>1, RenameDirTree
<1>2. CASE ~IsDir(v, ext2fs_lookup(v, p, n))
  <2>1. v.inode[ext2fs_lookup(v, p, n)].links + 1 < LinkMod
    BY <1>2
  <2> QED BY <1>2, <2>1, RenameFileTree
<1> QED BY <1>1, <1>2

----------------------------------------------------------------------------
(* The specification.                                                      *)

LEMMA NextVolume ==
  ASSUME NEW v, Tree(v), vol' = v
  PROVE  Tree(vol)'
<1>1. Proper(vol)'
  BY DEF Tree, Kept, Proper, IsDir, Has
<1>2. OneSlot(vol)'
  BY DEF Tree, Kept, OneSlot
<1>3. Covered(vol)'
  BY DEF Tree, Kept, Covered, Due, IsDir, Subdirs, Refs
<1>4. Shaped(vol)'
  BY DEF Tree, Shaped, IsDir, Has, Live, UpSlots
<1>5. Rooted(vol)'
  BY DEF Tree, Rooted, IsDir, Has, Live, IsAncestor
<1> QED BY <1>1, <1>2, <1>3, <1>4, <1>5 DEF Tree, Kept

LEMMA BecomeTree ==
  ASSUME NEW v, Counted(v), Become(v), ~v.damaged => Tree(v)
  PROVE  (~damaged => Tree(vol))'
<1>1. v \in Volume
  BY DEF Counted, Sound
<1>2. vol' = v /\ damaged' = v.damaged
  BY <1>1 DEF Become, vol, Volume
<1> QED BY <1>2, NextVolume

LEMMA InitTree ==
  ASSUME Init
  PROVE  Tree(vol)
<1> DEFINE v == vol
<1>0. Counted(v)
  BY InitCounted
<1>1. /\ \A d \in Inos, s \in Slots : v.ent[d][s] = IF d = RootIno THEN NewDirEntries(d, d)[s]
                                                    ELSE Unused
      /\ \A i \in Inos : v.inode[i] = IF i = RootIno THEN [kind |-> "dir", links |-> 2, blocks |-> 1]
                                      ELSE NoInode
  BY DEF Init, vol
<1> DEFINE es == NewDirEntries(RootIno, RootIno)
           ip == [kind |-> "dir", links |-> 2, blocks |-> 1]
<1>2. RootIno \in Inos /\ ip.kind = "dir" /\ ip.links = 2 /\ NoInode.kind = "none" /\ NoInode.links = 0
  BY InoFacts DEF NoInode
<1>3. NewContents(RootIno, ip, es)
  BY <1>2, NewDirContents
<1>4. \A s \in Slots : es[s].ino # 0 => es[s].ino = RootIno /\ es[s].name \in {".", ".."}
  <2> TAKE s \in Slots
  <2>1. \/ es[s] = [name |-> ".", ino |-> RootIno]
        \/ es[s] = [name |-> "..", ino |-> RootIno]
        \/ es[s] = Unused
    BY DEF NewDirEntries
  <2>2. es[s].ino \in {RootIno, 0}
    <3>1. CASE es[s] = [name |-> ".", ino |-> RootIno]
      BY <3>1
    <3>2. CASE es[s] = [name |-> "..", ino |-> RootIno]
      BY <3>2
    <3>3. CASE es[s] = Unused
      BY <3>3, UnusedIs
    <3> QED BY <2>1, <3>1, <3>2, <3>3
  <2> QED BY <1>3, <2>2 DEF NewContents
<1>5. \A d \in Inos, s \in Slots : v.ent[d][s].ino # 0 => d = RootIno /\ v.ent[d][s] = es[s]
  BY <1>1, UnusedIs
<1>6. /\ \A i \in Inos : IsDir(v, i) <=> i = RootIno
      /\ v.inode[RootIno].links = 2 /\ \A i \in Inos : i # RootIno => v.inode[i].links = 0
  BY <1>1, <1>2 DEF IsDir
<1> HIDE DEF v, es, ip
<1>7. \A d, i \in Inos : \A k : Has(v, d, k, i) => d = RootIno /\ i = RootIno /\ k \in {".", ".."}
  <2> SUFFICES ASSUME NEW d \in Inos, NEW i \in Inos, NEW s \in Slots, v.ent[d][s].ino = i
               PROVE  d = RootIno /\ i = RootIno /\ v.ent[d][s].name \in {".", ".."}
    BY DEF Has
  <2> QED BY <1>4, <1>5, ZeroIsNoInode
<1>8. \A d, i \in Inos, k \in Names : ~Has(v, d, k, i)
  BY <1>7, NameFacts
<1>9. Kept(v)
  <2>1. Proper(v)
    <3>1. \A d \in Inos, s \in Slots : v.ent[d][s].ino # 0 => v.ent[d][s].name \in DirNames
      BY <1>4, <1>5, NameFacts
    <3> QED BY <1>6, <1>7, <1>8, <3>1 DEF Proper
  <2>2. OneSlot(v)
    BY <1>3, <1>5 DEF OneSlot, NewContents
  <2>3. Covered(v)
    <3> SUFFICES ASSUME NEW i \in Inos PROVE v.inode[i].links >= Due(v, i)
      BY DEF Covered
    <3>1. Refs(v, i) = {}
      BY <1>8 DEF Refs, Has
    <3>2. Subdirs(v, i) = {}
      BY <1>4, <1>5, NameFacts DEF Subdirs
    <3>3. Due(v, i) = IF IsDir(v, i) THEN 2 ELSE 0
      BY <3>1, <3>2, FS_EmptySet DEF Due
    <3> QED BY <1>6, <3>3
  <2> QED BY <2>1, <2>2, <2>3 DEF Kept
<1>10. Shaped(v)
  <2>1. \A d \in Inos : \A s, t \in UpSlots(v, d) : s = t
    BY <1>3, <1>5 DEF UpSlots, NewContents
  <2> QED BY <1>8, <2>1 DEF Shaped
<1>11. Rooted(v)
  <2>1. \A d \in Inos : Live(v, d) => d = RootIno
    BY <1>6 DEF Live
  <2> QED BY <2>1 DEF Rooted, IsAncestor
<1> QED BY <1>9, <1>10, <1>11 DEF Tree, v

LEMMA NamedKind ==
  ASSUME NEW v, Counted(v), Tree(v), NEW i \in Inos, Named(v, i)
  PROVE  v.inode[i].kind # "none"
<1>0. PICK d \in Inos : \E s \in DirSlots(v, d) : v.ent[d][s].ino = i /\ v.ent[d][s].name \in Names
  BY DEF Named
<1>1. PICK s \in DirSlots(v, d) : v.ent[d][s].ino = i /\ v.ent[d][s].name \in Names
  BY <1>0
<1>2. s \in Slots
  BY DirSlotsAreSlots DEF Counted, Sound
<1>3. Has(v, d, v.ent[d][s].name, i)
  BY <1>1, <1>2 DEF Has
<1> QED BY <1>1, <1>3, NameFacts DEF Tree, Kept, Proper

LEMMA FreeNameHas ==
  ASSUME NEW v, Counted(v), NEW p \in Inos, NEW n \in Names, FreeName(v, p, n)
  PROVE  Live(v, p) /\ p \in v.imap /\ \A j \in Inos : ~Has(v, p, n, j)
BY LiveIs, LiveMarked, LookupHas DEF FreeName

LEMMA NextTree ==
  ASSUME Counted(vol), ~damaged => Tree(vol), LinkBound < LinkMod, [Next]_vars
  PROVE  (~damaged => Tree(vol))'
<1>0. vol.damaged = damaged /\ vol.inode = inode
  BY DEF vol
<1>9. \A i \in Inos : inode[i].links < LinkBound => vol.inode[i].links + 1 < LinkMod
  <2> TAKE i \in Inos
  <2>1. vol.inode[i].links \in Nat
    BY LinksType
  <2> QED BY <1>0, <2>1, SizesAssumption
<1>1. ASSUME NEW p \in Inos, NEW n \in Names, op_create(p, n)
      PROVE  (~damaged => Tree(vol))'
  <2>1. PICK perm \in BOOLEAN : Become(create_request(vol, perm, p, n).vol)
    BY <1>1 DEF op_create
  <2>2. ~damaged /\ Tree(vol) /\ FreeName(vol, p, n)
    BY <1>1 DEF op_create
  <2>3. Counted(do_create(vol, p, n, "file").vol) /\ Tree(do_create(vol, p, n, "file").vol)
    BY <2>2, FreeNameHas, CreateCounted, CreateTree
  <2>4. Counted(create_request(vol, perm, p, n).vol) /\ Tree(create_request(vol, perm, p, n).vol)
    BY <2>2, <2>3 DEF create_request
  <2> QED BY <2>1, <2>4, BecomeTree
<1>2. ASSUME NEW p \in Inos, NEW n \in Names, op_symlink(p, n)
      PROVE  (~damaged => Tree(vol))'
  <2>1. PICK perm \in BOOLEAN : Become(symlink_request(vol, perm, p, n).vol)
    BY <1>2 DEF op_symlink
  <2>2. ~damaged /\ Tree(vol) /\ FreeName(vol, p, n)
    BY <1>2 DEF op_symlink
  <2>3. Live(vol, p) /\ p \in vol.imap /\ \A j \in Inos : ~Has(vol, p, n, j)
    BY <2>2, FreeNameHas
  <2>4. Counted(symlink_request(vol, perm, p, n).vol) /\ Tree(symlink_request(vol, perm, p, n).vol)
    BY <2>2, <2>3, SymlinkCounted, SymlinkTree
  <2> QED BY <2>1, <2>4, BecomeTree
<1>3. ASSUME NEW p \in Inos, NEW n \in Names, op_mkdir(p, n)
      PROVE  (~damaged => Tree(vol))'
  <2>1. PICK perm \in BOOLEAN : Become(do_mkdir(vol, perm, p, n).vol)
    BY <1>3 DEF op_mkdir
  <2>2. ~damaged /\ Tree(vol) /\ FreeName(vol, p, n) /\ vol.inode[p].links + 1 < LinkMod
    BY <1>3, <1>9 DEF op_mkdir
  <2>3. Live(vol, p) /\ p \in vol.imap /\ \A j \in Inos : ~Has(vol, p, n, j)
    BY <2>2, FreeNameHas
  <2>4. Counted(do_mkdir(vol, perm, p, n).vol) /\ Tree(do_mkdir(vol, perm, p, n).vol)
    BY <2>2, <2>3, MkdirCounted, MkdirTree
  <2> QED BY <2>1, <2>4, BecomeTree
<1>4. ASSUME NEW p \in Inos, NEW n \in Names, op_link(p, n)
      PROVE  (~damaged => Tree(vol))'
  <2>1. PICK i \in Inos, perm \in BOOLEAN :
          /\ Named(vol, i) /\ ~IsDir(vol, i) /\ inode[i].links < LinkBound
          /\ Become(IF perm THEN link_request(vol, i, p, n).vol ELSE vol)
    BY <1>4 DEF op_link
  <2>2. ~damaged /\ Tree(vol) /\ FreeName(vol, p, n)
    BY <1>4 DEF op_link
  <2>3. Live(vol, p) /\ p \in vol.imap /\ \A j \in Inos : ~Has(vol, p, n, j)
    BY <2>2, FreeNameHas
  <2>4. i # RootIno /\ vol.inode[i].kind # "none" /\ vol.inode[i].links + 1 < LinkMod
    BY <1>9, <2>1, <2>2, NamedKind DEF Counted
  <2>5. Counted(link_request(vol, i, p, n).vol) /\ Tree(link_request(vol, i, p, n).vol)
    BY <2>1, <2>2, <2>3, <2>4, LinkRequestCounted, LinkTree
  <2> QED BY <2>1, <2>2, <2>5, BecomeTree
<1>5. ASSUME NEW p \in Inos, NEW n \in Names, op_unlink(p, n)
      PROVE  (~damaged => Tree(vol))'
  <2>1. PICK perm \in BOOLEAN :
          Become(IF perm THEN do_unlink(vol, p, n, -1) ELSE vol)
    BY <1>5 DEF op_unlink
  <2>2. ~damaged /\ Tree(vol) /\ ~IsDir(vol, ext2fs_lookup(vol, p, n))
    BY <1>5 DEF op_unlink
  <2>3. Counted(do_unlink(vol, p, n, -1))
    BY DoUnlinkCounted
  <2>4. ~do_unlink(vol, p, n, -1).damaged => Tree(do_unlink(vol, p, n, -1))
    BY <2>2, UnlinkTree
  <2> QED BY <2>1, <2>2, <2>3, <2>4, BecomeTree
<1>6. ASSUME NEW p \in Inos, NEW n \in Names, op_rmdir(p, n)
      PROVE  (~damaged => Tree(vol))'
  <2>1. PICK perm \in BOOLEAN : Become(do_rmdir(vol, perm, p, n).vol)
    BY <1>6 DEF op_rmdir
  <2>2. ~damaged /\ Tree(vol)
    BY <1>6 DEF op_rmdir
  <2> DEFINE w == do_rmdir(vol, perm, p, n).vol
  <2>3. Counted(w) /\ (~w.damaged => Tree(w))
    BY <2>2, DoRmdirCounted, RmdirTree
  <2> HIDE DEF w
  <2>4. Become(w)
    BY <2>1 DEF w
  <2> QED BY <2>3, <2>4, BecomeTree
<1>7. ASSUME NEW p \in Inos, NEW n \in Names, op_rename(p, n)
      PROVE  (~damaged => Tree(vol))'
  <2>1. PICK q \in Inos, m \in Names, perm \in {"none", "parents", "target"} :
          /\ RenameAllowed(vol, p, n, q, m)
          /\ LET i == ext2fs_lookup(vol, p, n)
             IN inode[IF IsDir(vol, i) THEN q ELSE i].links < LinkBound
          /\ Become(IF perm = "none" THEN vol
                    ELSE do_rename(vol, perm = "target", p, n, q, m).vol)
    BY <1>7 DEF op_rename
  <2>2. ~damaged /\ Tree(vol)
    BY <1>7 DEF op_rename
  <2> DEFINE allowed == perm = "target"
             w == do_rename(vol, allowed, p, n, q, m).vol
  <2> HIDE DEF allowed
  <2>3. Counted(w)
    <3>1. q \in vol.imap
      BY <2>1, LiveMarked DEF RenameAllowed
    <3> QED BY <3>1, RenameCounted
  <2>4. ~w.damaged => Tree(w)
    <3>1. vol.inode[IF IsDir(vol, ext2fs_lookup(vol, p, n)) THEN q
                    ELSE ext2fs_lookup(vol, p, n)].links + 1 < LinkMod
      BY <1>9, <2>1, LookupHas DEF RenameAllowed, UsedName
    <3> QED BY <1>0, <2>1, <2>2, <3>1, RenameTree
  <2>5. Become(IF perm = "none" THEN vol ELSE w)
    BY <2>1 DEF allowed
  <2> HIDE DEF w
  <2> QED BY <2>2, <2>3, <2>4, <2>5, BecomeTree
<1>8. CASE UNCHANGED vars
  <2>1. vol' = vol /\ damaged' = damaged
    BY <1>8 DEF vars, vol
  <2> QED BY <2>1, NextVolume
<1> QED BY <1>1, <1>2, <1>3, <1>4, <1>5, <1>6, <1>7, <1>8 DEF Next

(* While requests count no further than i_links_count can and no entry was *)
(* damaged, the invariant above holds between requests: no do_create,      *)
(* do_mkdir, op_link, do_unlink, do_rmdir or do_rename, finished or given  *)
(* up half way, breaks it.                                                 *)
THEOREM NamespaceTree ==
  ASSUME LinkBound < LinkMod
  PROVE  Spec => [](~damaged => Tree(vol))
<1>1. Init => (~damaged => Tree(vol))
  BY InitTree
<1>2. Counted(vol) /\ (~damaged => Tree(vol)) /\ [Next]_vars => (~damaged => Tree(vol))'
  BY NextTree
<1> QED BY <1>1, <1>2, NamespaceCounted, PTL DEF Spec

LEMMA TreeNoDangling ==
  ASSUME Counted(vol), Tree(vol)
  PROVE  NoDanglingEntry
<1> DEFINE v == vol
<1>0. v.ent = ent /\ v.inode = inode /\ v.imap = imap /\ Counted(v) /\ Tree(v)
  BY DEF vol
<1> HIDE DEF v
<1> SUFFICES ASSUME NEW d \in Inos, Live(v, d), NEW s \in Slots, v.ent[d][s].ino # 0
             PROVE  v.ent[d][s].ino \in v.imap /\ v.inode[v.ent[d][s].ino].links > 0
  BY <1>0, LiveIs DEF NoDanglingEntry, v
<1> DEFINE i == v.ent[d][s].ino
           n == v.ent[d][s].name
<1>1. i \in Inos /\ n \in DirNames /\ Has(v, d, n, i)
  <2>1. i \in Inos
    BY <1>0, EntryTypes
  <2>2. n \in DirNames
    BY <1>0 DEF Tree, Kept, Proper
  <2> QED BY <2>1, <2>2 DEF Has
<1>2. <<d, s>> \in Inos \X Slots /\ v.ent[<<d, s>>[1]][<<d, s>>[2]] = v.ent[d][s]
  OBVIOUS
<1> HIDE DEF i, n
<1>3. ASSUME NEW j \in Inos, IsDir(v, j)
      PROVE  v.inode[j].kind # "none" /\ v.inode[j].links > 0
  <2>1. Cardinality(Subdirs(v, j)) \in Nat
    BY RefsFinite, FS_CardinalityType
  <2>2. v.inode[j].links \in Nat /\ v.inode[j].links >= 2 + Cardinality(Subdirs(v, j))
    BY <1>0, <1>3, LinksType DEF Tree, Kept, Covered, Due
  <2> QED BY <1>3, <2>1, <2>2 DEF IsDir
<1>4. v.inode[i].kind # "none" /\ v.inode[i].links > 0
  <2>1. CASE IsDir(v, i)
    BY <1>1, <1>3, <2>1
  <2>2. CASE ~IsDir(v, i)
    <3>1. n \in Names
      <4>1. n # "."
        BY <1>0, <1>1, <2>2 DEF Tree, Kept, Proper, Live
      <4>2. n # ".."
        BY <1>0, <1>1, <2>2, LiveParent DEF Tree, Kept, Live
      <4> QED BY <1>1, <4>1, <4>2 DEF DirNames
    <3>2. v.inode[i].kind # "none"
      BY <1>0, <1>1, <3>1 DEF Tree, Kept, Proper
    <3>3. <<d, s>> \in Refs(v, i)
      BY <1>2, <3>1 DEF Refs, i, n
    <3>4. Cardinality(Refs(v, i)) > 0
      BY <3>3, RefsFinite, FS_CardinalityType, FS_EmptySet
    <3>5. v.inode[i].links \in Nat /\ v.inode[i].links >= Cardinality(Refs(v, i))
      BY <1>0, <1>1, <2>2, LinksType DEF Tree, Kept, Covered, Due
    <3>6. Cardinality(Refs(v, i)) \in Nat
      BY RefsFinite, FS_CardinalityType
    <3> QED BY <3>2, <3>4, <3>5, <3>6
  <2> QED BY <2>1, <2>2
<1>5. i \in v.imap
  BY <1>0, <1>1, <1>4 DEF Counted
<1> QED BY <1>4, <1>5 DEF i

(* No entry of a directory that a user can reach leads to an inode that    *)
(* kill_file_by_inode has freed, or whose i_links_count is already zero.   *)
THEOREM NamespaceNoDangling ==
  ASSUME LinkBound < LinkMod
  PROVE  Spec => []NoDangling
<1>1. Counted(vol) /\ (~damaged => Tree(vol)) => NoDangling
  BY TreeNoDangling DEF NoDangling
<1> QED BY <1>1, NamespaceCounted, NamespaceTree, PTL

(* i_links_count of a file is never below the number of its names, and     *)
(* that of a directory never below two plus its subdirectories, though     *)
(* op_link, do_mkdir and do_rename raise it in one step and write the      *)
(* entry in another, and give up in between.                               *)
THEOREM NamespaceLinkCountsCover ==
  ASSUME LinkBound < LinkMod
  PROVE  Spec => []LinkCountsCover
<1>1. Counted(vol) /\ (~damaged => Tree(vol)) => LinkCountsCover
  <2> SUFFICES ASSUME Counted(vol), ~damaged => Tree(vol) PROVE LinkCountsCover
    OBVIOUS
  <2>1. imap \in SUBSET Inos /\ vol.inode = inode
    <3>1. vol \in Volume
      BY DEF Counted, Sound
    <3> QED BY <3>1, VolumeFields DEF vol
  <2>2. ASSUME ~damaged, NEW i \in Inos PROVE inode[i].links >= Due(vol, i)
    BY <2>1, <2>2 DEF Tree, Kept, Covered
  <2>3. LinksCoverNames
    BY <2>1, <2>2 DEF LinksCoverNames, Due
  <2>4. DirLinksCoverSubdirs
    BY <2>1, <2>2 DEF DirLinksCoverSubdirs, Due
  <2> QED BY <2>3, <2>4 DEF LinkCountsCover
<1> QED BY <1>1, NamespaceCounted, NamespaceTree, PTL

LEMMA TreeIsShaped ==
  ASSUME Counted(vol), Tree(vol)
  PROVE  TreeShape
<1> DEFINE v == vol
<1>0. v.ent = ent /\ Counted(v) /\ Tree(v)
  BY DEF vol
<1> HIDE DEF v
<1>1. ASSUME NEW d \in Inos, NEW s \in Slots, v.ent[d][s].ino # 0
      PROVE  /\ v.ent[d][s].ino \in Inos /\ v.ent[d][s].name \in DirNames
             /\ Has(v, d, v.ent[d][s].name, v.ent[d][s].ino)
  <2>1. v.ent[d][s].ino \in Inos
    BY <1>0, <1>1, EntryTypes
  <2>2. v.ent[d][s].name \in DirNames
    BY <1>0, <1>1 DEF Tree, Kept, Proper
  <2> QED BY <2>1, <2>2 DEF Has
<1>2. ASSUME NEW d \in Inos, NEW s \in Slots, NEW t \in Slots,
             v.ent[d][s].ino # 0, v.ent[d][t].ino # 0, v.ent[d][s].name = v.ent[d][t].name
      PROVE  s = t
  <2>1. CASE v.ent[d][s].name = ".."
    <3>1. s \in UpSlots(v, d) /\ t \in UpSlots(v, d)
      BY <1>2, <2>1 DEF UpSlots
    <3> QED BY <1>0, <3>1 DEF Tree, Shaped
  <2>2. CASE v.ent[d][s].name # ".."
    <3>0. /\ v.ent[d][s].ino \in Inos /\ Has(v, d, v.ent[d][s].name, v.ent[d][s].ino)
          /\ v.ent[d][t].ino \in Inos /\ Has(v, d, v.ent[d][s].name, v.ent[d][t].ino)
          /\ v.ent[d][s].name \in DirNames
      <4>1. Has(v, d, v.ent[d][t].name, v.ent[d][t].ino) /\ v.ent[d][t].ino \in Inos
        BY <1>1, <1>2
      <4> QED BY <1>1, <1>2, <4>1
    <3>1. v.ent[d][s].ino = v.ent[d][t].ino
      <4>1. CASE v.ent[d][s].name = "."
        BY <1>0, <3>0, <4>1 DEF Tree, Kept, Proper
      <4>2. CASE v.ent[d][s].name \in Names
        BY <1>0, <3>0, <4>2 DEF Tree, Shaped
      <4> QED BY <2>2, <3>0, <4>1, <4>2 DEF DirNames
    <3> QED BY <1>0, <1>2, <2>2, <3>1 DEF Tree, Kept, OneSlot
  <2> QED BY <2>1, <2>2
<1>3. UniqueNames
  BY <1>0, <1>2 DEF UniqueNames
<1>4. ASSUME NEW d \in Inos, NEW s \in Slots, v.ent[d][s].ino # 0, v.ent[d][s].name \in Names,
             IsDir(v, v.ent[d][s].ino)
      PROVE  Refs(v, v.ent[d][s].ino) = {<<d, s>>} /\ ext2fs_lookup(v, v.ent[d][s].ino, "..") = d
  <2> DEFINE i == v.ent[d][s].ino
             n == v.ent[d][s].name
             a == ext2fs_lookup(v, i, "..")
  <2>1. i \in Inos /\ n \in Names /\ Has(v, d, n, i) /\ IsDir(v, i)
    BY <1>1, <1>4
  <2>2. ASSUME NEW c \in Inos, NEW t \in Slots, v.ent[c][t].ino = i, v.ent[c][t].name \in Names
        PROVE  c = d /\ t = s
    <3>1. Has(v, c, v.ent[c][t].name, i)
      BY <2>2 DEF Has
    <3>2. c = d /\ v.ent[c][t].name = n
      BY <1>0, <2>1, <2>2, <3>1 DEF Tree, Shaped
    <3>3. v.ent[d][t].ino # 0 /\ v.ent[d][s].name = v.ent[d][t].name
      BY <1>4, <2>2, <3>2
    <3> QED BY <1>2, <1>4, <3>2, <3>3
  <2>3. Refs(v, i) = {<<d, s>>}
    <3>1. <<d, s>> \in Refs(v, i)
      BY <2>1 DEF Refs
    <3>2. \A r \in Refs(v, i) : r = <<d, s>>
      <4> SUFFICES ASSUME NEW r \in Refs(v, i) PROVE r = <<d, s>>
        OBVIOUS
      <4>1. /\ r[1] \in Inos /\ r[2] \in Slots /\ r = <<r[1], r[2]>>
            /\ v.ent[r[1]][r[2]].ino = i /\ v.ent[r[1]][r[2]].name \in Names
        BY DEF Refs
      <4>2. r[1] = d /\ r[2] = s
        BY <2>2, <4>1
      <4> QED BY <4>1, <4>2
    <3> QED BY <3>1, <3>2
  <2>4. Has(v, i, "..", d)
    BY <1>0, <2>1 DEF Tree, Shaped
  <2>5. a \in Inos /\ Has(v, i, "..", a)
    BY <1>0, <2>1, <2>4, LookupHas
  <2> HIDE DEF a, i, n
  <2>6. PICK t \in Slots : v.ent[i][t].name = ".." /\ v.ent[i][t].ino = d
    BY <2>4 DEF Has
  <2>7. PICK u \in Slots : v.ent[i][u].name = ".." /\ v.ent[i][u].ino = a
    BY <2>5 DEF Has
  <2>8. v.ent[i][t].ino # 0 /\ v.ent[i][u].ino # 0
    BY <2>5, <2>6, <2>7, ZeroIsNoInode
  <2>9. t = u
    BY <1>2, <2>1, <2>6, <2>7, <2>8
  <2>10. a = d
    BY <2>6, <2>7, <2>9
  <2> QED BY <2>3, <2>10 DEF a, i
<1>5. DotDotIsParent
  BY <1>0, <1>4 DEF DotDotIsParent, v
<1>6. Connected
  BY <1>0, LiveIs DEF Connected, Tree, Rooted, v
<1> QED BY <1>3, <1>5, <1>6 DEF TreeShape

(* Whatever sequence of requests is run, a directory holds one entry of a  *)
(* name, a directory has one name and its ".." is the directory that holds *)
(* it, and following ".." leads to the root: do_rename, which links the    *)
(* new name and repoints ".." before it removes the old one, cuts nothing  *)
(* off and closes no cycle.                                                *)
THEOREM NamespaceTreeShape ==
  ASSUME LinkBound < LinkMod
  PROVE  Spec => []TreeShape
<1>1. Counted(vol) /\ (~damaged => Tree(vol)) => TreeShape
  BY TreeIsShaped DEF TreeShape, UniqueNames, DotDotIsParent, Connected
<1> QED BY <1>1, NamespaceCounted, NamespaceTree, PTL

----------------------------------------------------------------------------
(* Every request is an operation of NameTree.                              *)

LEMMA NameIn ==
  ASSUME NEW v, Counted(v), NEW d, NEW n, NEW i
  PROVE  <<d, n, i>> \in NamesOf(v) <=>
           d \in Inos /\ n \in Names /\ i \in Inos /\ Has(v, d, n, i)
<1>1. ASSUME <<d, n, i>> \in NamesOf(v)
      PROVE  d \in Inos /\ n \in Names /\ i \in Inos /\ Has(v, d, n, i)
  <2>1. PICK r \in Inos \X Slots :
          /\ v.ent[r[1]][r[2]].ino # 0 /\ v.ent[r[1]][r[2]].name \in Names
          /\ <<d, n, i>> = <<r[1], v.ent[r[1]][r[2]].name, v.ent[r[1]][r[2]].ino>>
    BY <1>1 DEF NamesOf
  <2>2. /\ r[1] \in Inos /\ r[2] \in Slots /\ d = r[1]
        /\ v.ent[d][r[2]].name = n /\ v.ent[d][r[2]].ino = i /\ i # 0 /\ n \in Names
    BY <2>1
  <2>3. i \in Inos \cup {0}
    BY <2>2, EntryTypes
  <2> QED BY <2>2, <2>3 DEF Has
<1>2. ASSUME d \in Inos, n \in Names, i \in Inos, Has(v, d, n, i)
      PROVE  <<d, n, i>> \in NamesOf(v)
  <2>1. PICK s \in Slots : v.ent[d][s].name = n /\ v.ent[d][s].ino = i
    BY <1>2 DEF Has
  <2> DEFINE r == <<d, s>>
  <2>2. r \in Inos \X Slots /\ r[1] = d /\ r[2] = s
    BY <1>2
  <2>3. /\ v.ent[r[1]][r[2]].ino # 0 /\ v.ent[r[1]][r[2]].name \in Names
        /\ <<d, n, i>> = <<r[1], v.ent[r[1]][r[2]].name, v.ent[r[1]][r[2]].ino>>
    BY <1>2, <2>1, <2>2, ZeroIsNoInode
  <2> HIDE DEF r
  <2> QED BY <2>2, <2>3 DEF NamesOf
<1> QED BY <1>1, <1>2

LEMMA NameIs ==
  ASSUME NEW v, Counted(v), NEW x \in NamesOf(v)
  PROVE  /\ x[1] \in Inos /\ x[2] \in Names /\ x[3] \in Inos /\ x = <<x[1], x[2], x[3]>>
         /\ Has(v, x[1], x[2], x[3])
<1>1. PICK d, n, i : x = <<d, n, i>>
  BY DEF NamesOf
<1>2. x[1] = d /\ x[2] = n /\ x[3] = i
  BY <1>1
<1> QED BY <1>1, <1>2, NameIn

(* What has a name, and the root.                                          *)
NamedIn(v) == {i \in Inos : i = RootIno \/ \E d \in Inos, n \in Names : Has(v, d, n, i)}

LEMMA LiveAre ==
  ASSUME NEW v, Counted(v)
  PROVE  /\ {RootIno} \cup {x[3] : x \in NamesOf(v)} = NamedIn(v)
         /\ NT!Live(NamesOf(v)) = NamedIn(v)
<1>1. ASSUME NEW i \in {x[3] : x \in NamesOf(v)} PROVE i \in NamedIn(v)
  <2>1. PICK x \in NamesOf(v) : i = x[3]
    BY <1>1
  <2> QED BY <2>1, NameIs DEF NamedIn
<1>2. ASSUME NEW i \in NamedIn(v), i # RootIno PROVE i \in {x[3] : x \in NamesOf(v)}
  <2>1. PICK d \in Inos, n \in Names : Has(v, d, n, i) /\ i \in Inos
    BY <1>2 DEF NamedIn
  <2>2. <<d, n, i>> \in NamesOf(v) /\ <<d, n, i>>[3] = i
    BY <2>1, NameIn
  <2> HIDE DEF NamedIn
  <2> QED BY <2>2
<1>3. RootIno \in NamedIn(v)
  BY InoFacts DEF NamedIn
<1>4. {RootIno} \cup {x[3] : x \in NamesOf(v)} = NamedIn(v)
  BY <1>1, <1>2, <1>3
<1> QED BY <1>4 DEF NT!Live

LEMMA KindsAre ==
  ASSUME NEW v, Counted(v)
  PROVE  LiveKinds(v) = [i \in NamedIn(v) |-> v.inode[i].kind]
BY LiveAre DEF LiveKinds

(* The volume after a step, as the refinement mapping has it.              *)
LEMMA MappedNext ==
  ASSUME NEW w, vol' = w
  PROVE  NamesOf(vol)' = NamesOf(w) /\ LiveKinds(vol)' = LiveKinds(w)
<1>1. NamesOf(vol)' = NamesOf(w)
  BY DEF NamesOf
<1>2. LiveKinds(vol)' = LiveKinds(w)
  BY <1>1 DEF LiveKinds
<1> QED BY <1>1, <1>2

(* What has a name in both volumes keeps its type.                         *)
LEMMA NamedKept ==
  ASSUME NEW v, Counted(v), Tree(v), NEW w, Counted(w),
         GrownKinds(v, w) \/ NamedKinds(v, w), NEW i \in NamedIn(v), i \in NamedIn(w)
  PROVE  w.inode[i].kind = v.inode[i].kind
<1>1. CASE i = RootIno
  BY <1>1 DEF Counted, IsDir
<1>2. CASE i # RootIno
  <2>1. /\ i \in Inos /\ \E d \in Inos, n \in Names : Has(v, d, n, i)
        /\ \E d \in Inos, n \in Names : Has(w, d, n, i)
    BY <1>2 DEF NamedIn
  <2>2. v.inode[i].kind # "none"
    BY <2>1, NameFacts DEF Tree, Kept, Proper
  <2> QED BY <2>1, <2>2 DEF GrownKinds, NamedKinds
<1> QED BY <1>1, <1>2

LEMMA KeptNamesOf ==
  ASSUME NEW v, Counted(v), NEW w, Counted(w), KeptNames(v, w)
  PROVE  NamesOf(w) = NamesOf(v)
<1>1. ASSUME NEW x \in NamesOf(w) PROVE x \in NamesOf(v)
  <2>1. /\ x[1] \in Inos /\ x[2] \in Names /\ x[3] \in Inos /\ x = <<x[1], x[2], x[3]>>
        /\ Has(w, x[1], x[2], x[3])
    BY NameIs
  <2> QED BY <2>1, NameIn DEF KeptNames
<1>2. ASSUME NEW x \in NamesOf(v) PROVE x \in NamesOf(w)
  <2>1. /\ x[1] \in Inos /\ x[2] \in Names /\ x[3] \in Inos /\ x = <<x[1], x[2], x[3]>>
        /\ Has(v, x[1], x[2], x[3])
    BY NameIs
  <2> QED BY <2>1, NameIn DEF KeptNames
<1> QED BY <1>1, <1>2

(* Nothing is seen of a step that keeps the names.                         *)
LEMMA SameMapped ==
  ASSUME NEW v, Counted(v), Tree(v), NEW w, Counted(w), KeptNames(v, w),
         GrownKinds(v, w) \/ NamedKinds(v, w)
  PROVE  NamesOf(w) = NamesOf(v) /\ LiveKinds(w) = LiveKinds(v)
<1>1. NamesOf(w) = NamesOf(v)
  BY KeptNamesOf
<1>2. NamedIn(w) = NamedIn(v)
  BY DEF NamedIn, KeptNames
<1>3. \A i \in NamedIn(v) : w.inode[i].kind = v.inode[i].kind
  BY <1>2, NamedKept
<1> QED BY <1>1, <1>2, <1>3, KindsAre

(* A live directory, and a free name in it, as NameTree sees them.         *)
LEMMA LiveMapped ==
  ASSUME Counted(vol), NEW d \in Inos, Live(vol, d)
  PROVE  NT!IsLiveDir(d)
<1>1. d \in NamedIn(vol) /\ vol.inode[d].kind = "dir"
  BY DEF Live, NamedIn, IsDir
<1>2. LiveKinds(vol)[d] = "dir"
  BY <1>1, KindsAre
<1> QED BY <1>1, <1>2, LiveAre DEF NT!IsLiveDir

LEMMA UnusedMapped ==
  ASSUME Counted(vol), NEW d, NEW n, \A j \in Inos : ~Has(vol, d, n, j)
  PROVE  NT!Unused(d, n)
BY NameIn DEF NT!Unused

(* A new name: an object that had none is created, or one that had is      *)
(* linked.                                                                 *)
LEMMA AddedMapped ==
  ASSUME Counted(vol), Tree(vol), NEW w, Counted(w), Tree(w), vol' = w,
         NEW d \in Inos, NEW n \in Names, Live(vol, d), \A j \in Inos : ~Has(vol, d, n, j),
         GrownKinds(vol, w), NEW i \in Inos, NameAdded(vol, w, d, n, i)
  PROVE  NT!TreeNext
<1>1. NamesOf(vol)' = NamesOf(w) /\ LiveKinds(vol)' = LiveKinds(w)
  BY MappedNext
<1> DEFINE v == vol
           k == w.inode[i].kind
<1>2. Counted(v) /\ Tree(v) /\ GrownKinds(v, w) /\ NameAdded(v, w, d, n, i)
  OBVIOUS
<1>3. NT!IsLiveDir(d) /\ NT!Unused(d, n)
  BY LiveMapped, UnusedMapped
<1>4. NamesOf(w) = NamesOf(v) \cup {<<d, n, i>>}
  <2> HIDE DEF v
  <2>1. ASSUME NEW x \in NamesOf(w) PROVE x \in NamesOf(v) \cup {<<d, n, i>>}
    <3>1. /\ x[1] \in Inos /\ x[2] \in Names /\ x[3] \in Inos /\ x = <<x[1], x[2], x[3]>>
          /\ Has(w, x[1], x[2], x[3])
      BY NameIs
    <3> QED BY <1>2, <3>1, NameIn DEF NameAdded
  <2>2. ASSUME NEW x \in NamesOf(v) PROVE x \in NamesOf(w)
    <3>1. /\ x[1] \in Inos /\ x[2] \in Names /\ x[3] \in Inos /\ x = <<x[1], x[2], x[3]>>
          /\ Has(v, x[1], x[2], x[3])
      BY <1>2, NameIs
    <3> QED BY <1>2, <3>1, NameIn DEF NameAdded
  <2>3. <<d, n, i>> \in NamesOf(w)
    BY <1>2, NameIn DEF NameAdded
  <2> QED BY <2>1, <2>2, <2>3
<1>5. NamedIn(w) = NamedIn(v) \cup {i}
  <2> HIDE DEF v
  <2> QED BY <1>2 DEF NamedIn, NameAdded
<1>6. \A o \in NamedIn(v) : w.inode[o].kind = v.inode[o].kind
  <2> HIDE DEF v
  <2> QED BY <1>2, <1>5, NamedKept
<1>7. k \in NT!KindSet
  <2>1. Has(w, d, n, i)
    BY DEF NameAdded
  <2>2. k # "none"
    BY <2>1, NameFacts DEF Tree, Kept, Proper
  <2>3. k \in Kinds
    BY DEF Counted, Sound, Volume, Inode
  <2> QED BY <2>2, <2>3 DEF NT!KindSet, Kinds
<1>8. CASE i \notin NamedIn(v)
  <2>1. LiveKinds(w) = [o \in NamedIn(w) |-> IF o = i THEN k ELSE LiveKinds(v)[o]]
    <3> HIDE DEF v
    <3>1. \A o \in NamedIn(w) : w.inode[o].kind = IF o = i THEN k ELSE LiveKinds(v)[o]
      BY <1>2, <1>5, <1>6, KindsAre
    <3> QED BY <3>1, KindsAre
  <2>2. NT!KindsAfter(NamesOf(w), i, k) = [o \in NamedIn(w) |-> IF o = i THEN k ELSE LiveKinds(v)[o]]
    BY LiveAre DEF NT!KindsAfter
  <2>3. NT!Create(d, n, i, k)
    BY <1>1, <1>3, <1>4, <1>8, <2>1, <2>2, LiveAre DEF NT!Create, NT!KindsAfter
  <2> QED BY <1>7, <2>3 DEF NT!TreeNext
<1>9. CASE i \in NamedIn(v)
  <2>1. LiveKinds(w) = LiveKinds(v)
    <3> HIDE DEF v
    <3>1. NamedIn(w) = NamedIn(v)
      BY <1>5, <1>9
    <3> QED BY <1>2, <1>6, <3>1, KindsAre
  <2>2. LiveKinds(v)[i] # "dir"
    <3>1. ~IsDir(v, i)
      BY <1>9 DEF NameAdded, NamedIn
    <3> QED BY <1>9, <3>1, KindsAre DEF IsDir
  <2>3. NT!Link(d, n, i)
    BY <1>1, <1>3, <1>4, <1>9, <2>1, <2>2, LiveAre DEF NT!Link
  <2> QED BY <2>3 DEF NT!TreeNext
<1> QED BY <1>8, <1>9

(* What can be removed, or clobbered.                                      *)
LEMMA RemovableMapped ==
  ASSUME Counted(vol), NEW i \in NamedIn(vol),
         IsDir(vol, i) => \A j \in Inos, k \in Names : ~Has(vol, i, k, j)
  PROVE  NT!Removable(i)
<1>1. LiveKinds(vol)[i] = "dir" => IsDir(vol, i)
  BY KindsAre DEF IsDir
<1>2. ASSUME NEW x \in NamesOf(vol), IsDir(vol, i) PROVE x[1] # i
  BY <1>2, NameIs
<1> QED BY <1>1, <1>2 DEF NT!Removable

(* When names only go, types are those before.                             *)
LEMMA FewerKinds ==
  ASSUME NEW v, Counted(v), Tree(v), NEW w, Counted(w), NamedKinds(v, w),
         NamedIn(w) \subseteq NamedIn(v)
  PROVE  LiveKinds(w) = [o \in NT!Live(NamesOf(w)) |-> LiveKinds(v)[o]]
<1>1. \A o \in NamedIn(w) : w.inode[o].kind = v.inode[o].kind
  BY NamedKept
<1>2. \A o \in NamedIn(w) : w.inode[o].kind = LiveKinds(v)[o]
  BY <1>1, KindsAre
<1>3. LiveKinds(w) = [o \in NamedIn(w) |-> w.inode[o].kind]
  BY KindsAre
<1>4. NT!Live(NamesOf(w)) = NamedIn(w)
  BY LiveAre
<1> QED BY <1>2, <1>3, <1>4

LEMMA RemovedMapped ==
  ASSUME Counted(vol), Tree(vol), NEW w, Counted(w), Tree(w), vol' = w, NamedKinds(vol, w),
         NEW d \in Inos, NEW n \in Names, NEW i \in Inos, NameRemoved(vol, w, d, n, i)
  PROVE  NT!TreeNext
<1>1. NamesOf(vol)' = NamesOf(w) /\ LiveKinds(vol)' = LiveKinds(w)
  BY MappedNext
<1> DEFINE v == vol
<1>2. Counted(v) /\ Tree(v) /\ NamedKinds(v, w) /\ NameRemoved(v, w, d, n, i)
  OBVIOUS
<1>3. <<d, n, i>> \in NamesOf(vol) /\ i \in NamedIn(vol)
  BY NameIn DEF NameRemoved, NamedIn
<1>4. NT!Removable(i)
  BY <1>3, RemovableMapped DEF NameRemoved
<1>5. NamesOf(w) = NamesOf(v) \ {<<d, n, i>>}
  <2> HIDE DEF v
  <2>1. ASSUME NEW x \in NamesOf(w) PROVE x \in NamesOf(v) /\ x # <<d, n, i>>
    <3>1. /\ x[1] \in Inos /\ x[2] \in Names /\ x[3] \in Inos /\ x = <<x[1], x[2], x[3]>>
          /\ Has(w, x[1], x[2], x[3])
      BY NameIs
    <3>2. Has(v, x[1], x[2], x[3]) /\ ~(x[1] = d /\ x[2] = n /\ x[3] = i)
      BY <1>2, <3>1 DEF NameRemoved
    <3> QED BY <1>2, <3>1, <3>2, NameIn
  <2>2. ASSUME NEW x \in NamesOf(v), x # <<d, n, i>> PROVE x \in NamesOf(w)
    <3>1. /\ x[1] \in Inos /\ x[2] \in Names /\ x[3] \in Inos /\ x = <<x[1], x[2], x[3]>>
          /\ Has(v, x[1], x[2], x[3])
      BY <1>2, NameIs
    <3> QED BY <1>2, <2>2, <3>1, NameIn DEF NameRemoved
  <2> QED BY <2>1, <2>2
<1>6. NamedIn(w) \subseteq NamedIn(v)
  <2> HIDE DEF v
  <2> QED BY <1>2 DEF NamedIn, NameRemoved
<1>7. LiveKinds(w) = [o \in NT!Live(NamesOf(w)) |-> LiveKinds(v)[o]]
  <2> HIDE DEF v
  <2> QED BY <1>2, <1>6, FewerKinds
<1>8. NT!Remove(d, n, i)
  BY <1>1, <1>3, <1>4, <1>5, <1>7 DEF NT!Remove
<1>9. <<d, n, i>>[1] = d /\ <<d, n, i>>[2] = n /\ <<d, n, i>>[3] = i
  OBVIOUS
<1> QED BY <1>3, <1>8, <1>9 DEF NT!TreeNext

(* A directory that is not below the one to be moved, as NameTree says it: *)
(* the directories that are not above q, with all files, are closed under  *)
(* naming.                                                                 *)
LEMMA OutsideMapped ==
  ASSUME Counted(vol), Tree(vol), NEW i \in Inos, NEW q \in Inos, IsDir(vol, q), i # q,
         IsDir(vol, i) => ~IsAncestor(vol, i, q)
  PROVE  NT!Outside(q, i)
<1>1. CASE ~IsDir(vol, i)
  <2> DEFINE S == {i}
  <2>1. S \in SUBSET Inos /\ i \in S /\ q \notin S
    OBVIOUS
  <2>2. ASSUME NEW x \in NamesOf(vol), x[1] \in S PROVE x[3] \in S
    <3>1. Has(vol, i, x[2], x[3]) /\ x[2] \in Names /\ x[3] \in Inos
      BY <2>2, NameIs
    <3>2. IsDir(vol, i)
      BY <3>1, NameFacts DEF Tree, Kept, Proper
    <3> QED BY <1>1, <3>2
  <2> HIDE DEF S
  <2> QED BY <2>1, <2>2 DEF NT!Outside
<1>2. CASE IsDir(vol, i)
  <2>1. PICK A \in SUBSET Inos :
          /\ q \in A /\ i \notin A
          /\ \A c \in A, b \in Inos : Has(vol, c, "..", b) => b \in A
    BY <1>2, AncestorIs
  <2> DEFINE S == {j \in Inos : IsDir(vol, j) => j \notin A}
  <2>2. S \in SUBSET Inos /\ i \in S /\ q \notin S
    BY <2>1
  <2>3. ASSUME NEW x \in NamesOf(vol), x[1] \in S PROVE x[3] \in S
    <3>1. /\ x[1] \in Inos /\ x[2] \in Names /\ x[3] \in Inos
          /\ Has(vol, x[1], x[2], x[3])
      BY NameIs
    <3>2. IsDir(vol, x[1])
      BY <3>1, NameFacts DEF Tree, Kept, Proper
    <3>3. IsDir(vol, x[3]) => Has(vol, x[3], "..", x[1])
      BY <3>1 DEF Tree, Shaped
    <3> QED BY <2>1, <2>3, <3>1, <3>2, <3>3
  <2> HIDE DEF S
  <2> QED BY <2>2, <2>3 DEF NT!Outside
<1> QED BY <1>1, <1>2

LEMMA MovedMapped ==
  ASSUME Counted(vol), Tree(vol), NEW w, Counted(w), Tree(w), vol' = w, NamedKinds(vol, w),
         NEW p \in Inos, NEW q \in Inos, NEW i \in Inos, NEW n \in Names, NEW m \in Names,
         NEW t \in Inos \cup {0}, NameMoved(vol, w, p, n, q, m, i, t)
  PROVE  NT!TreeNext
<1>1. NamesOf(vol)' = NamesOf(w) /\ LiveKinds(vol)' = LiveKinds(w)
  BY MappedNext
<1> DEFINE v == vol
           gone == {<<p, n, i>>} \cup {<<q, m, o>> : o \in Inos}
<1>2. /\ Counted(v) /\ Tree(v) /\ NamedKinds(v, w) /\ NamesMoved(v, w, p, n, q, m, i, t)
      /\ Has(v, p, n, i) /\ (\A j \in Inos : Has(v, q, m, j) <=> j = t)
      /\ i # t /\ Live(v, q)
      /\ t # 0 /\ IsDir(v, t) => \A j \in Inos, k \in Names : ~Has(v, t, k, j)
      /\ IsDir(v, i) => ~IsAncestor(v, i, q)
  BY DEF NameMoved, Asked
<1>3. <<p, n, i>> \in NamesOf(vol)
  BY <1>2, NameIn
<1>4. NT!IsLiveDir(q)
  BY <1>2, LiveMapped
<1>5. NT!Outside(q, i)
  <2>1. i # q
    <3> SUFFICES ASSUME i = q PROVE FALSE
      OBVIOUS
    <3>1. IsDir(vol, i) /\ ~IsAncestor(vol, i, i)
      BY <1>2 DEF Live
    <3> QED BY <3>1 DEF IsAncestor
  <2> QED BY <1>2, <2>1, OutsideMapped DEF Live
<1>6. ASSUME NEW o \in Inos, <<q, m, o>> \in NamesOf(vol) PROVE o # i /\ NT!Removable(o)
  <2>1. o = t /\ o # 0 /\ Has(vol, q, m, o)
    BY <1>2, <1>6, NameIn, ZeroIsNoInode
  <2>2. o \in NamedIn(vol)
    BY <2>1 DEF NamedIn
  <2> QED BY <1>2, <2>1, <2>2, RemovableMapped
<1>7. NamesOf(w) = (NamesOf(v) \ gone) \cup {<<q, m, i>>}
  <2> HIDE DEF v
  <2>1. ~(p = q /\ n = m)
    BY <1>2
  <2>2. ASSUME NEW x \in NamesOf(w) PROVE x \in (NamesOf(v) \ gone) \cup {<<q, m, i>>}
    <3>1. /\ x[1] \in Inos /\ x[2] \in Names /\ x[3] \in Inos /\ x = <<x[1], x[2], x[3]>>
          /\ Has(w, x[1], x[2], x[3])
      BY NameIs
    <3>2. /\ Has(v, x[1], x[2], x[3]) \/ (x[1] = q /\ x[2] = m /\ x[3] = i)
          /\ ~(x[1] = q /\ x[2] = m /\ x[3] = t)
          /\ ~(x[1] = p /\ x[2] = n /\ x[3] = i)
      BY <1>2, <3>1 DEF NamesMoved
    <3>3. CASE x[1] = q /\ x[2] = m /\ x[3] = i
      BY <3>1, <3>3
    <3>4. CASE ~(x[1] = q /\ x[2] = m /\ x[3] = i)
      <4>1. x \in NamesOf(v)
        BY <1>2, <3>1, <3>2, <3>4, NameIn
      <4>2. ~(x[1] = q /\ x[2] = m)
        BY <1>2, <3>1, <3>2, <3>4
      <4>3. x # <<p, n, i>>
        BY <3>2
      <4>4. \A o \in Inos : x # <<q, m, o>>
        BY <4>2
      <4> QED BY <4>1, <4>3, <4>4
    <3> QED BY <3>3, <3>4
  <2>3. ASSUME NEW x \in NamesOf(v), x \notin gone PROVE x \in NamesOf(w)
    <3>1. /\ x[1] \in Inos /\ x[2] \in Names /\ x[3] \in Inos /\ x = <<x[1], x[2], x[3]>>
          /\ Has(v, x[1], x[2], x[3])
      BY <1>2, NameIs
    <3>2. ~(x[1] = p /\ x[2] = n /\ x[3] = i) /\ ~(x[1] = q /\ x[2] = m)
      BY <2>3, <3>1
    <3>3. Has(w, x[1], x[2], x[3])
      BY <1>2, <3>1, <3>2 DEF NamesMoved
    <3> QED BY <3>1, <3>3, NameIn
  <2>4. <<q, m, i>> \in NamesOf(w)
    <3>1. Has(w, q, m, i)
      BY <1>2, <2>1 DEF NamesMoved
    <3> QED BY <3>1, NameIn
  <2> HIDE DEF gone
  <2> QED BY <2>2, <2>3, <2>4
<1>8. NamedIn(w) \subseteq NamedIn(v)
  <2> HIDE DEF v
  <2> QED BY <1>2 DEF NamedIn, NamesMoved
<1>9. LiveKinds(w) = [o \in NT!Live(NamesOf(w)) |-> LiveKinds(v)[o]]
  <2> HIDE DEF v
  <2> QED BY <1>2, <1>8, FewerKinds
<1>10. NT!Rename(p, n, q, m, i)
  BY <1>1, <1>3, <1>4, <1>5, <1>6, <1>7, <1>9 DEF NT!Rename
<1>11. <<p, n, i>>[1] = p /\ <<p, n, i>>[2] = n /\ <<p, n, i>>[3] = i
  OBVIOUS
<1> QED BY <1>3, <1>10, <1>11 DEF NT!TreeNext

(* One step as ImplementsNameTree allows it.                               *)
TreeStep == UNCHANGED <<NamesOf(vol), LiveKinds(vol)>> \/ damaged' \/ NT!TreeNext

LEMMA SameStepMapped ==
  ASSUME Counted(vol), Tree(vol), NEW w, Counted(w), vol' = w, KeptNames(vol, w),
         GrownKinds(vol, w) \/ NamedKinds(vol, w)
  PROVE  TreeStep
<1>1. NamesOf(vol)' = NamesOf(w) /\ LiveKinds(vol)' = LiveKinds(w)
  BY MappedNext
<1> DEFINE v == vol
<1>2. Counted(v) /\ Tree(v) /\ KeptNames(v, w) /\ (GrownKinds(v, w) \/ NamedKinds(v, w))
  OBVIOUS
<1>3. NamesOf(w) = NamesOf(v) /\ LiveKinds(w) = LiveKinds(v)
  <2> HIDE DEF v
  <2> QED BY <1>2, SameMapped
<1> QED BY <1>1, <1>3 DEF TreeStep

(* What a request that makes a name comes to.                              *)
LEMMA BecomeGrown ==
  ASSUME Counted(vol), Tree(vol), NEW w, Counted(w), Tree(w), Become(w),
         NEW d \in Inos, NEW n \in Names, FreeName(vol, d, n), Grown(vol, w, d, n)
  PROVE  TreeStep
<1>1. vol' = w
  BY DEF Become, vol, Counted, Sound, Volume
<1>2. CASE KeptNames(vol, w)
  BY <1>1, <1>2, SameStepMapped DEF Grown
<1>3. CASE ~KeptNames(vol, w)
  <2>1. PICK i \in Inos : NameAdded(vol, w, d, n, i)
    BY <1>3 DEF Grown
  <2>2. Live(vol, d) /\ \A j \in Inos : ~Has(vol, d, n, j)
    BY FreeNameHas
  <2>3. GrownKinds(vol, w)
    BY DEF Grown
  <2>4. NT!TreeNext
    BY <1>1, <2>1, <2>2, <2>3, AddedMapped
  <2> QED BY <2>4 DEF TreeStep
<1> QED BY <1>2, <1>3

(* What a request that removes or moves a name comes to.                   *)
LEMMA BecomeRenamed ==
  ASSUME Counted(vol), Tree(vol), NEW w, Counted(w), Become(w),
         ~w.damaged => Tree(w) /\ Renamed(vol, w)
  PROVE  TreeStep
<1>1. vol' = w /\ damaged' = w.damaged
  BY DEF Become, vol, Counted, Sound, Volume
<1>2. CASE w.damaged
  BY <1>1, <1>2 DEF TreeStep
<1>3. CASE ~w.damaged /\ KeptNames(vol, w) /\ NamedKinds(vol, w)
  BY <1>1, <1>3, SameStepMapped
<1>4. CASE /\ ~w.damaged /\ NamedKinds(vol, w)
           /\ \E d, i \in Inos, n \in Names : NameRemoved(vol, w, d, n, i)
  <2>1. PICK d, i \in Inos, n \in Names : NameRemoved(vol, w, d, n, i)
    BY <1>4
  <2>2. NT!TreeNext
    BY <1>1, <1>4, <2>1, RemovedMapped
  <2> QED BY <2>2 DEF TreeStep
<1>5. CASE /\ ~w.damaged /\ NamedKinds(vol, w)
           /\ \E p, q, i \in Inos, n, m \in Names, t \in Inos \cup {0} :
                NameMoved(vol, w, p, n, q, m, i, t)
  <2>1. PICK p, q, i \in Inos, n, m \in Names, t \in Inos \cup {0} :
          NameMoved(vol, w, p, n, q, m, i, t)
    BY <1>5
  <2>2. NT!TreeNext
    BY <1>1, <1>5, <2>1, MovedMapped
  <2> QED BY <2>2 DEF TreeStep
<1> QED BY <1>2, <1>3, <1>4, <1>5 DEF Renamed, Shrunk

LEMMA NextMapped ==
  ASSUME Counted(vol), ~damaged => Tree(vol), LinkBound < LinkMod, Next
  PROVE  TreeStep
<1>0. vol.damaged = damaged /\ vol.inode = inode
  BY DEF vol
<1>9. \A i \in Inos : inode[i].links < LinkBound => vol.inode[i].links + 1 < LinkMod
  <2> TAKE i \in Inos
  <2>1. vol.inode[i].links \in Nat
    BY LinksType
  <2> QED BY <1>0, <2>1, SizesAssumption
<1>1. ASSUME NEW p \in Inos, NEW n \in Names, op_create(p, n)
      PROVE  TreeStep
  <2>1. PICK perm \in BOOLEAN : Become(create_request(vol, perm, p, n).vol)
    BY <1>1 DEF op_create
  <2>2. ~damaged /\ Tree(vol) /\ FreeName(vol, p, n)
    BY <1>1 DEF op_create
  <2> DEFINE w == create_request(vol, perm, p, n).vol
             c == do_create(vol, p, n, "file").vol
  <2>3. Counted(c) /\ Tree(c) /\ Grown(vol, c, p, n)
    BY <2>2, FreeNameHas, CreateCounted, CreateTree
  <2>4. w = c \/ w = vol
    BY DEF create_request
  <2> HIDE DEF w, c
  <2>5. Counted(w) /\ Tree(w) /\ Grown(vol, w, p, n)
    BY <2>2, <2>3, <2>4, SelfGrown
  <2>6. Become(w)
    BY <2>1 DEF w
  <2> QED BY <2>2, <2>5, <2>6, BecomeGrown
<1>2. ASSUME NEW p \in Inos, NEW n \in Names, op_symlink(p, n)
      PROVE  TreeStep
  <2>1. PICK perm \in BOOLEAN : Become(symlink_request(vol, perm, p, n).vol)
    BY <1>2 DEF op_symlink
  <2>2. ~damaged /\ Tree(vol) /\ FreeName(vol, p, n)
    BY <1>2 DEF op_symlink
  <2> DEFINE w == symlink_request(vol, perm, p, n).vol
  <2>3. Live(vol, p) /\ p \in vol.imap /\ \A j \in Inos : ~Has(vol, p, n, j)
    BY <2>2, FreeNameHas
  <2>4. Counted(w) /\ Tree(w) /\ Grown(vol, w, p, n)
    BY <2>2, <2>3, SymlinkCounted, SymlinkTree
  <2> HIDE DEF w
  <2>5. Become(w)
    BY <2>1 DEF w
  <2> QED BY <2>2, <2>4, <2>5, BecomeGrown
<1>3. ASSUME NEW p \in Inos, NEW n \in Names, op_mkdir(p, n)
      PROVE  TreeStep
  <2>1. PICK perm \in BOOLEAN : Become(do_mkdir(vol, perm, p, n).vol)
    BY <1>3 DEF op_mkdir
  <2>2. ~damaged /\ Tree(vol) /\ FreeName(vol, p, n) /\ vol.inode[p].links + 1 < LinkMod
    BY <1>3, <1>9 DEF op_mkdir
  <2> DEFINE w == do_mkdir(vol, perm, p, n).vol
  <2>3. Live(vol, p) /\ p \in vol.imap /\ \A j \in Inos : ~Has(vol, p, n, j)
    BY <2>2, FreeNameHas
  <2>4. Counted(w) /\ Tree(w) /\ Grown(vol, w, p, n)
    BY <2>2, <2>3, MkdirCounted, MkdirTree
  <2> HIDE DEF w
  <2>5. Become(w)
    BY <2>1 DEF w
  <2> QED BY <2>2, <2>4, <2>5, BecomeGrown
<1>4. ASSUME NEW p \in Inos, NEW n \in Names, op_link(p, n)
      PROVE  TreeStep
  <2>1. PICK i \in Inos, perm \in BOOLEAN :
          /\ Named(vol, i) /\ ~IsDir(vol, i) /\ inode[i].links < LinkBound
          /\ Become(IF perm THEN link_request(vol, i, p, n).vol ELSE vol)
    BY <1>4 DEF op_link
  <2>2. ~damaged /\ Tree(vol) /\ FreeName(vol, p, n)
    BY <1>4 DEF op_link
  <2> DEFINE l == link_request(vol, i, p, n).vol
             w == IF perm THEN l ELSE vol
  <2>3. Live(vol, p) /\ p \in vol.imap /\ \A j \in Inos : ~Has(vol, p, n, j)
    BY <2>2, FreeNameHas
  <2>4. i # RootIno /\ vol.inode[i].kind # "none" /\ vol.inode[i].links + 1 < LinkMod
    BY <1>9, <2>1, <2>2, NamedKind DEF Counted
  <2>5. Counted(l) /\ Tree(l) /\ Grown(vol, l, p, n)
    BY <2>1, <2>2, <2>3, <2>4, LinkRequestCounted, LinkTree
  <2>6. Become(w)
    BY <2>1
  <2> HIDE DEF l
  <2>7. w = l \/ w = vol
    OBVIOUS
  <2> HIDE DEF w
  <2>8. Counted(w) /\ Tree(w) /\ Grown(vol, w, p, n)
    BY <2>2, <2>5, <2>7, SelfGrown
  <2> QED BY <2>2, <2>6, <2>8, BecomeGrown
<1>5. ASSUME NEW p \in Inos, NEW n \in Names, op_unlink(p, n)
      PROVE  TreeStep
  <2>1. PICK perm \in BOOLEAN :
          Become(IF perm THEN do_unlink(vol, p, n, -1) ELSE vol)
    BY <1>5 DEF op_unlink
  <2>2. ~damaged /\ Tree(vol) /\ ~IsDir(vol, ext2fs_lookup(vol, p, n))
    BY <1>5 DEF op_unlink
  <2> DEFINE u == do_unlink(vol, p, n, -1)
             w == IF perm THEN u ELSE vol
  <2>3. Counted(u)
    BY DoUnlinkCounted
  <2>4. ~u.damaged => Tree(u) /\ Shrunk(vol, u)
    BY <2>2, UnlinkTree
  <2>5. Become(w)
    BY <2>1
  <2> HIDE DEF u
  <2>6. w = u \/ w = vol
    OBVIOUS
  <2> HIDE DEF w
  <2>7. Counted(w) /\ (~w.damaged => Tree(w) /\ Renamed(vol, w))
    BY <2>2, <2>3, <2>4, <2>6, SelfGrown DEF Renamed
  <2> QED BY <2>2, <2>5, <2>7, BecomeRenamed
<1>6. ASSUME NEW p \in Inos, NEW n \in Names, op_rmdir(p, n)
      PROVE  TreeStep
  <2>1. PICK perm \in BOOLEAN : Become(do_rmdir(vol, perm, p, n).vol)
    BY <1>6 DEF op_rmdir
  <2>2. ~damaged /\ Tree(vol)
    BY <1>6 DEF op_rmdir
  <2> DEFINE w == do_rmdir(vol, perm, p, n).vol
  <2>3. Counted(w) /\ (~w.damaged => Tree(w) /\ Renamed(vol, w))
    BY <2>2, DoRmdirCounted, RmdirTree DEF Renamed
  <2> HIDE DEF w
  <2>4. Become(w)
    BY <2>1 DEF w
  <2> QED BY <2>2, <2>3, <2>4, BecomeRenamed
<1>7. ASSUME NEW p \in Inos, NEW n \in Names, op_rename(p, n)
      PROVE  TreeStep
  <2>1. PICK q \in Inos, m \in Names, perm \in {"none", "parents", "target"} :
          /\ RenameAllowed(vol, p, n, q, m)
          /\ LET i == ext2fs_lookup(vol, p, n)
             IN inode[IF IsDir(vol, i) THEN q ELSE i].links < LinkBound
          /\ Become(IF perm = "none" THEN vol
                    ELSE do_rename(vol, perm = "target", p, n, q, m).vol)
    BY <1>7 DEF op_rename
  <2>2. ~damaged /\ Tree(vol)
    BY <1>7 DEF op_rename
  <2> DEFINE allowed == perm = "target"
             r == do_rename(vol, allowed, p, n, q, m).vol
             w == IF perm = "none" THEN vol ELSE r
  <2>3. Become(w)
    BY <2>1
  <2> HIDE DEF allowed
  <2>4. Counted(r)
    <3>1. q \in vol.imap
      BY <2>1, LiveMarked DEF RenameAllowed
    <3> QED BY <3>1, RenameCounted
  <2>5. ~r.damaged => Tree(r) /\ Renamed(vol, r)
    <3>1. vol.inode[IF IsDir(vol, ext2fs_lookup(vol, p, n)) THEN q
                    ELSE ext2fs_lookup(vol, p, n)].links + 1 < LinkMod
      BY <1>9, <2>1, LookupHas DEF RenameAllowed, UsedName
    <3> QED BY <1>0, <2>1, <2>2, <3>1, RenameTree
  <2> HIDE DEF r
  <2>6. w = r \/ w = vol
    OBVIOUS
  <2> HIDE DEF w
  <2>7. Counted(w) /\ (~w.damaged => Tree(w) /\ Renamed(vol, w))
    BY <2>2, <2>4, <2>5, <2>6, SelfGrown DEF Renamed
  <2> QED BY <2>2, <2>3, <2>7, BecomeRenamed
<1> QED BY <1>1, <1>2, <1>3, <1>4, <1>5, <1>6, <1>7 DEF Next

(* A new volume has no names and one live object, the root.                *)
LEMMA InitMapped ==
  ASSUME Init
  PROVE  NT!TreeInit
<1>0. Counted(vol)
  BY InitCounted
<1>1. \A d \in Inos, s \in Slots : vol.ent[d][s].name \notin Names
  <2> SUFFICES ASSUME NEW d \in Inos, NEW s \in Slots PROVE vol.ent[d][s].name \notin Names
    OBVIOUS
  <2>1. \/ vol.ent[d][s] = [name |-> ".", ino |-> RootIno]
        \/ vol.ent[d][s] = [name |-> "..", ino |-> RootIno]
        \/ vol.ent[d][s] = Unused
    BY DEF Init, vol, NewDirEntries
  <2>2. vol.ent[d][s].name \in {".", "..", ""}
    <3> HIDE DEF vol
    <3>1. CASE vol.ent[d][s] = [name |-> ".", ino |-> RootIno]
      BY <3>1
    <3>2. CASE vol.ent[d][s] = [name |-> "..", ino |-> RootIno]
      BY <3>2
    <3>3. CASE vol.ent[d][s] = Unused
      BY <3>3, UnusedIs
    <3> QED BY <2>1, <3>1, <3>2, <3>3
  <2> QED BY <2>2, NamesAssumption
<1>2. NamesOf(vol) = {}
  BY <1>1 DEF NamesOf
<1>3. NamedIn(vol) = {RootIno}
  <2>1. \A i, d \in Inos, n \in Names : ~Has(vol, d, n, i)
    BY <1>1 DEF Has
  <2> QED BY <2>1, InoFacts DEF NamedIn
<1>4. vol.inode[RootIno].kind = "dir"
  BY <1>0 DEF Counted, IsDir
<1>5. LiveKinds(vol) = [o \in {RootIno} |-> "dir"]
  <2>1. LiveKinds(vol) = [o \in NamedIn(vol) |-> vol.inode[o].kind]
    BY <1>0, KindsAre
  <2> HIDE DEF vol
  <2> QED BY <1>3, <1>4, <2>1
<1> QED BY <1>2, <1>5 DEF NT!TreeInit

(* While requests count no further than i_links_count can and no entry was *)
(* damaged, every request is one operation on a tree of names, or is not   *)
(* seen: do_create, do_mkdir and op_link give a free name to a new object, *)
(* or to a file that had one; do_unlink and do_rmdir take one name, of a   *)
(* directory only when it is empty; do_rename, across its links, its       *)
(* clobbering, its "..", and its cleanup, moves the name in one step and   *)
(* never below itself, or has only removed what it clobbered.              *)
THEOREM NamespaceImplementsNameTree ==
  ASSUME LinkBound < LinkMod
  PROVE  Spec => ImplementsNameTree
<1>1. Init => NT!TreeInit
  BY InitMapped
<1>2. Counted(vol) /\ (~damaged => Tree(vol)) /\ [Next]_vars => [TreeStep]_vars
  BY NextMapped
<1>3. Spec => NT!TreeInit /\ [][TreeStep]_vars
  BY <1>1, <1>2, NamespaceCounted, NamespaceTree, PTL DEF Spec
<1> QED BY <1>3 DEF ImplementsNameTree, TreeStep

----------------------------------------------------------------------------
(* What the answer of a rename says.                                       *)

(* Whatever rename the kernel may send, unless the count it raises is at   *)
(* its width.                                                              *)
RenameAnswers ==
  \A p, q \in Inos, n, m \in Names, perm \in BOOLEAN :
    LET i == ext2fs_lookup(vol, p, n)
        t == ext2fs_lookup(vol, q, m)
        r == do_rename(vol, perm, p, n, q, m)
    IN RenameAllowed(vol, p, n, q, m) /\ inode[IF IsDir(vol, i) THEN q ELSE i].links + 1 < LinkMod
         => r.vol.damaged \/ Answered(vol, r, p, n, q, m, i, t)

(* No directory is full, so that a second ".." has room, and no link count *)
(* is at its width.                                                        *)
Roomy ==
  /\ \A d \in Inos : IsDir(vol, d) => ~Full(vol, d)
  /\ \A i \in Inos : inode[i].links + 1 < LinkMod

LEMMA TreeAnswers ==
  ASSUME Counted(vol), Tree(vol), ~damaged
  PROVE  RenameAnswers
<1>1. vol.inode = inode /\ vol.damaged = damaged
  BY DEF vol
<1> SUFFICES ASSUME NEW p \in Inos, NEW q \in Inos, NEW n \in Names, NEW m \in Names,
                    NEW perm \in BOOLEAN, RenameAllowed(vol, p, n, q, m),
                    LET i == ext2fs_lookup(vol, p, n)
                    IN vol.inode[IF IsDir(vol, i) THEN q ELSE i].links + 1 < LinkMod,
                    ~do_rename(vol, perm, p, n, q, m).vol.damaged
             PROVE  Answered(vol, do_rename(vol, perm, p, n, q, m), p, n, q, m,
                             ext2fs_lookup(vol, p, n), ext2fs_lookup(vol, q, m))
  BY <1>1 DEF RenameAnswers
<1> QED BY <1>1, RenameTree

(* The names after a rename that succeeded.                                *)
LEMMA MovedNames ==
  ASSUME NEW v, Counted(v), NEW w, Counted(w), NEW p \in Inos, NEW n \in Names,
         NEW q \in Inos, NEW m \in Names, NEW i \in Inos, NEW t, i # t,
         Has(v, p, n, i), ~Has(v, q, m, i), NamesMoved(v, w, p, n, q, m, i, t)
  PROVE  NamesOf(w) = Moved(NamesOf(v), p, n, i, q, m, t)
<1>1. ~(p = q /\ n = m)
  OBVIOUS
<1>2. ASSUME NEW x \in NamesOf(w) PROVE x \in Moved(NamesOf(v), p, n, i, q, m, t)
  <2>1. /\ x[1] \in Inos /\ x[2] \in Names /\ x[3] \in Inos /\ x = <<x[1], x[2], x[3]>>
        /\ Has(w, x[1], x[2], x[3])
    BY NameIs
  <2>2. /\ Has(v, x[1], x[2], x[3]) \/ (x[1] = q /\ x[2] = m /\ x[3] = i)
        /\ ~(x[1] = q /\ x[2] = m /\ x[3] = t)
        /\ ~(x[1] = p /\ x[2] = n /\ x[3] = i)
    BY <2>1 DEF NamesMoved
  <2>3. CASE x[1] = q /\ x[2] = m /\ x[3] = i
    BY <2>1, <2>3 DEF Moved
  <2>4. CASE ~(x[1] = q /\ x[2] = m /\ x[3] = i)
    <3>1. x \in NamesOf(v)
      BY <2>1, <2>2, <2>4, NameIn
    <3>2. x # <<p, n, i>> /\ x # <<q, m, t>>
      BY <2>2
    <3> QED BY <3>1, <3>2 DEF Moved
  <2> QED BY <2>3, <2>4
<1>3. ASSUME NEW x \in NamesOf(v), x # <<p, n, i>>, x # <<q, m, t>> PROVE x \in NamesOf(w)
  <2>1. /\ x[1] \in Inos /\ x[2] \in Names /\ x[3] \in Inos /\ x = <<x[1], x[2], x[3]>>
        /\ Has(v, x[1], x[2], x[3])
    BY NameIs
  <2>2. ~(x[1] = p /\ x[2] = n /\ x[3] = i) /\ ~(x[1] = q /\ x[2] = m /\ x[3] = t)
    BY <1>3, <2>1
  <2>3. Has(w, x[1], x[2], x[3])
    BY <2>1, <2>2 DEF NamesMoved
  <2> QED BY <2>1, <2>3, NameIn
<1>4. <<q, m, i>> \in NamesOf(w)
  <2>1. Has(w, q, m, i)
    BY <1>1 DEF NamesMoved
  <2> QED BY <2>1, NameIn
<1>5. Moved(NamesOf(v), p, n, i, q, m, t) \subseteq NamesOf(w)
  BY <1>3, <1>4 DEF Moved
<1> QED BY <1>2, <1>5

LEMMA RoomyRenames ==
  ASSUME Counted(vol), Tree(vol), ~damaged, Roomy
  PROVE  RenameMoves(NamesOf(vol))
<1> SUFFICES ASSUME NEW p \in Inos, NEW q \in Inos, NEW n \in Names, NEW m \in Names,
                    RenameAllowed(vol, p, n, q, m), NEW perm \in BOOLEAN,
                    ~do_rename(vol, perm, p, n, q, m).vol.damaged
             PROVE  NamesOf(do_rename(vol, perm, p, n, q, m).vol) =
                      IF do_rename(vol, perm, p, n, q, m).rc = "0"
                      THEN Moved(NamesOf(vol), p, n, ext2fs_lookup(vol, p, n), q, m,
                                 ext2fs_lookup(vol, q, m))
                      ELSE NamesOf(vol)
  BY DEF RenameMoves, RenameOutcome
<1> DEFINE v == vol
           i == ext2fs_lookup(v, p, n)
           t == ext2fs_lookup(v, q, m)
           r == do_rename(v, perm, p, n, q, m)
<1>1. Asked(v, p, n, q, m, i, t)
  BY RenameAsked
<1>2. i \in Inos /\ i # t /\ Has(v, p, n, i) /\ ~Has(v, q, m, i)
  BY <1>1 DEF Asked
<1>3. Answered(v, r, p, n, q, m, i, t)
  <2>1. inode[IF IsDir(v, i) THEN q ELSE i].links + 1 < LinkMod
    BY <1>2 DEF Roomy
  <2> QED BY <2>1, TreeAnswers DEF RenameAnswers
<1>4. Counted(r.vol)
  <2>1. q \in vol.imap
    BY LiveMarked DEF RenameAllowed
  <2> QED BY <2>1, RenameCounted
<1>5. IsDir(v, i) => ~Full(v, i)
  BY <1>2 DEF Roomy
<1>6. Counted(v) /\ Tree(v)
  OBVIOUS
<1> HIDE DEF i, t, r, v
<1>7. CASE r.rc = "0"
  <2>1. NamesMoved(v, r.vol, p, n, q, m, i, t)
    BY <1>3, <1>7 DEF Answered
  <2>2. NamesOf(r.vol) = Moved(NamesOf(v), p, n, i, q, m, t)
    BY <1>2, <1>4, <1>6, <2>1, MovedNames
  <2> QED BY <1>7, <2>2 DEF i, t, r, v
<1>8. CASE r.rc # "0"
  <2>1. KeptNames(v, r.vol)
    BY <1>3, <1>5, <1>8 DEF Answered
  <2>2. NamesOf(r.vol) = NamesOf(v)
    BY <1>4, <1>6, <2>1, KeptNamesOf
  <2> QED BY <1>8, <2>2 DEF i, t, r, v
<1> QED BY <1>7, <1>8

(* For every volume, while no entry was damaged: do_rename answers success *)
(* only when the name has moved and what it clobbered is gone, and an      *)
(* error only when no name has changed, wherever its links, its clobbering *)
(* or the move of ".." gave up; but for one case: a directory that is full *)
(* and may not grow has no room for the second "..", is not moved, and the *)
(* directory it was to replace is gone.  A lack of blocks is no such case: *)
(* do_rmdir of the target has freed one.                                   *)
THEOREM NamespaceRenameAnswers ==
  ASSUME LinkBound < LinkMod
  PROVE  Spec => [](~damaged => RenameAnswers)
<1>1. Counted(vol) /\ (~damaged => Tree(vol)) => (~damaged => RenameAnswers)
  BY TreeAnswers
<1> QED BY <1>1, NamespaceCounted, NamespaceTree, PTL

(* While no directory is full with MaxDirBlocks blocks, a bound the model  *)
(* puts on ext2fs_expand_dir, and no link count is at its width,           *)
(* do_rename is all or nothing, with however few blocks free: answered     *)
(* with success it has moved the name and nothing else, with an error it   *)
(* has changed no name.                                                    *)
THEOREM NamespaceRenameAllOrNothing ==
  ASSUME LinkBound < LinkMod
  PROVE  Spec => [](Roomy => RenameAllOrNothing)
<1>1. Counted(vol) /\ (~damaged => Tree(vol)) => (Roomy => RenameAllOrNothing)
  BY RoomyRenames DEF RenameAllOrNothing
<1> QED BY <1>1, NamespaceCounted, NamespaceTree, PTL
=============================================================================
