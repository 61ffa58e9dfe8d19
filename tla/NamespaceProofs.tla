-------------------------- MODULE NamespaceProofs --------------------------
(***************************************************************************)
(* Proofs about Namespace, for every set of names and every size of the    *)
(* volume and of its directories.                                          *)
(***************************************************************************)
EXTENDS Namespace, NumberFacts, FiniteSetTheorems, TLAPS

----------------------------------------------------------------------------
(* Every procedure makes a volume out of a volume.                         *)

(* The least slot of a set that is not empty is one of it.                 *)
LEMMA LeastIn ==
  ASSUME NEW S \in SUBSET Nat, S # {}
  PROVE  Least(S) \in S /\ \A t \in S : Least(S) <= t
BY LeastNat DEF Least

(* What the constants are.                                                 *)
LEMMA SizeFacts ==
  /\ LastIno \in Nat /\ SlotsPerBlock \in Nat /\ SlotsPerBlock >= 3
  /\ MaxDirBlocks \in Nat /\ MaxDirBlocks >= 1
  /\ LinkMod \in Nat /\ LinkMod > 2 /\ MaxFreeBlocks \in Nat
BY SizesAssumption

(* The fields of a volume.                                                 *)
LEMMA VolumeFields ==
  ASSUME NEW v \in Volume
  PROVE  /\ v.ent \in [Inos -> [Slots -> Dirent]]
         /\ v.nblk \in [Inos -> 0 .. MaxDirBlocks]
         /\ v.inode \in [Inos -> Inode]
         /\ v.imap \in SUBSET Inos
         /\ v.freeBlocks \in Nat
         /\ v.freeInodes \in Int /\ v.usedDirs \in Int
         /\ v.damaged \in BOOLEAN
BY DEF Volume

(* The slots of a directory's blocks are slots.                            *)
LEMMA DirSlotsAreSlots ==
  ASSUME NEW v \in Volume, NEW d \in Inos
  PROVE  DirSlots(v, d) \subseteq Slots /\ Slots \in SUBSET Nat
<1>1. v.nblk[d] \in 0 .. MaxDirBlocks
  BY VolumeFields
<1>2. SlotsPerBlock \in Nat /\ MaxDirBlocks \in Nat
  BY SizeFacts
<1>3. v.nblk[d] * SlotsPerBlock <= MaxDirBlocks * SlotsPerBlock
  BY <1>1, <1>2
<1> QED BY <1>1, <1>2, <1>3 DEF DirSlots, Slots

(* Writing one directory entry.                                            *)
LEMMA SetEntry ==
  ASSUME NEW v \in Volume, NEW d \in Inos, NEW s \in Slots, NEW e \in Dirent
  PROVE  [v EXCEPT !.ent[d][s] = e] \in Volume
BY DEF Volume

(* Writing one inode.                                                      *)
LEMMA SetInode ==
  ASSUME NEW v \in Volume, NEW i \in Inos, NEW ip \in Inode
  PROVE  [v EXCEPT !.inode[i] = ip] \in Volume
BY DEF Volume

(* ext2fs_lookup finds an inode number or nothing.                         *)
LEMMA LookupType ==
  ASSUME NEW v \in Volume, NEW d \in Inos, NEW n
  PROVE  ext2fs_lookup(v, d, n) \in Inos \cup {0}
<1> DEFINE S == SlotsOf(v, d, n, 0)
<1>1. S \in SUBSET Slots /\ S \in SUBSET Nat
  BY DirSlotsAreSlots DEF SlotsOf
<1>2. CASE S = {}
  BY <1>2 DEF ext2fs_lookup
<1>3. CASE S # {}
  <2>1. Least(S) \in Slots
    BY <1>1, <1>3, LeastIn
  <2>2. v.ent[d][Least(S)] \in Dirent
    BY <2>1, VolumeFields
  <2> QED BY <1>3, <2>2 DEF ext2fs_lookup, Dirent
<1> QED BY <1>2, <1>3

(* Writing the number of blocks of a directory.                            *)
LEMMA SetNblk ==
  ASSUME NEW v \in Volume, NEW d \in Inos, NEW k \in 0 .. MaxDirBlocks
  PROVE  [v EXCEPT !.nblk[d] = k] \in Volume
BY DEF Volume

(* Writing all entries of a directory.                                     *)
LEMMA SetDir ==
  ASSUME NEW v \in Volume, NEW d \in Inos, NEW e \in [Slots -> Dirent]
  PROVE  [v EXCEPT !.ent[d] = e] \in Volume
BY DEF Volume

(* Writing the count of free blocks.                                       *)
LEMMA SetFreeBlocks ==
  ASSUME NEW v \in Volume, NEW k \in Nat
  PROVE  [v EXCEPT !.freeBlocks = k] \in Volume
BY DEF Volume

(* Writing the inode bitmap.                                               *)
LEMMA SetImap ==
  ASSUME NEW v \in Volume, NEW k \in SUBSET Inos
  PROVE  [v EXCEPT !.imap = k] \in Volume
BY DEF Volume

(* Writing the count of free inodes.                                       *)
LEMMA SetFreeInodes ==
  ASSUME NEW v \in Volume, NEW k \in Int
  PROVE  [v EXCEPT !.freeInodes = k] \in Volume
BY DEF Volume

(* Writing the count of directories.                                       *)
LEMMA SetUsedDirs ==
  ASSUME NEW v \in Volume, NEW k \in Int
  PROVE  [v EXCEPT !.usedDirs = k] \in Volume
BY DEF Volume

(* ext2fs_expand_dir takes a block that is free.                           *)
LEMMA ExpandType ==
  ASSUME NEW v \in Volume, NEW d \in Inos, CanExpand(v, d)
  PROVE  ext2fs_expand_dir(v, d) \in Volume
<1> DEFINE v1 == [v EXCEPT !.nblk[d] = @ + 1]
           v2 == [v1 EXCEPT !.inode[d].blocks = @ + 1]
           v3 == [v2 EXCEPT !.freeBlocks = @ - 1]
<1>1. v.freeBlocks \in Nat /\ v.nblk[d] \in 0 .. MaxDirBlocks /\ v.inode[d] \in Inode
  BY VolumeFields
<1>2. MaxDirBlocks \in Nat
  BY SizeFacts
<1>3. v.freeBlocks - 1 \in Nat /\ v.nblk[d] + 1 \in 0 .. MaxDirBlocks
  BY <1>1, <1>2 DEF CanExpand
<1>4. v1 \in Volume
  BY <1>3, SetNblk
<1>5. v2 \in Volume
  <2>1. v1.inode[d] \in Inode
    BY <1>4, VolumeFields
  <2>2. [v1.inode[d] EXCEPT !.blocks = @ + 1] \in Inode
    BY <2>1 DEF Inode
  <2> HIDE DEF v1
  <2>3. [v1 EXCEPT !.inode[d] = [v1.inode[d] EXCEPT !.blocks = @ + 1]] \in Volume
    BY <1>4, <2>2, SetInode
  <2> QED BY <2>3
<1>6. v2.freeBlocks = v.freeBlocks
  BY DEF Volume
<1>7. v3 \in Volume
  <2> HIDE DEF v2
  <2> QED BY <1>3, <1>5, <1>6, SetFreeBlocks
<1> QED BY <1>7 DEF ext2fs_expand_dir

----------------------------------------------------------------------------
(* Sound volumes.  Types alone are not inductive: ext2fs_link fills a slot *)
(* of the block ext2fs_expand_dir has just added, so that block must come  *)
(* without entries.                                                        *)

Beyond(v) == \A d \in Inos, s \in Slots : s \notin DirSlots(v, d) => v.ent[d][s].ino = 0

Sound(v) == v \in Volume /\ Beyond(v)

(* A volume with the same directories.                                     *)
LEMMA SameDirsSound ==
  ASSUME NEW v, Sound(v), NEW w \in Volume, w.ent = v.ent, w.nblk = v.nblk
  PROVE  Sound(w)
BY DEF Sound, Beyond, DirSlots

(* Writing an inode.                                                       *)
LEMMA SetInodeSound ==
  ASSUME NEW v, Sound(v), NEW i \in Inos, NEW ip \in Inode
  PROVE  Sound([v EXCEPT !.inode[i] = ip])
<1>1. v \in Volume
  BY DEF Sound
<1>2. [v EXCEPT !.inode[i] = ip] \in Volume
  BY <1>1, SetInode
<1>3. /\ [v EXCEPT !.inode[i] = ip].ent = v.ent
      /\ [v EXCEPT !.inode[i] = ip].nblk = v.nblk
  BY <1>1 DEF Volume
<1> QED BY <1>2, <1>3, SameDirsSound

(* Writing an entry within the blocks of its directory, or freeing one.    *)
LEMMA SetEntrySound ==
  ASSUME NEW v, Sound(v), NEW d \in Inos, NEW s \in Slots, NEW e \in Dirent,
         s \in DirSlots(v, d) \/ e.ino = 0
  PROVE  Sound([v EXCEPT !.ent[d][s] = e])
<1> DEFINE w == [v EXCEPT !.ent[d][s] = e]
<1>1. v \in Volume /\ w \in Volume
  BY SetEntry DEF Sound
<1>2. w.nblk = v.nblk
  BY <1>1 DEF Volume
<1>3. \A c \in Inos, t \in Slots :
        w.ent[c][t] = IF c = d /\ t = s THEN e ELSE v.ent[c][t]
  BY <1>1 DEF Volume
<1> HIDE DEF w
<1>4. Beyond(w)
  BY <1>2, <1>3 DEF Sound, Beyond, DirSlots
<1> QED BY <1>1, <1>4 DEF Sound, w

(* ext2fs_link fills a slot that is free, within the directory's blocks.   *)
LEMMA LinkSound ==
  ASSUME NEW v, Sound(v), NEW d \in Inos, FreeSlots(v, d) # {},
         NEW n \in DirNames, NEW i \in Inos
  PROVE  Sound(ext2fs_link(v, d, n, i))
<1>0. v \in Volume
  BY DEF Sound
<1>1. /\ FreeSlots(v, d) \in SUBSET Slots /\ FreeSlots(v, d) \in SUBSET Nat
      /\ FreeSlots(v, d) \subseteq DirSlots(v, d)
  BY <1>0, DirSlotsAreSlots DEF FreeSlots
<1>2. Least(FreeSlots(v, d)) \in Slots /\ Least(FreeSlots(v, d)) \in DirSlots(v, d)
  BY <1>1, LeastIn
<1>3. [name |-> n, ino |-> i] \in Dirent
  BY DEF Dirent
<1> QED BY <1>2, <1>3, SetEntrySound DEF ext2fs_link

(* ext2fs_unlink frees a slot, or marks the volume damaged.                *)
LEMMA UnlinkSound ==
  ASSUME NEW v, Sound(v), NEW d \in Inos, NEW n, NEW i
  PROVE  Sound(ext2fs_unlink(v, d, n, i))
<1> DEFINE S == SlotsOf(v, d, n, i)
<1>0. v \in Volume
  BY DEF Sound
<1>1. S \in SUBSET Slots /\ S \in SUBSET Nat
  BY <1>0, DirSlotsAreSlots DEF SlotsOf
<1>2. CASE S = {}
  BY <1>2 DEF ext2fs_unlink
<1>3. CASE S # {}
  <2>1. Least(S) \in Slots
    BY <1>1, <1>3, LeastIn
  <2>2. Unused \in Dirent /\ Unused.ino = 0
    BY DEF Unused, Dirent
  <2>3. Sound([v EXCEPT !.damaged = TRUE])
    <3>1. /\ [v EXCEPT !.damaged = TRUE] \in Volume
          /\ [v EXCEPT !.damaged = TRUE].ent = v.ent
          /\ [v EXCEPT !.damaged = TRUE].nblk = v.nblk
      BY <1>0 DEF Volume
    <3> QED BY <3>1, SameDirsSound
  <2>4. Sound([v EXCEPT !.ent[d][Least(S)] = Unused])
    BY <2>1, <2>2, SetEntrySound
  <2> QED BY <1>3, <2>3, <2>4 DEF ext2fs_unlink
<1> QED BY <1>2, <1>3

(* The block a directory grows by has room for an entry.                   *)
LEMMA ExpandSound ==
  ASSUME NEW v, Sound(v), NEW d \in Inos, CanExpand(v, d)
  PROVE  /\ Sound(ext2fs_expand_dir(v, d))
         /\ FreeSlots(ext2fs_expand_dir(v, d), d) # {}
<1> DEFINE w == ext2fs_expand_dir(v, d)
           s == v.nblk[d] * SlotsPerBlock + 1
<1>1. v \in Volume /\ w \in Volume
  BY ExpandType DEF Sound
<1>2. w.ent = v.ent
  BY <1>1 DEF ext2fs_expand_dir, Volume
<1>3. w.nblk = [v.nblk EXCEPT ![d] = @ + 1]
  BY <1>1 DEF ext2fs_expand_dir, Volume
<1> HIDE DEF w
<1>4. /\ v.nblk \in [Inos -> 0 .. MaxDirBlocks]
      /\ v.nblk[d] < MaxDirBlocks
  BY <1>1, VolumeFields DEF CanExpand
<1>5. SlotsPerBlock \in Nat /\ SlotsPerBlock >= 1 /\ MaxDirBlocks \in Nat
  BY SizeFacts
<1>6. /\ v.nblk[d] \in Nat
      /\ (v.nblk[d] + 1) * SlotsPerBlock = v.nblk[d] * SlotsPerBlock + SlotsPerBlock
      /\ v.nblk[d] * SlotsPerBlock \in Nat
      /\ (v.nblk[d] + 1) * SlotsPerBlock <= MaxDirBlocks * SlotsPerBlock
  BY <1>4, <1>5
<1>7. s \in Slots /\ s \in DirSlots(w, d) /\ s \notin DirSlots(v, d)
  BY <1>3, <1>4, <1>5, <1>6 DEF Slots, DirSlots
<1>8. s \in FreeSlots(w, d)
  BY <1>2, <1>7 DEF Sound, Beyond, FreeSlots
<1>9. \A c \in Inos : DirSlots(v, c) \subseteq DirSlots(w, c)
  BY <1>3, <1>4, <1>5, <1>6 DEF DirSlots
<1>10. Beyond(w)
  BY <1>2, <1>9 DEF Sound, Beyond
<1> QED BY <1>1, <1>8, <1>10 DEF Sound, w

(* do_link: with or without a new block the entry finds its slot.          *)
LEMMA DoLinkSound ==
  ASSUME NEW v, Sound(v), NEW d \in Inos, NEW n \in DirNames, NEW i \in Inos
  PROVE  Sound(do_link(v, d, n, i))
BY LinkSound, ExpandSound DEF do_link

(* ext2fs_new_inode finds one of the inodes that are free.                 *)
LEMMA NewInodeType ==
  ASSUME NEW v, FreeInos(v) # {}, NEW d
  PROVE  ext2fs_new_inode(v, d) \in NewInos /\ ext2fs_new_inode(v, d) \in Inos
<1> DEFINE after == {i \in FreeInos(v) : i >= StartInode(d)}
<1>1. NewInos \subseteq Nat
  BY SizeFacts DEF NewInos, FirstIno
<1>2. FreeInos(v) \in SUBSET NewInos /\ after \in SUBSET NewInos
  BY DEF FreeInos
<1>3. ext2fs_new_inode(v, d) \in NewInos
  <2>1. CASE after # {}
    <3>1. Least(after) \in after
      BY <1>1, <1>2, <2>1, LeastIn
    <3> QED BY <1>2, <2>1, <3>1 DEF ext2fs_new_inode
  <2>2. CASE after = {}
    <3>1. Least(FreeInos(v)) \in FreeInos(v)
      BY <1>1, <1>2, LeastIn
    <3> QED BY <1>2, <2>2, <3>1 DEF ext2fs_new_inode
  <2> QED BY <2>1, <2>2
<1> QED BY <1>3 DEF Inos

(* ext2fs_inode_alloc_stats2 changes the bitmap and two counts.            *)
LEMMA AllocStatsSound ==
  ASSUME NEW v, Sound(v), NEW i \in Inos, NEW inuse \in Int, NEW isdir
  PROVE  /\ Sound(ext2fs_inode_alloc_stats2(v, i, inuse, isdir))
         /\ ext2fs_inode_alloc_stats2(v, i, inuse, isdir).freeBlocks = v.freeBlocks
<1> DEFINE v1 == [v EXCEPT !.imap = IF inuse > 0 THEN @ \cup {i} ELSE @ \ {i}]
           v2 == [v1 EXCEPT !.freeInodes = @ - inuse]
           v3 == [v2 EXCEPT !.usedDirs = IF isdir THEN @ + inuse ELSE @]
<1>1. v \in Volume
  BY DEF Sound
<1>2. v1 \in Volume
  BY <1>1, VolumeFields, SetImap
<1>3. v2 \in Volume
  <2> HIDE DEF v1
  <2>1. v1.freeInodes - inuse \in Int
    BY <1>2, VolumeFields
  <2> QED BY <1>2, <2>1, SetFreeInodes
<1>4. v3 \in Volume
  <2> HIDE DEF v2
  <2>1. v2.usedDirs \in Int
    BY <1>3, VolumeFields
  <2>2. (IF isdir THEN v2.usedDirs + inuse ELSE v2.usedDirs) \in Int
    BY <2>1
  <2> QED BY <1>3, <2>2, SetUsedDirs
<1>5. v3.ent = v.ent /\ v3.nblk = v.nblk /\ v3.freeBlocks = v.freeBlocks
  BY <1>1 DEF Volume
<1>6. ext2fs_inode_alloc_stats2(v, i, inuse, isdir) = v3
  BY DEF ext2fs_inode_alloc_stats2
<1> HIDE DEF v3
<1> QED BY <1>4, <1>5, <1>6, SameDirsSound

(* A link count stays within its width.                                    *)
LEMMA AddLinksSound ==
  ASSUME NEW v, Sound(v), NEW i \in Inos, NEW n \in Int
  PROVE  Sound(AddLinks(v, i, n))
<1>1. v \in Volume
  BY DEF Sound
<1>2. v.inode[i] \in Inode
  BY <1>1, VolumeFields
<1>3. v.inode[i].links \in Int
  BY <1>2 DEF Inode
<1>4. (v.inode[i].links + n) % LinkMod \in 0 .. (LinkMod - 1)
  BY <1>3, SizeFacts
<1>5. [v.inode[i] EXCEPT !.links = (@ + n) % LinkMod] \in Inode
  BY <1>2, <1>4 DEF Inode
<1>6. Sound([v EXCEPT !.inode[i] = [v.inode[i] EXCEPT !.links = (@ + n) % LinkMod]])
  BY <1>5, SetInodeSound
<1> QED BY <1>6 DEF AddLinks

(* A directory is given other contents: a new one, or none.                *)
LEMMA SetDirSound ==
  ASSUME NEW v, Sound(v), NEW d \in Inos, NEW e \in [Slots -> Dirent],
         NEW k \in 0 .. MaxDirBlocks,
         \A s \in Slots : s \notin 1 .. (k * SlotsPerBlock) => e[s].ino = 0
  PROVE  Sound([v EXCEPT !.ent[d] = e, !.nblk[d] = k])
<1> DEFINE w == [v EXCEPT !.ent[d] = e, !.nblk[d] = k]
<1>1. v \in Volume
  BY DEF Sound
<1>2. w \in Volume
  <2>1. [v EXCEPT !.ent[d] = e] \in Volume
    BY <1>1, SetDir
  <2> QED BY <2>1, SetNblk
<1>3. \A c \in Inos : w.ent[c] = IF c = d THEN e ELSE v.ent[c]
  BY <1>1 DEF Volume
<1>4. \A c \in Inos : w.nblk[c] = IF c = d THEN k ELSE v.nblk[c]
  BY <1>1 DEF Volume
<1> HIDE DEF w
<1>5. Beyond(w)
  BY <1>3, <1>4 DEF Sound, Beyond, DirSlots
<1> QED BY <1>2, <1>5 DEF Sound, w

(* Giving or taking blocks.                                                *)
LEMMA SetFreeBlocksSound ==
  ASSUME NEW v, Sound(v), NEW k \in Nat
  PROVE  Sound([v EXCEPT !.freeBlocks = k])
<1>1. v \in Volume
  BY DEF Sound
<1>2. [v EXCEPT !.freeBlocks = k] \in Volume
  BY <1>1, SetFreeBlocks
<1>3. /\ [v EXCEPT !.freeBlocks = k].ent = v.ent
      /\ [v EXCEPT !.freeBlocks = k].nblk = v.nblk
  BY <1>1 DEF Volume
<1> QED BY <1>2, <1>3, SameDirsSound

(* Setting the link count of an inode.                                     *)
LEMMA SetLinksSound ==
  ASSUME NEW v, Sound(v), NEW i \in Inos, NEW k \in 0 .. (LinkMod - 1)
  PROVE  Sound([v EXCEPT !.inode[i].links = k])
<1>1. v \in Volume
  BY DEF Sound
<1>2. v.inode[i] \in Inode
  BY <1>1, VolumeFields
<1>3. [v.inode[i] EXCEPT !.links = k] \in Inode
  BY <1>2 DEF Inode
<1>4. Sound([v EXCEPT !.inode[i] = [v.inode[i] EXCEPT !.links = k]])
  BY <1>3, SetInodeSound
<1> QED BY <1>4

(* kill_file_by_inode gives back blocks that are counted.                  *)
LEMMA KillSound ==
  ASSUME NEW v, Sound(v), NEW i \in Inos
  PROVE  Sound(kill_file_by_inode(v, i))
<1> DEFINE v1 == [v EXCEPT !.freeBlocks = @ + v.inode[i].blocks]
           v2 == [v1 EXCEPT !.inode[i] = NoInode]
           none == [s \in Slots |-> Unused]
           v3 == [v2 EXCEPT !.ent[i] = none, !.nblk[i] = 0]
<1>1. v \in Volume
  BY DEF Sound
<1>2. v.inode[i].blocks \in Nat /\ v.freeBlocks \in Nat
  <2>1. v.inode[i] \in Inode
    BY <1>1, VolumeFields
  <2> QED BY <1>1, <2>1, VolumeFields DEF Inode
<1>3. Sound(v1)
  BY <1>2, SetFreeBlocksSound
<1>4. Sound(v2)
  <2>1. NoInode \in Inode
    BY SizeFacts DEF NoInode, Inode, Kinds
  <2> HIDE DEF v1
  <2> QED BY <1>3, <2>1, SetInodeSound
<1>5. Sound(v3)
  <2>1. none \in [Slots -> Dirent] /\ \A s \in Slots : none[s].ino = 0
    BY DEF Unused, Dirent
  <2>2. 0 \in 0 .. MaxDirBlocks
    BY SizeFacts
  <2> HIDE DEF v2, none
  <2> QED BY <1>4, <2>1, <2>2, SetDirSound
<1>6. Sound([v EXCEPT !.inode[i].links = 0])
  <2>1. 0 \in 0 .. (LinkMod - 1)
    BY SizeFacts
  <2> QED BY <2>1, SetLinksSound
<1>7. Sound(ext2fs_inode_alloc_stats2(v3, i, -1, IsDir(v, i)))
  <2> HIDE DEF v3
  <2> QED BY <1>5, AllocStatsSound
<1>8. v3 = [v EXCEPT !.freeBlocks = @ + v.inode[i].blocks,
                     !.inode[i] = NoInode,
                     !.ent[i] = [s \in Slots |-> Unused],
                     !.nblk[i] = 0]
  OBVIOUS
<1> HIDE DEF v3
<1> QED BY <1>6, <1>7, <1>8 DEF kill_file_by_inode

(* do_unlink_on_ino and do_unlink.                                         *)
LEMMA UnlinkOnInoSound ==
  ASSUME NEW v, Sound(v), NEW p \in Inos, NEW n, NEW i \in Inos
  PROVE  Sound(do_unlink_on_ino(v, p, n, i, -1))
<1> DEFINE links == IF v.inode[i].links > 0 THEN v.inode[i].links + -1 ELSE 0
           unlinked == ext2fs_unlink(v, p, n, i)
<1>1. v.inode[i].links \in 0 .. (LinkMod - 1)
  <2>1. v \in Volume
    BY DEF Sound
  <2>2. v.inode[i] \in Inode
    BY <2>1, VolumeFields
  <2> QED BY <2>2 DEF Inode
<1>2. links \in 0 .. (LinkMod - 1)
  BY <1>1, SizeFacts
<1>3. Sound(unlinked)
  BY UnlinkSound
<1> HIDE DEF unlinked, links
<1>4. Sound(kill_file_by_inode(unlinked, i))
  BY <1>3, KillSound
<1>5. Sound([unlinked EXCEPT !.inode[i].links = links])
  BY <1>2, <1>3, SetLinksSound
<1> QED BY <1>4, <1>5 DEF do_unlink_on_ino, unlinked, links

(* do_unlink, also of a name that is not there.                            *)
LEMMA DoUnlinkSound ==
  ASSUME NEW v, Sound(v), NEW p \in Inos, NEW n
  PROVE  Sound(do_unlink(v, p, n, -1))
<1>1. v \in Volume
  BY DEF Sound
<1>2. ext2fs_lookup(v, p, n) \in Inos \cup {0}
  BY <1>1, LookupType
<1> QED BY <1>2, UnlinkOnInoSound DEF do_unlink

(* do_rmdir_on_ino.                                                        *)
LEMMA RmdirOnInoSound ==
  ASSUME NEW v, Sound(v), NEW p \in Inos, NEW n, NEW i \in Inos
  PROVE  Sound(do_rmdir_on_ino(v, p, n, i))
<1>1. Sound(kill_file_by_inode(ext2fs_unlink(v, p, n, i), i))
  BY UnlinkSound, KillSound
<1> QED BY <1>1, AddLinksSound DEF do_rmdir_on_ino

(* do_rmdir, whatever it answers.                                          *)
LEMMA DoRmdirSound ==
  ASSUME NEW v, Sound(v), NEW perm, NEW p \in Inos, NEW n
  PROVE  Sound(do_rmdir(v, perm, p, n).vol)
<1>1. v \in Volume
  BY DEF Sound
<1>2. ext2fs_lookup(v, p, n) \in Inos \cup {0}
  BY <1>1, LookupType
<1> QED BY <1>2, RmdirOnInoSound DEF do_rmdir

(* do_create, and the requests that use it.                                *)
LEMMA CreateSound ==
  ASSUME NEW v, Sound(v), NEW p \in Inos, NEW n \in Names, NEW kind \in Kinds
  PROVE  /\ Sound(do_create(v, p, n, kind).vol)
         /\ do_create(v, p, n, kind).rc = "0" => do_create(v, p, n, kind).ino \in Inos
<1>1. CASE FreeInos(v) = {}
  BY <1>1 DEF do_create
<1>2. CASE FreeInos(v) # {}
  <2> DEFINE i == ext2fs_new_inode(v, p)
             ip == [kind |-> kind, links |-> 1, blocks |-> 0]
             new == [v EXCEPT !.inode[i] = ip]
             marked == ext2fs_inode_alloc_stats2(new, i, 1, FALSE)
  <2>1. i \in Inos
    BY <1>2, NewInodeType
  <2>2. ip \in Inode
    BY SizeFacts DEF Inode
  <2> HIDE DEF i, ip
  <2>3. Sound(new)
    BY <2>1, <2>2, SetInodeSound
  <2> HIDE DEF new
  <2>4. Sound(marked)
    <3> DEFINE isdir == FALSE
    <3> HIDE DEF isdir
    <3>1. Sound(ext2fs_inode_alloc_stats2(new, i, 1, isdir))
      BY <2>1, <2>3, AllocStatsSound
    <3> QED BY <3>1 DEF isdir
  <2> HIDE DEF marked
  <2>5. n \in DirNames
    BY DEF DirNames
  <2>6. Sound(do_link(marked, p, n, i))
    BY <2>1, <2>4, <2>5, DoLinkSound
  <2>7. do_create(v, p, n, kind) =
          [vol |-> do_link(marked, p, n, i),
           rc  |-> IF LinkOk(marked, p) THEN "0" ELSE "EIO",
           ino |-> i]
    BY <1>2 DEF do_create, marked, new, ip, i
  <2> QED BY <2>1, <2>6, <2>7
<1> QED BY <1>1, <1>2

(* op_symlink takes a block for the target only if one is free.            *)
LEMMA SymlinkSound ==
  ASSUME NEW v, Sound(v), NEW perm, NEW p \in Inos, NEW n \in Names
  PROVE  Sound(symlink_request(v, perm, p, n).vol)
<1> DEFINE r == do_create(v, p, n, "symlink")
<1>1. Sound(r.vol) /\ (r.rc = "0" => r.ino \in Inos)
  BY CreateSound DEF Kinds
<1> HIDE DEF r
<1>2. ASSUME r.rc = "0", r.vol.freeBlocks # 0
      PROVE  Sound([r.vol EXCEPT !.inode[r.ino].blocks = 1, !.freeBlocks = @ - 1])
  <2> DEFINE v1 == [r.vol EXCEPT !.inode[r.ino].blocks = 1]
  <2>1. r.vol \in Volume /\ r.ino \in Inos
    BY <1>1, <1>2 DEF Sound
  <2>2. r.vol.freeBlocks - 1 \in Nat /\ r.vol.inode[r.ino] \in Inode
    BY <1>2, <2>1, VolumeFields
  <2>3. [r.vol.inode[r.ino] EXCEPT !.blocks = 1] \in Inode
    BY <2>2 DEF Inode
  <2>4. Sound([r.vol EXCEPT !.inode[r.ino] = [r.vol.inode[r.ino] EXCEPT !.blocks = 1]])
    BY <1>1, <2>1, <2>3, SetInodeSound
  <2>5. Sound(v1)
    BY <2>4
  <2>6. v1.freeBlocks = r.vol.freeBlocks
    BY <2>1 DEF Volume
  <2>7. Sound([v1 EXCEPT !.freeBlocks = @ - 1])
    <3> HIDE DEF v1
    <3> QED BY <2>2, <2>5, <2>6, SetFreeBlocksSound
  <2> QED BY <2>7
<1> QED BY <1>1, <1>2 DEF symlink_request, r

(* op_link counts the link, and uncounts it when it fails.                 *)
LEMMA LinkRequestSound ==
  ASSUME NEW v, Sound(v), NEW i \in Inos, NEW q \in Inos, NEW m \in Names
  PROVE  Sound(link_request(v, i, q, m).vol)
<1> DEFINE counted == AddLinks(v, i, 1)
<1>1. Sound(counted)
  BY AddLinksSound
<1> HIDE DEF counted
<1>2. m \in DirNames
  BY DEF DirNames
<1>3. Sound(do_link(counted, q, m, i)) /\ Sound(AddLinks(counted, i, -1))
  BY <1>1, <1>2, DoLinkSound, AddLinksSound
<1> QED BY <1>3 DEF link_request, counted

(* The first block of a new directory holds all of its entries.            *)
LEMMA NewDirType ==
  ASSUME NEW i \in Inos, NEW p \in Inos
  PROVE  /\ NewDirEntries(i, p) \in [Slots -> Dirent]
         /\ \A s \in Slots : s \notin 1 .. (1 * SlotsPerBlock)
                                => NewDirEntries(i, p)[s].ino = 0
<1>1. [name |-> ".", ino |-> i] \in Dirent /\ [name |-> "..", ino |-> p] \in Dirent
      /\ Unused \in Dirent /\ Unused.ino = 0
  BY DEF Dirent, DirNames, Unused
<1>2. \A s \in Slots : NewDirEntries(i, p)[s] =
         IF s = 1 THEN [name |-> ".", ino |-> i]
         ELSE IF s = 2 THEN [name |-> "..", ino |-> p] ELSE Unused
  BY DEF NewDirEntries
<1>3. NewDirEntries(i, p) \in [Slots -> Dirent]
  BY <1>1 DEF NewDirEntries
<1>4. \A s \in Slots : s \notin 1 .. (1 * SlotsPerBlock) => s # 1 /\ s # 2
  BY SizeFacts
<1> QED BY <1>1, <1>2, <1>3, <1>4

(* The new directory, before its name is entered: allocated, written and   *)
(* counted.                                                                *)
MarkedDir(v, p) ==
  LET i == ext2fs_new_inode(v, p)
  IN ext2fs_inode_alloc_stats2(
       [v EXCEPT !.inode[i] = [kind |-> "dir", links |-> 2, blocks |-> 1],
                 !.ent[i] = NewDirEntries(i, p), !.nblk[i] = 1, !.freeBlocks = @ - 1],
       i, 1, TRUE)

LEMMA MarkedDirSound ==
  ASSUME NEW v, Sound(v), NEW p \in Inos, FreeInos(v) # {}, v.freeBlocks # 0
  PROVE  Sound(MarkedDir(v, p))
<1> DEFINE i == ext2fs_new_inode(v, p)
           ip == [kind |-> "dir", links |-> 2, blocks |-> 1]
           es == NewDirEntries(i, p)
           v1 == [v EXCEPT !.inode[i] = ip]
           v2 == [v1 EXCEPT !.ent[i] = es, !.nblk[i] = 1]
           new == [v2 EXCEPT !.freeBlocks = @ - 1]
<1>1. i \in Inos
  BY NewInodeType
<1>2. ip \in Inode
  BY SizeFacts DEF Inode, Kinds
<1> HIDE DEF i, ip
<1>3. Sound(v1)
  BY <1>1, <1>2, SetInodeSound
<1>4. es \in [Slots -> Dirent] /\ 1 \in 0 .. MaxDirBlocks
      /\ \A s \in Slots : s \notin 1 .. (1 * SlotsPerBlock) => es[s].ino = 0
  BY <1>1, NewDirType, SizeFacts
<1>5. v \in Volume
  BY DEF Sound
<1> HIDE DEF es
<1>6. v2.freeBlocks = v.freeBlocks
  BY <1>5 DEF Volume
<1>7. Sound(v2)
  <2> HIDE DEF v1
  <2> QED BY <1>1, <1>3, <1>4, SetDirSound
<1>8. v.freeBlocks - 1 \in Nat
  BY <1>5, VolumeFields
<1>9. Sound(new)
  <2> HIDE DEF v2
  <2> QED BY <1>6, <1>7, <1>8, SetFreeBlocksSound
<1>10. new = [v EXCEPT !.inode[i] = ip, !.ent[i] = es, !.nblk[i] = 1, !.freeBlocks = @ - 1]
  OBVIOUS
<1> HIDE DEF new
<1>11. Sound(ext2fs_inode_alloc_stats2(new, i, 1, TRUE))
  <2> DEFINE isdir == TRUE
  <2> HIDE DEF isdir
  <2>1. Sound(ext2fs_inode_alloc_stats2(new, i, 1, isdir))
    BY <1>1, <1>9, AllocStatsSound
  <2> QED BY <2>1 DEF isdir
<1> QED BY <1>10, <1>11 DEF MarkedDir, i, ip, es

(* new_ext2fs_mkdir, in terms of it.                                       *)
LEMMA NewMkdirIs ==
  ASSUME NEW v, NEW perm, NEW p, NEW n, FreeInos(v) # {}, v.freeBlocks # 0, perm
  PROVE  new_ext2fs_mkdir(v, perm, p, n) =
           IF FreeSlots(MarkedDir(v, p), p) = {}
           THEN [vol |-> MarkedDir(v, p), rc |-> "DIR_NO_SPACE"]
           ELSE [vol |-> AddLinks(ext2fs_link(MarkedDir(v, p), p, n, ext2fs_new_inode(v, p)), p, 1),
                 rc |-> "0"]
BY DEF new_ext2fs_mkdir, MarkedDir

LEMMA NewMkdirSound ==
  ASSUME NEW v, Sound(v), NEW perm, NEW p \in Inos, NEW n \in Names
  PROVE  Sound(new_ext2fs_mkdir(v, perm, p, n).vol)
<1>1. CASE FreeInos(v) = {} \/ v.freeBlocks = 0 \/ ~perm
  BY <1>1 DEF new_ext2fs_mkdir
<1>2. CASE ~(FreeInos(v) = {} \/ v.freeBlocks = 0 \/ ~perm)
  <2> DEFINE i == ext2fs_new_inode(v, p)
             marked == MarkedDir(v, p)
  <2>1. i \in Inos /\ n \in DirNames
    BY <1>2, NewInodeType DEF DirNames
  <2>2. Sound(marked)
    BY <1>2, MarkedDirSound
  <2>3. new_ext2fs_mkdir(v, perm, p, n) =
          IF FreeSlots(marked, p) = {} THEN [vol |-> marked, rc |-> "DIR_NO_SPACE"]
          ELSE [vol |-> AddLinks(ext2fs_link(marked, p, n, i), p, 1), rc |-> "0"]
    BY <1>2, NewMkdirIs
  <2> HIDE DEF marked, i
  <2>4. ASSUME FreeSlots(marked, p) # {}
        PROVE  Sound(AddLinks(ext2fs_link(marked, p, n, i), p, 1))
    <3>1. Sound(ext2fs_link(marked, p, n, i))
      BY <2>1, <2>2, <2>4, LinkSound
    <3> QED BY <3>1, AddLinksSound
  <2> QED BY <2>2, <2>3, <2>4
<1> QED BY <1>1, <1>2

(* do_mkdir, with its second attempt.                                      *)
LEMMA MkdirSound ==
  ASSUME NEW v, Sound(v), NEW perm, NEW p \in Inos, NEW n \in Names
  PROVE  Sound(do_mkdir(v, perm, p, n).vol)
<1> DEFINE first == new_ext2fs_mkdir(v, perm, p, n)
<1>1. Sound(first.vol)
  BY NewMkdirSound
<1> HIDE DEF first
<1>2. ASSUME CanExpand(first.vol, p)
      PROVE  Sound(new_ext2fs_mkdir(ext2fs_expand_dir(first.vol, p), perm, p, n).vol)
  BY <1>1, <1>2, ExpandSound, NewMkdirSound
<1> QED BY <1>1, <1>2 DEF do_mkdir, first

(* The parts of a rename.                                                  *)
LEMMA CleanupSound ==
  ASSUME NEW v, Sound(v), NEW q \in Inos, NEW m, NEW i \in Inos
  PROVE  Sound(rename_cleanup(v, q, m, i))
<1>1. Sound(ext2fs_unlink(v, q, m, i))
  BY UnlinkSound
<1>2. /\ Sound(AddLinks(ext2fs_unlink(v, q, m, i), q, -1))
      /\ Sound(AddLinks(ext2fs_unlink(v, q, m, i), i, -1))
  BY <1>1, AddLinksSound
<1> QED BY <1>2 DEF rename_cleanup

(* Deleting what had the new name.                                         *)
LEMMA ClobberSound ==
  ASSUME NEW v, Sound(v), NEW perm, NEW q \in Inos, NEW m,
         NEW i \in Inos, NEW t \in Inos
  PROVE  Sound(rename_clobber(v, perm, q, m, i, t).vol)
<1>1. /\ Sound(do_rmdir_on_ino(v, q, m, t))
      /\ Sound(do_unlink_on_ino(v, q, m, t, -1))
      /\ Sound(rename_cleanup(v, q, m, i))
  BY RmdirOnInoSound, UnlinkOnInoSound, CleanupSound
<1> QED BY <1>1 DEF rename_clobber

(* Removing the old name, and moving "..".                                 *)
LEMMA UnlinkOldSound ==
  ASSUME NEW v, Sound(v), NEW p \in Inos, NEW n, NEW q \in Inos, NEW m,
         NEW i \in Inos
  PROVE  Sound(rename_unlink_old(v, p, n, q, m, i).vol)
<1>1. CASE ~IsDir(v, i)
  <2>1. Sound(do_unlink(v, p, n, -1)) /\ Sound(rename_cleanup(v, q, m, i))
    BY DoUnlinkSound, CleanupSound
  <2> QED BY <1>1, <2>1 DEF rename_unlink_old
<1>2. CASE IsDir(v, i)
  <2> DEFINE linked == do_link(v, i, "..", q)
             moved == ext2fs_unlink(linked, i, "..", p)
  <2>1. ".." \in DirNames
    BY DEF DirNames
  <2>2. Sound(linked)
    BY <2>1, DoLinkSound
  <2> HIDE DEF linked
  <2>3. Sound(moved)
    BY <2>2, UnlinkSound
  <2> HIDE DEF moved
  <2>4. Sound(AddLinks(ext2fs_unlink(moved, p, n, 0), p, -1))
    <3>1. Sound(ext2fs_unlink(moved, p, n, 0))
      BY <2>3, UnlinkSound
    <3> QED BY <3>1, AddLinksSound
  <2>5. Sound(rename_cleanup(v, q, m, i)) /\ Sound(rename_cleanup(moved, q, m, i))
    BY <2>3, CleanupSound
  <2>6. rename_unlink_old(v, p, n, q, m, i).vol \in
          {rename_cleanup(v, q, m, i), rename_cleanup(moved, q, m, i),
           AddLinks(ext2fs_unlink(moved, p, n, 0), p, -1)}
    BY <1>2 DEF rename_unlink_old, linked, moved
  <2> QED BY <2>4, <2>5, <2>6
<1> QED BY <1>1, <1>2

(* do_rename, wherever it stops.                                           *)
LEMMA RenameSound ==
  ASSUME NEW v, Sound(v), NEW perm, NEW p \in Inos, NEW n,
         NEW q \in Inos, NEW m \in Names
  PROVE  Sound(do_rename(v, perm, p, n, q, m).vol)
<1> DEFINE i == ext2fs_lookup(v, p, n)
           t == ext2fs_lookup(v, q, m)
           counted == AddLinks(v, IF IsDir(v, i) THEN q ELSE i, 1)
           linked == do_link(counted, q, m, i)
           clobbered == IF t = 0 THEN [vol |-> linked, rc |-> "0"]
                        ELSE rename_clobber(linked, perm, q, m, i, t)
<1>1. v \in Volume
  BY DEF Sound
<1>2. i \in Inos \cup {0} /\ t \in Inos \cup {0}
  BY <1>1, LookupType
<1> HIDE DEF i, t
<1>3. CASE i = 0
  BY <1>3 DEF do_rename, i
<1>4. CASE i # 0
  <2>1. i \in Inos
    BY <1>2, <1>4
  <2>2. Sound(counted)
    <3>1. Sound(AddLinks(v, q, 1)) /\ Sound(AddLinks(v, i, 1))
      BY <2>1, AddLinksSound
    <3> QED BY <3>1
  <2> HIDE DEF counted
  <2>3. m \in DirNames
    BY DEF DirNames
  <2>4. Sound(linked)
    BY <2>1, <2>2, <2>3, DoLinkSound
  <2> HIDE DEF linked
  <2>5. Sound(clobbered.vol)
    <3>1. CASE t = 0
      BY <2>4, <3>1
    <3>2. CASE t # 0
      <4>1. Sound(rename_clobber(linked, perm, q, m, i, t).vol)
        BY <1>2, <2>1, <2>4, <3>2, ClobberSound
      <4> QED BY <3>2, <4>1
    <3> QED BY <3>1, <3>2
  <2> HIDE DEF clobbered
  <2>6. Sound(rename_unlink_old(clobbered.vol, p, n, q, m, i).vol)
    BY <2>1, <2>5, UnlinkOldSound
  <2>7. Sound(rename_cleanup(counted, q, m, i))
    BY <2>1, <2>2, CleanupSound
  <2>8. do_rename(v, perm, p, n, q, m) =
          IF ~LinkOk(counted, q)
          THEN [vol |-> rename_cleanup(counted, q, m, i), rc |-> "EIO"]
          ELSE IF clobbered.rc # "0" THEN clobbered
          ELSE rename_unlink_old(clobbered.vol, p, n, q, m, i)
    BY <1>4 DEF do_rename, clobbered, linked, counted, i, t
  <2> QED BY <2>5, <2>6, <2>7, <2>8
<1> QED BY <1>3, <1>4

----------------------------------------------------------------------------
(* The specification.                                                      *)

(* A step becomes a sound volume.                                          *)
LEMMA BecomeSound ==
  ASSUME NEW v, Sound(v), Become(v)
  PROVE  Sound(vol)'
<1>1. v \in Volume
  BY DEF Sound
<1>2. vol' = v
  BY <1>1 DEF Become, vol, Volume
<1> QED BY <1>2 DEF Sound, Beyond, DirSlots

(* A fresh volume is sound.                                                *)
LEMMA InitSound ==
  ASSUME Init
  PROVE  Sound(vol)
<1>1. RootIno \in Inos /\ RootIno \notin NewInos
  BY SizeFacts DEF Inos, NewInos, RootIno, FirstIno
<1>2. freeInodes \in Int
  <2>1. IsFiniteSet(NewInos)
    BY SizeFacts, FS_Interval DEF NewInos, FirstIno
  <2>2. Cardinality(NewInos) \in Nat
    BY <2>1, FS_CardinalityType
  <2> QED BY <2>2 DEF Init
<1>3. freeBlocks \in Nat
  BY SizeFacts DEF Init
<1>4. /\ NewDirEntries(RootIno, RootIno) \in [Slots -> Dirent]
      /\ \A s \in Slots : s \notin 1 .. (1 * SlotsPerBlock)
                             => NewDirEntries(RootIno, RootIno)[s].ino = 0
  BY <1>1, NewDirType
<1>5. [s \in Slots |-> Unused] \in [Slots -> Dirent] /\ Unused.ino = 0
  BY DEF Unused, Dirent
<1>6. ent \in [Inos -> [Slots -> Dirent]]
  BY <1>4, <1>5 DEF Init
<1>7. nblk \in [Inos -> 0 .. MaxDirBlocks]
  BY SizeFacts DEF Init
<1>8. inode \in [Inos -> Inode]
  <2>1. [kind |-> "dir", links |-> 2, blocks |-> 1] \in Inode /\ NoInode \in Inode
    BY SizeFacts DEF Inode, NoInode, Kinds
  <2> QED BY <2>1 DEF Init
<1>9. imap \in SUBSET Inos /\ usedDirs \in Int /\ damaged \in BOOLEAN
  <2>1. imap = {RootIno} /\ usedDirs = 1 /\ damaged = FALSE
    BY DEF Init
  <2>2. imap \in SUBSET Inos
    BY <1>1, <2>1
  <2>3. usedDirs \in Int
    BY <2>1
  <2>4. damaged \in BOOLEAN
    BY <2>1, Zenon
  <2> QED BY <2>2, <2>3, <2>4, Zenon
<1>10. vol \in Volume
  BY <1>2, <1>3, <1>6, <1>7, <1>8, <1>9 DEF vol, Volume
<1>11. Beyond(vol)
  <2> SUFFICES ASSUME NEW d \in Inos, NEW s \in Slots, s \notin DirSlots(vol, d)
               PROVE  ent[d][s].ino = 0
    BY DEF Beyond, vol
  <2>1. CASE d = RootIno
    <3>1. nblk[d] = 1 /\ ent[d] = NewDirEntries(RootIno, RootIno)
      BY <2>1, <1>1 DEF Init
    <3>2. s \notin 1 .. (1 * SlotsPerBlock)
      BY <3>1 DEF DirSlots, vol
    <3> QED BY <3>1, <3>2, <1>4
  <2>2. CASE d # RootIno
    BY <2>2, <1>5 DEF Init
  <2> QED BY <2>1, <2>2
<1> QED BY <1>10, <1>11 DEF Sound

(* Every request leaves a sound volume.                                    *)
LEMMA NextSound ==
  ASSUME Sound(vol), [Next]_vars
  PROVE  Sound(vol)'
<1>1. ASSUME NEW p \in Inos, NEW n \in Names, op_create(p, n)
      PROVE  Sound(vol)'
  <2>1. PICK perm \in BOOLEAN : Become(create_request(vol, perm, p, n).vol)
    BY <1>1 DEF op_create
  <2>2. Sound(do_create(vol, p, n, "file").vol)
    BY CreateSound DEF Kinds
  <2>3. Sound(create_request(vol, perm, p, n).vol)
    BY <2>2 DEF create_request
  <2> QED BY <2>1, <2>3, BecomeSound
<1>2. ASSUME NEW p \in Inos, NEW n \in Names, op_symlink(p, n)
      PROVE  Sound(vol)'
  <2>1. PICK perm \in BOOLEAN : Become(symlink_request(vol, perm, p, n).vol)
    BY <1>2 DEF op_symlink
  <2> QED BY <2>1, SymlinkSound, BecomeSound
<1>3. ASSUME NEW p \in Inos, NEW n \in Names, op_mkdir(p, n)
      PROVE  Sound(vol)'
  <2>1. PICK perm \in BOOLEAN : Become(do_mkdir(vol, perm, p, n).vol)
    BY <1>3 DEF op_mkdir
  <2> QED BY <2>1, MkdirSound, BecomeSound
<1>4. ASSUME NEW p \in Inos, NEW n \in Names, op_link(p, n)
      PROVE  Sound(vol)'
  <2>1. PICK i \in Inos, perm \in BOOLEAN :
          Become(IF perm THEN link_request(vol, i, p, n).vol ELSE vol)
    BY <1>4 DEF op_link
  <2>2. Sound(link_request(vol, i, p, n).vol)
    BY LinkRequestSound
  <2> QED BY <2>1, <2>2, BecomeSound
<1>5. ASSUME NEW p \in Inos, NEW n \in Names, op_unlink(p, n)
      PROVE  Sound(vol)'
  <2>1. PICK perm \in BOOLEAN :
          Become(IF perm THEN do_unlink(vol, p, n, -1) ELSE vol)
    BY <1>5 DEF op_unlink
  <2>2. Sound(do_unlink(vol, p, n, -1))
    BY DoUnlinkSound
  <2> QED BY <2>1, <2>2, BecomeSound
<1>6. ASSUME NEW p \in Inos, NEW n \in Names, op_rmdir(p, n)
      PROVE  Sound(vol)'
  <2>1. PICK perm \in BOOLEAN : Become(do_rmdir(vol, perm, p, n).vol)
    BY <1>6 DEF op_rmdir
  <2> QED BY <2>1, DoRmdirSound, BecomeSound
<1>7. ASSUME NEW p \in Inos, NEW n \in Names, op_rename(p, n)
      PROVE  Sound(vol)'
  <2>1. PICK q \in Inos, m \in Names, perm \in {"none", "parents", "target"} :
          Become(IF perm = "none" THEN vol
                 ELSE do_rename(vol, perm = "target", p, n, q, m).vol)
    BY <1>7 DEF op_rename
  <2> DEFINE allowed == perm = "target"
  <2> HIDE DEF allowed
  <2>2. Sound(do_rename(vol, allowed, p, n, q, m).vol)
    BY RenameSound
  <2>3. Become(IF perm = "none" THEN vol ELSE do_rename(vol, allowed, p, n, q, m).vol)
    BY <2>1 DEF allowed
  <2> QED BY <2>2, <2>3, BecomeSound
<1>8. CASE UNCHANGED vars
  <2>1. vol' = vol
    BY <1>8 DEF vars, vol
  <2> QED BY <2>1 DEF Sound, Beyond, DirSlots
<1> QED BY <1>1, <1>2, <1>3, <1>4, <1>5, <1>6, <1>7, <1>8 DEF Next

(* Every sequence of requests, whichever of them fail, leaves a volume of  *)
(* the right type: blocks are taken only when one is free, link counts     *)
(* stay within i_links_count, directories within their blocks, and no      *)
(* block a directory has not grown to holds an entry.                      *)
THEOREM NamespaceInvariant == Spec => []Sound(vol)
<1>1. Init => Sound(vol)
  BY InitSound
<1>2. Sound(vol) /\ [Next]_vars => Sound(vol)'
  BY NextSound
<1> QED BY <1>1, <1>2, PTL DEF Spec

(* Every variable of the name space keeps its type; in particular          *)
(* ext2fs_new_block is never counted against a volume without free blocks. *)
THEOREM NamespaceTypeOK == Spec => []TypeOK
<1>1. Sound(vol) => TypeOK
  BY DEF Sound, TypeOK
<1> QED BY <1>1, NamespaceInvariant, PTL

----------------------------------------------------------------------------
(* The counts of a volume agree with its bitmap and its inodes.            *)


(* No name leads to the root, so that no unlink, rmdir or rename kills it. *)
RootUnnamed(v) ==
  \A d \in Inos, s \in Slots : v.ent[d][s].name \in Names => v.ent[d][s].ino # RootIno

(* An inode that is not marked has no entries left.                        *)
Blank(v) == \A i \in Inos, s \in Slots : i \notin v.imap => v.ent[i][s].ino = 0

(* The inductive invariant.  What is counted again when an inode is killed *)
(* was counted before: an inode with a type is marked.                     *)
Counted(v) ==
  /\ Sound(v)
  /\ v.freeInodes = Cardinality(FreeInos(v))
  /\ v.usedDirs = Cardinality({i \in v.imap : IsDir(v, i)})
  /\ \A d \in Inos : IsDir(v, d) => v.inode[d].blocks = v.nblk[d]
  /\ \A i \in Inos : v.inode[i].kind # "none" => i \in v.imap
  /\ IsDir(v, RootIno)
  /\ RootUnnamed(v)
  /\ Blank(v)

(* What a call that allocates and frees no inode leaves alone.             *)
Quiet(v, w) ==
  /\ w.imap = v.imap /\ w.freeInodes = v.freeInodes /\ w.usedDirs = v.usedDirs
  /\ \A i \in Inos :
       /\ w.inode[i].kind = v.inode[i].kind
       /\ IsDir(v, i) /\ v.inode[i].blocks = v.nblk[i] => w.inode[i].blocks = w.nblk[i]

LEMMA InoFacts ==
  /\ RootIno \in Inos /\ RootIno \notin NewInos /\ NewInos \subseteq Inos
  /\ IsFiniteSet(Inos) /\ IsFiniteSet(NewInos)
  /\ \A i \in Inos : i # RootIno => i \in NewInos
<1>1. IsFiniteSet(NewInos)
  BY SizeFacts, FS_Interval DEF NewInos, FirstIno
<1>2. IsFiniteSet({RootIno} \cup NewInos)
  BY <1>1, FS_AddElement
<1> QED BY <1>1, <1>2, SizeFacts DEF Inos, NewInos, RootIno, FirstIno

LEMMA QuietCounted ==
  ASSUME NEW v, Counted(v), NEW w, Sound(w), Quiet(v, w), RootUnnamed(w), Blank(w)
  PROVE  Counted(w)
<1>1. FreeInos(w) = FreeInos(v)
  BY DEF Quiet, FreeInos
<1>2. v.imap \subseteq Inos
  BY VolumeFields DEF Counted, Sound
<1>3. {i \in w.imap : IsDir(w, i)} = {i \in v.imap : IsDir(v, i)}
  BY <1>2 DEF Quiet, IsDir
<1> QED BY <1>1, <1>3, InoFacts DEF Counted, Quiet, IsDir

LEMMA QuietSelf ==
  ASSUME NEW v
  PROVE  Quiet(v, v)
BY DEF Quiet

----------------------------------------------------------------------------
(* Directories.                                                            *)

(* Writing an entry.                                                       *)
LEMMA SetEntryCounted ==
  ASSUME NEW v, Counted(v), NEW d \in Inos, NEW s \in Slots, NEW e \in Dirent,
         Sound([v EXCEPT !.ent[d][s] = e]), e.name \in Names => e.ino # RootIno,
         d \in v.imap \/ e.ino = 0
  PROVE  /\ Counted([v EXCEPT !.ent[d][s] = e])
         /\ Quiet(v, [v EXCEPT !.ent[d][s] = e])
<1> DEFINE w == [v EXCEPT !.ent[d][s] = e]
<1>1. v \in Volume
  BY DEF Counted, Sound
<1>2. /\ w.imap = v.imap /\ w.freeInodes = v.freeInodes /\ w.usedDirs = v.usedDirs
      /\ w.inode = v.inode /\ w.nblk = v.nblk
  BY <1>1 DEF Volume
<1>3. \A c \in Inos, t \in Slots :
        w.ent[c][t] = IF c = d /\ t = s THEN e ELSE v.ent[c][t]
  BY <1>1 DEF Volume
<1>4. Sound(w)
  OBVIOUS
<1> HIDE DEF w
<1>5. Quiet(v, w)
  BY <1>2 DEF Quiet
<1>6. RootUnnamed(w) /\ Blank(w)
  BY <1>2, <1>3 DEF Counted, RootUnnamed, Blank
<1>7. Counted(w)
  BY <1>4, <1>5, <1>6, QuietCounted
<1> QED BY <1>5, <1>7 DEF w

LEMMA LinkCounted ==
  ASSUME NEW v, Counted(v), NEW d \in Inos, d \in v.imap, FreeSlots(v, d) # {},
         NEW n \in DirNames, NEW i \in Inos, n \in Names => i # RootIno
  PROVE  Counted(ext2fs_link(v, d, n, i)) /\ Quiet(v, ext2fs_link(v, d, n, i))
<1>0. Sound(v) /\ v \in Volume
  BY DEF Counted, Sound
<1>1. FreeSlots(v, d) \in SUBSET Slots /\ FreeSlots(v, d) \in SUBSET Nat
  BY <1>0, DirSlotsAreSlots DEF FreeSlots
<1> DEFINE s == Least(FreeSlots(v, d))
           e == [name |-> n, ino |-> i]
<1>2. s \in Slots
  BY <1>1, LeastIn
<1>3. e \in Dirent /\ (e.name \in Names => e.ino # RootIno)
  BY DEF Dirent
<1>4. Sound([v EXCEPT !.ent[d][s] = e])
  BY <1>0, LinkSound DEF ext2fs_link
<1>5. ext2fs_link(v, d, n, i) = [v EXCEPT !.ent[d][s] = e]
  BY DEF ext2fs_link
<1> HIDE DEF s, e
<1> QED BY <1>2, <1>3, <1>4, <1>5, SetEntryCounted

LEMMA UnlinkCounted ==
  ASSUME NEW v, Counted(v), NEW d \in Inos, NEW n, NEW i
  PROVE  Counted(ext2fs_unlink(v, d, n, i)) /\ Quiet(v, ext2fs_unlink(v, d, n, i))
<1> DEFINE S == SlotsOf(v, d, n, i)
           w == ext2fs_unlink(v, d, n, i)
<1>0. Sound(v) /\ v \in Volume
  BY DEF Counted, Sound
<1>1. S \in SUBSET Slots /\ S \in SUBSET Nat
  BY <1>0, DirSlotsAreSlots DEF SlotsOf
<1>2. Sound(w)
  BY <1>0, UnlinkSound
<1>3. CASE S = {}
  BY <1>3, QuietSelf DEF ext2fs_unlink
<1>4. CASE S # {} /\ BlockHead(Least(S))
  <2>1. w = [v EXCEPT !.damaged = TRUE]
    BY <1>4 DEF ext2fs_unlink
  <2>2. /\ w.imap = v.imap /\ w.freeInodes = v.freeInodes /\ w.usedDirs = v.usedDirs
        /\ w.inode = v.inode /\ w.nblk = v.nblk /\ w.ent = v.ent
    BY <1>0, <2>1 DEF Volume
  <2> HIDE DEF w
  <2>3. Quiet(v, w) /\ RootUnnamed(w) /\ Blank(w)
    BY <2>2 DEF Quiet, Counted, RootUnnamed, Blank
  <2>4. Counted(w)
    BY <1>2, <2>3, QuietCounted
  <2> QED BY <2>3, <2>4 DEF w
<1>5. CASE S # {} /\ ~BlockHead(Least(S))
  <2>1. w = [v EXCEPT !.ent[d][Least(S)] = Unused]
    BY <1>5 DEF ext2fs_unlink
  <2>2. Least(S) \in Slots
    BY <1>1, <1>5, LeastIn
  <2>3. /\ Unused \in Dirent /\ Unused.ino = 0
        /\ Unused.name \in Names => Unused.ino # RootIno
    BY DEF Unused, Dirent, RootIno
  <2> HIDE DEF S
  <2>4. /\ Counted([v EXCEPT !.ent[d][Least(S)] = Unused])
        /\ Quiet(v, [v EXCEPT !.ent[d][Least(S)] = Unused])
    BY <1>2, <2>1, <2>2, <2>3, SetEntryCounted
  <2> QED BY <2>1, <2>4
<1> QED BY <1>3, <1>4, <1>5

(* A directory grows by a block that is counted in its i_blocks.           *)
LEMMA ExpandCounted ==
  ASSUME NEW v, Counted(v), NEW d \in Inos, CanExpand(v, d)
  PROVE  Counted(ext2fs_expand_dir(v, d)) /\ Quiet(v, ext2fs_expand_dir(v, d))
<1> DEFINE w == ext2fs_expand_dir(v, d)
<1>0. Sound(v) /\ v \in Volume
  BY DEF Counted, Sound
<1>1. Sound(w)
  BY <1>0, ExpandSound
<1>2. /\ w.imap = v.imap /\ w.freeInodes = v.freeInodes /\ w.usedDirs = v.usedDirs
      /\ w.ent = v.ent
      /\ w.inode = [v.inode EXCEPT ![d].blocks = @ + 1]
      /\ w.nblk = [v.nblk EXCEPT ![d] = @ + 1]
  BY <1>0 DEF Volume, ext2fs_expand_dir
<1>3. v.inode \in [Inos -> Inode] /\ v.nblk \in [Inos -> 0 .. MaxDirBlocks]
  BY <1>0, VolumeFields
<1>4. \A i \in Inos :
        /\ w.inode[i].kind = v.inode[i].kind
        /\ w.inode[i].blocks = IF i = d THEN v.inode[i].blocks + 1 ELSE v.inode[i].blocks
        /\ w.nblk[i] = IF i = d THEN v.nblk[i] + 1 ELSE v.nblk[i]
  BY <1>2, <1>3 DEF Inode
<1> HIDE DEF w
<1>5. Quiet(v, w)
  BY <1>2, <1>4 DEF Quiet
<1>6. RootUnnamed(w) /\ Blank(w)
  BY <1>2 DEF Counted, RootUnnamed, Blank
<1>7. Counted(w)
  BY <1>1, <1>5, <1>6, QuietCounted
<1> QED BY <1>5, <1>7 DEF w

LEMMA DoLinkCounted ==
  ASSUME NEW v, Counted(v), NEW d \in Inos, d \in v.imap, NEW n \in DirNames,
         NEW i \in Inos, n \in Names => i # RootIno
  PROVE  /\ Counted(do_link(v, d, n, i))
         /\ \A j \in Inos : do_link(v, d, n, i).inode[j].kind = v.inode[j].kind
<1>0. Sound(v)
  BY DEF Counted
<1>1. CASE FreeSlots(v, d) # {}
  BY <1>1, LinkCounted DEF do_link, Quiet
<1>2. CASE FreeSlots(v, d) = {} /\ CanExpand(v, d)
  <2> DEFINE w == ext2fs_expand_dir(v, d)
  <2>1. Counted(w) /\ Quiet(v, w) /\ FreeSlots(w, d) # {}
    BY <1>0, <1>2, ExpandCounted, ExpandSound
  <2>2. do_link(v, d, n, i) = ext2fs_link(w, d, n, i)
    BY <1>2 DEF do_link
  <2> HIDE DEF w
  <2>3. Counted(ext2fs_link(w, d, n, i)) /\ Quiet(w, ext2fs_link(w, d, n, i))
    BY <2>1, LinkCounted DEF Quiet
  <2> QED BY <2>1, <2>2, <2>3 DEF Quiet
<1>3. CASE FreeSlots(v, d) = {} /\ ~CanExpand(v, d)
  BY <1>3 DEF do_link
<1> QED BY <1>1, <1>2, <1>3

(* ext2fs_lookup of a name does not find the root.                         *)
LEMMA LookupNotRoot ==
  ASSUME NEW v, Counted(v), NEW d \in Inos, NEW n \in Names, ext2fs_lookup(v, d, n) # 0
  PROVE  ext2fs_lookup(v, d, n) \in Inos /\ ext2fs_lookup(v, d, n) # RootIno
<1> DEFINE S == SlotsOf(v, d, n, 0)
<1>0. v \in Volume
  BY DEF Counted, Sound
<1>1. S \in SUBSET Slots /\ S \in SUBSET Nat
  BY <1>0, DirSlotsAreSlots DEF SlotsOf
<1>2. S # {} /\ ext2fs_lookup(v, d, n) = v.ent[d][Least(S)].ino
  BY DEF ext2fs_lookup
<1>3. Least(S) \in S /\ Least(S) \in Slots
  BY <1>1, <1>2, LeastIn
<1>4. v.ent[d][Least(S)].name = n
  BY <1>3 DEF SlotsOf
<1>5. ext2fs_lookup(v, d, n) \in Inos \cup {0}
  BY <1>0, LookupType
<1> HIDE DEF S
<1> QED BY <1>2, <1>3, <1>4, <1>5 DEF Counted, RootUnnamed

----------------------------------------------------------------------------
(* Inodes.                                                                 *)

(* Another i_links_count.                                                  *)
LEMMA SetLinksCounted ==
  ASSUME NEW v, Counted(v), NEW i \in Inos, NEW k \in 0 .. (LinkMod - 1)
  PROVE  Counted([v EXCEPT !.inode[i].links = k])
<1> DEFINE w == [v EXCEPT !.inode[i].links = k]
<1>0. Sound(v) /\ v \in Volume
  BY DEF Counted, Sound
<1>1. Sound(w)
  BY <1>0, SetLinksSound
<1>2. /\ w.imap = v.imap /\ w.freeInodes = v.freeInodes /\ w.usedDirs = v.usedDirs
      /\ w.ent = v.ent /\ w.nblk = v.nblk
      /\ w.inode = [v.inode EXCEPT ![i].links = k]
  BY <1>0 DEF Volume
<1>3. v.inode \in [Inos -> Inode]
  BY <1>0, VolumeFields
<1>4. \A j \in Inos : /\ w.inode[j].kind = v.inode[j].kind
                      /\ w.inode[j].blocks = v.inode[j].blocks
  BY <1>2, <1>3 DEF Inode
<1> HIDE DEF w
<1>5. Quiet(v, w) /\ RootUnnamed(w) /\ Blank(w)
  BY <1>2, <1>4 DEF Quiet, Counted, RootUnnamed, Blank
<1>6. Counted(w)
  BY <1>1, <1>5, QuietCounted
<1> QED BY <1>6 DEF w

LEMMA AddLinksCounted ==
  ASSUME NEW v, Counted(v), NEW i \in Inos, NEW n \in Int
  PROVE  Counted(AddLinks(v, i, n)) /\ AddLinks(v, i, n).imap = v.imap
<1>1. v.inode[i] \in Inode
  BY VolumeFields DEF Counted, Sound
<1>2. v.inode[i].links \in Int
  BY <1>1 DEF Inode
<1> DEFINE k == (v.inode[i].links + n) % LinkMod
<1>3. k \in 0 .. (LinkMod - 1)
  <2> DEFINE x == v.inode[i].links + n
  <2>1. x \in Int /\ LinkMod \in Nat \ {0}
    BY <1>2, SizeFacts
  <2> HIDE DEF x
  <2>2. x % LinkMod \in 0 .. (LinkMod - 1)
    BY <2>1, Division
  <2> QED BY <2>2 DEF x
<1>4. AddLinks(v, i, n) = [v EXCEPT !.inode[i].links = k]
  BY DEF AddLinks
<1>5. AddLinks(v, i, n).imap = v.imap
  BY DEF AddLinks, Counted, Sound, Volume
<1> HIDE DEF k
<1> QED BY <1>3, <1>4, <1>5, SetLinksCounted

(* kill_file_by_inode gives back what the inode counted for, once.         *)
LEMMA KillCounted ==
  ASSUME NEW v, Counted(v), NEW i \in Inos, i # RootIno
  PROVE  Counted(kill_file_by_inode(v, i))
<1> DEFINE w == kill_file_by_inode(v, i)
<1>0. Sound(v) /\ v \in Volume
  BY DEF Counted, Sound
<1>1. Sound(w)
  BY <1>0, KillSound
<1>2. CASE ~ext2fs_inode_has_valid_blocks(v.inode[i])
  <2>1. w = [v EXCEPT !.inode[i].links = 0]
    BY <1>2 DEF kill_file_by_inode
  <2>2. 0 \in 0 .. (LinkMod - 1)
    BY SizeFacts
  <2> QED BY <2>1, <2>2, SetLinksCounted
<1>3. CASE ext2fs_inode_has_valid_blocks(v.inode[i])
  <2>1. i \in v.imap /\ i \in NewInos
    BY <1>3, InoFacts DEF ext2fs_inode_has_valid_blocks, Counted
  <2>2. v.freeInodes \in Int /\ v.usedDirs \in Int /\ v.imap \subseteq Inos
    BY <1>0, VolumeFields
  <2>3. v.inode \in [Inos -> Inode] /\ v.nblk \in [Inos -> 0 .. MaxDirBlocks]
        /\ v.ent \in [Inos -> [Slots -> Dirent]]
    BY <1>0, VolumeFields
  <2>4. /\ w.imap = v.imap \ {i}
        /\ w.freeInodes = v.freeInodes - (-1)
        /\ w.usedDirs = IF IsDir(v, i) THEN v.usedDirs + (-1) ELSE v.usedDirs
        /\ w.inode = [v.inode EXCEPT ![i] = NoInode]
        /\ w.nblk = [v.nblk EXCEPT ![i] = 0]
        /\ w.ent = [v.ent EXCEPT ![i] = [s \in Slots |-> Unused]]
    BY <1>0, <1>3 DEF kill_file_by_inode, ext2fs_inode_alloc_stats2, Volume
  <2> HIDE DEF w
  <2>5. /\ \A j \in Inos : w.inode[j] = IF j = i THEN NoInode ELSE v.inode[j]
        /\ \A j \in Inos : w.nblk[j] = IF j = i THEN 0 ELSE v.nblk[j]
        /\ \A j \in Inos, s \in Slots : w.ent[j][s] = IF j = i THEN Unused ELSE v.ent[j][s]
    BY <2>3, <2>4
  <2>6. w.freeInodes = Cardinality(FreeInos(w))
    <3>1. FreeInos(w) = FreeInos(v) \cup {i} /\ i \notin FreeInos(v)
      BY <2>1, <2>4 DEF FreeInos
    <3>2. IsFiniteSet(FreeInos(v))
      BY InoFacts, FS_Subset DEF FreeInos
    <3>3. Cardinality(FreeInos(w)) = Cardinality(FreeInos(v)) + 1
      BY <3>1, <3>2, FS_AddElement
    <3> QED BY <2>2, <2>4, <3>3 DEF Counted
  <2>7. w.usedDirs = Cardinality({j \in w.imap : IsDir(w, j)})
    <3> DEFINE D == {j \in v.imap : IsDir(v, j)}
               E == {j \in w.imap : IsDir(w, j)}
    <3>1. E = D \ {i}
      BY <2>2, <2>4, <2>5 DEF IsDir
    <3>2. IsFiniteSet(D)
      BY <2>2, InoFacts, FS_Subset
    <3>3. IsDir(v, i) <=> i \in D
      BY <2>1
    <3>4. Cardinality(E) = IF i \in D THEN Cardinality(D) - 1 ELSE Cardinality(D)
      BY <3>1, <3>2, FS_RemoveElement
    <3>5. v.usedDirs = Cardinality(D)
      BY DEF Counted
    <3> HIDE DEF D, E
    <3>6. w.usedDirs = Cardinality(E)
      BY <2>2, <2>4, <3>3, <3>4, <3>5
    <3> QED BY <3>6 DEF E
  <2>8. NoInode.kind = "none" /\ Unused.ino = 0
    BY DEF NoInode, Unused
  <2>9. \A d \in Inos : IsDir(w, d) => w.inode[d].blocks = w.nblk[d]
    BY <2>5, <2>8 DEF IsDir, Counted
  <2>10. \A j \in Inos : w.inode[j].kind # "none" => j \in w.imap
    BY <2>4, <2>5, <2>8 DEF Counted
  <2>11. IsDir(w, RootIno)
    BY <2>5, InoFacts DEF IsDir, Counted
  <2>12. RootUnnamed(w)
    BY <2>5, <2>8 DEF RootUnnamed, Counted, RootIno
  <2>13. Blank(w)
    BY <2>4, <2>5, <2>8 DEF Blank, Counted
  <2>14. Counted(w)
    BY <1>1, <2>6, <2>7, <2>9, <2>10, <2>11, <2>12, <2>13 DEF Counted
  <2> QED BY <2>14 DEF w
<1> QED BY <1>2, <1>3

(* A free inode is marked and counted.                                     *)
LEMMA AllocCounted ==
  ASSUME NEW v, Counted(v), NEW i \in FreeInos(v), NEW ip \in Inode,
         ip.kind # "none", NEW w, Sound(w), RootUnnamed(w), Blank(w),
         w.imap = v.imap \cup {i}, w.freeInodes = v.freeInodes - 1,
         w.usedDirs = IF ip.kind = "dir" THEN v.usedDirs + 1 ELSE v.usedDirs,
         \A j \in Inos : w.inode[j] = IF j = i THEN ip ELSE v.inode[j],
         \A j \in Inos : j # i => w.nblk[j] = v.nblk[j],
         ip.kind = "dir" => ip.blocks = w.nblk[i]
  PROVE  Counted(w)
<1>1. i \in NewInos /\ i \in Inos /\ i \notin v.imap /\ i # RootIno
  BY InoFacts DEF FreeInos
<1>2. v.freeInodes \in Int /\ v.usedDirs \in Int /\ v.imap \subseteq Inos
  BY VolumeFields DEF Counted, Sound
<1>3. w.freeInodes = Cardinality(FreeInos(w))
  <2>1. FreeInos(w) = FreeInos(v) \ {i}
    BY DEF FreeInos
  <2>2. IsFiniteSet(FreeInos(v))
    BY InoFacts, FS_Subset DEF FreeInos
  <2>3. Cardinality(FreeInos(w)) = Cardinality(FreeInos(v)) - 1
    BY <2>1, <2>2, FS_RemoveElement
  <2> QED BY <1>2, <2>3 DEF Counted
<1>4. w.usedDirs = Cardinality({j \in w.imap : IsDir(w, j)})
  <2> DEFINE D == {j \in v.imap : IsDir(v, j)}
             E == {j \in w.imap : IsDir(w, j)}
  <2>1. E = IF ip.kind = "dir" THEN D \cup {i} ELSE D
    BY <1>1, <1>2 DEF IsDir
  <2>2. IsFiniteSet(D) /\ i \notin D
    BY <1>1, <1>2, InoFacts, FS_Subset
  <2>3. Cardinality(D \cup {i}) = Cardinality(D) + 1
    BY <2>2, FS_AddElement
  <2>4. v.usedDirs = Cardinality(D)
    BY DEF Counted
  <2> HIDE DEF D, E
  <2>5. w.usedDirs = Cardinality(E)
    BY <2>1, <2>3, <2>4
  <2> QED BY <2>5 DEF E
<1>5. \A d \in Inos : IsDir(w, d) => w.inode[d].blocks = w.nblk[d]
  BY DEF IsDir, Counted
<1>6. \A j \in Inos : w.inode[j].kind # "none" => j \in w.imap
  BY DEF Counted
<1>7. IsDir(w, RootIno)
  BY <1>1, InoFacts DEF IsDir, Counted
<1> QED BY <1>3, <1>4, <1>5, <1>6, <1>7 DEF Counted

(* ext2fs_new_inode finds an inode that is not marked.                     *)
LEMMA NewInodeFree ==
  ASSUME NEW v, FreeInos(v) # {}, NEW d
  PROVE  ext2fs_new_inode(v, d) \in FreeInos(v)
<1> DEFINE after == {i \in FreeInos(v) : i >= StartInode(d)}
<1>1. FreeInos(v) \in SUBSET Nat /\ after \in SUBSET Nat
  BY SizeFacts DEF FreeInos, NewInos, FirstIno
<1>2. CASE after # {}
  <2>1. Least(after) \in after
    BY <1>1, <1>2, LeastIn
  <2> QED BY <1>2, <2>1 DEF ext2fs_new_inode
<1>3. CASE after = {}
  <2>1. Least(FreeInos(v)) \in FreeInos(v)
    BY <1>1, LeastIn
  <2> QED BY <1>3, <2>1 DEF ext2fs_new_inode
<1> QED BY <1>2, <1>3

----------------------------------------------------------------------------
(* The procedures.                                                         *)

LEMMA UnlinkOnInoCounted ==
  ASSUME NEW v, Counted(v), NEW p \in Inos, NEW n, NEW i \in Inos, i # RootIno
  PROVE  Counted(do_unlink_on_ino(v, p, n, i, -1))
<1> DEFINE links == IF v.inode[i].links > 0 THEN v.inode[i].links + -1 ELSE 0
           unlinked == ext2fs_unlink(v, p, n, i)
<1>1. v.inode[i] \in Inode
  BY VolumeFields DEF Counted, Sound
<1>2. links \in 0 .. (LinkMod - 1)
  BY <1>1, SizeFacts DEF Inode
<1>3. Counted(unlinked)
  BY UnlinkCounted
<1> HIDE DEF unlinked, links
<1>4. Counted(kill_file_by_inode(unlinked, i))
  BY <1>3, KillCounted
<1>5. Counted([unlinked EXCEPT !.inode[i].links = links])
  BY <1>2, <1>3, SetLinksCounted
<1> QED BY <1>4, <1>5 DEF do_unlink_on_ino, unlinked, links

LEMMA DoUnlinkCounted ==
  ASSUME NEW v, Counted(v), NEW p \in Inos, NEW n \in Names
  PROVE  Counted(do_unlink(v, p, n, -1))
BY LookupNotRoot, UnlinkOnInoCounted DEF do_unlink

LEMMA RmdirOnInoCounted ==
  ASSUME NEW v, Counted(v), NEW p \in Inos, NEW n, NEW i \in Inos, i # RootIno
  PROVE  Counted(do_rmdir_on_ino(v, p, n, i))
<1>1. Counted(ext2fs_unlink(v, p, n, i))
  BY UnlinkCounted
<1>2. Counted(kill_file_by_inode(ext2fs_unlink(v, p, n, i), i))
  BY <1>1, KillCounted
<1> QED BY <1>2, AddLinksCounted DEF do_rmdir_on_ino

LEMMA DoRmdirCounted ==
  ASSUME NEW v, Counted(v), NEW perm, NEW p \in Inos, NEW n \in Names
  PROVE  Counted(do_rmdir(v, perm, p, n).vol)
<1>1. CASE ext2fs_lookup(v, p, n) = 0
  BY <1>1 DEF do_rmdir
<1>2. CASE ext2fs_lookup(v, p, n) # 0
  <2>1. Counted(do_rmdir_on_ino(v, p, n, ext2fs_lookup(v, p, n)))
    BY <1>2, LookupNotRoot, RmdirOnInoCounted
  <2> QED BY <1>2, <2>1 DEF do_rmdir
<1> QED BY <1>1, <1>2

(* The inode do_create has marked.                                         *)
LEMMA CreateMarked ==
  ASSUME NEW v, Counted(v), NEW p, FreeInos(v) # {}, NEW kind \in {"file", "symlink"}
  PROVE  LET i == ext2fs_new_inode(v, p)
             new == [v EXCEPT !.inode[i] = [kind |-> kind, links |-> 1, blocks |-> 0]]
         IN Counted(ext2fs_inode_alloc_stats2(new, i, 1, FALSE))
<1>0. Sound(v) /\ v \in Volume
  BY DEF Counted, Sound
<1> DEFINE i == ext2fs_new_inode(v, p)
           ip == [kind |-> kind, links |-> 1, blocks |-> 0]
           new == [v EXCEPT !.inode[i] = ip]
           marked == ext2fs_inode_alloc_stats2(new, i, 1, FALSE)
<1>1. i \in FreeInos(v)
  BY NewInodeFree
<1>2. i \in Inos /\ i # RootIno
  BY <1>1, InoFacts DEF FreeInos
<1>3. ip \in Inode /\ ip.kind = kind /\ kind # "none" /\ kind # "dir"
  BY SizeFacts DEF Inode, Kinds
<1> HIDE DEF i, ip
<1>4. Sound(new)
  BY <1>0, <1>2, <1>3, SetInodeSound
<1>5. Sound(marked)
  <2> DEFINE isdir == FALSE
  <2> HIDE DEF isdir, new
  <2>1. Sound(ext2fs_inode_alloc_stats2(new, i, 1, isdir))
    BY <1>2, <1>4, AllocStatsSound
  <2> QED BY <2>1 DEF isdir
<1>6. /\ marked.imap = v.imap \cup {i} /\ marked.freeInodes = v.freeInodes - 1
      /\ marked.usedDirs = v.usedDirs /\ marked.ent = v.ent /\ marked.nblk = v.nblk
      /\ marked.inode = [v.inode EXCEPT ![i] = ip]
  BY <1>0 DEF ext2fs_inode_alloc_stats2, Volume
<1> HIDE DEF new, marked
<1>7. \A j \in Inos : marked.inode[j] = IF j = i THEN ip ELSE v.inode[j]
  BY <1>0, <1>6, VolumeFields
<1>8. RootUnnamed(marked) /\ Blank(marked)
  BY <1>6 DEF Counted, RootUnnamed, Blank
<1>9. Counted(marked)
  BY <1>1, <1>3, <1>5, <1>6, <1>7, <1>8, AllocCounted
<1> QED BY <1>9 DEF marked, new, ip, i

(* do_create of a file or of a symlink.                                    *)
LEMMA CreateCounted ==
  ASSUME NEW v, Counted(v), NEW p \in Inos, p \in v.imap, NEW n \in Names,
         NEW kind \in {"file", "symlink"}
  PROVE  LET r == do_create(v, p, n, kind)
         IN /\ Counted(r.vol)
            /\ r.rc = "0" => r.ino \in Inos /\ r.vol.inode[r.ino].kind = kind
<1>0. Sound(v) /\ v \in Volume
  BY DEF Counted, Sound
<1>1. CASE FreeInos(v) = {}
  BY <1>1 DEF do_create
<1>2. CASE FreeInos(v) # {}
  <2> DEFINE i == ext2fs_new_inode(v, p)
             ip == [kind |-> kind, links |-> 1, blocks |-> 0]
             new == [v EXCEPT !.inode[i] = ip]
             marked == ext2fs_inode_alloc_stats2(new, i, 1, FALSE)
  <2>1. i \in FreeInos(v)
    BY <1>2, NewInodeFree
  <2>2. i \in Inos /\ i # RootIno
    BY <2>1, InoFacts DEF FreeInos
  <2>3. ip \in Inode /\ ip.kind = kind /\ kind # "none" /\ kind # "dir"
    BY SizeFacts DEF Inode, Kinds
  <2>4. do_create(v, p, n, kind) =
          [vol |-> do_link(marked, p, n, i),
           rc  |-> IF LinkOk(marked, p) THEN "0" ELSE "EIO",
           ino |-> i]
    BY <1>2 DEF do_create
  <2> HIDE DEF i, ip
  <2>5. Counted(marked)
    BY <1>2, CreateMarked DEF i, ip
  <2>6. marked.imap = v.imap \cup {i} /\ marked.inode = [v.inode EXCEPT ![i] = ip]
    BY <1>0 DEF ext2fs_inode_alloc_stats2, Volume
  <2> HIDE DEF new, marked
  <2>7. marked.inode[i] = ip /\ p \in marked.imap
    BY <1>0, <2>2, <2>6, VolumeFields
  <2>8. n \in DirNames
    BY DEF DirNames
  <2>9. /\ Counted(do_link(marked, p, n, i))
        /\ do_link(marked, p, n, i).inode[i].kind = kind
    BY <2>2, <2>3, <2>5, <2>7, <2>8, DoLinkCounted
  <2> QED BY <2>2, <2>4, <2>9
<1> QED BY <1>1, <1>2

LEMMA SymlinkCounted ==
  ASSUME NEW v, Counted(v), NEW perm, NEW p \in Inos, p \in v.imap, NEW n \in Names
  PROVE  Counted(symlink_request(v, perm, p, n).vol)
<1> DEFINE r == do_create(v, p, n, "symlink")
           w == [r.vol EXCEPT !.inode[r.ino].blocks = 1, !.freeBlocks = @ - 1]
<1>1. Counted(r.vol) /\ (r.rc = "0" => r.ino \in Inos /\ r.vol.inode[r.ino].kind = "symlink")
  BY CreateCounted
<1>2. Sound(symlink_request(v, perm, p, n).vol)
  BY SymlinkSound DEF Counted
<1>3. CASE ~perm \/ r.rc # "0" \/ r.vol.freeBlocks = 0
  BY <1>1, <1>3 DEF symlink_request
<1>4. CASE ~(~perm \/ r.rc # "0" \/ r.vol.freeBlocks = 0)
  <2>1. symlink_request(v, perm, p, n).vol = w
    BY <1>4 DEF symlink_request
  <2> HIDE DEF r
  <2>2. r.vol \in Volume /\ r.ino \in Inos
    BY <1>1, <1>4 DEF Counted, Sound
  <2>3. /\ w.imap = r.vol.imap /\ w.freeInodes = r.vol.freeInodes
        /\ w.usedDirs = r.vol.usedDirs /\ w.ent = r.vol.ent /\ w.nblk = r.vol.nblk
        /\ w.inode = [r.vol.inode EXCEPT ![r.ino].blocks = 1]
    BY <2>2 DEF Volume
  <2>4. \A j \in Inos :
          /\ w.inode[j].kind = r.vol.inode[j].kind
          /\ j # r.ino => w.inode[j].blocks = r.vol.inode[j].blocks
    BY <2>2, <2>3, VolumeFields DEF Inode
  <2>5. Sound(w)
    BY <1>2, <2>1
  <2> HIDE DEF w
  <2>6. Quiet(r.vol, w)
    BY <1>1, <1>4, <2>3, <2>4 DEF Quiet, IsDir
  <2>7. RootUnnamed(w) /\ Blank(w)
    BY <1>1, <2>3 DEF Counted, RootUnnamed, Blank
  <2>8. Counted(w)
    BY <1>1, <2>5, <2>6, <2>7, QuietCounted
  <2> QED BY <2>1, <2>8
<1> QED BY <1>3, <1>4

LEMMA LinkRequestCounted ==
  ASSUME NEW v, Counted(v), NEW i \in Inos, i # RootIno, NEW q \in Inos, q \in v.imap,
         NEW m \in Names
  PROVE  Counted(link_request(v, i, q, m).vol)
<1> DEFINE counted == AddLinks(v, i, 1)
<1>1. Counted(counted) /\ counted.imap = v.imap
  BY AddLinksCounted
<1> HIDE DEF counted
<1>2. m \in DirNames
  BY DEF DirNames
<1>3. Counted(do_link(counted, q, m, i)) /\ Counted(AddLinks(counted, i, -1))
  BY <1>1, <1>2, DoLinkCounted, AddLinksCounted
<1> QED BY <1>3 DEF link_request, counted

(* A new directory holds no name.                                          *)
LEMMA NewDirNames ==
  ASSUME NEW i, NEW p
  PROVE  \A s \in Slots : NewDirEntries(i, p)[s].name \notin Names
<1> DEFINE es == NewDirEntries(i, p)
<1>1. \A s \in Slots : \/ es[s] = [name |-> ".", ino |-> i]
                       \/ es[s] = [name |-> "..", ino |-> p]
                       \/ es[s] = Unused
  BY DEF NewDirEntries
<1>2. Unused.name = ""
  BY DEF Unused
<1> HIDE DEF es
<1>3. \A s \in Slots : es[s].name \in {".", "..", ""}
  <2> TAKE s \in Slots
  <2>1. CASE es[s] = [name |-> ".", ino |-> i]
    BY <2>1
  <2>2. CASE es[s] = [name |-> "..", ino |-> p]
    BY <2>2
  <2>3. CASE es[s] = Unused
    BY <1>2, <2>3
  <2> QED BY <1>1, <2>1, <2>2, <2>3
<1> QED BY <1>3, NamesAssumption DEF es

LEMMA MarkedDirCounted ==
  ASSUME NEW v, Counted(v), NEW p \in Inos, FreeInos(v) # {}, v.freeBlocks # 0
  PROVE  LET i == ext2fs_new_inode(v, p)
         IN /\ Counted(MarkedDir(v, p)) /\ MarkedDir(v, p).imap = v.imap \cup {i}
            /\ MarkedDir(v, p).damaged = v.damaged
            /\ \A j \in Inos :
                 /\ MarkedDir(v, p).inode[j] =
                      IF j = i THEN [kind |-> "dir", links |-> 2, blocks |-> 1] ELSE v.inode[j]
                 /\ MarkedDir(v, p).ent[j] = IF j = i THEN NewDirEntries(i, p) ELSE v.ent[j]
<1>0. Sound(v) /\ v \in Volume
  BY DEF Counted, Sound
<1> DEFINE i == ext2fs_new_inode(v, p)
           ip == [kind |-> "dir", links |-> 2, blocks |-> 1]
           es == NewDirEntries(i, p)
           marked == MarkedDir(v, p)
<1>1. i \in FreeInos(v)
  BY NewInodeFree
<1>2. i \in Inos /\ i # RootIno
  BY <1>1, InoFacts DEF FreeInos
<1>3. ip \in Inode /\ ip.kind = "dir" /\ ip.blocks = 1
  BY SizeFacts DEF Inode, Kinds
<1>5. \A s \in Slots : es[s].name \notin Names
  BY NewDirNames
<1>6. Sound(marked)
  BY <1>0, MarkedDirSound
<1>7. /\ marked.imap = v.imap \cup {i} /\ marked.freeInodes = v.freeInodes - 1
      /\ marked.usedDirs = v.usedDirs + 1 /\ marked.damaged = v.damaged
      /\ marked.ent = [v.ent EXCEPT ![i] = es] /\ marked.nblk = [v.nblk EXCEPT ![i] = 1]
      /\ marked.inode = [v.inode EXCEPT ![i] = ip]
  BY <1>0 DEF MarkedDir, ext2fs_inode_alloc_stats2, Volume
<1> HIDE DEF i, ip, es, marked
<1>8. /\ \A j \in Inos : marked.inode[j] = IF j = i THEN ip ELSE v.inode[j]
      /\ \A j \in Inos : marked.nblk[j] = IF j = i THEN 1 ELSE v.nblk[j]
      /\ \A j \in Inos : marked.ent[j] = IF j = i THEN es ELSE v.ent[j]
  BY <1>0, <1>7, VolumeFields
<1>9. RootUnnamed(marked) /\ Blank(marked)
  BY <1>5, <1>7, <1>8 DEF Counted, RootUnnamed, Blank
<1>10. Counted(marked)
  <2>1. /\ ip.kind # "none" /\ (ip.kind = "dir" => ip.blocks = marked.nblk[i])
        /\ marked.usedDirs = IF ip.kind = "dir" THEN v.usedDirs + 1 ELSE v.usedDirs
        /\ \A j \in Inos : j # i => marked.nblk[j] = v.nblk[j]
    BY <1>2, <1>3, <1>7, <1>8
  <2>2. marked.imap = v.imap \cup {i} /\ marked.freeInodes = v.freeInodes - 1
    BY <1>7
  <2>3. \A j \in Inos : marked.inode[j] = IF j = i THEN ip ELSE v.inode[j]
    BY <1>8
  <2> QED BY <1>1, <1>3, <1>6, <1>9, <2>1, <2>2, <2>3, AllocCounted
<1> QED BY <1>7, <1>8, <1>10 DEF i, ip, es, marked

LEMMA NewMkdirCounted ==
  ASSUME NEW v, Counted(v), NEW perm, NEW p \in Inos, p \in v.imap, NEW n \in Names
  PROVE  /\ Counted(new_ext2fs_mkdir(v, perm, p, n).vol)
         /\ p \in new_ext2fs_mkdir(v, perm, p, n).vol.imap
<1>1. CASE FreeInos(v) = {} \/ v.freeBlocks = 0 \/ ~perm
  BY <1>1 DEF new_ext2fs_mkdir
<1>2. CASE ~(FreeInos(v) = {} \/ v.freeBlocks = 0 \/ ~perm)
  <2> DEFINE i == ext2fs_new_inode(v, p)
             marked == MarkedDir(v, p)
  <2>1. i \in Inos /\ i # RootIno
    BY <1>2, NewInodeFree, InoFacts DEF FreeInos
  <2>2. new_ext2fs_mkdir(v, perm, p, n) =
          IF FreeSlots(marked, p) = {} THEN [vol |-> marked, rc |-> "DIR_NO_SPACE"]
          ELSE [vol |-> AddLinks(ext2fs_link(marked, p, n, i), p, 1), rc |-> "0"]
    BY <1>2, NewMkdirIs
  <2>3. Counted(marked) /\ p \in marked.imap
    BY <1>2, MarkedDirCounted
  <2> HIDE DEF i, marked
  <2>4. n \in DirNames
    BY DEF DirNames
  <2>5. ASSUME FreeSlots(marked, p) # {}
        PROVE  /\ Counted(AddLinks(ext2fs_link(marked, p, n, i), p, 1))
               /\ p \in AddLinks(ext2fs_link(marked, p, n, i), p, 1).imap
    <3>1. Counted(ext2fs_link(marked, p, n, i)) /\ Quiet(marked, ext2fs_link(marked, p, n, i))
      BY <2>1, <2>3, <2>4, <2>5, LinkCounted
    <3> QED BY <2>3, <3>1, AddLinksCounted DEF Quiet
  <2> QED BY <2>2, <2>3, <2>5
<1> QED BY <1>1, <1>2

LEMMA MkdirCounted ==
  ASSUME NEW v, Counted(v), NEW perm, NEW p \in Inos, p \in v.imap, NEW n \in Names
  PROVE  Counted(do_mkdir(v, perm, p, n).vol)
<1> DEFINE first == new_ext2fs_mkdir(v, perm, p, n)
<1>1. Counted(first.vol) /\ p \in first.vol.imap
  BY NewMkdirCounted
<1> HIDE DEF first
<1>2. ASSUME CanExpand(first.vol, p)
      PROVE  Counted(new_ext2fs_mkdir(ext2fs_expand_dir(first.vol, p), perm, p, n).vol)
  <2>1. Counted(ext2fs_expand_dir(first.vol, p)) /\ p \in ext2fs_expand_dir(first.vol, p).imap
    BY <1>1, <1>2, ExpandCounted DEF Quiet
  <2> QED BY <2>1, NewMkdirCounted
<1> QED BY <1>1, <1>2 DEF do_mkdir, first

----------------------------------------------------------------------------
(* Renames.                                                                *)

LEMMA CleanupCounted ==
  ASSUME NEW v, Counted(v), NEW q \in Inos, NEW m, NEW i \in Inos
  PROVE  Counted(rename_cleanup(v, q, m, i))
<1>1. Counted(ext2fs_unlink(v, q, m, i))
  BY UnlinkCounted
<1>2. /\ Counted(AddLinks(ext2fs_unlink(v, q, m, i), q, -1))
      /\ Counted(AddLinks(ext2fs_unlink(v, q, m, i), i, -1))
  BY <1>1, AddLinksCounted
<1> QED BY <1>2 DEF rename_cleanup

LEMMA ClobberCounted ==
  ASSUME NEW v, Counted(v), NEW perm, NEW q \in Inos, NEW m,
         NEW i \in Inos, NEW t \in Inos, t # RootIno
  PROVE  Counted(rename_clobber(v, perm, q, m, i, t).vol)
<1>1. /\ Counted(do_rmdir_on_ino(v, q, m, t))
      /\ Counted(do_unlink_on_ino(v, q, m, t, -1))
      /\ Counted(rename_cleanup(v, q, m, i))
  BY RmdirOnInoCounted, UnlinkOnInoCounted, CleanupCounted
<1> QED BY <1>1 DEF rename_clobber

LEMMA UnlinkOldCounted ==
  ASSUME NEW v, Counted(v), NEW p \in Inos, NEW n \in Names, NEW q \in Inos, NEW m,
         NEW i \in Inos
  PROVE  Counted(rename_unlink_old(v, p, n, q, m, i).vol)
<1>1. CASE ~IsDir(v, i)
  <2>1. Counted(do_unlink(v, p, n, -1)) /\ Counted(rename_cleanup(v, q, m, i))
    BY DoUnlinkCounted, CleanupCounted
  <2> QED BY <1>1, <2>1 DEF rename_unlink_old
<1>2. CASE IsDir(v, i)
  <2> DEFINE linked == do_link(v, i, "..", q)
             moved == ext2fs_unlink(linked, i, "..", p)
  <2>1. ".." \in DirNames /\ ".." \notin Names
    BY NamesAssumption DEF DirNames
  <2>2. Counted(linked)
    <3>1. i \in v.imap
      BY <1>2 DEF Counted, IsDir
    <3> QED BY <2>1, <3>1, DoLinkCounted
  <2> HIDE DEF linked
  <2>3. Counted(moved)
    BY <2>2, UnlinkCounted
  <2> HIDE DEF moved
  <2>4. Counted(AddLinks(ext2fs_unlink(moved, p, n, 0), p, -1))
    <3>1. Counted(ext2fs_unlink(moved, p, n, 0))
      BY <2>3, UnlinkCounted
    <3> QED BY <3>1, AddLinksCounted
  <2>5. Counted(rename_cleanup(v, q, m, i)) /\ Counted(rename_cleanup(moved, q, m, i))
    BY <2>3, CleanupCounted
  <2>6. rename_unlink_old(v, p, n, q, m, i).vol \in
          {rename_cleanup(v, q, m, i), rename_cleanup(moved, q, m, i),
           AddLinks(ext2fs_unlink(moved, p, n, 0), p, -1)}
    BY <1>2 DEF rename_unlink_old, linked, moved
  <2> QED BY <2>4, <2>5, <2>6
<1> QED BY <1>1, <1>2

LEMMA RenameCounted ==
  ASSUME NEW v, Counted(v), NEW perm, NEW p \in Inos, NEW n \in Names,
         NEW q \in Inos, q \in v.imap, NEW m \in Names
  PROVE  Counted(do_rename(v, perm, p, n, q, m).vol)
<1> DEFINE i == ext2fs_lookup(v, p, n)
           t == ext2fs_lookup(v, q, m)
           counted == AddLinks(v, IF IsDir(v, i) THEN q ELSE i, 1)
           linked == do_link(counted, q, m, i)
           clobbered == IF t = 0 THEN [vol |-> linked, rc |-> "0"]
                        ELSE rename_clobber(linked, perm, q, m, i, t)
<1>1. CASE i = 0
  BY <1>1 DEF do_rename
<1>2. CASE i # 0
  <2>1. i \in Inos /\ i # RootIno /\ (t # 0 => t \in Inos /\ t # RootIno)
    BY <1>2, LookupNotRoot
  <2> HIDE DEF i, t
  <2>2. Counted(counted) /\ q \in counted.imap
    <3>1. /\ Counted(AddLinks(v, q, 1)) /\ q \in AddLinks(v, q, 1).imap
          /\ Counted(AddLinks(v, i, 1)) /\ q \in AddLinks(v, i, 1).imap
      <4>1. Counted(AddLinks(v, q, 1)) /\ AddLinks(v, q, 1).imap = v.imap
        BY AddLinksCounted
      <4>2. Counted(AddLinks(v, i, 1)) /\ AddLinks(v, i, 1).imap = v.imap
        BY <2>1, AddLinksCounted
      <4> QED BY <4>1, <4>2
    <3> QED BY <3>1
  <2> HIDE DEF counted
  <2>3. m \in DirNames
    BY DEF DirNames
  <2>4. Counted(linked)
    BY <2>1, <2>2, <2>3, DoLinkCounted
  <2> HIDE DEF linked
  <2>5. Counted(clobbered.vol)
    <3>1. CASE t = 0
      BY <2>4, <3>1
    <3>2. CASE t # 0
      <4>1. Counted(rename_clobber(linked, perm, q, m, i, t).vol)
        BY <2>1, <2>4, <3>2, ClobberCounted
      <4> QED BY <3>2, <4>1
    <3> QED BY <3>1, <3>2
  <2> HIDE DEF clobbered
  <2>6. Counted(rename_unlink_old(clobbered.vol, p, n, q, m, i).vol)
    BY <2>1, <2>5, UnlinkOldCounted
  <2>7. Counted(rename_cleanup(counted, q, m, i))
    BY <2>1, <2>2, CleanupCounted
  <2>8. do_rename(v, perm, p, n, q, m) =
          IF ~LinkOk(counted, q)
          THEN [vol |-> rename_cleanup(counted, q, m, i), rc |-> "EIO"]
          ELSE IF clobbered.rc # "0" THEN clobbered
          ELSE rename_unlink_old(clobbered.vol, p, n, q, m, i)
    BY <1>2 DEF do_rename, clobbered, linked, counted, i, t
  <2> QED BY <2>5, <2>6, <2>7, <2>8
<1> QED BY <1>1, <1>2

----------------------------------------------------------------------------
(* The specification.                                                      *)

LEMMA BecomeCounted ==
  ASSUME NEW v, Counted(v), Become(v)
  PROVE  Counted(vol)'
<1>1. v \in Volume
  BY DEF Counted, Sound
<1>2. vol' = v
  BY <1>1 DEF Become, vol, Volume
<1> QED BY <1>2 DEF Counted, Sound, Beyond, DirSlots, FreeInos, IsDir, RootUnnamed, Blank

LEMMA InitCounted ==
  ASSUME Init
  PROVE  Counted(vol)
<1>1. Sound(vol)
  BY InitSound
<1>2. /\ vol.ent = ent /\ vol.nblk = nblk /\ vol.inode = inode /\ vol.imap = imap
      /\ vol.freeInodes = freeInodes /\ vol.usedDirs = usedDirs
  BY DEF vol
<1>3. \A i \in Inos : /\ inode[i].kind = IF i = RootIno THEN "dir" ELSE "none"
                      /\ i = RootIno => inode[i].blocks = 1 /\ nblk[i] = 1
  BY DEF Init, NoInode
<1>4. imap = {RootIno} /\ freeInodes = Cardinality(NewInos) /\ usedDirs = 1
  BY DEF Init
<1>5. NewInos \ {RootIno} = NewInos
  BY InoFacts
<1>6. {i \in vol.imap : IsDir(vol, i)} = {RootIno}
  BY <1>2, <1>3, <1>4, InoFacts DEF IsDir
<1>7. Cardinality({RootIno}) = 1
  BY FS_Singleton
<1>8. RootUnnamed(vol)
  <2> SUFFICES ASSUME NEW d \in Inos, NEW s \in Slots PROVE ent[d][s].name \notin Names
    BY <1>2 DEF RootUnnamed
  <2>1. \/ ent[d][s] = [name |-> ".", ino |-> RootIno]
        \/ ent[d][s] = [name |-> "..", ino |-> RootIno]
        \/ ent[d][s] = Unused
    BY DEF Init, NewDirEntries
  <2>2. ent[d][s].name \in {".", "..", ""}
    <3>1. CASE ent[d][s] = [name |-> ".", ino |-> RootIno]
      BY <3>1
    <3>2. CASE ent[d][s] = [name |-> "..", ino |-> RootIno]
      BY <3>2
    <3>3. CASE ent[d][s] = Unused
      <4>1. Unused.name = ""
        BY DEF Unused
      <4> QED BY <3>3, <4>1
    <3> QED BY <2>1, <3>1, <3>2, <3>3
  <2> QED BY <2>2, NamesAssumption
<1>9. /\ vol.freeInodes = Cardinality(FreeInos(vol))
      /\ vol.usedDirs = Cardinality({i \in vol.imap : IsDir(vol, i)})
  BY <1>2, <1>4, <1>5, <1>6, <1>7 DEF FreeInos
<1>10. /\ \A d \in Inos : IsDir(vol, d) => vol.inode[d].blocks = vol.nblk[d]
       /\ \A i \in Inos : vol.inode[i].kind # "none" => i \in vol.imap
       /\ IsDir(vol, RootIno)
  BY <1>2, <1>3, <1>4, InoFacts DEF IsDir
<1>11. Blank(vol)
  <2>1. Unused.ino = 0
    BY DEF Unused
  <2> QED BY <1>2, <1>4, <2>1 DEF Blank, Init
<1> QED BY <1>1, <1>8, <1>9, <1>10, <1>11 DEF Counted

(* A request comes for a directory that is one.                            *)
LEMMA LiveMarked ==
  ASSUME NEW v, Counted(v), NEW d \in Inos, LiveDir(v, d)
  PROVE  d \in v.imap
BY DEF Counted, LiveDir, IsDir

LEMMA NextCounted ==
  ASSUME Counted(vol), [Next]_vars
  PROVE  Counted(vol)'
<1>0. /\ \A p \in Inos, n \in Names : FreeName(vol, p, n) => p \in vol.imap
      /\ \A p, q \in Inos, n, m \in Names : RenameAllowed(vol, p, n, q, m) => q \in vol.imap
  BY LiveMarked DEF FreeName, RenameAllowed
<1>1. ASSUME NEW p \in Inos, NEW n \in Names, op_create(p, n)
      PROVE  Counted(vol)'
  <2>1. PICK perm \in BOOLEAN : Become(create_request(vol, perm, p, n).vol)
    BY <1>1 DEF op_create
  <2>2. Counted(do_create(vol, p, n, "file").vol)
    BY <1>0, <1>1, CreateCounted DEF op_create
  <2>3. Counted(create_request(vol, perm, p, n).vol)
    BY <2>2 DEF create_request
  <2> QED BY <2>1, <2>3, BecomeCounted
<1>2. ASSUME NEW p \in Inos, NEW n \in Names, op_symlink(p, n)
      PROVE  Counted(vol)'
  <2>1. PICK perm \in BOOLEAN : Become(symlink_request(vol, perm, p, n).vol)
    BY <1>2 DEF op_symlink
  <2>2. p \in vol.imap
    BY <1>0, <1>2 DEF op_symlink
  <2> QED BY <2>1, <2>2, SymlinkCounted, BecomeCounted
<1>3. ASSUME NEW p \in Inos, NEW n \in Names, op_mkdir(p, n)
      PROVE  Counted(vol)'
  <2>1. PICK perm \in BOOLEAN : Become(do_mkdir(vol, perm, p, n).vol)
    BY <1>3 DEF op_mkdir
  <2>2. p \in vol.imap
    BY <1>0, <1>3 DEF op_mkdir
  <2> QED BY <2>1, <2>2, MkdirCounted, BecomeCounted
<1>4. ASSUME NEW p \in Inos, NEW n \in Names, op_link(p, n)
      PROVE  Counted(vol)'
  <2>1. PICK i \in Inos, perm \in BOOLEAN :
          /\ ~IsDir(vol, i)
          /\ Become(IF perm THEN link_request(vol, i, p, n).vol ELSE vol)
    BY <1>4 DEF op_link
  <2>2. i # RootIno /\ p \in vol.imap
    BY <1>0, <1>4, <2>1 DEF Counted, op_link
  <2>3. Counted(link_request(vol, i, p, n).vol)
    BY <2>2, LinkRequestCounted
  <2> QED BY <2>1, <2>3, BecomeCounted
<1>5. ASSUME NEW p \in Inos, NEW n \in Names, op_unlink(p, n)
      PROVE  Counted(vol)'
  <2>1. PICK perm \in BOOLEAN :
          Become(IF perm THEN do_unlink(vol, p, n, -1) ELSE vol)
    BY <1>5 DEF op_unlink
  <2>2. Counted(do_unlink(vol, p, n, -1))
    BY DoUnlinkCounted
  <2> QED BY <2>1, <2>2, BecomeCounted
<1>6. ASSUME NEW p \in Inos, NEW n \in Names, op_rmdir(p, n)
      PROVE  Counted(vol)'
  <2>1. PICK perm \in BOOLEAN : Become(do_rmdir(vol, perm, p, n).vol)
    BY <1>6 DEF op_rmdir
  <2> QED BY <2>1, DoRmdirCounted, BecomeCounted
<1>7. ASSUME NEW p \in Inos, NEW n \in Names, op_rename(p, n)
      PROVE  Counted(vol)'
  <2>1. PICK q \in Inos, m \in Names, perm \in {"none", "parents", "target"} :
          /\ RenameAllowed(vol, p, n, q, m)
          /\ Become(IF perm = "none" THEN vol
                    ELSE do_rename(vol, perm = "target", p, n, q, m).vol)
    BY <1>7 DEF op_rename
  <2> DEFINE allowed == perm = "target"
  <2> HIDE DEF allowed
  <2>2. Counted(do_rename(vol, allowed, p, n, q, m).vol)
    BY <1>0, <2>1, RenameCounted
  <2>3. Become(IF perm = "none" THEN vol ELSE do_rename(vol, allowed, p, n, q, m).vol)
    BY <2>1 DEF allowed
  <2> QED BY <2>2, <2>3, BecomeCounted
<1>8. CASE UNCHANGED vars
  <2>1. vol' = vol
    BY <1>8 DEF vars, vol
  <2> QED BY <2>1 DEF Counted, Sound, Beyond, DirSlots, FreeInos, IsDir, RootUnnamed, Blank
<1> QED BY <1>1, <1>2, <1>3, <1>4, <1>5, <1>6, <1>7, <1>8 DEF Next

(* The counts stay those of the bitmap and of the inodes, an inode with a  *)
(* type stays marked, and no name leads to the root, whatever do_create,   *)
(* do_mkdir and do_rename leave behind half way.                           *)
THEOREM NamespaceCounted == Spec => []Counted(vol)
<1>1. Init => Counted(vol)
  BY InitCounted
<1>2. Counted(vol) /\ [Next]_vars => Counted(vol)'
  BY NextCounted
<1> QED BY <1>1, <1>2, PTL DEF Spec

(* ext2fs_inode_alloc_stats2 and ext2fs_expand_dir are called once for     *)
(* each inode and block that changes hands: the free count of inodes, the  *)
(* count of directories and i_blocks of directories agree with the bitmap  *)
(* and the inodes after any sequence of requests.                          *)
THEOREM NamespaceCountsAgree == Spec => []CountsAgree
<1>1. Counted(vol) => CountsAgree
  <2> SUFFICES ASSUME Counted(vol) PROVE CountsAgree
    OBVIOUS
  <2>1. imap \subseteq Inos
    <3>1. vol \in Volume
      BY DEF Counted, Sound
    <3> QED BY <3>1, VolumeFields DEF vol
  <2>2. /\ vol.nblk = nblk /\ vol.inode = inode /\ vol.imap = imap
        /\ vol.freeInodes = freeInodes /\ vol.usedDirs = usedDirs
    BY DEF vol
  <2> QED BY <2>1, <2>2 DEF Counted, CountsAgree
<1> QED BY <1>1, NamespaceCounted, PTL

----------------------------------------------------------------------------
(* A request that fails changes no name.                                   *)

(* The entries that name something are the same.                           *)
Shown(v, d, s) == v.ent[d][s].ino # 0 /\ v.ent[d][s].name \in Names
SameNames(v, w) ==
  \A d \in Inos, s \in Slots :
    /\ Shown(w, d, s) <=> Shown(v, d, s)
    /\ Shown(v, d, s) => w.ent[d][s] = v.ent[d][s]

LEMMA SameNamesOf ==
  ASSUME NEW v, NEW w, SameNames(v, w)
  PROVE  NamesOf(w) = NamesOf(v)
<1> DEFINE R(u) == {x \in Inos \X Slots : /\ u.ent[x[1]][x[2]].ino # 0
                                          /\ u.ent[x[1]][x[2]].name \in Names}
           N(u, r) == <<r[1], u.ent[r[1]][r[2]].name, u.ent[r[1]][r[2]].ino>>
<1>1. R(w) = R(v)
  BY DEF SameNames, Shown
<1>2. \A r \in R(v) : N(w, r) = N(v, r)
  BY DEF SameNames, Shown
<1>3. NamesOf(w) = {N(w, r) : r \in R(w)} /\ NamesOf(v) = {N(v, r) : r \in R(v)}
  BY DEF NamesOf
<1> HIDE DEF R, N
<1> QED BY <1>1, <1>2, <1>3

LEMMA SameEntries ==
  ASSUME NEW v, NEW w, w.ent = v.ent
  PROVE  SameNames(v, w)
BY DEF SameNames, Shown

LEMMA AddLinksEntries ==
  ASSUME NEW v \in Volume, NEW i, NEW n
  PROVE  AddLinks(v, i, n).ent = v.ent
BY DEF AddLinks, Volume

(* An inode that cannot be linked stays marked, without a name.            *)
LEMMA CreateErrorNames ==
  ASSUME NEW v, Counted(v), NEW p \in Inos, NEW n, NEW kind,
         do_create(v, p, n, kind).rc # "0"
  PROVE  SameNames(v, do_create(v, p, n, kind).vol)
<1>0. v \in Volume
  BY DEF Counted, Sound
<1>1. CASE FreeInos(v) = {}
  BY <1>1, SameEntries DEF do_create
<1>2. CASE FreeInos(v) # {}
  <2> DEFINE i == ext2fs_new_inode(v, p)
             new == [v EXCEPT !.inode[i] = [kind |-> kind, links |-> 1, blocks |-> 0]]
             marked == ext2fs_inode_alloc_stats2(new, i, 1, FALSE)
  <2>1. do_create(v, p, n, kind) =
          [vol |-> do_link(marked, p, n, i),
           rc  |-> IF LinkOk(marked, p) THEN "0" ELSE "EIO",
           ino |-> i]
    BY <1>2 DEF do_create
  <2>2. marked.ent = v.ent
    BY <1>0 DEF ext2fs_inode_alloc_stats2, Volume
  <2> HIDE DEF i, new, marked
  <2>3. ~LinkOk(marked, p)
    BY <2>1
  <2>4. do_link(marked, p, n, i) = marked
    BY <2>3 DEF LinkOk, do_link
  <2> QED BY <2>1, <2>2, <2>4, SameEntries
<1> QED BY <1>1, <1>2

(* Nor has the directory of an attempt that found no room for its name.    *)
LEMMA MarkedDirNames ==
  ASSUME NEW v, Counted(v), NEW p \in Inos, FreeInos(v) # {}
  PROVE  SameNames(v, MarkedDir(v, p))
<1> DEFINE i == ext2fs_new_inode(v, p)
           es == NewDirEntries(i, p)
           w == MarkedDir(v, p)
<1>0. v \in Volume
  BY DEF Counted, Sound
<1>1. i \in FreeInos(v)
  BY NewInodeFree
<1>2. i \in Inos /\ i \notin v.imap
  BY <1>1, InoFacts DEF FreeInos
<1>3. \A s \in Slots : v.ent[i][s].ino = 0
  BY <1>2 DEF Counted, Blank
<1>4. \A s \in Slots : es[s].name \notin Names
  BY NewDirNames
<1>5. w.ent = [v.ent EXCEPT ![i] = es]
  BY <1>0 DEF MarkedDir, ext2fs_inode_alloc_stats2, Volume
<1> HIDE DEF i, es, w
<1>6. \A j \in Inos : w.ent[j] = IF j = i THEN es ELSE v.ent[j]
  BY <1>0, <1>5, VolumeFields
<1>7. SameNames(v, w)
  BY <1>3, <1>4, <1>6 DEF SameNames, Shown
<1> QED BY <1>7 DEF w

LEMMA NewMkdirErrorNames ==
  ASSUME NEW v, Counted(v), NEW perm, NEW p \in Inos, NEW n,
         new_ext2fs_mkdir(v, perm, p, n).rc # "0"
  PROVE  SameNames(v, new_ext2fs_mkdir(v, perm, p, n).vol)
<1>1. CASE FreeInos(v) = {} \/ v.freeBlocks = 0 \/ ~perm
  BY <1>1, SameEntries DEF new_ext2fs_mkdir
<1>2. CASE ~(FreeInos(v) = {} \/ v.freeBlocks = 0 \/ ~perm)
  <2>1. new_ext2fs_mkdir(v, perm, p, n).vol = MarkedDir(v, p)
    BY <1>2, NewMkdirIs
  <2> QED BY <1>2, <2>1, MarkedDirNames
<1> QED BY <1>1, <1>2

LEMMA MkdirErrorNames ==
  ASSUME NEW v, Counted(v), NEW perm, NEW p \in Inos, p \in v.imap, NEW n \in Names,
         do_mkdir(v, perm, p, n).rc # "0"
  PROVE  SameNames(v, do_mkdir(v, perm, p, n).vol)
<1> DEFINE first == new_ext2fs_mkdir(v, perm, p, n)
           grown == ext2fs_expand_dir(first.vol, p)
<1>1. CASE first.rc # "DIR_NO_SPACE"
  BY <1>1, NewMkdirErrorNames DEF do_mkdir
<1>2. CASE first.rc = "DIR_NO_SPACE"
  <2>1. Counted(first.vol) /\ SameNames(v, first.vol)
    BY <1>2, NewMkdirCounted, NewMkdirErrorNames
  <2>2. CASE ~CanExpand(first.vol, p)
    BY <1>2, <2>1, <2>2 DEF do_mkdir
  <2>3. CASE CanExpand(first.vol, p)
    <3>1. do_mkdir(v, perm, p, n) = new_ext2fs_mkdir(grown, perm, p, n)
      BY <1>2, <2>3 DEF do_mkdir
    <3> HIDE DEF first
    <3>2. Counted(grown)
      BY <2>1, <2>3, ExpandCounted
    <3>3. grown.ent = first.vol.ent
      BY <2>1 DEF ext2fs_expand_dir, Counted, Sound, Volume
    <3> HIDE DEF grown
    <3>4. SameNames(grown, new_ext2fs_mkdir(grown, perm, p, n).vol)
      BY <3>1, <3>2, NewMkdirErrorNames
    <3> QED BY <2>1, <3>1, <3>3, <3>4 DEF SameNames, Shown
  <2> QED BY <2>2, <2>3
<1> QED BY <1>1, <1>2

LEMMA LinkErrorNames ==
  ASSUME NEW v, Counted(v), NEW i \in Inos, NEW q \in Inos, NEW m,
         link_request(v, i, q, m).rc # "0"
  PROVE  SameNames(v, link_request(v, i, q, m).vol)
<1> DEFINE counted == AddLinks(v, i, 1)
<1>0. v \in Volume
  BY DEF Counted, Sound
<1>1. Counted(counted)
  BY AddLinksCounted
<1>2. counted.ent = v.ent
  BY <1>0, AddLinksEntries
<1>3. link_request(v, i, q, m).vol = AddLinks(counted, i, -1)
  BY DEF link_request
<1> HIDE DEF counted
<1>4. AddLinks(counted, i, -1).ent = counted.ent
  BY <1>1, AddLinksEntries DEF Counted, Sound
<1> QED BY <1>2, <1>3, <1>4, SameEntries

(* A create, link, mkdir or rmdir that is answered with an error changes   *)
(* nothing a user can name, wherever do_create, do_mkdir (in its second    *)
(* attempt too), op_link and do_rmdir give up.                             *)
THEOREM NamespaceErrorsChangeNoName == Spec => []ErrorChangesNoName
<1>1. Counted(vol) => ErrorChangesNoName
  <2> SUFFICES ASSUME Counted(vol), NEW p \in Inos, NEW n \in Names, LiveDir(vol, p),
                      NEW perm \in BOOLEAN,
                      NEW r \in IF ext2fs_lookup(vol, p, n) # 0 THEN {do_rmdir(vol, perm, p, n)}
                                ELSE {create_request(vol, perm, p, n), do_mkdir(vol, perm, p, n)}
                                       \cup {link_request(vol, i, p, n) : i \in imap},
                      r.rc # "0"
               PROVE  NamesOf(r.vol) = NamesOf(vol)
    BY DEF ErrorChangesNoName, ErrorKeeps
  <2>1. p \in vol.imap
    BY LiveMarked
  <2>2. CASE r = do_rmdir(vol, perm, p, n)
    BY <2>2 DEF do_rmdir
  <2>3. CASE r = create_request(vol, perm, p, n)
    <3>1. CASE perm
      <4>1. r = do_create(vol, p, n, "file")
        BY <2>3, <3>1 DEF create_request
      <4>2. SameNames(vol, r.vol)
        BY <4>1, CreateErrorNames
      <4> QED BY <4>2, SameNamesOf
    <3>2. CASE ~perm
      BY <2>3, <3>2 DEF create_request
    <3> QED BY <3>1, <3>2
  <2>4. CASE r = do_mkdir(vol, perm, p, n)
    <3>1. SameNames(vol, r.vol)
      BY <2>1, <2>4, MkdirErrorNames
    <3> QED BY <3>1, SameNamesOf
  <2>5. ASSUME NEW i \in imap, r = link_request(vol, i, p, n)
        PROVE  NamesOf(r.vol) = NamesOf(vol)
    <3>1. i \in Inos
      <4>1. vol.imap \in SUBSET Inos /\ vol.imap = imap
        BY VolumeFields DEF Counted, Sound, vol
      <4> QED BY <4>1
    <3>2. SameNames(vol, r.vol)
      BY <2>5, <3>1, LinkErrorNames
    <3> QED BY <3>2, SameNamesOf
  <2> QED BY <2>2, <2>3, <2>4, <2>5
<1> QED BY <1>1, NamespaceCounted, PTL
=============================================================================
