----------------------------- MODULE Namespace -----------------------------
(***************************************************************************)
(* The name space of a mounted volume: directory entries, inodes, the      *)
(* inode bitmap and the free counts, and the FUSE requests that change      *)
(* them (src/src/fuse-ext2fs.c, ext2fs.c, mkdir.c, rename.c, symlink.c     *)
(* over lib/ext2fs).                                                       *)
(*                                                                         *)
(* fuse_session_loop serves one request at a time, so a request is one     *)
(* step.  Inside it the C procedures run one after the other on the volume: *)
(* each is an operator from the volume before the call to the volume after *)
(* it, and keeps its C name.  Device errors are left out here; running out  *)
(* of inodes, of blocks or of room in a directory is not.                  *)
(***************************************************************************)
EXTENDS Integers, FiniteSets

CONSTANTS
  Names,          \* the names requests use; "." and ".." are not among them
  LastIno,        \* s_inodes_count
  InodesPerGroup, \* s_inodes_per_group
  SlotsPerBlock,  \* directory entries that fit in one block
  MaxDirBlocks,   \* bound: blocks a directory may grow to
  MaxFreeBlocks,  \* bound: free blocks of the volume when it is mounted
  LinkMod,        \* i_links_count counts modulo this (2^16 in the code)
  LinkBound       \* bound: a request that would count past this is not sent

RootIno == 2                      \* EXT2_ROOT_INO
FirstIno == 11                    \* EXT2_FIRST_INODE

NewInos == FirstIno .. LastIno
Inos == {RootIno} \cup NewInos
Slots == 1 .. (MaxDirBlocks * SlotsPerBlock)
DirNames == Names \cup {".", ".."}

ASSUME SizesAssumption ==
  /\ LastIno \in Nat /\ LastIno >= FirstIno
  /\ InodesPerGroup \in Nat \ {0}
  /\ SlotsPerBlock \in Nat /\ SlotsPerBlock >= 3
  /\ MaxDirBlocks \in Nat \ {0}
  /\ MaxFreeBlocks \in Nat
  /\ LinkMod \in Nat /\ LinkMod > 2
  /\ LinkBound \in Nat

ASSUME NamesAssumption ==
  "." \notin Names /\ ".." \notin Names /\ "" \notin Names

(* A directory entry; ino = 0 marks an unused one, as in the code.         *)
Dirent == [name : DirNames \cup {""}, ino : Inos \cup {0}]
Unused == [name |-> "", ino |-> 0]

Kinds == {"none", "file", "symlink", "dir"}
Inode == [kind : Kinds, links : 0 .. (LinkMod - 1), blocks : Nat]
NoInode == [kind |-> "none", links |-> 0, blocks |-> 0]

VARIABLES
  ent,        \* ent[d][s]: the entry in slot s of directory d
  nblk,       \* nblk[d]: blocks the directory d has
  inode,      \* inode[i]: i_mode's type, i_links_count and i_blocks
  imap,       \* the inodes marked in the inode bitmap
  freeBlocks, \* s_free_blocks_count
  freeInodes, \* s_free_inodes_count
  usedDirs,   \* bg_used_dirs_count
  damaged     \* ext2fs_unlink has patched the wrong directory entry

vars == <<ent, nblk, inode, imap, freeBlocks, freeInodes, usedDirs, damaged>>

(* The volume as one value, for the procedures a request is made of.       *)
Volume ==
  [ent : [Inos -> [Slots -> Dirent]], nblk : [Inos -> 0 .. MaxDirBlocks],
   inode : [Inos -> Inode], imap : SUBSET Inos, freeBlocks : Nat,
   freeInodes : Int, usedDirs : Int, damaged : BOOLEAN]

vol == [ent |-> ent, nblk |-> nblk, inode |-> inode, imap |-> imap,
        freeBlocks |-> freeBlocks, freeInodes |-> freeInodes,
        usedDirs |-> usedDirs, damaged |-> damaged]

Become(v) ==
  /\ ent' = v.ent
  /\ nblk' = v.nblk
  /\ inode' = v.inode
  /\ imap' = v.imap
  /\ freeBlocks' = v.freeBlocks
  /\ freeInodes' = v.freeInodes
  /\ usedDirs' = v.usedDirs
  /\ damaged' = v.damaged

----------------------------------------------------------------------------
(* Directories: link.c, unlink.c, lookup.c, expanddir.c.  With names of    *)
(* one length a block is an array of slots: link_proc fills the first slot *)
(* that is unused, unlink_proc frees the first one that matches.           *)

Least(S) == CHOOSE s \in S : \A t \in S : s <= t

DirSlots(v, d) == 1 .. (v.nblk[d] * SlotsPerBlock)

FreeSlots(v, d) == {s \in DirSlots(v, d) : v.ent[d][s].ino = 0}

(* Slots holding n (and, when i # 0, referring to i).                      *)
SlotsOf(v, d, n, i) ==
  {s \in DirSlots(v, d) : /\ v.ent[d][s].name = n
                          /\ v.ent[d][s].ino # 0
                          /\ i # 0 => v.ent[d][s].ino = i}

ext2fs_lookup(v, d, n) ==
  IF SlotsOf(v, d, n, 0) = {} THEN 0
  ELSE v.ent[d][Least(SlotsOf(v, d, n, 0))].ino

ext2fs_link(v, d, n, i) ==
  [v EXCEPT !.ent[d][Least(FreeSlots(v, d))] = [name |-> n, ino |-> i]]

(* unlink_proc merges the entry into the one visited before it.  The first *)
(* entry of a block after the first is visited with `prev' left over from   *)
(* the block before: the entry stays, and other bytes of the block change. *)
BlockHead(s) == s > SlotsPerBlock /\ s % SlotsPerBlock = 1

ext2fs_unlink(v, d, n, i) ==
  LET found == SlotsOf(v, d, n, i)
      s == Least(found)
  IN IF found = {} THEN v
     ELSE IF BlockHead(s) THEN [v EXCEPT !.damaged = TRUE]
     ELSE [v EXCEPT !.ent[d][s] = Unused]

(* Mutant: the block is taken without looking whether one is free.         *)
CanExpand_Unchecked(v, d) == v.nblk[d] < MaxDirBlocks

CanExpand(v, d) == v.freeBlocks > 0 /\ v.nblk[d] < MaxDirBlocks

(* Mutant: i_blocks of the directory is not updated.                       *)
ext2fs_expand_dir_NoSize(v, d) ==
  [v EXCEPT !.nblk[d] = @ + 1, !.freeBlocks = @ - 1]

ext2fs_expand_dir(v, d) ==
  [v EXCEPT !.nblk[d] = @ + 1,
            !.inode[d].blocks = @ + 1,
            !.freeBlocks = @ - 1]

LinkOk(v, d) == FreeSlots(v, d) # {} \/ CanExpand(v, d)

do_link(v, d, n, i) ==
  IF FreeSlots(v, d) # {} THEN ext2fs_link(v, d, n, i)
  ELSE IF CanExpand(v, d) THEN ext2fs_link(ext2fs_expand_dir(v, d), d, n, i)
  ELSE v

----------------------------------------------------------------------------
(* Inodes: alloc.c, alloc_stats.c, kill_file_by_inode.                     *)

FreeInos(v) == NewInos \ v.imap

(* ext2fs_new_inode searches upwards from the first inode of the parent's  *)
(* group and wraps round.                                                  *)
StartInode(d) ==
  LET first == ((d - 1) \div InodesPerGroup) * InodesPerGroup + 1
  IN IF first < FirstIno THEN FirstIno ELSE first

ext2fs_new_inode(v, d) ==
  LET after == {i \in FreeInos(v) : i >= StartInode(d)}
  IN IF after # {} THEN Least(after) ELSE Least(FreeInos(v))

ext2fs_inode_alloc_stats2(v, i, inuse, isdir) ==
  [v EXCEPT !.imap = IF inuse > 0 THEN @ \cup {i} ELSE @ \ {i},
            !.freeInodes = @ - inuse,
            !.usedDirs = IF isdir THEN @ + inuse ELSE @]

IsDir(v, i) == v.inode[i].kind = "dir"

(* i_links_count is a __u16: it wraps.                                     *)
AddLinks(v, i, n) == [v EXCEPT !.inode[i].links = (@ + n) % LinkMod]

ext2fs_inode_has_valid_blocks(ip) ==
  /\ ip.kind \in {"dir", "file", "symlink"}
  /\ ip.kind = "symlink" => ip.blocks # 0

(* Mutant: used_dirs_count is forgotten.                                   *)
kill_file_by_inode_NotDir(v, i) ==
  IF ext2fs_inode_has_valid_blocks(v.inode[i])
  THEN ext2fs_inode_alloc_stats2(
         [v EXCEPT !.freeBlocks = @ + v.inode[i].blocks,
                   !.inode[i] = NoInode,
                   !.ent[i] = [s \in Slots |-> Unused],
                   !.nblk[i] = 0], i, -1, FALSE)
  ELSE [v EXCEPT !.inode[i].links = 0]

(* An inode without valid blocks keeps its bit in the inode bitmap.  What  *)
(* a freed inode still holds is never read again: it becomes NoInode.      *)
kill_file_by_inode(v, i) ==
  LET wiped == [v EXCEPT !.freeBlocks = @ + v.inode[i].blocks,
                         !.inode[i] = NoInode,
                         !.ent[i] = [s \in Slots |-> Unused],
                         !.nblk[i] = 0]
  IN IF ext2fs_inode_has_valid_blocks(v.inode[i])
     THEN ext2fs_inode_alloc_stats2(wiped, i, -1, IsDir(v, i))
     ELSE [v EXCEPT !.inode[i].links = 0]

----------------------------------------------------------------------------
(* The procedures of ext2fs.c, mkdir.c and rename.c.                       *)

(* do_create: [vol, rc, ino]; an inode that cannot be linked stays marked. *)
do_create(v, p, n, kind) ==
  IF FreeInos(v) = {} THEN [vol |-> v, rc |-> "ENOSPC", ino |-> 0]
  ELSE LET i == ext2fs_new_inode(v, p)
           new == [v EXCEPT !.inode[i] =
                     [kind |-> kind, links |-> 1, blocks |-> 0]]
           marked == ext2fs_inode_alloc_stats2(new, i, 1, FALSE)
       IN [vol |-> do_link(marked, p, n, i),
           rc  |-> IF LinkOk(marked, p) THEN "0" ELSE "EIO",
           ino |-> i]

(* Mutant: the entry is removed by its name alone, which do_rename warns   *)
(* against.                                                                *)
do_unlink_on_ino_ByName(v, p, n, i, delta) ==
  LET links == IF v.inode[i].links > 0 THEN v.inode[i].links + delta ELSE 0
      unlinked == ext2fs_unlink(v, p, n, 0)
  IN IF links < 1 THEN kill_file_by_inode(unlinked, i)
     ELSE [unlinked EXCEPT !.inode[i].links = links]

do_unlink_on_ino(v, p, n, i, delta) ==
  LET links == IF v.inode[i].links > 0 THEN v.inode[i].links + delta ELSE 0
      unlinked == ext2fs_unlink(v, p, n, i)
  IN IF links < 1 THEN kill_file_by_inode(unlinked, i)
     ELSE [unlinked EXCEPT !.inode[i].links = links]

do_unlink(v, p, n, delta) ==
  LET i == ext2fs_lookup(v, p, n)
  IN IF i = 0 THEN v ELSE do_unlink_on_ino(v, p, n, i, delta)

(* Mutant: only the first block of the directory is looked at.             *)
DirEmpty_FirstBlock(v, d) ==
  \A s \in 1 .. SlotsPerBlock :
    v.ent[d][s].ino # 0 => v.ent[d][s].name \in {".", ".."}

(* rmdir_proc: no entry other than "." and "..".                           *)
DirEmpty(v, d) ==
  \A s \in DirSlots(v, d) :
    v.ent[d][s].ino # 0 => v.ent[d][s].name \in {".", ".."}

RmdirRc(v, perm, p, n, i) ==
  IF ~perm THEN "EACCES"
  ELSE IF ~IsDir(v, i) THEN "ENOTDIR"
  ELSE IF ~DirEmpty(v, i) THEN "ENOTEMPTY"
  ELSE IF SlotsOf(v, p, n, i) = {} THEN "EIO"
  ELSE "0"

do_rmdir_on_ino(v, p, n, i) ==
  LET killed == kill_file_by_inode(ext2fs_unlink(v, p, n, i), i)
  IN IF SlotsOf(v, i, "..", 0) # {} /\ killed.inode[p].links > 1
     THEN AddLinks(killed, p, -1) ELSE killed

(* new_ext2fs_mkdir: a new directory is allocated and written before the   *)
(* room for its name is looked for.                                        *)
NewDirEntries(i, p) ==
  [s \in Slots |-> CASE s = 1 -> [name |-> ".", ino |-> i]
                     [] s = 2 -> [name |-> "..", ino |-> p]
                     [] OTHER -> Unused]

new_ext2fs_mkdir(v, perm, p, n) ==
  IF FreeInos(v) = {} THEN [vol |-> v, rc |-> "INODE_ALLOC_FAIL"]
  ELSE IF v.freeBlocks = 0 THEN [vol |-> v, rc |-> "BLOCK_ALLOC_FAIL"]
  ELSE IF ~perm THEN [vol |-> v, rc |-> "EACCES"]
  ELSE LET i == ext2fs_new_inode(v, p)
           new == [v EXCEPT !.inode[i] =
                     [kind |-> "dir", links |-> 2, blocks |-> 1],
                            !.ent[i] = NewDirEntries(i, p),
                            !.nblk[i] = 1,
                            !.freeBlocks = @ - 1]
           marked == ext2fs_inode_alloc_stats2(new, i, 1, TRUE)
       IN IF FreeSlots(marked, p) = {}
          THEN [vol |-> marked, rc |-> "DIR_NO_SPACE"]
          ELSE [vol |-> AddLinks(ext2fs_link(marked, p, n, i), p, 1),
                rc  |-> "0"]

(* do_mkdir: on DIR_NO_SPACE expand the parent and start again, with a     *)
(* second inode and a second block.                                        *)
do_mkdir(v, perm, p, n) ==
  LET first == new_ext2fs_mkdir(v, perm, p, n)
  IN IF first.rc # "DIR_NO_SPACE" THEN first
     ELSE IF ~CanExpand(first.vol, p)
          THEN [vol |-> first.vol, rc |-> "ENOSPC"]
     ELSE new_ext2fs_mkdir(ext2fs_expand_dir(first.vol, p), perm, p, n)

(* The cleanup label of do_rename: the counts are reverted only when the   *)
(* new entry was there to be removed.                                      *)
rename_cleanup(v, q, m, i) ==
  IF SlotsOf(v, q, m, i) = {} THEN v
  ELSE AddLinks(ext2fs_unlink(v, q, m, i), IF IsDir(v, i) THEN q ELSE i, -1)

(* Deleting what had the new name: [vol, rc].                              *)
rename_clobber(v, perm, q, m, i, t) ==
  LET rc == IF IsDir(v, i)
            THEN IF ~IsDir(v, t) THEN "ENOTDIR" ELSE RmdirRc(v, perm, q, m, t)
            ELSE IF IsDir(v, t) THEN "EISDIR" ELSE "0"
  IN [vol |-> IF rc = "0"
              THEN IF IsDir(v, i) THEN do_rmdir_on_ino(v, q, m, t)
                   ELSE do_unlink_on_ino(v, q, m, t, -1)
              ELSE IF rc = "EISDIR" THEN v
              ELSE rename_cleanup(v, q, m, i),
      rc  |-> rc]

(* Mutants of the second half of a directory rename: ".." is left at the   *)
(* old parent; the new parent is uncounted instead of the old one.         *)
rename_unlink_old_NoDotDot(v, p, n, q, m, i) ==
  IF ~IsDir(v, i) THEN [vol |-> do_unlink(v, p, n, -1), rc |-> "0"]
  ELSE [vol |-> AddLinks(ext2fs_unlink(v, p, n, 0), p, -1), rc |-> "0"]

rename_unlink_old_WrongParent(v, p, n, q, m, i) ==
  IF ~IsDir(v, i) THEN [vol |-> do_unlink(v, p, n, -1), rc |-> "0"]
  ELSE IF ~LinkOk(v, i)
  THEN [vol |-> rename_cleanup(v, q, m, i), rc |-> "EIO"]
  ELSE LET moved == ext2fs_unlink(do_link(v, i, "..", q), i, "..", p)
       IN [vol |-> AddLinks(ext2fs_unlink(moved, p, n, 0), q, -1), rc |-> "0"]

(* Removing the old name of a file, or moving ".." and removing the old    *)
(* name of a directory: [vol, rc].                                         *)
rename_unlink_old(v, p, n, q, m, i) ==
  IF ~IsDir(v, i) /\ ext2fs_lookup(v, p, n) = 0
  THEN [vol |-> rename_cleanup(v, q, m, i), rc |-> "ENOENT"]
  ELSE IF ~IsDir(v, i) THEN [vol |-> do_unlink(v, p, n, -1), rc |-> "0"]
  ELSE IF ~LinkOk(v, i)
  THEN [vol |-> rename_cleanup(v, q, m, i), rc |-> "EIO"]
  ELSE LET linked == do_link(v, i, "..", q)
           moved == ext2fs_unlink(linked, i, "..", p)
       IN IF SlotsOf(linked, i, "..", p) = {} \/ SlotsOf(moved, p, n, 0) = {}
          THEN [vol |-> rename_cleanup(moved, q, m, i), rc |-> "EIO"]
          ELSE [vol |-> AddLinks(ext2fs_unlink(moved, p, n, 0), p, -1),
                rc  |-> "0"]

do_rename(v, perm, p, n, q, m) ==
  LET i == ext2fs_lookup(v, p, n)
      t == ext2fs_lookup(v, q, m)
      counted == AddLinks(v, IF IsDir(v, i) THEN q ELSE i, 1)
      linked == do_link(counted, q, m, i)
      clobbered == IF t = 0 THEN [vol |-> linked, rc |-> "0"]
                   ELSE rename_clobber(linked, perm, q, m, i, t)
  IN IF i = 0 THEN [vol |-> v, rc |-> "ENOENT"]
     ELSE IF ~LinkOk(counted, q)
     THEN [vol |-> rename_cleanup(counted, q, m, i), rc |-> "EIO"]
     ELSE IF clobbered.rc # "0" THEN clobbered
     ELSE rename_unlink_old(clobbered.vol, p, n, q, m, i)

----------------------------------------------------------------------------
(* What the kernel checks before a request reaches the program.            *)

Refs(v, i) ==
  {r \in Inos \X Slots : /\ v.ent[r[1]][r[2]].ino = i
                         /\ v.ent[r[1]][r[2]].name \in Names}

Named(v, i) ==
  \E d \in Inos : \E s \in DirSlots(v, d) :
    v.ent[d][s].ino = i /\ v.ent[d][s].name \in Names

LiveDir(v, d) == IsDir(v, d) /\ (d = RootIno \/ Named(v, d))

(* a is d or above it: every set that holds d and the parent of each of    *)
(* its members holds a.                                                    *)
IsAncestor(v, a, d) ==
  \A S \in SUBSET Inos :
    (/\ d \in S
     /\ \A c \in S : \A s \in Slots :
          v.ent[c][s].name = ".." /\ v.ent[c][s].ino # 0
            => v.ent[c][s].ino \in S)
    => a \in S

FreeName(v, p, n) == LiveDir(v, p) /\ ext2fs_lookup(v, p, n) = 0

UsedName(v, p, n) == ext2fs_lookup(v, p, n) # 0 /\ LiveDir(v, p)

RenameAllowed(v, p, n, q, m) ==
  LET i == ext2fs_lookup(v, p, n)
      t == ext2fs_lookup(v, q, m)
  IN /\ UsedName(v, p, n) /\ i # t
     /\ LiveDir(v, q)
     /\ t # 0 => (IsDir(v, t) <=> IsDir(v, i))
     /\ IsDir(v, i) => ~IsAncestor(v, i, q)

----------------------------------------------------------------------------
(* The requests: the volume after the handler, and its answer.  `perm' is  *)
(* the outcome of check_perms and check_perms_in_inode.                    *)

create_request(v, perm, p, n) ==
  IF perm THEN do_create(v, p, n, "file")
  ELSE [vol |-> v, rc |-> "EACCES", ino |-> 0]

(* The target is written into a block of its own after the link is made.   *)
symlink_request(v, perm, p, n) ==
  LET r == do_create(v, p, n, "symlink")
  IN IF ~perm THEN [vol |-> v, rc |-> "EACCES"]
     ELSE IF r.rc # "0" THEN [vol |-> r.vol, rc |-> r.rc]
     ELSE IF r.vol.freeBlocks = 0 THEN [vol |-> r.vol, rc |-> "ENOSPC"]
     ELSE [vol |-> [r.vol EXCEPT !.inode[r.ino].blocks = 1,
                                 !.freeBlocks = @ - 1],
           rc  |-> "0"]

(* Mutant: the new link is not counted.                                    *)
link_request_Uncounted(v, i, q, m) ==
  [vol |-> do_link(v, q, m, i), rc |-> IF LinkOk(v, q) THEN "0" ELSE "ENOENT"]

link_request(v, i, q, m) ==
  LET counted == AddLinks(v, i, 1)
  IN IF LinkOk(counted, q)
     THEN [vol |-> do_link(counted, q, m, i), rc |-> "0"]
     ELSE [vol |-> AddLinks(counted, i, -1), rc |-> "ENOENT"]

(* Mutant: the name goes before the directory is known to be empty.        *)
do_rmdir_UnlinkFirst(v, perm, p, n) ==
  LET i == ext2fs_lookup(v, p, n)
      rc == RmdirRc(v, perm, p, n, i)
  IN [vol |-> IF rc = "0" THEN do_rmdir_on_ino(v, p, n, i)
              ELSE ext2fs_unlink(v, p, n, i),
      rc  |-> rc]

do_rmdir(v, perm, p, n) ==
  LET i == ext2fs_lookup(v, p, n)
      rc == RmdirRc(v, perm, p, n, i)
  IN IF i = 0 THEN [vol |-> v, rc |-> "ENOENT"]
     ELSE [vol |-> IF rc = "0" THEN do_rmdir_on_ino(v, p, n, i) ELSE v, rc |-> rc]

op_create(p, n) ==
  /\ ~damaged /\ FreeName(vol, p, n)
  /\ \E perm \in BOOLEAN : Become(create_request(vol, perm, p, n).vol)

op_symlink(p, n) ==
  /\ ~damaged /\ FreeName(vol, p, n)
  /\ \E perm \in BOOLEAN : Become(symlink_request(vol, perm, p, n).vol)

op_unlink(p, n) ==
  /\ ~damaged /\ UsedName(vol, p, n)
  /\ ~IsDir(vol, ext2fs_lookup(vol, p, n))
  /\ \E perm \in BOOLEAN :
       Become(IF perm THEN do_unlink(vol, p, n, -1) ELSE vol)

op_link(q, m) ==
  /\ ~damaged /\ FreeName(vol, q, m)
  /\ \E i \in Inos, perm \in BOOLEAN :
       /\ Named(vol, i) /\ ~IsDir(vol, i)
       /\ inode[i].links < LinkBound
       /\ Become(IF perm THEN link_request(vol, i, q, m).vol ELSE vol)

op_mkdir(p, n) ==
  /\ ~damaged /\ FreeName(vol, p, n)
  /\ inode[p].links < LinkBound
  /\ \E perm \in BOOLEAN : Become(do_mkdir(vol, perm, p, n).vol)

op_rmdir(p, n) ==
  /\ ~damaged /\ UsedName(vol, p, n)
  /\ IsDir(vol, ext2fs_lookup(vol, p, n))
  /\ \E perm \in BOOLEAN : Become(do_rmdir(vol, perm, p, n).vol)

(* perm: the directories may not be written; they may; so may the one that *)
(* is clobbered.                                                           *)
op_rename(p, n) ==
  /\ ~damaged /\ UsedName(vol, p, n)
  /\ \E q \in Inos, m \in Names :
       /\ RenameAllowed(vol, p, n, q, m)
       /\ LET i == ext2fs_lookup(vol, p, n)
          IN inode[IF IsDir(vol, i) THEN q ELSE i].links < LinkBound
       /\ \E perm \in {"none", "parents", "target"} :
            Become(IF perm = "none" THEN vol
                   ELSE do_rename(vol, perm = "target", p, n, q, m).vol)

Init ==
  /\ ent = [d \in Inos |-> IF d = RootIno THEN NewDirEntries(d, d)
                           ELSE [s \in Slots |-> Unused]]
  /\ nblk = [d \in Inos |-> IF d = RootIno THEN 1 ELSE 0]
  /\ inode = [i \in Inos |->
                IF i = RootIno
                THEN [kind |-> "dir", links |-> 2, blocks |-> 1]
                ELSE NoInode]
  /\ imap = {RootIno}
  /\ freeBlocks \in 0 .. MaxFreeBlocks
  /\ freeInodes = Cardinality(NewInos)
  /\ usedDirs = 1
  /\ damaged = FALSE

Next ==
  \E p \in Inos, n \in Names :
    \/ op_create(p, n) \/ op_symlink(p, n) \/ op_mkdir(p, n) \/ op_link(p, n)
    \/ op_unlink(p, n) \/ op_rmdir(p, n) \/ op_rename(p, n)

Spec == Init /\ [][Next]_vars
----------------------------------------------------------------------------
(* Properties.                                                             *)

(* Every variable keeps its type; in particular blocks are never taken     *)
(* from a volume that has none and counts stay within their width.         *)
TypeOK == vol \in Volume

(* Until ext2fs_unlink patches a wrong entry, an entry of a directory that *)
(* can be reached leads to an inode that is marked in the bitmap and has a *)
(* positive link count: no sequence of requests frees an inode a name, or  *)
(* a "..", still leads to.                                                 *)
NoDanglingEntry ==
  \A d \in Inos : LiveDir(vol, d) =>
    \A s \in Slots :
      LET i == ent[d][s].ino
      IN i # 0 => i \in imap /\ inode[i].links > 0

NoDangling == ~damaged => NoDanglingEntry

(* i_links_count of a file or symlink is never below the number of its     *)
(* names, whatever failed half way: this is what keeps unlink from killing *)
(* a file that still has a name.                                           *)
LinksCoverNames ==
  ~damaged =>
    \A i \in imap : ~IsDir(vol, i) => inode[i].links >= Cardinality(Refs(vol, i))

(* i_links_count of a directory is never below two plus the number of      *)
(* directories in it, across mkdir, rmdir, clobbering and failed renames.  *)
Subdirs(v, d) == {s \in Slots : /\ v.ent[d][s].name \in Names
                                /\ v.ent[d][s].ino # 0
                                /\ IsDir(v, v.ent[d][s].ino)}

DirLinksCoverSubdirs ==
  ~damaged => \A d \in imap :
                IsDir(vol, d) => inode[d].links >= 2 + Cardinality(Subdirs(vol, d))

(* Neither count ever falls below what refers to the inode.                *)
LinkCountsCover == LinksCoverNames /\ DirLinksCoverSubdirs

(* Between requests a directory has at most one entry of a name, although  *)
(* a rename passes through two entries of the new name and two "..".       *)
UniqueNames ==
  ~damaged => \A d \in Inos : \A s, t \in Slots :
                /\ ent[d][s].ino # 0 /\ ent[d][t].ino # 0
                /\ ent[d][s].name = ent[d][t].name
                => s = t

(* A directory has one name, and its ".." refers to the directory that     *)
(* holds that name.                                                        *)
DotDotIsParent ==
  ~damaged => \A d \in Inos, s \in Slots :
    LET i == ent[d][s].ino
    IN i # 0 /\ ent[d][s].name \in Names /\ IsDir(vol, i)
       => /\ Refs(vol, i) = {<<d, s>>}
          /\ ext2fs_lookup(vol, i, "..") = d

(* Following ".." from a directory that has a name leads to the root: no   *)
(* rename cuts a subtree off or closes a cycle.                            *)
Connected ==
  ~damaged => \A d \in Inos : LiveDir(vol, d) => IsAncestor(vol, RootIno, d)

(* Outside a damaged volume the names are a tree: one entry for a name, one *)
(* name for a directory, ".." its parent, and every directory below the    *)
(* root, after any sequence of requests.                                   *)
TreeShape == UniqueNames /\ DotDotIsParent /\ Connected

(* The free counts agree with the bitmap and with the blocks the marked    *)
(* inodes own: nothing is counted twice or freed twice, also by requests   *)
(* that leave an inode behind.                                             *)
CountsAgree ==
  /\ freeInodes = Cardinality(FreeInos(vol))
  /\ usedDirs = Cardinality({i \in imap : IsDir(vol, i)})
  /\ \A d \in imap : IsDir(vol, d) => inode[d].blocks = nblk[d]

(* What the directories name: <<directory, name, inode>>.                  *)
NamesOf(v) ==
  {<<r[1], v.ent[r[1]][r[2]].name, v.ent[r[1]][r[2]].ino>> :
     r \in {x \in Inos \X Slots : /\ v.ent[x[1]][x[2]].ino # 0
                                 /\ v.ent[x[1]][x[2]].name \in Names}}

(* A create, link, mkdir or rmdir that is answered with an error changes   *)
(* nothing a user can name, wherever it gives up.                          *)
ErrorKeeps(names) ==
  \A p \in Inos, n \in Names : LiveDir(vol, p) => \A perm \in BOOLEAN :
    \A r \in IF ext2fs_lookup(vol, p, n) # 0 THEN {do_rmdir(vol, perm, p, n)}
             ELSE {create_request(vol, perm, p, n), do_mkdir(vol, perm, p, n)}
                    \cup {link_request(vol, i, p, n) : i \in imap} :
      r.rc # "0" => NamesOf(r.vol) = names
ErrorChangesNoName == ~damaged => ErrorKeeps(NamesOf(vol))

(* A rename is all or nothing, whichever of its steps fails: answered with *)
(* success the new name, and only it, leads to what the old one led to;    *)
(* answered with an error every name is as it was, although the target may *)
(* have been reached for, two entries had one name and ".." had moved.     *)
Moved(names, p, n, i, q, m, t) == (names \ {<<p, n, i>>, <<q, m, t>>}) \cup {<<q, m, i>>}
RenameOutcome(names, moved, r) ==
  r.vol.damaged \/ NamesOf(r.vol) = IF r.rc = "0" THEN moved ELSE names
RenameMoves(names) ==
  \A p, q \in Inos, n, m \in Names :
    RenameAllowed(vol, p, n, q, m) => \A perm \in BOOLEAN :
      RenameOutcome(names,
                    Moved(names, p, n, ext2fs_lookup(vol, p, n), q, m, ext2fs_lookup(vol, q, m)),
                    do_rename(vol, perm, p, n, q, m))
RenameAllOrNothing == ~damaged => RenameMoves(NamesOf(vol))

(* Each request acts on the names as one operation of NameTree or not at   *)
(* all, until ext2fs_unlink patches a wrong entry: new names get objects   *)
(* nobody else holds, a rename is seen in one piece, only empty            *)
(* directories go, and no rename moves a directory below itself.           *)
LiveKinds(v) ==
  [i \in {RootIno} \cup {x[3] : x \in NamesOf(v)} |-> v.inode[i].kind]

NT == INSTANCE NameTree WITH Objects <- Inos, Root <- RootIno,
                             tree <- NamesOf(vol), kind <- LiveKinds(vol)

ImplementsNameTree ==
  /\ NT!TreeInit
  /\ [][UNCHANGED <<NamesOf(vol), LiveKinds(vol)>> \/ damaged' \/ NT!TreeNext]_vars

(* i_links_count of a file that has a name is exactly the number of its    *)
(* names, after failed requests too.                                       *)
LinksEqualNames ==
  ~damaged => \A i \in imap :
     ~IsDir(vol, i) /\ Refs(vol, i) # {}
       => inode[i].links = Cardinality(Refs(vol, i))

(* A link answered with success raises the count of the file; one that     *)
(* would take it past what i_links_count holds is refused.                 *)
LinkCountedOrRefused ==
  ~damaged => \A i, q \in Inos, m \in Names :
    LET r == link_request(vol, i, q, m)
    IN FreeName(vol, q, m) /\ Refs(vol, i) # {} /\ ~IsDir(vol, i)
       => r.rc # "0" \/ r.vol.inode[i].links > inode[i].links
=============================================================================
