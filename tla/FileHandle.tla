---------------------------- MODULE FileHandle ----------------------------
(***************************************************************************)
(* Open files: the requests of src/src/fuse-ext2fs.c that read, write and  *)
(* resize a file, src/src/ext2fs.c, src/src/truncate.c and                 *)
(* lib/ext2fs/fileio.c below them.  An open file is an ext2_file_t: its    *)
(* own copy of the inode and one buffered block.                           *)
(*                                                                         *)
(* A request is one step.  A C procedure is an operator on a record        *)
(* [v, h, rc, got]: the volume, the handle, the error and the bytes read.  *)
(* Files stay within the direct blocks; BlockMap has the indirect ones.    *)
(***************************************************************************)
EXTENDS Integers, FiniteSets, SequencesExt

CONSTANTS
  Files, Handles,
  NoFile,          \* what a closed handle is open on
  NBlk,            \* the volume has data blocks 1 .. NBlk
  BlockSize,       \* bytes in a block
  MaxFileBlocks,   \* bound: blocks of a file, at most EXT2_NDIR_BLOCKS
  Data,            \* bytes a write may write
  WipeByte,        \* what test_wipe_block fills a block with
  MaxRequest,      \* bound: bytes of one read or write
  LinkBound,       \* bound: names of a file
  Sharing          \* the requests that may come for a file that is open

MaxSize == MaxFileBlocks * BlockSize
Blocks == 1 .. NBlk
Bytes == Data \cup {0, WipeByte}
Buffer == [0 .. (BlockSize - 1) -> Bytes]
ZeroBlock == [i \in 0 .. (BlockSize - 1) |-> 0]

FileAssumption ==
  /\ BlockSize \in Nat \ {0} /\ NBlk \in Nat /\ MaxFileBlocks \in Nat \ {0}
  /\ NoFile \notin Files
  /\ WipeByte \notin Data \cup {0} /\ 0 \notin Data
  /\ Sharing \subseteq {"open", "truncate", "link", "unlink"}

Inode == [i_size : 0 .. MaxSize, i_links : 0 .. LinkBound,
          i_block : [0 .. (MaxFileBlocks - 1) -> 0 .. NBlk]]
NewInode(links) == [i_size |-> 0, i_links |-> links,
                    i_block |-> [k \in 0 .. (MaxFileBlocks - 1) |-> 0]]

Handle == [open : BOOLEAN, ino : Files \cup {NoFile}, inode : Inode, write : BOOLEAN,
           blockno : 0 .. MaxFileBlocks, physblock : 0 .. NBlk,
           valid : BOOLEAN, dirty : BOOLEAN, buf : Buffer]

VARIABLES
  vol,      \* [ino, disk, map, imap]: inodes, blocks and the two bitmaps
  handle,   \* the ext2_file_t of each handle
  names,    \* how many names each file has
  last      \* the last request and its reply

vars == <<vol, handle, names, last>>

ext2fs_write_inode(v, f, inode) == [v EXCEPT !.ino[f] = inode]

(* The first free block from the goal on, round the end of the volume.     *)
Free(v) == Blocks \ v.map

ext2fs_new_block(v, goal) ==
  LET g == IF goal = 0 THEN 1 ELSE goal
      upper == {b \in Free(v) : b >= g}
      S == IF upper # {} THEN upper ELSE Free(v)
  IN CHOOSE b \in S : \A c \in S : b <= c

ext2fs_alloc_block(v, b) ==
  [v EXCEPT !.map = @ \cup {b}, !.disk[b] = ZeroBlock]

(* The next call of a procedure, unless an error returns from it.          *)
Then(S, F(_)) == IF S.rc # "ok" THEN S ELSE F(S)

(* The handle's inode is changed and written.                              *)
StoreInode(S, inode) ==
  [S EXCEPT !.h.inode = inode, !.v = ext2fs_write_inode(S.v, S.h.ino, inode)]

MapTo(S, blk, b) ==
  StoreInode([S EXCEPT !.v = ext2fs_alloc_block(S.v, b), !.h.physblock = b],
             [S.h.inode EXCEPT !.i_block[blk] = b])

(* ext2fs_bmap: the block is looked up in the handle's inode; with         *)
(* BMAP_ALLOC a missing one is allocated and the inode written.            *)
ext2fs_bmap(S, blk, alloc) ==
  IF S.h.inode.i_block[blk] # 0 \/ ~alloc
  THEN [S EXCEPT !.h.physblock = S.h.inode.i_block[blk]]
  ELSE IF Free(S.v) = {}
  THEN [S EXCEPT !.rc = "BLOCK_ALLOC_FAIL", !.h.physblock = 0]
  ELSE MapTo(S, blk, ext2fs_new_block(S.v,
                       IF blk = 0 THEN 0 ELSE S.h.inode.i_block[blk - 1]))

----------------------------------------------------------------------------
(* fileio.c                                                                *)

ext2fs_file_flush(S) ==
  IF ~S.h.valid \/ ~S.h.dirty THEN S
  ELSE Then(IF S.h.physblock = 0 THEN ext2fs_bmap(S, S.h.blockno, TRUE) ELSE S,
            LAMBDA M : [M EXCEPT !.v.disk[M.h.physblock] = M.h.buf,
                                 !.h.dirty = FALSE])

sync_buffer_position(S, b) ==
  IF b = S.h.blockno THEN S
  ELSE Then(ext2fs_file_flush(S),
            LAMBDA M : [M EXCEPT !.h.valid = FALSE, !.h.blockno = b])

load_buffer(S, dontfill) ==
  IF S.h.valid THEN S
  ELSE Then(ext2fs_bmap(S, S.h.blockno, FALSE),
            LAMBDA M : [M EXCEPT !.h.valid = TRUE,
                                 !.h.buf = IF dontfill THEN @
                                           ELSE IF M.h.physblock = 0 THEN ZeroBlock
                                           ELSE M.v.disk[M.h.physblock]])

(* The iterations of the loops of ext2fs_file_read and ext2fs_file_write   *)
(* over n bytes from off on: a block, and the range of bytes in it.        *)
Chunks(off, n) ==
  LET first == off \div BlockSize
      count == IF n = 0 THEN 0
               ELSE (off + n - 1) \div BlockSize - first + 1
  IN [k \in 1 .. count |->
        LET b == first + k - 1
        IN [b |-> b,
            lo |-> IF k = 1 THEN off % BlockSize ELSE 0,
            hi |-> IF k = count THEN (off + n - 1) % BlockSize
                   ELSE BlockSize - 1]]

LoadBlock(S, b, dontfill) ==
  Then(sync_buffer_position(S, b), LAMBDA M : load_buffer(M, dontfill))

CopyOut(S, c) ==
  [S EXCEPT !.got = @ \o [i \in 1 .. (c.hi - c.lo + 1) |-> S.h.buf[c.lo + i - 1]]]

ReadChunk(S, c) ==
  Then(S, LAMBDA T : Then(LoadBlock(T, c.b, FALSE), LAMBDA L : CopyOut(L, c)))

ext2fs_file_read(S, off, n) ==
  LET size == S.h.inode.i_size
      left == IF off >= size THEN 0 ELSE IF off + n > size THEN size - off ELSE n
  IN FoldLeft(ReadChunk, S, Chunks(off, left))

CopyIn(S, c, d) ==
  [S EXCEPT !.h.dirty = TRUE,
            !.h.buf = [i \in 0 .. (BlockSize - 1) |->
                         IF i \in c.lo .. c.hi THEN d ELSE @[i]]]

WriteChunk(S, c, d) ==
  Then(S, LAMBDA T : Then(LoadBlock(T, c.b, c.hi - c.lo + 1 = BlockSize),
                          LAMBDA L : CopyIn(L, c, d)))

ext2fs_file_write(S, off, n, d) ==
  IF ~S.h.write THEN [S EXCEPT !.rc = "FILE_RO"]
  ELSE FoldLeft(LAMBDA T, c : WriteChunk(T, c, d), S, Chunks(off, n))

(* ext2fs_file_open: physblock, blockno and the flags start at 0; the      *)
(* buffer is not read before it is valid.                                  *)
ext2fs_file_open(v, f, w) ==
  [v |-> v, rc |-> "ok", got |-> <<>>,
   h |-> [open |-> TRUE, ino |-> f, inode |-> v.ino[f], write |-> w,
          blockno |-> 0, physblock |-> 0, valid |-> FALSE, dirty |-> FALSE,
          buf |-> ZeroBlock]]

(* A closed handle; its fields are never looked at.                        *)
Closed == [open |-> FALSE, ino |-> NoFile, inode |-> NewInode(0), write |-> FALSE,
           blockno |-> 0, physblock |-> 0, valid |-> FALSE, dirty |-> FALSE,
           buf |-> ZeroBlock]

(* The error of the last flush is returned, and the handle gone with it.   *)
ext2fs_file_close(S) ==
  [ext2fs_file_flush(S) EXCEPT !.h = Closed]

----------------------------------------------------------------------------
(* truncate.c                                                              *)

set_file_size(S, len) == StoreInode(S, [S.h.inode EXCEPT !.i_size = len])

(* Blocks are freed and wiped.                                             *)
WipeBlocks(v, B) ==
  [v EXCEPT !.map = @ \ B,
            !.disk = [b \in Blocks |-> IF b \in B
                                       THEN [i \in 0 .. (BlockSize - 1) |-> WipeByte]
                                       ELSE @[b]]]

(* last_block_to_keep + 1.                                                 *)
(* Mutant: the last block is kept only when it is full.                    *)
KeptBlocks_Down(len) == len \div BlockSize

KeptBlocks(len) == IF len = 0 THEN 0 ELSE (len - 1) \div BlockSize + 1

(* Mutant: the block numbers stay in the inode.                            *)
TruncateBlocks_Keep(v, f, keep) ==
  WipeBlocks(v, {v.ino[f].i_block[k] : k \in keep .. (MaxFileBlocks - 1)} \ {0})

(* ext2fs_block_iterate reads the inode, and writes it without the blocks  *)
(* that are freed; the handle's copy still has them.                       *)
TruncateBlocks(v, f, keep) ==
  LET blk == v.ino[f].i_block
      gone == {k \in DOMAIN blk : k >= keep /\ blk[k] # 0}
  IN [WipeBlocks(v, {blk[k] : k \in gone}) EXCEPT
        !.ino[f].i_block = [k \in DOMAIN blk |-> IF k \in gone THEN 0 ELSE blk[k]]]

do_shorten(S, len) ==
  IF len = S.h.inode.i_size THEN S
  ELSE [set_file_size(S, len) EXCEPT !.v = TruncateBlocks(@, S.h.ino, KeptBlocks(len))]

(* Zeros are written from the end on; `pos' ends where it was.             *)
do_lengthen(S, len) ==
  Then(ext2fs_file_write(S, S.h.inode.i_size, len - S.h.inode.i_size, 0),
       LAMBDA M : set_file_size(M, len))

do_ftruncate(S, len) ==
  IF len > S.h.inode.i_size THEN do_lengthen(S, len) ELSE do_shorten(S, len)

(* The handle is closed in any case; an earlier error is the one returned. *)
CloseAfter(S) ==
  [ext2fs_file_close([S EXCEPT !.rc = "ok"]) EXCEPT !.rc = IF S.rc = "ok" THEN @ ELSE S.rc]

do_truncate(v, f, len) ==
  CloseAfter(do_ftruncate(ext2fs_file_open(v, f, TRUE), len))

----------------------------------------------------------------------------
(* ext2fs.c                                                                *)

do_open(v, f, w, trunc) ==
  IF trunc THEN do_ftruncate(ext2fs_file_open(v, f, TRUE), 0)
  ELSE ext2fs_file_open(v, f, w)

(* A read stores the handle's inode, for the sake of i_atime.              *)
do_read(S, off, n) ==
  Then(ext2fs_file_read(S, off, n), LAMBDA M : StoreInode(M, M.h.inode))

do_write(S, off, n, d) ==
  Then(Then(IF off > S.h.inode.i_size THEN do_ftruncate(S, off) ELSE S,
            LAMBDA G : ext2fs_file_write(G, off, n, d)),
       LAMBDA M : IF off + n <= M.h.inode.i_size THEN M
                  ELSE set_file_size(M, off + n))

(* do_unlink_on_ino and kill_file_by_inode: with the last name the blocks  *)
(* are freed and the inode's bit cleared; the inode itself keeps its block *)
(* numbers.                                                                *)
do_unlink(v, f) ==
  IF v.ino[f].i_links > 1 THEN [v EXCEPT !.ino[f].i_links = @ - 1]
  ELSE [WipeBlocks(v, Range(v.ino[f].i_block) \ {0}) EXCEPT
          !.ino[f].i_links = 0, !.imap = @ \ {f}]

(* do_create's inode.                                                      *)
do_create(v, f) ==
  [ext2fs_write_inode(v, f, NewInode(1)) EXCEPT !.imap = @ \cup {f}]

----------------------------------------------------------------------------
(* Requests.                                                               *)

OpenOn(f) == {h \in Handles : handle[h].open /\ handle[h].ino = f}

(* What comes for a file that is open already is up to `Sharing'.          *)
MayCome(kind, f) == OpenOn(f) = {} \/ kind \in Sharing

Start(h) == [v |-> vol, h |-> handle[h], rc |-> "ok", got |-> <<>>]

Reply(op, f, S) == last' = [op |-> op, ino |-> f, rc |-> S.rc, got |-> S.got]

Return(op, h, S) ==
  /\ vol' = S.v
  /\ handle' = [handle EXCEPT ![h] = S.h]
  /\ Reply(op, S.h.ino, S)

op_open(h, f, w) ==
  /\ ~handle[h].open /\ f \in vol.imap /\ MayCome("open", f)
  /\ Return("open", h, do_open(vol, f, w, FALSE))
  /\ UNCHANGED names

(* O_TRUNC: sent by a kernel that leaves the truncation to the handler.    *)
op_open_trunc(h, f) ==
  /\ ~handle[h].open /\ f \in vol.imap /\ MayCome("open", f)
  /\ Return("open", h, do_open(vol, f, TRUE, TRUE))
  /\ UNCHANGED names

op_create(h, f) ==
  /\ ~handle[h].open /\ f \notin vol.imap
  /\ Return("create", h, do_open(do_create(vol, f), f, TRUE, FALSE))
  /\ names' = [names EXCEPT ![f] = 1]

op_read(h, off, n) ==
  /\ handle[h].open
  /\ Return("read", h, do_read(Start(h), off, n))
  /\ UNCHANGED names

op_write(h, off, n, d) ==
  /\ handle[h].open /\ off + n <= MaxSize
  /\ Return("write", h, do_write(Start(h), off, n, d))
  /\ UNCHANGED names

op_flush(h) ==
  /\ handle[h].open
  /\ Return("flush", h, ext2fs_file_flush(Start(h)))
  /\ UNCHANGED names

(* ext2fs_flush writes superblock, descriptors and bitmaps.                *)
op_fsync(h) ==
  /\ handle[h].open
  /\ Return("fsync", h, Start(h))
  /\ UNCHANGED names

op_release(h) ==
  /\ handle[h].open
  /\ Return("release", h, ext2fs_file_close(Start(h)))
  /\ UNCHANGED names

op_setattr(f, len) ==
  /\ f \in vol.imap /\ MayCome("truncate", f)
  /\ \E S \in {do_truncate(vol, f, len)} : vol' = S.v /\ Reply("setattr", f, S)
  /\ UNCHANGED <<handle, names>>

op_link(f) ==
  /\ f \in vol.imap /\ MayCome("link", f) /\ names[f] < LinkBound
  /\ names' = [names EXCEPT ![f] = @ + 1]
  /\ vol' = [vol EXCEPT !.ino[f].i_links = @ + 1]
  /\ last' = [op |-> "link", ino |-> f, rc |-> "ok", got |-> <<>>]
  /\ UNCHANGED handle

op_unlink(f) ==
  /\ f \in vol.imap /\ MayCome("unlink", f)
  /\ names' = [names EXCEPT ![f] = @ - 1]
  /\ vol' = do_unlink(vol, f)
  /\ last' = [op |-> "unlink", ino |-> f, rc |-> "ok", got |-> <<>>]
  /\ UNCHANGED handle

Init ==
  /\ vol = [ino |-> [f \in Files |-> NewInode(0)], imap |-> {}, map |-> {},
            disk |-> [b \in Blocks |-> ZeroBlock]]
  /\ handle = [h \in Handles |-> Closed]
  /\ names = [f \in Files |-> 0]
  /\ last = [op |-> "mount", ino |-> NoFile, rc |-> "ok", got |-> <<>>]

Next ==
  \/ \E h \in Handles, f \in Files :
       \/ op_create(h, f)
       \/ \E w \in BOOLEAN : op_open(h, f, w)
  \/ \E h \in Handles :
       \/ op_flush(h) \/ op_fsync(h) \/ op_release(h)
       \/ \E off \in 0 .. MaxSize, n \in 1 .. MaxRequest :
            \/ op_read(h, off, n)
            \/ \E d \in Data : op_write(h, off, n, d)
  \/ \E f \in Files :
       \/ op_link(f) \/ op_unlink(f)
       \/ \E len \in 0 .. MaxSize : op_setattr(f, len)

Spec == Init /\ [][Next]_vars

(* The same under a kernel that sends O_TRUNC.                             *)
TruncNext == Next \/ \E h \in Handles, f \in Files : op_open_trunc(h, f)
TruncSpec == Init /\ [][TruncNext]_vars

----------------------------------------------------------------------------
(* Properties.                                                             *)

TypeOK ==
  /\ vol.ino \in [Files -> Inode]
  /\ vol.disk \in [Blocks -> Buffer]
  /\ vol.map \subseteq Blocks /\ vol.imap \subseteq Files
  /\ handle \in [Handles -> Handle]

Mapped(inode) == Range(inode.i_block) \ {0}

(* The blocks of a file, on the volume and in the copies of its open       *)
(* handles, are marked in the bitmap, and no other file has them: nothing  *)
(* written through a handle can land in another file or in a free block.   *)
NoForeignBlocks ==
  /\ \A f \in vol.imap : Mapped(vol.ino[f]) \subseteq vol.map
  /\ \A h \in Handles : handle[h].open =>
       /\ Mapped(handle[h].inode) \subseteq vol.map
       /\ \A f \in vol.imap \ {handle[h].ino} :
            Mapped(handle[h].inode) \cap Mapped(vol.ino[f]) = {}
  /\ \A f, g \in vol.imap : f # g => Mapped(vol.ino[f]) \cap Mapped(vol.ino[g]) = {}

(* A block that is marked belongs to a file: none is lost, also when a     *)
(* request fails half way.                                                 *)
NoLostBlocks == vol.map \subseteq UNION {Mapped(vol.ino[f]) : f \in vol.imap}

(* What a file holds: the buffer of its open handle, the volume below it.  *)
DeviceByte(f, p) ==
  LET b == vol.ino[f].i_block[p \div BlockSize]
  IN IF b = 0 THEN 0 ELSE vol.disk[b][p % BlockSize]

ByteAt(f, p) ==
  LET H == {h \in OpenOn(f) : handle[h].valid /\ handle[h].blockno = p \div BlockSize}
  IN IF H = {} THEN DeviceByte(f, p)
     ELSE handle[CHOOSE h \in H : TRUE].buf[p % BlockSize]

Contents(f) ==
  IF f \notin vol.imap THEN <<>>
  ELSE [i \in 1 .. vol.ino[f].i_size |-> ByteAt(f, i - 1)]

BF == INSTANCE ByteFile WITH bytes <- [f \in Files |-> Contents(f)],
                             reply <- last.got

(* A file that is used through one handle at a time, and neither resized   *)
(* nor removed meanwhile, is an array of bytes: reads return what was      *)
(* written last, across block boundaries, buffer switches, gaps, closing   *)
(* and failed allocations.                                                 *)
ByteStep ==
  \/ UNCHANGED <<[f \in Files |-> Contents(f)], last.got>>
  \/ BF!ByteNext
ImplementsByteFile ==
  BF!ByteInit /\ [][ByteStep]_<<[f \in Files |-> Contents(f)], last.got>>

(* When flush() reports success the volume has the file's contents.        *)
FlushIsComplete ==
  last.op = "flush" /\ last.rc = "ok" =>
    \A p \in 0 .. (vol.ino[last.ino].i_size - 1) :
      ByteAt(last.ino, p) = DeviceByte(last.ino, p)

(* When fsync() reports success the volume has the file's contents.        *)
FsyncIsComplete ==
  last.op = "fsync" /\ last.rc = "ok" =>
    \A p \in 0 .. (vol.ino[last.ino].i_size - 1) :
      ByteAt(last.ino, p) = DeviceByte(last.ino, p)

(* A file that is open keeps its blocks when its last name is removed.     *)
OpenFileKeepsBlocks ==
  \A h \in Handles : handle[h].open => Mapped(handle[h].inode) \subseteq vol.map

(* After a request has shortened a file, the block structure used for it   *)
(* is the new one.                                                         *)
HandleHasNewBlocks ==
  \A h \in Handles : handle[h].open =>
    Mapped(handle[h].inode) \subseteq Mapped(vol.ino[handle[h].ino])

(* A read changes nothing of the inode but i_atime: the link count of a    *)
(* file is still the number of its names.                                  *)
ReadUpdatesAtimeOnly ==
  last.op = "read" => vol.ino[last.ino].i_links = names[last.ino]
=============================================================================
