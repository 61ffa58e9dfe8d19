------------------------------ MODULE BlockMap ------------------------------
(***************************************************************************)
(* The blocks of a file: lib/ext2fs/bmap.c, which finds and allocates the  *)
(* block of a position, lib/ext2fs/block.c, which visits every block of an *)
(* inode, and the callbacks through which src/src/truncate.c,              *)
(* src/src/ext2fs.c and lib/ext2fs/expanddir.c shorten, delete and extend. *)
(*                                                                         *)
(* Sizes are counted in blocks.  A block is known by the N block numbers   *)
(* it holds when it is an indirect block.  A C procedure is an operator on *)
(* a record that carries the volume v and what the procedure returns.      *)
(***************************************************************************)
EXTENDS Integers, FiniteSets, SequencesExt

CONSTANTS
  Files, Dirs,
  NBlk,      \* the volume has blocks 1 .. NBlk
  NDir,      \* EXT2_NDIR_BLOCKS
  N,         \* addr_per_block: block numbers in an indirect block
  MaxBlocks, \* bound: blocks of a file
  MaxDirBlocks, \* bound: blocks of a directory
  WildBlk    \* what a wiped block reads as: not the number of a block

Nodes == Files \cup Dirs
Blocks == 1 .. NBlk
Slots == 0 .. (NDir + 2)
Pos == 0 .. (MaxBlocks - 1)
Zeros == [i \in 0 .. (N - 1) |-> 0]

MapAssumption ==
  /\ Files \cap Dirs = {}
  /\ NDir \in Nat \ {0} /\ N \in Nat \ {0, 1} /\ NBlk \in Nat \ {0}
  /\ MaxBlocks \in 1 .. (NDir + N + N * N + N * N * N)
  /\ MaxDirBlocks \in 1 .. MaxBlocks
  /\ WildBlk \in Nat /\ WildBlk > NBlk

Inode == [i_block : [Slots -> 0 .. NBlk], i_blocks : 0 .. NBlk, i_size : 0 .. MaxBlocks]
NewInode == [i_block |-> [s \in Slots |-> 0], i_blocks |-> 0, i_size |-> 0]

VARIABLES
  ino,     \* the inodes on the volume
  live,    \* the inodes in use
  ind,     \* the block numbers in each block
  map,     \* the block bitmap
  fh       \* the inode copies of open files

vars == <<ino, live, ind, map, fh>>

(* The volume as the procedures below pass it on.  `cold' are the blocks   *)
(* the block cache does not hold, which read as the device has them.       *)
Vol(cold) == [ino |-> ino, ind |-> ind, map |-> map, cold |-> cold]

Free(v) == Blocks \ v.map

(* The first free block from the goal on, round the end of the volume.     *)
ext2fs_new_block(v, goal) ==
  LET g == IF goal = 0 THEN 1 ELSE goal
      upper == {b \in Free(v) : b >= g}
      S == IF upper # {} THEN upper ELSE Free(v)
  IN CHOOSE b \in S : \A c \in S : b <= c

(* The block found is marked and written with zeros.                       *)
ext2fs_alloc_block(v, b) == [v EXCEPT !.map = @ \cup {b}, !.ind[b] = Zeros]

(* A block is unmarked, and wiped on the device behind the block cache.    *)
FreeAndWipe(v, b) ==
  IF b \notin Blocks THEN v
  ELSE [v EXCEPT !.map = @ \ {b},
                 !.ind[b] = IF b \in v.cold
                            THEN [i \in 0 .. (N - 1) |-> WildBlk] ELSE @]

----------------------------------------------------------------------------
(* bmap.c: [v, h, alloc, rc, n, b], where h is the caller's inode, n the   *)
(* blocks allocated so far and b the block found.                          *)

AllocIn(S, nr, b) ==
  [S EXCEPT !.v = [ext2fs_alloc_block(S.v, b) EXCEPT !.ind[S.b][nr] = b],
            !.n = @ + 1, !.b = b]

(* Mutant: the new number is put in the first place.                       *)
block_ind_bmap_First(S, nr) ==
  IF S.rc # "ok" \/ S.b = 0 THEN S
  ELSE IF S.v.ind[S.b][nr] # 0 \/ ~S.alloc THEN [S EXCEPT !.b = S.v.ind[S.b][nr]]
  ELSE IF Free(S.v) = {} THEN [S EXCEPT !.rc = "BLOCK_ALLOC_FAIL", !.b = 0]
  ELSE AllocIn(S, 0, ext2fs_new_block(S.v, 0))

block_ind_bmap(S, nr) ==
  IF S.rc # "ok" \/ S.b = 0 THEN S
  ELSE IF S.v.ind[S.b][nr] # 0 \/ ~S.alloc THEN [S EXCEPT !.b = S.v.ind[S.b][nr]]
  ELSE IF Free(S.v) = {} THEN [S EXCEPT !.rc = "BLOCK_ALLOC_FAIL", !.b = 0]
  ELSE AllocIn(S, nr, ext2fs_new_block(S.v, IF nr > 0 THEN S.v.ind[S.b][nr - 1] ELSE 0))

block_dind_bmap(S, nr) ==
  block_ind_bmap(block_ind_bmap(S, nr \div N), nr % N)

block_tind_bmap(S, nr) ==
  block_ind_bmap(block_dind_bmap(S, nr \div N), nr % N)

AllocSlot(S, slot, b) ==
  [S EXCEPT !.v = ext2fs_alloc_block(S.v, b), !.h.i_block[slot] = b,
            !.n = @ + 1, !.b = b]

(* The block of a slot of the inode.  The new block number is put in the   *)
(* caller's inode at once; only a success is counted and written.          *)
SlotBlock(S, slot) ==
  IF S.h.i_block[slot] # 0 \/ ~S.alloc THEN [S EXCEPT !.b = S.h.i_block[slot]]
  ELSE IF Free(S.v) = {} THEN [S EXCEPT !.rc = "BLOCK_ALLOC_FAIL"]
  ELSE AllocSlot(S, slot, ext2fs_new_block(S.v, IF slot = 0 THEN 0
                                                ELSE S.h.i_block[slot - 1]))

FindBlock(S, k) ==
  IF k < NDir THEN SlotBlock(S, k)
  ELSE IF k < NDir + N THEN block_ind_bmap(SlotBlock(S, NDir), k - NDir)
  ELSE IF k < NDir + N + N * N
  THEN block_dind_bmap(SlotBlock(S, NDir + 1), k - NDir - N)
  ELSE block_tind_bmap(SlotBlock(S, NDir + 2), k - NDir - N - N * N)

(* A success is counted in the inode, which is written.                    *)
CountBlocks(S, f) ==
  IF S.rc # "ok" \/ S.n = 0 THEN S
  ELSE [S EXCEPT !.h.i_blocks = @ + S.n,
                 !.v.ino[f] = [S.h EXCEPT !.i_blocks = @ + S.n]]

ext2fs_bmap(v, f, h, alloc, k) ==
  CountBlocks(FindBlock([v |-> v, h |-> h, alloc |-> alloc, rc |-> "ok",
                         n |-> 0, b |-> 0], k), f)

Lookup(v, inode, k) == ext2fs_bmap(v, 0, inode, FALSE, k).b

----------------------------------------------------------------------------
(* block.c: [v, b, cnt, ret, acc], where b is the block number visited,    *)
(* cnt the position, ret the flags returned and acc the callback's data.   *)
(* F is the callback.  With `depth' (BLOCK_FLAG_DEPTH_TRAVERSE) an         *)
(* indirect block is visited after its blocks, otherwise before; with      *)
(* `append' missing blocks are visited too.                                *)

Visit(S, F(_, _)) == [F(S, "data") EXCEPT !.cnt = @ + 1]

(* The loop over the block numbers of an indirect block: [s, buf, ret].    *)
VisitEntries(S, span, append, Child(_)) ==
  LET Take(T, i, C) == [s |-> C, buf |-> [T.buf EXCEPT ![i] = C.b],
                        ret |-> T.ret \cup C.ret]
      Step(T, i) ==
        IF T.ret \cap {"abort", "error"} # {} THEN T
        ELSE IF T.buf[i] = 0 /\ ~append THEN [T EXCEPT !.s.cnt = @ + span]
        ELSE Take(T, i, Child([T.s EXCEPT !.b = T.buf[i], !.ret = {}]))
  IN FoldLeft(Step, [s |-> S, buf |-> S.v.ind[S.b], ret |-> {}],
              [i \in 1 .. N |-> i - 1])

(* The indirect block is written when one of its numbers changed.          *)
LeaveBlock(S, L) ==
  [L.s EXCEPT !.b = S.b, !.ret = S.ret \cup (L.ret \cap {"abort", "error"}),
              !.v.ind[S.b] = IF "changed" \in L.ret THEN L.buf ELSE @]

(* One level: the block numbers of S.b are visited with Child, each of     *)
(* them standing for `span' positions.                                     *)
Descend(S, span, append, Child(_)) ==
  IF S.b = 0 \/ "abort" \in S.ret THEN [S EXCEPT !.cnt = @ + N * span]
  ELSE IF S.b \notin Blocks THEN [S EXCEPT !.ret = @ \cup {"error"}]
  ELSE LeaveBlock(S, VisitEntries(S, span, append, Child))

(* With `depth' the block itself is visited last, unless it is missing, is *)
(* no block of the volume, or the visit of its blocks was aborted.         *)
VisitAfter(S, W, kind, F(_, _)) ==
  IF S.b \notin Blocks \/ "abort" \in W.ret THEN W
  ELSE [F(W, kind) EXCEPT !.ret = @ \cup W.ret]

IterateLevel(S, kind, span, depth, append, F(_, _), Child(_)) ==
  IF depth
  THEN VisitAfter(S, Descend([S EXCEPT !.ret = {}], span, append, Child), kind, F)
  ELSE Descend(F(S, kind), span, append, Child)

block_iterate_ind(S, depth, append, F(_, _)) ==
  IterateLevel(S, "ind", 1, depth, append, F, LAMBDA T : Visit(T, F))

block_iterate_dind(S, depth, append, F(_, _)) ==
  IterateLevel(S, "dind", N, depth, append, F,
               LAMBDA T : block_iterate_ind(T, depth, append, F))

block_iterate_tind(S, depth, append, F(_, _)) ==
  IterateLevel(S, "tind", N * N, depth, append, F,
               LAMBDA T : block_iterate_dind(T, depth, append, F))

(* The slots of the inode in turn; a changed inode is written back.        *)
ext2fs_block_iterate2(v, f, depth, append, F(_, _), acc) ==
  LET span(s) == IF s < NDir THEN 1
                 ELSE IF s = NDir THEN N
                 ELSE IF s = NDir + 1 THEN N * N ELSE N * N * N
      visit(T, s) ==
        IF s < NDir THEN Visit(T, F)
        ELSE IF s = NDir THEN block_iterate_ind(T, depth, append, F)
        ELSE IF s = NDir + 1 THEN block_iterate_dind(T, depth, append, F)
        ELSE block_iterate_tind(T, depth, append, F)
      Take(T, s, C) == [s |-> C, blocks |-> [T.blocks EXCEPT ![s] = C.b],
                        ret |-> T.ret \cup C.ret]
      Step(T, s) ==
        IF "abort" \in T.ret THEN T
        ELSE IF T.blocks[s] = 0 /\ ~append THEN [T EXCEPT !.s.cnt = @ + span(s)]
        ELSE Take(T, s, visit([T.s EXCEPT !.b = T.blocks[s], !.ret = {}], s))
      Store(E) ==
        [E.s EXCEPT !.v.ino[f].i_block = IF "changed" \in E.ret THEN E.blocks ELSE @]
  IN Store(FoldLeft(Step, [s |-> [v |-> v, b |-> 0, cnt |-> 0, ret |-> {}, acc |-> acc],
                           blocks |-> v.ino[f].i_block, ret |-> {}],
                    [s \in 1 .. (NDir + 3) |-> s - 1]))

----------------------------------------------------------------------------
(* The callbacks.                                                          *)

(* Which indirect blocks go once the block at position p has gone.         *)
IndirectFlags(p) ==
  IF p = NDir \/ p = N + NDir THEN {"all"}
  ELSE IF p < N + NDir THEN {}
  ELSE LET i == p - NDir - N - N * N
       IN (IF (p - NDir) % N = 0 THEN {"single"} ELSE {})
          \cup (IF i = 0 THEN {"all"}
                ELSE IF i > 0 /\ i % (N * N) = 0 THEN {"but_triple"} ELSE {})

TruncateGone(S, kind) ==
  CASE kind = "data" -> S.cnt > S.acc.last_block_to_keep
    [] kind = "ind"  -> S.acc.flags # {}
    [] kind = "dind" -> S.acc.flags \cap {"but_triple", "all"} # {}
    [] kind = "tind" -> "all" \in S.acc.flags

TruncateFree(S, kind) ==
  [S EXCEPT !.v = FreeAndWipe(S.v, S.b), !.b = 0, !.ret = {"changed"},
            !.acc.flags = IF kind = "data" THEN @ \cup IndirectFlags(S.cnt) ELSE @]

(* Mutant: BLOCK_CHANGED is not returned.                                  *)
truncate_blocks_proc_Quiet(S, kind) ==
  IF TruncateGone(S, kind) THEN [TruncateFree(S, kind) EXCEPT !.ret = {}]
  ELSE [S EXCEPT !.acc.total = @ + 1, !.ret = {}]

truncate_blocks_proc(S, kind) ==
  IF TruncateGone(S, kind) THEN TruncateFree(S, kind)
  ELSE [S EXCEPT !.acc.total = @ + 1, !.ret = {}]

release_blocks_proc(S, kind) ==
  [S EXCEPT !.v = FreeAndWipe(S.v, S.b), !.ret = {}]

ExpandWith(S, b, done) ==
  [S EXCEPT !.v = ext2fs_alloc_block(S.v, b), !.b = b,
            !.acc.new = @ + 1, !.acc.done = done,
            !.ret = IF done THEN {"changed", "abort"} ELSE {"changed"}]

expand_dir_proc(S, kind) ==
  IF S.b # 0 THEN [S EXCEPT !.acc.last = S.b, !.ret = {}]
  ELSE IF Free(S.v) = {} THEN [S EXCEPT !.acc.err = TRUE, !.ret = {"abort"}]
  ELSE ExpandWith(S, ext2fs_new_block(S.v, S.acc.last), kind = "data" /\ S.cnt > 0)

(* What the reference sees: the blocks an iteration visits, in order.      *)
Note(S, kind) ==
  [S EXCEPT !.acc = Append(@, [b |-> S.b, kind |-> kind, k |-> S.cnt]), !.ret = {}]

Visited(v, f) == ext2fs_block_iterate2(v, f, FALSE, FALSE, Note, <<>>).acc

----------------------------------------------------------------------------
(* Requests.                                                               *)

(* What a block without an owner holds is never read again.                *)
Put(v) ==
  /\ ino' = v.ino /\ map' = v.map
  /\ ind' = [b \in Blocks |-> IF b \in v.map THEN v.ind[b] ELSE Zeros]

op_create(f) ==
  /\ f \notin live
  /\ live' = live \cup {f}
  /\ ino' = [ino EXCEPT ![f] = NewInode]
  /\ UNCHANGED <<ind, map, fh>>

op_open(f) ==
  /\ f \in live /\ fh[f] = <<>>
  /\ fh' = [fh EXCEPT ![f] = <<ino[f]>>]
  /\ UNCHANGED <<ino, live, ind, map>>

op_release(f) ==
  /\ fh[f] # <<>>
  /\ fh' = [fh EXCEPT ![f] = <<>>]
  /\ UNCHANGED <<ino, live, ind, map>>

(* do_write to block k, and the flush of it: the size is stored before the *)
(* block is allocated.                                                     *)
op_write(f, k) ==
  /\ fh[f] # <<>> /\ k <= fh[f][1].i_size
  /\ \E h \in {[fh[f][1] EXCEPT !.i_size = IF k = @ THEN k + 1 ELSE @]} :
     \E S \in {ext2fs_bmap([Vol({}) EXCEPT !.ino[f] = IF h = fh[f][1] THEN @ ELSE h],
                           f, h, TRUE, k)} :
       Put(S.v) /\ fh' = [fh EXCEPT ![f] = <<S.h>>]
  /\ UNCHANGED live

(* do_read stores the handle's inode.                                      *)
op_read(f) ==
  /\ fh[f] # <<>>
  /\ ino' = [ino EXCEPT ![f] = fh[f][1]]
  /\ UNCHANGED <<live, ind, map, fh>>

do_shorten(v, f, len) ==
  LET Count(E) == [E.v EXCEPT !.ino[f].i_blocks = E.acc.total]
  IN Count(ext2fs_block_iterate2([v EXCEPT !.ino[f].i_size = len], f, TRUE, FALSE,
             truncate_blocks_proc,
             [last_block_to_keep |-> len - 1, flags |-> {}, total |-> 0]))

(* All blocks but the last are written before the size is set, the last    *)
(* when the handle is closed.                                              *)
do_lengthen(v, f, len) ==
  LET size == v.ino[f].i_size
      Step(S, k) == IF S.rc # "ok" THEN S ELSE ext2fs_bmap(S.v, f, S.h, TRUE, k)
      WriteLast(w, h) == ext2fs_bmap([w EXCEPT !.ino[f] = h], f, h, TRUE, len - 1).v
      Close(L) == IF L.rc # "ok" THEN L.v ELSE WriteLast(L.v, [L.h EXCEPT !.i_size = len])
  IN Close(FoldLeft(Step, [v |-> v, h |-> v.ino[f], rc |-> "ok"],
                    [i \in 1 .. (len - 1 - size) |-> size + i - 1]))

op_setattr(f, len) ==
  /\ f \in live /\ fh[f] = <<>> /\ len # ino[f].i_size
  /\ Put(IF len > ino[f].i_size THEN do_lengthen(Vol({}), f, len)
         ELSE do_shorten(Vol({}), f, len))
  /\ UNCHANGED <<live, fh>>

(* do_mkdir gives a directory its first block.                             *)
op_mkdir(d) ==
  /\ d \notin live /\ map # Blocks
  /\ \E b \in {ext2fs_new_block(Vol({}), 0)} :
       Put([ext2fs_alloc_block(Vol({}), b) EXCEPT
              !.ino[d] = [NewInode EXCEPT !.i_block[0] = b, !.i_blocks = 1, !.i_size = 1]])
  /\ live' = live \cup {d}
  /\ UNCHANGED fh

ext2fs_expand_dir(d) ==
  /\ d \in live /\ ino[d].i_size < MaxDirBlocks
  /\ \E E \in {ext2fs_block_iterate2(Vol({}), d, FALSE, TRUE, expand_dir_proc,
                  [last |-> 0, done |-> FALSE, new |-> 0, err |-> FALSE])} :
       Put(IF E.acc.err \/ ~E.acc.done THEN E.v
           ELSE [E.v EXCEPT !.ino[d].i_size = @ + 1,
                            !.ino[d].i_blocks = @ + E.acc.new])
  /\ UNCHANGED <<live, fh>>

(* kill_file_by_inode, for op_unlink and op_rmdir.  An indirect block is   *)
(* wiped before its block numbers are read.  The inode of a file that is   *)
(* gone is not looked at again: it is set to the empty one, so that what   *)
(* is left in it does not tell states apart.                               *)
Kill(n, cold) ==
  /\ n \in live /\ (n \in Files => fh[n] = <<>>)
  /\ live' = live \ {n}
  /\ Put([ext2fs_block_iterate2(Vol(cold), n, FALSE, FALSE, release_blocks_proc, 0).v
          EXCEPT !.ino[n] = NewInode])
  /\ UNCHANGED fh

kill_file_by_inode(n) == Kill(n, {})

Init ==
  /\ ino = [n \in Nodes |-> NewInode]
  /\ live = {} /\ map = {}
  /\ ind = [b \in Blocks |-> Zeros]
  /\ fh = [f \in Files |-> <<>>]

Next ==
  \/ \E f \in Files :
       \/ op_create(f) \/ op_open(f) \/ op_read(f) \/ op_release(f)
       \/ \E k \in Pos : op_write(f, k)
       \/ \E len \in 0 .. MaxBlocks : op_setattr(f, len)
  \/ \E d \in Dirs : op_mkdir(d) \/ ext2fs_expand_dir(d)
  \/ \E n \in Nodes : kill_file_by_inode(n)

Spec == Init /\ [][Next]_vars

(* The same when blocks may have left the block cache.                     *)
ColdNext == Next \/ \E n \in Nodes, cold \in SUBSET map : Kill(n, cold)
ColdSpec == Init /\ [][ColdNext]_vars

----------------------------------------------------------------------------
(* Properties.                                                             *)

TypeOK ==
  /\ ino \in [Nodes -> Inode] /\ live \subseteq Nodes /\ map \subseteq Blocks
  /\ ind \in [Blocks -> [0 .. (N - 1) -> 0 .. NBlk]]
  /\ \A f \in Files : fh[f] = <<>> \/ fh[f][1] \in Inode

BlocksOf(n) == {e.b : e \in ToSet(Visited(Vol({}), n))}

(* Every block of a file, indirect ones included, is marked in the bitmap  *)
(* and has one place in one file.                                          *)
NoCrossLink ==
  /\ \A n \in live : /\ BlocksOf(n) \subseteq map
                     /\ Cardinality(BlocksOf(n)) = Len(Visited(Vol({}), n))
  /\ \A n, o \in live : n # o => BlocksOf(n) \cap BlocksOf(o) = {}

(* bmap.c and block.c agree on which block is at which position.           *)
IterateAgreesWithBmap ==
  \A n \in live :
    {<<e.k, e.b>> : e \in {x \in ToSet(Visited(Vol({}), n)) : x.kind = "data"}}
      = {p \in {<<k, Lookup(Vol({}), ino[n], k)>> : k \in Pos} : p[2] # 0}

(* A block that is marked belongs to a file.                               *)
NoLostBlocks == map \subseteq UNION {BlocksOf(n) : n \in live}

(* i_blocks counts the blocks of a file, indirect ones included.           *)
BlocksCounted ==
  \A n \in live : ino[n].i_blocks = Cardinality(BlocksOf(n))

(* An indirect block that has no blocks left is removed.                   *)
NoEmptyIndirect ==
  \A n \in live : \A e \in ToSet(Visited(Vol({}), n)) :
    e.kind # "data" => ind[e.b] # Zeros

(* Requests that fail or touch other blocks and other files leave a        *)
(* position that stays within the file on the block it had.                *)
PositionsKept ==
  \A n \in live \cap live' : \A k \in Pos :
    LET b == Lookup(Vol({}), ino[n], k)
    IN b # 0 /\ k < ino[n].i_size /\ k < ino'[n].i_size =>
         b = Lookup([ino |-> ino', ind |-> ind', map |-> map', cold |-> {}], ino'[n], k)
BlocksStay == [][PositionsKept]_vars

(* Shortening a file removes the indirect blocks it does not need: a file  *)
(* with no block past the direct ones has no indirect block.               *)
IndirectRemoved ==
  \A n \in live :
    ino[n].i_size <= NDir /\ (\A k \in Pos : k >= NDir => Lookup(Vol({}), ino[n], k) = 0)
      => \A s \in NDir .. (NDir + 2) : ino[n].i_block[s] = 0

(* Deleting a file frees and wipes all its blocks.                         *)
DeletionIsComplete == live = {} => map = {}
=============================================================================
