----------------------------- MODULE InodeCache -----------------------------
(***************************************************************************)
(* Reading and writing single inodes: a cache of CacheSize inodes, a       *)
(* buffer of one block of the inode table, and the inode table behind the  *)
(* I/O channel.  An inode has InodeSize units, of which the first is       *)
(* struct ext2_inode and the others the tail of a large inode; a block has *)
(* BlockSize units, so an inode may straddle two blocks.                   *)
(***************************************************************************)
EXTENDS Integers, Sequences

CONSTANTS NInodes,      \* s_inodes_count
          PerGroup,     \* s_inodes_per_group
          InodeSize,    \* s_inode_size, in units
          BlockSize,    \* units of a block
          CacheSize,    \* 4 in create_icache
          NoTable,      \* groups whose bg_inode_table is 0
          Vals          \* contents of a unit

ASSUME InodeCacheAssumption ==
  /\ NInodes \in Nat \ {0} /\ PerGroup \in Nat \ {0} /\ CacheSize \in Nat \ {0}
  /\ InodeSize \in {1, 2} /\ BlockSize \in Nat /\ BlockSize >= InodeSize
  /\ 0 \in Vals

VARIABLES
  tab,      \* the blocks of the inode tables as the I/O channel reads them
  buffer,   \* icache->buffer and buffer_blk
  cache,    \* icache->cache: inode number, 0 when empty, and struct ext2_inode
  last,     \* icache->cache_last
  out       \* what the last call returned

vars == <<tab, buffer, cache, last, out>>
----------------------------------------------------------------------------
Inodes == 1..NInodes
GroupOf(ino) == (ino - 1) \div PerGroup
BlocksPer == (PerGroup * InodeSize + BlockSize - 1) \div BlockSize
NBlocks == BlocksPer * ((NInodes + PerGroup - 1) \div PerGroup)
Blocks == 1..NBlocks

\* The block and the place in it of the k-th unit of an inode.
OffsetOf(ino, k) == ((ino - 1) % PerGroup) * InodeSize + k
BlockOf(ino, k) == GroupOf(ino) * BlocksPer + OffsetOf(ino, k) \div BlockSize + 1
PlaceOf(ino, k) == OffsetOf(ino, k) % BlockSize

Present(ino) == ino \in Inodes /\ GroupOf(ino) \notin NoTable

\* The whole inode as stored.
Stored(ino) == [k \in 0..(InodeSize - 1) |-> tab[BlockOf(ino, k)][PlaceOf(ino, k)]]

EmptySlot == [ino |-> 0, val |-> 0]
NoBuffer == [blk |-> 0, data |-> [p \in 0..(BlockSize - 1) |-> 0]]
Answer(op, ino, val) == [op |-> op, ino |-> ino, val |-> val]

\* The inode tables in groups that have none are never looked at.
Init == /\ tab \in [Blocks -> [0..(BlockSize - 1) -> {0}]]
        /\ buffer = NoBuffer
        /\ cache = [s \in 1..CacheSize |-> EmptySlot]
        /\ last = 0
        /\ out = Answer("none", 0, 0)
----------------------------------------------------------------------------
\* The block is read into the buffer unless the buffer holds it.
Fill(buf, b) == IF buf.blk = b THEN buf ELSE [blk |-> b, data |-> tab[b]]

Slots(ino) == {s \in 1..CacheSize : cache[s].ino = ino}
First(S) == CHOOSE s \in S : \A t \in S : s <= t

\* The loop over the blocks an inode lies in, for its first n units: the struct
\* is in the first block, and the block of the last unit stays in the buffer.
ReadFirst(ino) == Fill(buffer, BlockOf(ino, 0))
ReadBuffer(ino, n) == Fill(ReadFirst(ino), BlockOf(ino, n - 1))

NextSlot == (last % CacheSize) + 1

\* The cache answers only for struct ext2_inode; an inode that was read enters it.
ReadCached(ino) ==
  /\ Slots(ino) # {}
  /\ out' = Answer("read", ino, cache[First(Slots(ino))].val)
  /\ UNCHANGED <<tab, buffer, cache, last>>
ReadTable(ino, n) ==
  LET val == ReadFirst(ino).data[PlaceOf(ino, 0)] IN
  /\ Present(ino)
  /\ buffer' = ReadBuffer(ino, n)
  /\ last' = NextSlot
  /\ cache' = [cache EXCEPT ![last'] = [ino |-> ino, val |-> val]]
  /\ out' = Answer("read", ino, val)
  /\ UNCHANGED tab

Refuse(ino) == /\ out' = Answer("error", ino, 0)
               /\ UNCHANGED <<tab, buffer, cache, last>>

ext2fs_read_inode(ino) ==
  \/ ReadCached(ino)
  \/ Slots(ino) = {} /\ ReadTable(ino, 1)
  \/ Slots(ino) = {} /\ ~Present(ino) /\ Refuse(ino)

ext2fs_read_inode_full(ino) ==
  /\ InodeSize > 1
  /\ \/ ReadTable(ino, InodeSize)
     \/ ~Present(ino) /\ Refuse(ino)

\* io_channel_read_blk fails: the buffer and the cache are as they were.
ReadFails(ino) ==
  /\ Present(ino) /\ Slots(ino) = {} /\ buffer.blk # BlockOf(ino, 0)
  /\ Refuse(ino)
----------------------------------------------------------------------------
\* Mutant: the cache is not told of the write.
Update_Never(ino, v) == cache
\* The first slot that holds the inode gets its new contents.
Update(ino, v) == IF Slots(ino) = {} THEN cache
                  ELSE [cache EXCEPT ![First(Slots(ino))].val = v]

\* Mutant: the buffer keeps the block as it was before the write.
WriteUnit_Stale(acc, ino, k, v) ==
  LET b == BlockOf(ino, k)
  IN  [buf |-> Fill(acc.buf, b), tab |-> [acc.tab EXCEPT ![b][PlaceOf(ino, k)] = v]]
\* The block a unit lies in is read if need be, changed and written whole.
WriteUnit(acc, ino, k, v) ==
  LET b == BlockOf(ino, k)
      old == IF acc.buf.blk = b THEN acc.buf.data ELSE acc.tab[b]
      new == [old EXCEPT ![PlaceOf(ino, k)] = v]
  IN  [buf |-> [blk |-> b, data |-> new], tab |-> [acc.tab EXCEPT ![b] = new]]
Volume == [buf |-> buffer, tab |-> tab]
WriteUnits(ino, units) ==
  IF Len(units) = 1 THEN WriteUnit(Volume, ino, 0, units[1])
  ELSE WriteUnit(WriteUnit(Volume, ino, 0, units[1]), ino, 1, units[2])

WriteInode(ino, units) ==
  /\ cache' = Update(ino, units[1])
  /\ UNCHANGED last
  /\ \/ /\ Present(ino)
        /\ buffer' = WriteUnits(ino, units).buf
        /\ tab' = WriteUnits(ino, units).tab
        /\ out' = Answer("write", ino, 0)
     \/ /\ ~Present(ino)
        /\ out' = Answer("error", ino, 0)
        /\ UNCHANGED <<tab, buffer>>

ext2fs_write_inode(ino, v) == WriteInode(ino, <<v>>)
\* A new inode's tail is initialised with its size.
ext2fs_write_new_inode(ino, v) ==
  WriteInode(ino, IF InodeSize = 1 THEN <<v>> ELSE <<v, 0>>)
ext2fs_write_inode_full(ino, v, w) == InodeSize > 1 /\ WriteInode(ino, <<v, w>>)

\* io_channel_read_blk fails in a write: the cache has been told of it already.
WriteFails(ino, v) ==
  /\ Present(ino) /\ buffer.blk # BlockOf(ino, 0)
  /\ cache' = Update(ino, v)
  /\ out' = Answer("error", ino, 0)
  /\ UNCHANGED <<tab, buffer, last>>

ext2fs_flush_icache ==
  /\ cache' = [s \in 1..CacheSize |-> [cache[s] EXCEPT !.ino = 0]]
  /\ buffer' = [buffer EXCEPT !.blk = 0]
  /\ UNCHANGED <<tab, last, out>>
----------------------------------------------------------------------------
Next == \/ \E i \in 1..(NInodes + 1) :
             \/ ext2fs_read_inode(i) \/ ReadFails(i)
             \/ \E v \in Vals : ext2fs_write_inode(i, v) \/ ext2fs_write_new_inode(i, v)
             \/ \E v, w \in Vals : ext2fs_write_inode_full(i, v, w)
        \/ ext2fs_flush_icache
\* The callers the program does not have: they read whole large inodes, or number 0.
LargeNext == Next \/ \E i \in Inodes : ext2fs_read_inode_full(i)
ZeroNext == Next \/ ext2fs_read_inode(0)
\* A read error in the middle of a write.
FaultNext == Next \/ \E i \in Inodes, v \in Vals : WriteFails(i, v)

Spec == Init /\ [][Next]_vars
LargeSpec == Init /\ [][LargeNext]_vars
ZeroSpec == Init /\ [][ZeroNext]_vars
FaultSpec == Init /\ [][FaultNext]_vars
----------------------------------------------------------------------------
(* Properties *)

TypeOK == /\ tab \in [Blocks -> [0..(BlockSize - 1) -> Vals]]
          /\ buffer \in [blk : 0..NBlocks, data : [0..(BlockSize - 1) -> Vals]]
          /\ cache \in [1..CacheSize -> [ino : 0..NInodes, val : Vals]]
          /\ last \in 0..CacheSize

\* The buffer, when it names a block, is that block: the write of a whole block
\* from it never brings a neighbour's old inode back.
BufferIsBlock == buffer.blk # 0 => buffer.data = tab[buffer.blk]

\* Every slot that names an inode holds what the table holds, whichever mixture of
\* reads and writes filled it ("Check to see if the inode cache needs to be updated").
CacheIsTable == \A s \in 1..CacheSize : cache[s].ino # 0 => cache[s].val = Stored(cache[s].ino)[0]

\* No inode is in two slots.
NoDuplicate == \A s, t \in 1..CacheSize : cache[s].ino = cache[t].ino /\ s # t => cache[s].ino = 0

\* The buffer is the block it names and every slot the inode it names, and no inode
\* is in two slots, whatever was read, written, refused or flushed before.
CacheSound == TypeOK /\ BufferIsBlock /\ CacheIsTable /\ NoDuplicate

\* The cache and the buffer cannot be told from a plain array of inodes.
Numbers == 0..(NInodes + 1)
Held == {i \in Inodes : Present(i)}
Array == INSTANCE InodeArray WITH Inodes <- Held, arr <- [i \in Held |-> Stored(i)[0]]
ArrayStep == UNCHANGED <<tab, out>> \/ Array!Next
ImplementsInodeArray == Array!Init /\ [][ArrayStep]_vars

\* Inode number 0 is refused: "only old good inode can be retrieve from the cache".
ZeroIsRefused == out.ino = 0 => out.op # "read"
=============================================================================
