------------------------------- MODULE Layout -------------------------------
(***************************************************************************)
(* Where a volume keeps its superblocks, descriptors, bitmaps and inode    *)
(* tables.  The volume is laid out by lib/ext2fs/initialize.c, alloc_sb.c  *)
(* and alloc_tables.c; lib/ext2fs/openfs.c, closefs.c and check_desc.c and *)
(* do_statvfs of src/src/ext2fs.c compute the same places again when the   *)
(* volume is opened, flushed, checked and measured.                        *)
(*                                                                         *)
(* Numbers that depend on the block size are constants, so that groups can *)
(* be small.                                                               *)
(***************************************************************************)
EXTENDS Integers, FiniteSets, FiniteSetsExt

CONSTANTS
  DescPerBlock,   \* EXT2_DESC_PER_BLOCK
  InodesPerBlock, \* EXT2_INODES_PER_BLOCK
  BitsPerBlock,   \* blocksize * 8, the most bits a bitmap has
  AddrPerBlock,   \* EXT2_ADDR_PER_BLOCK
  Multiple,       \* s_inodes_per_group is a multiple of it: 8
  MinInodes,      \* EXT2_FIRST_INODE + 1
  Slack,          \* blocks the last group has to spare: 50
  RetryMin, RetryStep,  \* blocks per group are reduced by 8 down to 256
  Params          \* what ext2fs_initialize may be asked for

(* A request: blocks, the first data block, blocks per group, inodes,      *)
(* whether superblocks are sparse, s_first_meta_bg (-1: no META_BG) and    *)
(* s_reserved_gdt_blocks.                                                  *)
LayoutAssumption ==
  /\ \A p \in Params : /\ p.blocks \in Nat \ {0} /\ p.first \in {0, 1}
                       /\ p.bpg \in Nat \ {0} /\ p.inodes \in Nat \ {0}
                       /\ p.sparse \in BOOLEAN /\ p.meta \in Nat \cup {-1}
                       /\ p.reserved \in 0 .. AddrPerBlock
  /\ {DescPerBlock, InodesPerBlock, BitsPerBlock, Multiple, RetryStep} \subseteq Nat \ {0}
  /\ InodesPerBlock >= Multiple /\ MinInodes \in Nat
  /\ RetryMin \in Nat /\ RetryMin > RetryStep

VARIABLES
  param,  \* the request
  sb,     \* the superblock and what fs derives from it
  pc,     \* where ext2fs_initialize or ext2fs_allocate_tables is
  grp,    \* the group it is at
  map,    \* the block bitmap
  desc    \* the group descriptors

vars == <<param, sb, pc, grp, map, desc>>

ext2fs_div_ceil(a, b) == IF a = 0 THEN 0 ELSE (a - 1) \div b + 1

----------------------------------------------------------------------------
(* closefs.c                                                               *)

(* a is a power of b; so are 0 and 1.                                      *)
test_root(a, b) ==
  a = 0 \/ \E e \in 0 .. a : b ^ e = a

ext2fs_bg_has_super(s, g) ==
  ~s.sparse \/ test_root(g, 3) \/ test_root(g, 5) \/ test_root(g, 7)

ext2fs_group_first_block(s, g) == s.first + g * s.bpg
ext2fs_group_last_block(s, g) ==
  IF g = s.groups - 1 THEN s.blocks - 1 ELSE ext2fs_group_first_block(s, g) + s.bpg - 1

OldDescBlocks(s) == IF s.meta >= 0 THEN s.meta ELSE s.desc_blocks + s.reserved

(* The superblock, the old and the new descriptor block of a group (0 if   *)
(* it has none) and the blocks left for data.                              *)
ext2fs_super_and_bgd_loc(s, g) ==
  LET start == ext2fs_group_first_block(s, g)
      rest == (s.blocks - s.first) % s.bpg
      all == IF g = s.groups - 1 /\ rest # 0 THEN rest ELSE s.bpg
      super == ext2fs_bg_has_super(s, g)
      old == s.meta < 0 \/ g \div DescPerBlock < s.meta
      new == ~old /\ g % DescPerBlock \in {0, 1, DescPerBlock - 1}
  IN [super |-> IF super THEN start ELSE 0,
      old |-> IF old /\ super THEN start + 1 ELSE 0,
      new |-> IF new THEN start + (IF super THEN 1 ELSE 0) ELSE 0,
      left |-> all - (IF super THEN 1 ELSE 0)
                   - (IF old /\ super THEN OldDescBlocks(s) ELSE IF new THEN 1 ELSE 0)
                   - 2 - s.table]

(* Where ext2fs_flush puts block k of the descriptors: with                *)
(* EXT2_FLAG_MASTER_SB_ONLY the old ones in group 0 only.                  *)
DescWrittenAt(s, k) ==
  LET count == IF s.meta >= 0 THEN s.meta ELSE s.desc_blocks
      loc == [g \in {0} \cup {h \in 0 .. (s.groups - 1) : h \div DescPerBlock = k} |->
                ext2fs_super_and_bgd_loc(s, g)]
      new == {loc[g].new : g \in {h \in DOMAIN loc : h \div DescPerBlock = k}} \ {0}
  IN IF loc[0].old # 0 /\ k < count THEN new \cup {loc[0].old + k} ELSE new

(* openfs.c: where ext2fs_open2 reads it from.                             *)
ext2fs_descriptor_block_loc(s, k) ==
  LET g == DescPerBlock * k
  IN IF s.meta < 0 \/ k < s.meta THEN s.first + k + 1
     ELSE s.first + (IF ext2fs_bg_has_super(s, g) THEN 1 ELSE 0) + g * s.bpg

----------------------------------------------------------------------------
(* src/src/ext2fs.c: what op_statfs replies.                               *)

(* The loop of the program's own test_root.                                *)
statvfs_test_root(a, b) == \E e \in 1 .. a : b ^ e = a

ext2_bg_has_super(s, g) ==
  ~s.sparse \/ g <= 1 \/ statvfs_test_root(g, 3) \/ statvfs_test_root(g, 5)
            \/ statvfs_test_root(g, 7)

do_statvfs(s, free) ==
  LET groups == (s.blocks - s.first - 1) \div s.bpg + 1
      db == (groups + DescPerBlock - 1) \div DescPerBlock
      supers == {g \in 0 .. (groups - 1) : ext2_bg_has_super(s, g)}
      overhead == s.first + Cardinality(supers) * (1 + db)
                  + groups * (2 + s.ipg \div InodesPerBlock)
  IN [f_blocks |-> s.blocks - overhead, f_bfree |-> free]

----------------------------------------------------------------------------
(* initialize.c                                                            *)

Init ==
  /\ param \in Params
  /\ sb = [blocks |-> param.blocks, first |-> param.first, bpg |-> param.bpg,
           inodes |-> 0, sparse |-> param.sparse, meta |-> param.meta,
           reserved |-> 0, groups |-> 0, desc_blocks |-> 0, ipg |-> 0, table |-> 0]
  /\ pc = "retry" /\ grp = 0 /\ map = {} /\ desc = <<>>

(* The inodes of a group fill its table, and are a multiple of 8.          *)
RoundInodes(n) ==
  LET table == ext2fs_div_ceil(n, InodesPerBlock)
      ipg == ((table * InodesPerBlock) \div Multiple) * Multiple
  IN [ipg |-> ipg, table |-> ext2fs_div_ceil(ipg, InodesPerBlock)]

Overhead(s) ==
  2 + s.table + (IF ext2fs_bg_has_super(s, s.groups - 1)
                 THEN 1 + s.desc_blocks + s.reserved ELSE 0)

Fail == pc' = "error" /\ UNCHANGED <<param, grp, map, desc>>

(* One pass from the label retry on.                                       *)
ext2fs_initialize ==
  /\ pc = "retry"
  /\ LET groups == ext2fs_div_ceil(sb.blocks - sb.first, sb.bpg)
         want == Max({param.inodes, MinInodes})
         ipg == ext2fs_div_ceil(want, groups)
         r == RoundInodes(ipg)
         s == [sb EXCEPT !.groups = groups,
                         !.desc_blocks = ext2fs_div_ceil(groups, DescPerBlock),
                         !.ipg = r.ipg, !.table = r.table,
                         !.inodes = r.ipg * groups, !.reserved = param.reserved]
         rem == (sb.blocks - sb.first) % sb.bpg
     IN \/ groups = 0 /\ Fail /\ UNCHANGED sb
        \/ /\ groups # 0 /\ ipg > BitsPerBlock
           /\ IF sb.bpg >= RetryMin
              THEN /\ sb' = [sb EXCEPT !.bpg = @ - RetryStep, !.blocks = param.blocks]
                   /\ UNCHANGED <<param, pc, grp, map, desc>>
              ELSE Fail /\ UNCHANGED sb
        \/ /\ groups # 0 /\ ipg <= BitsPerBlock
           /\ sb' = s
           /\ Overhead(s) > s.bpg \/ (groups = 1 /\ rem # 0 /\ rem < Overhead(s))
           /\ Fail
        \/ /\ groups # 0 /\ ipg <= BitsPerBlock
           /\ Overhead(s) <= s.bpg /\ ~(groups = 1 /\ rem # 0 /\ rem < Overhead(s))
           /\ IF rem # 0 /\ rem < Overhead(s) + Slack
              THEN sb' = [sb EXCEPT !.blocks = @ - rem] /\ UNCHANGED <<pc, desc>>
              ELSE /\ sb' = s /\ pc' = "reserve"
                   /\ desc' = [g \in 0 .. (groups - 1) |->
                                 [bb |-> 0, ib |-> 0, it |-> 0, free |-> 0]]
           /\ UNCHANGED <<param, grp, map>>

(* Mutant: the new descriptor block is not reserved.                       *)
ReservedBlocks_NoNew(loc) ==
  (IF loc.super # 0 \/ grp = 0 THEN {loc.super} ELSE {})
    \cup (IF loc.old = 0 THEN {} ELSE loc.old .. (loc.old + OldDescBlocks(sb) - 1))

ReservedBlocks(loc) ==
  (IF loc.super # 0 \/ grp = 0 THEN {loc.super} ELSE {})
    \cup (IF loc.old = 0 THEN {} ELSE loc.old .. (loc.old + OldDescBlocks(sb) - 1))
    \cup (IF loc.new = 0 THEN {} ELSE {loc.new})

(* ext2fs_reserve_super_and_bgd for one group, and its statistics.         *)
ext2fs_reserve_super_and_bgd ==
  /\ pc = "reserve"
  /\ LET loc == ext2fs_super_and_bgd_loc(sb, grp)
     IN /\ map' = map \cup ReservedBlocks(loc)
        /\ desc' = [desc EXCEPT ![grp].free = loc.left]
  /\ grp' = (grp + 1) % sb.groups
  /\ pc' = IF grp + 1 = sb.groups THEN "tables" ELSE pc
  /\ UNCHANGED <<param, sb>>

----------------------------------------------------------------------------
(* alloc_tables.c                                                          *)

(* ext2fs_get_free_blocks: the first place from `start' up to and without  *)
(* `finish' where n blocks are free.  A search that would pass the end     *)
(* goes on at the start of the volume; it may never meet `finish'.         *)
ext2fs_get_free_blocks(m, start, finish, n) ==
  LET limit == sb.blocks - n + 1
      fits(b) == \A c \in b .. (b + n - 1) : c \notin m
      upper == {b \in start .. (IF finish - 1 < limit THEN finish - 1 ELSE limit) : fits(b)}
      again == {b \in sb.first .. limit : fits(b)}
  IN IF upper # {} THEN Min(upper)
     ELSE IF start < finish /\ finish - 1 <= limit THEN -1
     ELSE IF again # {} THEN Min(again) ELSE -2

(* The bitmaps and the inode table of one group, without a RAID stride.    *)
ext2fs_allocate_group_table ==
  /\ pc = "tables"
  /\ LET first == ext2fs_group_first_block(sb, grp)
         last == ext2fs_group_last_block(sb, grp)
         bb == ext2fs_get_free_blocks(map, first, last, 1)
         ib == ext2fs_get_free_blocks(map \cup {bb}, first, last, 1)
         it == ext2fs_get_free_blocks(map \cup {bb, ib}, first, last, sb.table)
     IN IF bb < 0 \/ ib < 0 \/ it < 0
        THEN pc' = "error" /\ UNCHANGED <<grp, map, desc>>
        ELSE /\ map' = map \cup {bb, ib} \cup (it .. (it + sb.table - 1))
             /\ desc' = [desc EXCEPT ![grp].bb = bb, ![grp].ib = ib, ![grp].it = it]
             /\ grp' = (grp + 1) % sb.groups
             /\ pc' = IF grp + 1 = sb.groups THEN "done" ELSE pc
  /\ UNCHANGED <<param, sb>>

Next ==
  \/ ext2fs_initialize
  \/ ext2fs_reserve_super_and_bgd
  \/ ext2fs_allocate_group_table

Spec == Init /\ [][Next]_vars

----------------------------------------------------------------------------
(* check_desc.c                                                            *)

ext2fs_check_desc ==
  \A g \in 0 .. (sb.groups - 1) :
    LET first == ext2fs_group_first_block(sb, g)
        last == ext2fs_group_last_block(sb, g)
    IN /\ desc[g].bb \in first .. last /\ desc[g].ib \in first .. last
       /\ desc[g].it >= first /\ desc[g].it + sb.table <= last

----------------------------------------------------------------------------
(* Properties.                                                             *)

TypeOK ==
  /\ param \in Params
  /\ pc \in {"retry", "reserve", "tables", "done", "error"}
  /\ map \subseteq 0 .. (sb.blocks - 1)
  /\ pc \in {"reserve", "tables", "done"} => grp \in DOMAIN desc

GroupBlocks(g) == ext2fs_group_first_block(sb, g) .. ext2fs_group_last_block(sb, g)

TableBlocks(g) ==
  {desc[g].bb, desc[g].ib} \cup (desc[g].it .. (desc[g].it + sb.table - 1))

(* The tables of every group find their place in their own group, apart    *)
(* from each other.                                                        *)
TablesInTheirGroup ==
  pc = "done" => \A g \in DOMAIN desc :
    /\ TableBlocks(g) \subseteq GroupBlocks(g)
    /\ Cardinality(TableBlocks(g)) = 2 + sb.table

(* The bitmaps and the inode tables of all groups lie apart: no block that *)
(* ext2fs_allocate_group_table hands out serves two of them.               *)
TablesApart ==
  pc = "done" => \A g \in DOMAIN desc :
    /\ desc[g].bb # desc[g].ib
    /\ {desc[g].bb, desc[g].ib} \cap (desc[g].it .. (desc[g].it + sb.table - 1)) = {}
    /\ \A h \in DOMAIN desc : h # g => TableBlocks(g) \cap TableBlocks(h) = {}

(* The free blocks accounted for before the tables were allocated are      *)
(* those that are free afterwards.                                         *)
FreeCountsAgree ==
  pc = "done" => \A g \in DOMAIN desc :
    desc[g].free = Cardinality(GroupBlocks(g) \ map)

(* ext2fs_open2 reads each block of the descriptors from a place that      *)
(* ext2fs_flush writes it to.                                              *)
DescReadWhereWritten ==
  pc = "done" => \A k \in 0 .. (sb.desc_blocks - 1) :
    ext2fs_descriptor_block_loc(sb, k) \in DescWrittenAt(sb, k)

(* Nothing that is written for the descriptors lies in a table.            *)
DescApartFromTables ==
  pc = "done" =>
    LET tables == UNION {TableBlocks(g) : g \in DOMAIN desc}
    IN \A k \in 0 .. (sb.desc_blocks - 1) : DescWrittenAt(sb, k) \cap tables = {}

(* The size that statfs() reports is what the volume has for data, where   *)
(* no descriptor blocks are reserved or moved.                             *)
StatvfsAgrees ==
  pc = "done" /\ sb.meta < 0 /\ sb.reserved = 0 =>
    do_statvfs(sb, 0).f_blocks = sb.blocks - sb.first - Cardinality(map \ {sb.first - 1})

(* A table that lies within its group is accepted by ext2fs_check_desc.    *)
CheckDescAccepts ==
  pc = "done" => ext2fs_check_desc

(* A size that ext2fs_initialize accepts has room for the bookkeeping of   *)
(* every group.                                                            *)
AcceptedHasRoom ==
  pc = "error" => desc = <<>>
=============================================================================
