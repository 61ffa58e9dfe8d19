----------------------------- MODULE InodeScan ------------------------------
(***************************************************************************)
(* Reading the inode tables from end to end: ext2fs_open_inode_scan,       *)
(* ext2fs_get_next_inode, ext2fs_inode_scan_goto_blockgroup.  The tables   *)
(* are read some blocks at a time into a buffer from which inodes are      *)
(* taken; blocks on the bad block list are not read but replaced by zeros, *)
(* and the inodes in them are answered with an error.                      *)
(*                                                                         *)
(* A block has bsize units and an inode isize of them.  A unit's contents  *)
(* are named by where it lies, so that what a scan returns can be compared *)
(* with what is stored.                                                    *)
(***************************************************************************)
EXTENDS Integers, Sequences

CONSTANTS Volumes,    \* the volumes scanned
          MaxGotos    \* bound on the calls of goto_blockgroup

\* A list of bad blocks is sorted (badblocks.c), and on a volume that has one no
\* inode straddles two blocks: both sizes are powers of two.
InodeScanAssumption ==
  /\ MaxGotos \in Nat
  /\ \A v \in Volumes : /\ v.groups \in Nat \ {0} /\ v.ipg \in Nat \ {0}
                        /\ v.bsize \in Nat \ {0} /\ v.isize \in 1..v.bsize
                        /\ v.buffer \in Nat \ {0}
                        /\ v.bad \in Seq(Nat)
                        /\ \A p, q \in 1..Len(v.bad) : p < q => v.bad[p] < v.bad[q]
                        /\ v.bad # <<>> => \E m \in 1..v.bsize : v.bsize = m * v.isize

VARIABLES vol,      \* the volume
          scan,     \* struct ext2_struct_inode_scan
          got,      \* what ext2fs_get_next_inode returned last
          seen,     \* history: the inode numbers returned so far
          touched,  \* history: the blocks read from the device
          gotos     \* how often goto_blockgroup has been called

vars == <<vol, scan, got, seen, touched, gotos>>
----------------------------------------------------------------------------
TableBlocks(v) == (v.ipg * v.isize + v.bsize - 1) \div v.bsize
\* bg_inode_table: tables lie one after the other from block 1; 0 when missing.
bg_inode_table(v, g) == IF g \in v.missing THEN 0 ELSE g * TableBlocks(v) + 1
InodesCount(v) == v.groups * v.ipg

Unit(b, o) == <<b, o>>
Zero == <<0, 0>>
\* The units of an inode, as stored.
UnitsOf(v, ino) ==
  LET g == (ino - 1) \div v.ipg
      at(k) == ((ino - 1) % v.ipg) * v.isize + k - 1
  IN  [k \in 1..v.isize |-> Unit(bg_inode_table(v, g) + at(k) \div v.bsize, at(k) % v.bsize)]

Answer(op, ino, units) == [op |-> op, ino |-> ino, units |-> units]
Idle == Answer("none", 0, <<>>)
Closed == [open |-> FALSE, group |-> 0, block |-> 0, ino |-> 0, inodes_left |-> 0,
           blocks_left |-> 0, groups_left |-> 0, left |-> <<>>, bad_ptr |-> 1, flags |-> {}]
----------------------------------------------------------------------------
ext2fs_open_inode_scan(v) ==
  [open |-> TRUE, group |-> 0, block |-> bg_inode_table(v, 0), ino |-> 0,
   inodes_left |-> v.ipg, blocks_left |-> TableBlocks(v), groups_left |-> v.groups - 1,
   left |-> <<>>, bad_ptr |-> 1,
   flags |-> (IF v.bad # <<>> THEN {"CHK_BADBLOCKS"} ELSE {})
             \cup (IF v.skip THEN {"SKIP_MISSING_ITABLE"} ELSE {})]

get_next_blockgroup(v, s) ==
  [s EXCEPT !.group = @ + 1, !.groups_left = @ - 1,
            !.block = bg_inode_table(v, s.group + 1), !.ino = (s.group + 1) * v.ipg,
            !.left = <<>>, !.inodes_left = v.ipg, !.blocks_left = TableBlocks(v)]

ext2fs_inode_scan_goto_blockgroup(v, s, g) ==
  get_next_blockgroup(v, [s EXCEPT !.group = g - 1, !.groups_left = v.groups - g])

\* How many entries of the sorted list of bad blocks lie before the current block.
Skipped(v, s) == CHOOSE p \in s.bad_ptr..(Len(v.bad) + 1) :
                   /\ \A q \in s.bad_ptr..(p - 1) : s.block > v.bad[q]
                   /\ p <= Len(v.bad) => s.block <= v.bad[p]

\* The scan and the number of blocks to read, adjusted for bad blocks.
check_for_inode_bad_blocks(v, s, num) ==
  LET p == Skipped(v, s)
      at == [s EXCEPT !.bad_ptr = p]
  IN  CASE s.block = 0 -> [s |-> s, num |-> num]
        [] s.block # 0 /\ p > Len(v.bad) ->
             [s |-> [at EXCEPT !.flags = @ \ {"CHK_BADBLOCKS"}], num |-> num]
        [] s.block # 0 /\ p <= Len(v.bad) /\ s.block = v.bad[p] ->
             [s |-> [at EXCEPT !.bad_ptr = p + 1,
                               !.flags = (@ \cup {"BAD_INODE_BLK"})
                                         \ (IF p = Len(v.bad) THEN {"CHK_BADBLOCKS"} ELSE {})],
              num |-> 1]
        [] OTHER ->
             [s |-> at, num |-> IF s.block + num > v.bad[p] THEN v.bad[p] - s.block ELSE num]

Checked(v, s, num) == IF "CHK_BADBLOCKS" \in s.flags
                      THEN check_for_inode_bad_blocks(v, s, num) ELSE [s |-> s, num |-> num]

ReadSize(v, s) == IF v.buffer > s.blocks_left THEN s.blocks_left ELSE v.buffer

\* The blocks go to the buffer; the units left over are kept by the caller.  When the
\* read fails the buffer is as before, the flags and the place in the list are not.
get_next_blocks(v, s) ==
  LET num0 == ReadSize(v, s)
      past == IF "BAD_INODE_BLK" \in s.flags
              THEN (s.flags \ {"BAD_INODE_BLK"})
                   \cup (IF s.left # <<>> THEN {"BAD_EXTRA_BYTES"} ELSE {})
              ELSE s.flags
      c == Checked(v, [s EXCEPT !.flags = past], num0)
      zeros == "BAD_INODE_BLK" \in c.s.flags
  IN  [s |-> [c.s EXCEPT
                !.left = [k \in 1..(c.num * v.bsize) |->
                            IF zeros THEN Zero
                            ELSE Unit(s.block + (k - 1) \div v.bsize, (k - 1) % v.bsize)],
                !.blocks_left = @ - c.num, !.block = @ + c.num],
       read |-> IF zeros THEN {} ELSE s.block..(s.block + c.num - 1),
       failed |-> c.s]

\* Groups are passed over until one has a table that is in use; done says the last
\* group is behind.
EnterGroup(v, s) ==
  LET skip(g) == g \in v.lazy \/ (g \in v.missing /\ v.skip)
      next == CHOOSE g \in (s.group + 1)..v.groups :
                /\ g = v.groups \/ ~skip(g)
                /\ \A h \in (s.group + 1)..(g - 1) : skip(h)
  IN  IF s.inodes_left > 0 /\ ~skip(s.group) THEN [s |-> s, done |-> FALSE]
      ELSE IF next = v.groups
           THEN [s |-> IF s.group = v.groups - 1 THEN s
                       ELSE get_next_blockgroup(v, [s EXCEPT !.group = v.groups - 2, !.groups_left = 1]),
                 done |-> TRUE]
           ELSE [s |-> get_next_blockgroup(v, [s EXCEPT !.group = next - 1,
                                                        !.groups_left = v.groups - next]),
                 done |-> FALSE]

\* Mutant: the units left over from the last buffer are forgotten.
Extra_None(v, s) == <<>>
\* The part of an inode that the old buffer ends with.
Extra(v, s) == IF Len(s.left) < v.isize THEN s.left ELSE <<>>

ext2fs_get_next_inode(v, s0) ==
  LET e == EnterGroup(v, s0)
      s == e.s
      extra == Extra(v, s)
      more == Len(s.left) < v.isize
      b == IF more THEN get_next_blocks(v, s) ELSE [s |-> s, read |-> {}, failed |-> s]
      want == v.isize - Len(extra)
      units == extra \o SubSeq(b.s.left, 1, want)
      bad == IF extra # <<>> THEN "BAD_EXTRA_BYTES" \in b.s.flags
                             ELSE "BAD_INODE_BLK" \in b.s.flags
      after == [b.s EXCEPT !.left = SubSeq(@, want + 1, Len(@)),
                           !.flags = IF extra # <<>> THEN @ \ {"BAD_EXTRA_BYTES"} ELSE @,
                           !.inodes_left = @ - 1, !.ino = @ + 1]
  IN  CASE e.done -> [s |-> s, got |-> Answer("end", 0, <<>>), read |-> {}, failed |-> s]
        [] ~e.done /\ s.block = 0 -> [s |-> s, got |-> Answer("missing", 0, <<>>), read |-> {}, failed |-> s]
        [] OTHER -> [s |-> after, read |-> b.read, failed |-> b.failed,
                     got |-> Answer(IF bad THEN "bad" ELSE "ok", after.ino, units)]
----------------------------------------------------------------------------
Init == /\ vol \in Volumes /\ scan = Closed /\ got = Idle
        /\ seen = <<>> /\ touched = {} /\ gotos = 0

open_scan == /\ ~scan.open
             /\ scan' = ext2fs_open_inode_scan(vol)
             /\ got' = Idle /\ seen' = <<>> /\ touched' = {} /\ gotos' = 0
             /\ UNCHANGED vol
get_next == /\ scan.open /\ got.op # "end"
            /\ LET r == ext2fs_get_next_inode(vol, scan) IN
               /\ scan' = r.s /\ got' = r.got
               /\ touched' = touched \cup r.read
               /\ seen' = IF r.got.ino = 0 THEN seen ELSE Append(seen, r.got.ino)
            /\ UNCHANGED <<vol, gotos>>
\* io_channel_read_blk fails and the caller tries again.
get_next_fails == /\ scan.open /\ got.op # "end"
                  /\ LET r == ext2fs_get_next_inode(vol, scan) IN
                     /\ r.read # {} /\ r.failed # scan
                     /\ scan' = r.failed
                  /\ got' = Answer("error", 0, <<>>)
                  /\ UNCHANGED <<vol, seen, touched, gotos>>
goto_group(g) == /\ scan.open /\ gotos < MaxGotos
                 /\ scan' = ext2fs_inode_scan_goto_blockgroup(vol, scan, g)
                 /\ got' = Idle /\ seen' = <<>> /\ gotos' = gotos + 1
                 /\ UNCHANGED <<vol, touched>>
close_scan == /\ scan.open
              /\ scan' = Closed /\ got' = Idle /\ seen' = <<>> /\ touched' = {} /\ gotos' = 0
              /\ UNCHANGED vol

\* Callers that only move forward.
Next == \/ open_scan \/ get_next \/ get_next_fails \/ close_scan
        \/ \E g \in 0..(vol.groups - 1) : g > scan.group /\ goto_group(g)
Spec == Init /\ [][Next]_vars
BackNext == Next \/ \E g \in 0..(vol.groups - 1) : goto_group(g)
BackSpec == Init /\ [][BackNext]_vars
----------------------------------------------------------------------------
(* Properties *)

TypeOK == /\ scan.inodes_left \in 0..vol.ipg /\ scan.blocks_left \in 0..TableBlocks(vol)
          /\ scan.groups_left \in 0..(vol.groups - 1) /\ scan.group \in 0..(vol.groups - 1)
          /\ Len(scan.left) <= vol.buffer * vol.bsize

InBad(b) == \E p \in 1..Len(vol.bad) : vol.bad[p] = b
\* An inode answered without an error has the contents stored for its number, also
\* when it straddles two buffers; an inode answered with an error lies in a bad block.
ContentsAreStored ==
  /\ got.op = "ok" => got.units = UnitsOf(vol, got.ino)
  /\ got.op = "bad" => \E k \in 1..vol.isize : InBad(UnitsOf(vol, got.ino)[k][1])

\* When a scan ends, each inode of every group from where it started that has a table
\* in use has been returned exactly once, in order.
EndIsComplete ==
  got.op = "end" /\ gotos = 0 =>
    /\ {seen[k] : k \in 1..Len(seen)} =
         {i \in 1..InodesCount(vol) : (i - 1) \div vol.ipg \notin vol.lazy \cup vol.missing}
    /\ \A j, k \in 1..Len(seen) : j < k => seen[j] < seen[k]

\* "so that we we don't read in the bad block": no block of the bad block list is
\* read from the device.
BadNeverRead == \A b \in touched : ~InBad(b)

\* All of it: what a scan that only moves forward promises its caller.
ScanIsExact == TypeOK /\ ContentsAreStored /\ EndIsComplete /\ BadNeverRead
=============================================================================
