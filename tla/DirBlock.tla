------------------------------ MODULE DirBlock ------------------------------
(***************************************************************************)
(* One directory as its blocks hold it: records that tile a block, each    *)
(* with its length, the length of its name and an inode number, 0 when     *)
(* unused.  Link, unlink and lookup walk the records with callbacks, as    *)
(* the code does, and what they leave in memory past a record's name stays *)
(* there.  Lengths are in units of four bytes: a record's header takes     *)
(* two.                                                                    *)
(***************************************************************************)
EXTENDS Integers, Sequences, SequencesExt, FiniteSets

CONSTANTS Names,       \* the names that are linked
          NameLen(_),  \* the units a name takes
          BlockSize,   \* the units of a block
          MaxBlocks,   \* bound on the blocks of the directory
          Inodes       \* the inodes names are linked to

DirBlockAssumption ==
  /\ BlockSize \in Nat /\ MaxBlocks \in Nat \ {0}
  /\ \A n \in Names : NameLen(n) \in Nat \ {0} /\ NameLen(n) + 2 <= BlockSize
  /\ Inodes \subseteq Nat \ {0}

VARIABLES
  blocks,   \* the directory's blocks: a record header, or junk, at each place
  out,      \* what the last call returned
  dir,      \* history: the inode each name should lead to, 0 for none
  struck    \* history: an unlink used a record of an earlier block

vars == <<blocks, out, dir, struck>>
----------------------------------------------------------------------------
Header == 2
EXT2_DIR_REC_LEN(n) == IF n = "" THEN Header ELSE Header + NameLen(n)
Junk == [ino |-> 0, rec |-> 0, name |-> ""]
Record(ino, rec, name) == [ino |-> ino, rec |-> rec, name |-> name]
Places == 0..(BlockSize - 1)

\* "." and "..", whose names take one unit each.
DotLen == Header + 1
ext2fs_new_dir_block(first) ==
  [p \in Places |->
     CASE first /\ p = 0 -> Record(2, DotLen, ".")
       [] first /\ p = DotLen -> Record(2, BlockSize - DotLen, "..")
       [] ~first /\ p = 0 -> Record(0, BlockSize, "")
       [] OTHER -> Junk]
MinRec(n) == IF n \in {".", ".."} THEN DotLen ELSE EXT2_DIR_REC_LEN(n)

\* The tests of ext2fs_process_dir_block and ext2fs_read_dir_block2.
Corrupted(mem, off) == \/ off + mem[off].rec > BlockSize
                       \/ mem[off].rec < Header
                       \/ MinRec(mem[off].name) > mem[off].rec
----------------------------------------------------------------------------
\* ext2fs_process_dir_block: one record, if the walk is not over.  proc gets the walk
\* and may change memory, stop the walk, and keep what it likes in the other fields.
Visit(acc, empty, proc(_)) ==
  IF acc.off >= BlockSize \/ acc.stop THEN acc
  ELSE IF Corrupted(acc.mem, acc.off)
  THEN [acc EXCEPT !.stop = TRUE, !.err = TRUE]
  ELSE LET a == IF acc.mem[acc.off].ino = 0 /\ ~empty THEN acc ELSE proc(acc)
       IN  IF a.stop THEN a ELSE [a EXCEPT !.off = @ + a.mem[a.off].rec]

\* ext2fs_dir_iterate: the blocks in turn; a block is written back unless it turned out
\* to be corrupted.
DirIterate(empty, proc(_)) ==
  FoldLeft(LAMBDA acc, b :
             IF acc.walk.stop THEN acc
             ELSE LET w == FoldLeft(LAMBDA a, k : Visit(a, empty, proc),
                                    [acc.walk EXCEPT !.mem = blocks[b], !.off = 0, !.block = b],
                                    [k \in 1..BlockSize |-> k])
                  IN  [walk |-> w,
                       blocks |-> IF w.err THEN acc.blocks ELSE [acc.blocks EXCEPT ![b] = w.mem]],
           [walk |-> [mem |-> <<>>, off |-> 0, block |-> 0, stop |-> FALSE, err |-> FALSE,
                      done |-> FALSE, prev |-> -1, prevblock |-> 0, ino |-> 0],
            blocks |-> blocks],
           [b \in 1..Len(blocks) |-> b])
----------------------------------------------------------------------------
\* The walk that also shows removed records (DIRENT_FLAG_INCLUDE_REMOVED): past a name, the
\* next place from which records lead to the end of the one that covers them.
validate_entry(mem, off, final) ==
  LET w == FoldLeft(LAMBDA o, k : IF o >= final \/ o < 0 THEN o
                                  ELSE IF mem[o].rec < Header \/ MinRec(mem[o].name) > mem[o].rec
                                  THEN -1 ELSE o + mem[o].rec,
                    off, [k \in 1..BlockSize |-> k])
  IN  w = final
RemovedWalk(mem) ==
  FoldLeft(LAMBDA acc, k :
             IF acc.off >= BlockSize \/ acc.err THEN acc
             ELSE IF Corrupted(mem, acc.off) THEN [acc EXCEPT !.err = TRUE]
             ELSE LET d == mem[acc.off]
                      real == acc.real = acc.off
                      final == acc.off + d.rec
                      from == acc.off + MinRec(d.name)
                      at == IF from >= final THEN from ELSE CHOOSE o \in from..final :
                                /\ o = final \/ validate_entry(mem, o, final)
                                /\ \A q \in from..(o - 1) : ~validate_entry(mem, q, final)
                  IN  [off |-> IF d.rec # MinRec(d.name) THEN at ELSE final,
                       err |-> FALSE,
                       real |-> IF real THEN final ELSE acc.real,
                       live |-> IF real /\ d.ino # 0 THEN acc.live \cup {d.name} ELSE acc.live],
           [off |-> 0, err |-> FALSE, real |-> 0, live |-> {}], [k \in 1..BlockSize |-> k])
----------------------------------------------------------------------------
\* The following record, if it is unused, becomes part of this one.
Absorb(mem, off) ==
  LET next == off + mem[off].rec IN
  IF next < BlockSize - Header /\ mem[next].ino = 0 /\ next + mem[next].rec <= BlockSize
  THEN [mem EXCEPT ![off].rec = @ + mem[next].rec] ELSE mem

\* The room after a used record's name becomes an unused record.
SplitAt(mem, off) ==
  LET min == MinRec(mem[off].name) IN
  [mem EXCEPT ![off].rec = min, ![off + min] = Record(0, mem[off].rec - min, "")]

\* The name is written over whatever lay in its place.
Fill(mem, off, n, ino) ==
  [p \in Places |-> IF p = off THEN Record(ino, mem[off].rec, n)
                    ELSE IF p \in (off + 1)..(off + MinRec(n) - 1) THEN Junk
                    ELSE mem[p]]

Fits(mem, off, n) == mem[off].rec >= EXT2_DIR_REC_LEN(n)

\* Mutant: a record whose spare room is exactly the new record's is passed over.
CanSplit_Strict(d, n) == d.rec > MinRec(d.name) + EXT2_DIR_REC_LEN(n)
CanSplit(d, n) == d.rec >= MinRec(d.name) + EXT2_DIR_REC_LEN(n)

link_proc(acc, n, ino) ==
  LET mem == Absorb(acc.mem, acc.off)
      d == mem[acc.off]
  IN  CASE d.ino # 0 /\ CanSplit(d, n) ->
             [acc EXCEPT !.mem = SplitAt(mem, acc.off)]
        [] d.ino = 0 /\ Fits(mem, acc.off, n) ->
             [acc EXCEPT !.mem = Fill(mem, acc.off, n, ino), !.done = TRUE, !.stop = TRUE]
        [] OTHER -> [acc EXCEPT !.mem = mem]

\* The record before is remembered by its address in the buffer: in a later block it
\* names whatever that block has there.
unlink_proc(acc, n) ==
  LET d == acc.mem[acc.off]
      moved == [acc EXCEPT !.prev = acc.off, !.prevblock = acc.block]
  IN  CASE d.name # n \/ d.ino = 0 -> moved
        [] d.name = n /\ d.ino # 0 /\ acc.prev >= 0 ->
             [acc EXCEPT !.mem = [@ EXCEPT ![acc.prev].rec = @ + d.rec],
                         !.done = TRUE, !.stop = TRUE]
        [] OTHER -> [acc EXCEPT !.mem = [@ EXCEPT ![acc.off].ino = 0],
                                !.done = TRUE, !.stop = TRUE]

lookup_proc(acc, n) ==
  IF acc.mem[acc.off].name # n THEN acc
  ELSE [acc EXCEPT !.ino = acc.mem[acc.off].ino, !.done = TRUE, !.stop = TRUE]

Lookup(n) == DirIterate(FALSE, LAMBDA acc : lookup_proc(acc, n)).walk
----------------------------------------------------------------------------
Init == /\ blocks = <<ext2fs_new_dir_block(TRUE)>>
        /\ out = [op |-> "none", name |-> "", ok |-> TRUE]
        /\ dir = [n \in Names |-> 0]
        /\ struck = FALSE

Answer(op, n, ok) == [op |-> op, name |-> n, ok |-> ok]

ext2fs_link(n, ino) ==
  LET r == DirIterate(TRUE, LAMBDA acc : link_proc(acc, n, ino)) IN
  /\ dir[n] = 0
  /\ blocks' = r.blocks
  /\ out' = Answer("link", n, r.walk.done)
  /\ dir' = IF r.walk.done THEN [dir EXCEPT ![n] = ino] ELSE dir
  /\ UNCHANGED struck

ext2fs_unlink(n) ==
  LET r == DirIterate(TRUE, LAMBDA acc : unlink_proc(acc, n)) IN
  /\ dir[n] # 0
  /\ blocks' = r.blocks
  /\ out' = Answer("unlink", n, r.walk.done)
  /\ dir' = IF r.walk.done THEN [dir EXCEPT ![n] = 0] ELSE dir
  /\ struck' = (struck \/ (r.walk.done /\ r.walk.prev >= 0 /\ r.walk.prevblock # r.walk.block))

\* ext2fs_expand_dir appends a block with one unused record.
ext2fs_expand_dir ==
  /\ out.op = "link" /\ ~out.ok /\ Len(blocks) < MaxBlocks
  /\ blocks' = Append(blocks, ext2fs_new_dir_block(FALSE))
  /\ out' = Answer("expand", "", TRUE)
  /\ UNCHANGED <<dir, struck>>

\* Memory that a struck block's records no longer tile is not followed further.
Next == /\ ~struck
        /\ \/ \E n \in Names : ext2fs_unlink(n) \/ \E i \in Inodes : ext2fs_link(n, i)
           \/ ext2fs_expand_dir
Spec == Init /\ [][Next]_vars
----------------------------------------------------------------------------
(* Properties *)

\* The type of the state; no length, not even a forgotten one, reaches past the end of its
\* block while unlinks stay in their block.
TypeOK == \A b \in 1..Len(blocks) : \A p \in Places :
            /\ blocks[b][p].rec \in 0..(IF struck THEN 2 * BlockSize ELSE BlockSize - p)
            /\ blocks[b][p].name \in Names \cup {"", ".", ".."}

\* The places where the records of a block start, following the lengths.
Starts(mem) ==
  FoldLeft(LAMBDA acc, k : IF acc.off \in Places /\ mem[acc.off].rec > 0
                           THEN [off |-> acc.off + mem[acc.off].rec, set |-> acc.set \cup {acc.off}]
                           ELSE acc,
           [off |-> 0, set |-> {}], [k \in 1..BlockSize |-> k])

\* Every block stays tiled by its records, each long enough for its name: no sequence of
\* links and unlinks makes a directory that a later walk takes for corrupted.
RecordsTile ==
  ~struck => \A b \in 1..Len(blocks) :
    LET s == Starts(blocks[b]) IN
    /\ s.off = BlockSize
    /\ \A p \in s.set : ~Corrupted(blocks[b], p)

\* A lookup finds exactly the names that were linked and not unlinked, whatever the
\* blocks still hold of older ones.
LookupAgrees ==
  ~struck => \A n \in Names :
    LET w == Lookup(n) IN (IF w.done THEN w.ino ELSE 0) = dir[n] /\ ~w.err

\* The room a block has for one record more, if unused neighbours were joined.
Slack(mem) == LET S == Starts(mem).set
                  free(p) == mem[p].rec - (IF mem[p].ino = 0 THEN 0 ELSE MinRec(mem[p].name))
              IN  {free(p) : p \in S}
\* A link is refused only when no record of any block has room for the name.
RefusalIsJust ==
  out.op = "link" /\ ~out.ok =>
    \A b \in 1..Len(blocks) : \A s \in Slack(blocks[b]) : s < EXT2_DIR_REC_LEN(out.name)

\* Showing removed records neither hides a live one, nor calls it removed, nor takes what
\* is left of old records for a corrupted directory.
RemovedWalkShowsLive ==
  ~struck => \A b \in 1..Len(blocks) :
    /\ ~RemovedWalk(blocks[b]).err
    /\ RemovedWalk(blocks[b]).live =
      {blocks[b][p].name : p \in {q \in Starts(blocks[b]).set : blocks[b][q].ino # 0}}
=============================================================================
