------------------------------- MODULE MCFile -------------------------------
(***************************************************************************)
(* Files for TLC.  FileHandle and BlockMap share no state, so a behaviour  *)
(* is one of either: `part' says of which, and in which instance.          *)
(***************************************************************************)
EXTENDS Integers, TLC

CONSTANTS f0, h0,           \* one file, through one handle
          f1, f2, h1, h2,   \* two of each, interchangeable
          f3, d3,           \* a file and a directory
          NoFile

VARIABLES part,
          vol, handle, names, last,     \* FileHandle
          ino, live, ind, map, fh       \* BlockMap

handleVars == <<vol, handle, names, last>>
mapVars == <<ino, live, ind, map, fh>>
vars == <<part, handleVars, mapVars>>

(* Three blocks of two bytes on a volume that has room for two.            *)
Bytes == INSTANCE FileHandle WITH
  Files <- {f0}, Handles <- {h0}, NBlk <- 2, BlockSize <- 2, MaxFileBlocks <- 3,
  Data <- {1}, WipeByte <- 2, MaxRequest <- 3, LinkBound <- 2, Sharing <- {}

(* Two files and two handles that compete for two blocks.                  *)
Pair == INSTANCE FileHandle WITH
  Files <- {f1, f2}, Handles <- {h1, h2}, NBlk <- 2, BlockSize <- 1, MaxFileBlocks <- 2,
  Data <- {1}, WipeByte <- 2, MaxRequest <- 2, LinkBound <- 1, Sharing <- {}

(* A file through all three levels of indirection.                         *)
Tall == INSTANCE BlockMap WITH
  Files <- {f3}, Dirs <- {}, NBlk <- 112, NDir <- 1, N <- 4, MaxBlocks <- 85,
  MaxDirBlocks <- 1, WildBlk <- 999

(* A file and a directory on a volume that fills up inside an allocation.  *)
Full == INSTANCE BlockMap WITH
  Files <- {f3}, Dirs <- {d3}, NBlk <- 4, NDir <- 1, N <- 2, MaxBlocks <- 4,
  MaxDirBlocks <- 2, WildBlk <- 999

ASSUME FileInstances ==
  Bytes!FileAssumption /\ Pair!FileAssumption /\ Tall!MapAssumption /\ Full!MapAssumption

NoHandles == vol = 0 /\ handle = 0 /\ names = 0 /\ last = 0
NoMap == ino = 0 /\ live = 0 /\ ind = 0 /\ map = 0 /\ fh = 0

Init ==
  \/ part = "bytes" /\ Bytes!Init /\ NoMap
  \/ part = "pair" /\ Pair!Init /\ NoMap
  \/ part = "tall" /\ Tall!Init /\ NoHandles
  \/ part = "full" /\ Full!Init /\ NoHandles

HandleStep == /\ \/ part = "bytes" /\ Bytes!Next
                 \/ part = "pair" /\ Pair!Next
              /\ UNCHANGED <<part, mapVars>>
MapStep == /\ \/ part = "tall" /\ Tall!Next
              \/ part = "full" /\ Full!Next
           /\ UNCHANGED <<part, handleVars>>

Next == HandleStep \/ MapStep
Spec == Init /\ [][Next]_vars

(* Files, and handles, are interchangeable.                                *)
FileSymmetry == Permutations({f1, f2}) \cup Permutations({h1, h2})
----------------------------------------------------------------------------
(* Properties: those of the parts, of the behaviours of each.              *)

(* A file used through one handle at a time is an array of bytes           *)
(* (ext2fs_file_read, ext2fs_file_write and the one-block buffer): reads   *)
(* return what was written last, across block boundaries, gaps, closing    *)
(* and failed allocations.                                                 *)
FileIsBytes ==
  /\ part = "bytes" => Bytes!BF!ByteInit
  /\ [][part = "bytes" => Bytes!ByteStep]_vars

(* No file, and no open handle's copy of an inode, names a block of        *)
(* another file or a free one, and no block is lost, through do_truncate,  *)
(* do_unlink and writes that fail half way.                                *)
HandleBlocksSound ==
  /\ part = "bytes" => Bytes!TypeOK /\ Bytes!FlushIsComplete /\ Bytes!NoLostBlocks
  /\ part = "pair" => Pair!TypeOK /\ Pair!NoForeignBlocks /\ Pair!NoLostBlocks

(* Every block of a file, indirect ones included, is marked and has one    *)
(* place in one file, also when an allocation stops half way down a tree;  *)
(* i_blocks counts them, and truncation loses none and leaves no indirect  *)
(* block without entries; ext2fs_bmap and ext2fs_block_iterate agree on    *)
(* which block is where (ext2fs_bmap, truncate_blocks_proc, block.c).      *)
MapBlocksSound ==
  /\ part = "tall" => /\ Tall!NoCrossLink /\ Tall!NoLostBlocks
                      /\ Tall!BlocksCounted /\ Tall!NoEmptyIndirect
                      /\ Tall!IterateAgreesWithBmap
  /\ part = "full" => Full!TypeOK /\ Full!NoCrossLink /\ Full!IterateAgreesWithBmap

(* Requests that fail or touch other blocks and other files leave a        *)
(* position that stays within the file on the block it had (ext2fs_bmap,   *)
(* ext2fs_expand_dir, truncate_blocks_proc).                               *)
BlocksStay == [][part = "full" => Full!PositionsKept]_vars
=============================================================================
