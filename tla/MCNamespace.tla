---------------------------- MODULE MCNamespace ----------------------------
(***************************************************************************)
(* Small volumes for TLC, and the block account, which needs a sum over    *)
(* the inodes.                                                             *)
(***************************************************************************)
EXTENDS Namespace, FiniteSetsExt, TLC

(* No request looks at what a name is.                                     *)
NameSymmetry == Permutations(Names)

(* No block is lost or given out twice: the free count and the blocks of   *)
(* the inodes marked in the bitmap always add up to the same number, also  *)
(* when a failed or repeated mkdir leaves a directory behind.              *)
BlocksInUse(v) == MapThenSumSet(LAMBDA i : v.inode[i].blocks, v.imap)

BlocksConserved ==
  [][freeBlocks' + BlocksInUse(vol') = freeBlocks + BlocksInUse(vol)]_vars
=============================================================================
