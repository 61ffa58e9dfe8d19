---------------------------- MODULE MCBlockCache ----------------------------
(* A device of a few blocks behind a cache of two entries.                 *)
EXTENDS BlockCache
=============================================================================
