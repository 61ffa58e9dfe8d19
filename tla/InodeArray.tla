----------------------------- MODULE InodeArray -----------------------------
(***************************************************************************)
(* What ext2fs_read_inode and ext2fs_write_inode promise: an array of      *)
(* inodes, a read answers what was written last, a call that fails changes *)
(* nothing.                                                                *)
(***************************************************************************)
CONSTANTS Inodes,   \* the inodes there are
          Numbers,  \* the numbers a caller may name
          Vals
VARIABLES arr,   \* the inodes
          out    \* what the last call returned

vars == <<arr, out>>
Init == /\ arr \in [Inodes -> Vals]
        /\ out = [op |-> "none", ino |-> 0, val |-> 0]

Read(i) == /\ out' = [op |-> "read", ino |-> i, val |-> arr[i]]
           /\ UNCHANGED arr
Write(i, v) == /\ out' = [op |-> "write", ino |-> i, val |-> 0]
               /\ arr' = [arr EXCEPT ![i] = v]
Fail(i) == /\ out' = [op |-> "error", ino |-> i, val |-> 0]
           /\ UNCHANGED arr

Next == \/ \E i \in Inodes : Read(i) \/ \E v \in Vals : Write(i, v)
        \/ \E i \in Numbers : Fail(i)
Spec == Init /\ [][Next]_vars
=============================================================================
