-------------------------------- MODULE MCTdb --------------------------------
(***************************************************************************)
(* The trivial database for TLC: transactions (TdbTransaction), the space  *)
(* of the file (TdbFreelist) and the locks (TdbLock).  They share no       *)
(* state, so a behaviour is one of either: `part' says of which, and in    *)
(* which instance.  TdbLock is extended, with the constants of the         *)
(* configuration, and rests in its initial state in the behaviours of the  *)
(* others.                                                                 *)
(***************************************************************************)
EXTENDS TdbLock, TLC

CONSTANTS p1, p2, p3

VARIABLES part,
          file, disk, map_size, tr, cpc, last,          \* TdbTransaction
          view, committed, maybe, extent, writes, count,
          mem, len, top, map, held, apc, me,            \* TdbFreelist
          fr, al, back, faults,
          okern, olck, onum, oglob, otx, opc, ouser, olost   \* TdbLock, while it opens

commitVars == <<file, disk, map_size, tr, cpc, last,view, committed, maybe, extent,
                writes, count>>
spaceVars == <<mem, len, top, map, held, apc, me, fr, al, back, faults>>
openVars == <<okern, olck, onum, oglob, otx, opc, ouser, olost>>
allVars == <<part, commitVars, spaceVars, openVars, vars>>

(* Two transactions, and a machine that may stop anywhere.                 *)
Crashing == INSTANCE TdbTransaction WITH
  pc <- cpc, InitSize <- 3, MaxSize <- 9, MaxTrans <- 2, MaxWrites <- 1, PageSize <- 1, PadLen <- 99

(* Three transactions of two writes each, in a file that grows, and a      *)
(* machine that does not stop.                                             *)
Growing == INSTANCE TdbTransaction WITH
  pc <- cpc, InitSize <- 3, MaxSize <- 12, MaxTrans <- 3, MaxWrites <- 2, PageSize <- 3, PadLen <- 99

(* Records of two sizes in a file of fifteen cells, used by one process;   *)
(* it is killed, or a write fails, once.                                   *)
Alone == INSTANCE TdbFreelist WITH
  file <- len, pc <- apc, Procs <- {p1}, Align <- 2, Hdr <- 1, Page <- 3, Grow <- 1,
  Wrap <- 15, Payloads <- {1, 4}, MaxFaults <- 1

(* The same by two processes, of which one has an old size of the file.    *)
Shared == INSTANCE TdbFreelist WITH
  file <- len, pc <- apc, Procs <- {p1, p2}, Align <- 2, Hdr <- 1, Page <- 5, Grow <- 1,
  Wrap <- 15, Payloads <- {1, 4}, MaxFaults <- 1

(* Three processes that open a database which the first one clears.        *)
First == INSTANCE TdbLock WITH
  kern <- okern, lck <- olck, num <- onum, glob <- oglob, tx <- otx, pc <- opc,
  user <- ouser, lost <- olost, Procs <- {p1, p2, p3}, NChains <- 1,
  ClearFirst <- TRUE, MaxCount <- 1, MaxNest <- 1, Liberties <- {}

ASSUME TdbInstances ==
  /\ Crashing!TdbAssumption /\ Growing!TdbAssumption
  /\ Alone!SizesAssumption /\ Shared!SizesAssumption

NoCommits == /\ file = 0 /\ disk = 0 /\ map_size = 0 /\ tr = 0 /\ cpc = 0 /\ last = 0 /\ view = 0
             /\ committed = 0 /\ maybe = 0 /\ extent = 0 /\ writes = 0 /\ count = 0
NoSpace == /\ mem = 0 /\ len = 0 /\ top = 0 /\ map = 0 /\ held = 0 /\ apc = 0 /\ me = 0
           /\ fr = 0 /\ al = 0 /\ back = 0 /\ faults = 0
NoOpens == /\ okern = 0 /\ olck = 0 /\ onum = 0 /\ oglob = 0 /\ otx = 0 /\ opc = 0
           /\ ouser = 0 /\ olost = 0

AllInit ==
  /\ Init
  /\ \/ part = "crashing" /\ Crashing!Init /\ NoSpace /\ NoOpens
     \/ part = "growing" /\ Growing!Init /\ NoSpace /\ NoOpens
     \/ part = "alone" /\ Alone!Init /\ NoCommits /\ NoOpens
     \/ part = "shared" /\ Shared!Init /\ NoCommits /\ NoOpens
     \/ part = "first" /\ First!Init /\ NoCommits /\ NoSpace
     \/ part = "chains" /\ NoCommits /\ NoSpace /\ NoOpens

CommitStep == /\ \/ part = "crashing" /\ Crashing!AnyNext
                 \/ part = "growing" /\ Growing!Work
              /\ UNCHANGED <<part, spaceVars, openVars, vars>>
SpaceStep == /\ \/ part = "alone" /\ Alone!Next
                \/ part = "shared" /\ Shared!Next
             /\ UNCHANGED <<part, commitVars, openVars, vars>>
FirstStep == part = "first" /\ First!Next /\ UNCHANGED <<part, commitVars, spaceVars, vars>>
LockStep == part = "chains" /\ Next /\ UNCHANGED <<part, commitVars, spaceVars, openVars>>

AllNext == CommitStep \/ SpaceStep \/ FirstStep \/ LockStep
AllSpec == AllInit /\ [][AllNext]_allVars
----------------------------------------------------------------------------
(* Properties, beside LocksSound of TdbLock.                               *)

(* Wherever the machine stops, during a commit or a recovery, the open     *)
(* that succeeds finds all records of before the transaction or all of     *)
(* after it (tdb_transaction_commit, tdb_transaction_recover).             *)
CommitIsAtomic == part = "crashing" => Crashing!TypeOK /\ Crashing!CommitIsAtomic

(* A transaction that was cancelled, or whose commit failed half way,      *)
(* leaves the records alone; within one a read returns what was written    *)
(* last, however reads and writes overlap (transaction_read,               *)
(* transaction_write, tdb_transaction_cancel).                             *)
TransactionSound ==
  part = "growing" =>
    /\ Growing!FailedCommitLeavesNothing /\ Growing!TransactionReads
    /\ Growing!ElementsApart /\ Growing!ElementsInRegion

(* After a kill or a failed write in the middle of any call no cell belongs *)
(* to two records, no step touches a record in a chain; without one no     *)
(* space is lost, and free neighbours are merged (tdb_free,                *)
(* tdb_allocate_ofs, tdb_expand).                                          *)
SpaceSound ==
  /\ part = "alone" => /\ Alone!TypeOK /\ Alone!SpaceApart /\ Alone!HeldIntact
                       /\ Alone!NoSpaceLost /\ Alone!Coalesced /\ Alone!ExpandSuffices
  /\ part = "shared" => Shared!TypeOK /\ Shared!SpaceApart /\ Shared!HeldIntact

(* No open truncates a database that another process has open, and nobody *)
(* keeps GLOBAL_LOCK when its call has returned (tdb_open_ex, tdb_close,   *)
(* tdb_transaction_commit).                                                *)
OpensSound ==
  part = "first" => First!TypeOK /\ First!ClearedOnlyIfFirst /\ First!GlobalReleased
=============================================================================
