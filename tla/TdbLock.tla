------------------------------- MODULE TdbLock -------------------------------
(***************************************************************************)
(* The locks of lib/ext2fs/tdb.c.  The kernel keeps byte range locks of     *)
(* processes, which neither nest nor survive the closing of a descriptor;   *)
(* the library keeps counts on top of them: one per list, one for the whole *)
(* database, and the locks of a transaction, inside which the others are    *)
(* taken in memory only.  Opening, reopening and closing are here because   *)
(* they take and lose locks too.                                            *)
(*                                                                          *)
(* A lock call that has to wait is an action that is not enabled yet.  One  *)
(* that fails changes nothing, and is left out, except inside a larger call *)
(* that then undoes what it did.                                            *)
(***************************************************************************)
EXTENDS Integers

CONSTANTS
    Procs,       \* processes that use the database file
    NChains,     \* hash_size
    ClearFirst,  \* the flag TDB_CLEAR_IF_FIRST
    MaxCount,    \* bound: locks of one list, or of all, inside each other
    MaxNest,     \* bound: transactions inside each other
    Liberties    \* what happens that the counts and locks do not provide for

ASSUME LocksAssumption ==
    /\ NChains \in Nat \ {0} /\ ClearFirst \in BOOLEAN
    /\ MaxCount \in Nat \ {0} /\ MaxNest \in Nat
    /\ Liberties \subseteq {"pending", "double", "reopen", "sync", "upgrade"}

VARIABLES
    kern,   \* the kernel's locks: process -> byte range -> type
    lck,    \* tdb->lockrecs: process -> list -> [count, ltype], count 0 for none
    num,    \* tdb->num_locks
    glob,   \* tdb->global_lock
    tx,     \* tdb->transaction: [on, nesting, error]
    pc,     \* where a call that takes several locks stands
    user,   \* the list locks callers were granted: [n, t]
    lost    \* processes whose open database another open truncated

vars == <<kern, lck, num, glob, tx, pc, user, lost>>

-----------------------------------------------------------------------------
\* Byte ranges, in the order of their offsets

GLOBAL_LOCK == -4
ACTIVE_LOCK == -3
TRANSACTION_LOCK == -2
Alloc == -1                         \* FREELIST_TOP + 4 * -1
Chains == 0 .. (NChains - 1)        \* from FREELIST_TOP for 4 * hash_size
Lists == {Alloc} \cup Chains
ToEnd == 0 .. NChains               \* from FREELIST_TOP to the end of the file
Ranges == GLOBAL_LOCK .. NChains

NoLocks == [r \in Ranges |-> "none"]
NoRecs == [l \in Lists |-> [count |-> 0, ltype |-> "none"]]
NoGlobal == [count |-> 0, ltype |-> "none"]
NoTx == [on |-> FALSE, nesting |-> 0, error |-> FALSE, written |-> FALSE]
NewTx == [on |-> TRUE, nesting |-> 0, error |-> FALSE, written |-> FALSE]
NoUser == [l \in Lists |-> [n |-> 0, t |-> "none"]]

\* fcntl: what the other processes hold lets p have R with type t.
Grants(p, R, t) ==
    \A q \in Procs \ {p}, r \in R :
      kern[q][r] = "none" \/ (t = "rd" /\ kern[q][r] = "rd")
Holding(p, R, t) == [kern EXCEPT ![p] = [r \in Ranges |-> IF r \in R THEN t ELSE @[r]]]

\* tdb->methods->tdb_brlock: inside a transaction it does nothing.
MayTake(p, R, t) == tx[p].on \/ Grants(p, R, t)
brlock(p, R, t) == IF tx[p].on THEN kern ELSE Holding(p, R, t)

Idle(p) == pc[p] = "idle"
May(what) == what \in Liberties

-----------------------------------------------------------------------------
\* Lists

\* Discipline: a caller that holds a list for reading does not ask for writing.
Stacks(p, l, t) == user[p][l].t = "rd" /\ t = "wr" => May("upgrade")

Granted(p, l, t) ==
    [user EXCEPT ![p][l] = [n |-> @.n + 1, t |-> IF @.t = "wr" THEN "wr" ELSE t]]

\* tdb_lock of a list that has a record already: only the count changes.
tdb_lock_again(p, l, t) ==
    /\ Idle(p) /\ glob[p].count = 0
    /\ lck[p][l].count \in 1 .. (MaxCount - 1) /\ Stacks(p, l, t)
    /\ lck' = [lck EXCEPT ![p][l].count = @ + 1]
    /\ user' = Granted(p, l, t)
    /\ UNCHANGED <<kern, num, glob, tx, pc, lost>>

\* The first lock of a list goes to the kernel.
tdb_lock(p, l, t) ==
    /\ Idle(p) /\ glob[p].count = 0
    /\ lck[p][l].count = 0 /\ MayTake(p, {l}, t)
    /\ kern' = brlock(p, {l}, t)
    /\ lck' = [lck EXCEPT ![p][l] = [count |-> 1, ltype |-> t]]
    /\ num' = [num EXCEPT ![p] = @ + 1]
    /\ user' = Granted(p, l, t)
    /\ UNCHANGED <<glob, tx, pc, lost>>

\* tdb_unlock: the last one goes to the kernel.
Last(p, l) == lck[p][l].count = 1
FewerLocks(e) == IF e.count = 1 THEN [count |-> 0, ltype |-> "none"]
                 ELSE [e EXCEPT !.count = @ - 1]
FewerGrants(e) == IF e.n = 1 THEN [n |-> 0, t |-> "none"] ELSE [e EXCEPT !.n = @ - 1]
Uncounted(p, l) == IF lck[p][l].count = 1 THEN num[p] - 1 ELSE num[p]

tdb_unlock(p, l) ==
    /\ Idle(p) /\ glob[p].count = 0
    /\ lck[p][l].count > 0 /\ user[p][l].n > 0
    /\ kern' = IF Last(p, l) THEN brlock(p, {l}, "none") ELSE kern
    /\ lck' = [lck EXCEPT ![p][l] = FewerLocks(@)]
    /\ num' = [num EXCEPT ![p] = Uncounted(p, l)]
    /\ user' = [user EXCEPT ![p][l] = FewerGrants(@)]
    /\ UNCHANGED <<glob, tx, pc, lost>>

-----------------------------------------------------------------------------
\* The whole database

tdb_lockall_again(p, t) ==
    /\ Idle(p) /\ glob[p].ltype = t /\ glob[p].count \in 1 .. (MaxCount - 1)
    /\ glob' = [glob EXCEPT ![p].count = @ + 1]
    /\ UNCHANGED <<kern, lck, num, tx, pc, user, lost>>

tdb_lockall(p, t) ==
    /\ Idle(p) /\ glob[p].count = 0 /\ num[p] = 0
    /\ MayTake(p, Chains, t)
    /\ kern' = brlock(p, Chains, t)
    /\ glob' = [glob EXCEPT ![p] = [count |-> 1, ltype |-> t]]
    /\ UNCHANGED <<lck, num, tx, pc, user, lost>>

tdb_unlockall(p) ==
    /\ Idle(p) /\ glob[p].count > 0
    /\ IF glob[p].count > 1
       THEN glob' = [glob EXCEPT ![p].count = @ - 1] /\ kern' = kern
       ELSE glob' = [glob EXCEPT ![p] = NoGlobal] /\ kern' = brlock(p, Chains, "none")
    /\ UNCHANGED <<lck, num, tx, pc, user, lost>>

-----------------------------------------------------------------------------
\* Transactions

tdb_transaction_nest(p) ==
    /\ Idle(p) /\ tx[p].on /\ tx[p].nesting < MaxNest
    /\ tx' = [tx EXCEPT ![p].nesting = @ + 1]
    /\ UNCHANGED <<kern, lck, num, glob, pc, user, lost>>

tdb_transaction_start(p) ==
    /\ Idle(p) /\ ~tx[p].on
    /\ num[p] = 0 /\ glob[p].count = 0
    /\ Grants(p, {TRANSACTION_LOCK}, "wr")
    /\ kern' = Holding(p, {TRANSACTION_LOCK}, "wr")
    /\ pc' = [pc EXCEPT ![p] = "start"]
    /\ UNCHANGED <<lck, num, glob, tx, user, lost>>

start_read(p) ==
    /\ pc[p] = "start" /\ Grants(p, ToEnd, "rd")
    /\ kern' = Holding(p, ToEnd, "rd")
    /\ tx' = [tx EXCEPT ![p] = NewTx]
    /\ pc' = [pc EXCEPT ![p] = "idle"]
    /\ UNCHANGED <<lck, num, glob, user, lost>>

\* The read lock, or reading the hash heads after it, fails.
start_fails(p) ==
    /\ pc[p] = "start"
    /\ kern' = Holding(p, ToEnd \cup {TRANSACTION_LOCK}, "none")
    /\ pc' = [pc EXCEPT ![p] = "idle"]
    /\ UNCHANGED <<lck, num, glob, tx, user, lost>>

\* tdb_transaction_cancel of the outermost one.  The records of the locks that
\* callers left behind stay, though nothing counts them any more.
Cancelled(p) == Holding(p, ToEnd \cup {TRANSACTION_LOCK}
                           \cup {l \in Lists : num[p] # 0 /\ lck[p][l].count # 0}, "none")
Cancel(p, locks) ==
    /\ kern' = locks
    /\ glob' = [glob EXCEPT ![p].count = 0]
    /\ num' = [num EXCEPT ![p] = 0]
    /\ tx' = [tx EXCEPT ![p] = NoTx]
    /\ pc' = [pc EXCEPT ![p] = "idle"]
    /\ user' = [user EXCEPT ![p] = NoUser]
    /\ UNCHANGED <<lck, lost>>

\* Discipline: no lock taken inside a transaction outlives it.
Pending(p) == num[p] # 0 \/ glob[p].count # 0
Settled(p) == Pending(p) => May("pending")

tdb_transaction_cancel(p) ==
    /\ Idle(p) /\ tx[p].on
    /\ IF tx[p].nesting # 0
       THEN /\ tx' = [tx EXCEPT ![p].nesting = @ - 1, ![p].error = TRUE]
            /\ UNCHANGED <<kern, lck, num, glob, pc, user, lost>>
       ELSE Settled(p) /\ Cancel(p, Cancelled(p))

\* tdb_transaction_commit, up to the first lock it waits for.  With an error
\* pending inside a nested transaction the cancel only leaves the inner one.
tdb_transaction_commit(p) ==
    /\ Idle(p) /\ tx[p].on
    /\ IF tx[p].nesting # 0
       THEN /\ tx' = [tx EXCEPT ![p].nesting = @ - 1]
            /\ UNCHANGED <<kern, lck, num, glob, pc, user, lost>>
       ELSE /\ Settled(p)
            /\ \/ /\ tx[p].error \/ tx[p].written \/ Pending(p)
                  /\ Cancel(p, Cancelled(p))
               \/ /\ ~tx[p].error /\ ~Pending(p)
                  /\ pc' = [pc EXCEPT ![p] = "upgrade"]
                  /\ UNCHANGED <<kern, lck, num, glob, tx, user, lost>>

MayUpgrade_Read(p) == Grants(p, ToEnd, "rd")
MayUpgrade(p) == Grants(p, ToEnd, "wr")

commit_upgrade(p) ==
    /\ pc[p] = "upgrade" /\ MayUpgrade(p)
    /\ kern' = Holding(p, ToEnd, "wr")
    /\ pc' = [pc EXCEPT ![p] = "lockdb"]
    /\ UNCHANGED <<lck, num, glob, tx, user, lost>>

commit_global(p) ==
    /\ pc[p] = "lockdb" /\ Grants(p, {GLOBAL_LOCK}, "wr")
    /\ kern' = Holding(p, {GLOBAL_LOCK}, "wr")
    /\ pc' = [pc EXCEPT ![p] = "write"]
    /\ UNCHANGED <<lck, num, glob, tx, user, lost>>

\* The upgrade meets a deadlock a thousand times, or a lock call fails.
commit_lock_fails(p) == pc[p] \in {"upgrade", "lockdb"} /\ Cancel(p, Cancelled(p))

\* The data is written, or it is not and the old data is put back.
commit_end(p) ==
    /\ pc[p] = "write"
    /\ Cancel(p, [Cancelled(p) EXCEPT ![p][GLOBAL_LOCK] = "none"])

\* A sync fails after the data is written: the call returns as it stands, with
\* no elements left in the transaction (the caller may still add some).
commit_sync_fails(p) ==
    /\ pc[p] = "write" /\ May("sync")
    /\ pc' = [pc EXCEPT ![p] = "idle"]
    /\ tx' = [tx EXCEPT ![p].written = TRUE]
    /\ UNCHANGED <<kern, lck, num, glob, user, lost>>

-----------------------------------------------------------------------------
\* Open and close

tdb_open(p) ==
    /\ pc[p] = "closed" /\ Grants(p, {GLOBAL_LOCK}, "wr")
    /\ kern' = Holding(p, {GLOBAL_LOCK}, "wr")
    /\ pc' = [pc EXCEPT ![p] = "opening"]
    /\ UNCHANGED <<lck, num, glob, tx, user, lost>>

Free(p) == ~Pending(p) /\ ~tx[p].on
IsOpen(q) == pc[q] \notin {"closed", "opening"}

\* Mutant: it is not asked whether somebody has the database open.
Truncates_Always(p) == ClearFirst
\* With TDB_CLEAR_IF_FIRST the file is truncated when nobody has ACTIVE_LOCK.
Truncates(p) == ClearFirst /\ Grants(p, {ACTIVE_LOCK}, "wr")

open_rest(p) ==
    /\ pc[p] = "opening"
    /\ lost' = IF Truncates(p) THEN lost \cup {q \in Procs : IsOpen(q)} ELSE lost
    /\ kern' = [kern EXCEPT ![p] = [NoLocks EXCEPT ![ACTIVE_LOCK] =
                                      IF ClearFirst THEN "rd" ELSE "none"]]
    /\ pc' = [pc EXCEPT ![p] = "idle"]
    /\ UNCHANGED <<lck, num, glob, tx, user>>

\* A second open by a process that has the database open: it fails when it
\* finds the file in the list of open ones, and closes its descriptor.
tdb_open_again(p) ==
    /\ Idle(p) /\ Grants(p, {GLOBAL_LOCK}, "wr")
    /\ May("double") \/ (Free(p) /\ ~ClearFirst)
    /\ lost' = IF Truncates(p) THEN lost \cup {q \in Procs : IsOpen(q)} ELSE lost
    /\ kern' = [kern EXCEPT ![p] = NoLocks]
    /\ UNCHANGED <<lck, num, glob, tx, pc, user>>

\* tdb_close, the end of a failed tdb_open or tdb_reopen, or of the process.
tdb_close(p) ==
    /\ pc[p] # "closed"
    /\ kern' = [kern EXCEPT ![p] = NoLocks]
    /\ lck' = [lck EXCEPT ![p] = NoRecs]
    /\ num' = [num EXCEPT ![p] = 0]
    /\ glob' = [glob EXCEPT ![p] = NoGlobal]
    /\ tx' = [tx EXCEPT ![p] = NoTx]
    /\ pc' = [pc EXCEPT ![p] = "closed"]
    /\ user' = [user EXCEPT ![p] = NoUser]
    /\ lost' = lost \ {p}

\* tdb_reopen: the old descriptor is closed before the new one takes its lock.
tdb_reopen(p) ==
    /\ Idle(p) /\ Free(p) /\ (ClearFirst => May("reopen"))
    /\ kern' = [kern EXCEPT ![p] = NoLocks]
    /\ pc' = [pc EXCEPT ![p] = "reopen"]
    /\ UNCHANGED <<lck, num, glob, tx, user, lost>>

reopen_active(p) ==
    /\ pc[p] = "reopen"
    /\ ClearFirst => Grants(p, {ACTIVE_LOCK}, "rd")
    /\ kern' = IF ClearFirst THEN Holding(p, {ACTIVE_LOCK}, "rd") ELSE kern
    /\ pc' = [pc EXCEPT ![p] = "idle"]
    /\ UNCHANGED <<lck, num, glob, tx, user, lost>>

-----------------------------------------------------------------------------
Init ==
    /\ kern = [p \in Procs |-> NoLocks]
    /\ lck = [p \in Procs |-> NoRecs]
    /\ num = [p \in Procs |-> 0]
    /\ glob = [p \in Procs |-> NoGlobal]
    /\ tx = [p \in Procs |-> NoTx]
    /\ pc = [p \in Procs |-> "closed"]
    /\ user = [p \in Procs |-> NoUser]
    /\ lost = {}

Types == {"rd", "wr"}

ListStep(p) ==
    \E l \in Lists :
      \/ \E t \in Types : tdb_lock(p, l, t) \/ tdb_lock_again(p, l, t)
      \/ tdb_unlock(p, l)

AllStep(p) ==
    \/ \E t \in Types : tdb_lockall(p, t) \/ tdb_lockall_again(p, t)
    \/ tdb_unlockall(p)

TransactionStep(p) ==
    \/ tdb_transaction_nest(p) \/ tdb_transaction_start(p)
    \/ start_read(p) \/ start_fails(p)
    \/ tdb_transaction_cancel(p) \/ tdb_transaction_commit(p)
    \/ commit_upgrade(p) \/ commit_global(p) \/ commit_lock_fails(p)
    \/ commit_end(p) \/ commit_sync_fails(p)

OpenStep(p) ==
    \/ tdb_open(p) \/ open_rest(p) \/ tdb_open_again(p)
    \/ tdb_close(p) \/ tdb_reopen(p) \/ reopen_active(p)

Next == \E p \in Procs : ListStep(p) \/ AllStep(p) \/ TransactionStep(p) \/ OpenStep(p)

Spec == Init /\ [][Next]_vars

-----------------------------------------------------------------------------
\* Properties

\* Every variable keeps its type, and num_locks counts the lock records.
TypeOK ==
    /\ kern \in [Procs -> [Ranges -> {"none", "rd", "wr"}]]
    /\ \A p \in Procs :
         /\ \A l \in Lists : /\ lck[p][l].count \in 0 .. MaxCount
                             /\ (lck[p][l].count = 0) = (lck[p][l].ltype = "none")
         /\ num[p] \in Nat
         /\ num[p] = 0 <=> \A l \in Lists : lck[p][l].count = 0
         /\ glob[p].count \in 0 .. MaxCount
         /\ tx[p].nesting \in 0 .. MaxNest
    /\ lost \subseteq Procs

Whole(p, t) == glob[p].count > 0 /\ glob[p].ltype = t
Writes(p, l) == user[p][l].t = "wr" \/ Whole(p, "wr")
Reads(p, l) == user[p][l].t = "rd" \/ Whole(p, "rd")

\* A caller that was granted a chain for writing has it alone, through whatever
\* nesting of list locks, lockall and transactions; inside a transaction, whose
\* writes nobody sees yet, others may read (tdb_lock, tdb_unlock, _tdb_lockall).
ChainExclusive ==
    \A p, q \in Procs : p # q =>
      \A l \in Chains :
        Writes(p, l) => ~Writes(q, l) /\ (tx[p].on \/ ~Reads(q, l))

\* What a transaction has read stays as it was read: no other process has a
\* transaction, or was granted a chain for writing; and while the commit writes
\* to the file no other has any chain, or is about to join the database
\* (tdb_transaction_start, tdb_transaction_commit).
TransactionAlone ==
    \A p, q \in Procs : p # q =>
      /\ tx[p].on => ~tx[q].on /\ \A l \in Chains : ~Writes(q, l)
      /\ pc[p] = "write" =>
           /\ \A l \in Chains : ~Reads(q, l)
           /\ pc[q] # "opening"

\* Both, and the types.
LocksSound == TypeOK /\ ChainExclusive /\ TransactionAlone

\* "we need to zero database if we are the only one with it open": no open
\* truncates a database that a process has open (tdb_open_ex, ACTIVE_LOCK).
\* Refuted once a process reopens: it gives its lock up in between.
ClearedOnlyIfFirst == lost = {}

\* GLOBAL_LOCK is held by an open and by the commit only; nobody keeps it when
\* the call has returned.  Refuted when a sync of the commit fails.
GlobalReleased ==
    \A p \in Procs : kern[p][GLOBAL_LOCK] # "none" => pc[p] \in {"opening", "write"}

\* "lock entire database with write lock": while a process has all of it, or a
\* commit writes it, no other has the list of free records.
FreelistAlone ==
    \A p \in Procs :
      (Whole(p, "wr") /\ ~tx[p].on) \/ pc[p] = "write" =>
        \A q \in Procs \ {p} : user[q][Alloc].t # "wr"
=============================================================================
