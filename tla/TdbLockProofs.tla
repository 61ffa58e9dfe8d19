---------------------------- MODULE TdbLockProofs ----------------------------
(***************************************************************************)
(* Proofs about TdbLock, for every number of processes, of chains and of   *)
(* locks inside each other.                                                *)
(***************************************************************************)
EXTENDS TdbLock, FiniteSets, FiniteSetTheorems, TLAPS

Modes == {"none", "rd", "wr"}
Stages == {"closed", "opening", "idle", "start", "upgrade", "lockdb", "write", "reopen"}

Locks == [Ranges -> Modes]
Records == [Lists -> [count : 0 .. MaxCount, ltype : Modes]]
Wholes == [count : 0 .. MaxCount, ltype : Modes]
Transactions == [on : BOOLEAN, nesting : 0 .. MaxNest, error : BOOLEAN, written : BOOLEAN]
Callers == [Lists -> [n : 0 .. MaxCount, t : Modes]]

(***************************************************************************)
(* The inductive invariant.  Two processes share the kernel's locks only,  *)
(* so it has one part about these, Compatible, and one about what a single *)
(* process knows and holds, Good: its locks k, its records L, its counts n *)
(* and g, its transaction x, its stage c and what its callers hold u.      *)
(***************************************************************************)
Typed ==
  /\ kern \in [Procs -> Locks]
  /\ lck \in [Procs -> Records]
  /\ num \in [Procs -> Nat]
  /\ glob \in [Procs -> Wholes]
  /\ tx \in [Procs -> Transactions]
  /\ pc \in [Procs -> Stages]
  /\ user \in [Procs -> Callers]
  /\ lost \subseteq Procs

(* fcntl: a byte locked for writing is locked by one process.              *)
Compatible ==
  \A p, q \in Procs : p # q =>
    \A r \in Ranges : kern[p][r] = "wr" => kern[q][r] = "none"

(* ACTIVE_LOCK is taken for writing in passing only.                       *)
ActiveShared == \A p \in Procs : kern[p][ACTIVE_LOCK] # "wr"

Locked(L) == {l \in Lists : L[l].count > 0}

(* The counts of the library are those of its callers.                     *)
Counted(L, n, g, u) ==
  /\ \A l \in Lists : /\ u[l].n = L[l].count /\ u[l].t = L[l].ltype
                      /\ L[l].count = 0 <=> L[l].ltype = "none"
  /\ n = Cardinality(Locked(L))
  /\ g.count > 0 => n = 0 /\ g.ltype # "none"

(* Calls that take several locks start with no other and end with none.    *)
Staged(k, n, g, x, c) ==
  /\ c # "idle" => n = 0 /\ g.count = 0
  /\ c \in {"upgrade", "lockdb", "write"} => x.on
  /\ c \in {"closed", "opening", "start", "reopen"} => ~x.on
  /\ c = "start" => k[TRANSACTION_LOCK] = "wr"
  /\ c \in {"lockdb", "write"} => \A r \in ToEnd : k[r] = "wr"
  /\ c \in {"opening", "write"} => k[GLOBAL_LOCK] = "wr"

(* What a process was granted it has in the kernel, or its transaction     *)
(* has enough for it.                                                      *)
Backed(k, g, x, u) ==
  /\ ~x.on => \A l \in Chains :
                /\ u[l].t = "wr" => k[l] = "wr"
                /\ u[l].t = "rd" => k[l] \in {"rd", "wr"}
                /\ g.count > 0 => k[l] = g.ltype
  /\ x.on => /\ k[TRANSACTION_LOCK] = "wr"
             /\ \A r \in ToEnd : k[r] # "none"

Good(k, L, n, g, x, c, u) ==
  Counted(L, n, g, u) /\ Staged(k, n, g, x, c) /\ Backed(k, g, x, u)

Own(p) == Good(kern[p], lck[p], num[p], glob[p], tx[p], pc[p], user[p])

Inv == Typed /\ Compatible /\ ActiveShared /\ \A p \in Procs : Own(p)

(* The callers keep to the library's rules: they release what they took    *)
(* inside a transaction, open a database once, and do not ask for a list   *)
(* they read to write it.  A sync may fail, and a process may reopen.      *)
Disciplined == Liberties \cap {"pending", "double", "upgrade"} = {}

----------------------------------------------------------------------------
(* The byte ranges and the records.                                        *)

LEMMA RangeFacts ==
  /\ Chains \subseteq ToEnd /\ Chains \subseteq Lists
  /\ ToEnd \subseteq Ranges /\ Lists \subseteq Ranges
  /\ GLOBAL_LOCK \in Ranges /\ TRANSACTION_LOCK \in Ranges /\ ACTIVE_LOCK \in Ranges
  /\ GLOBAL_LOCK \notin ToEnd \cup Lists /\ TRANSACTION_LOCK \notin ToEnd \cup Lists
  /\ GLOBAL_LOCK # TRANSACTION_LOCK /\ ACTIVE_LOCK \notin ToEnd \cup Lists
  /\ ACTIVE_LOCK # TRANSACTION_LOCK /\ ACTIVE_LOCK # GLOBAL_LOCK
BY LocksAssumption DEF Chains, ToEnd, Lists, Ranges, Alloc, GLOBAL_LOCK, TRANSACTION_LOCK,
   ACTIVE_LOCK

LEMMA LockedFinite ==
  ASSUME NEW L
  PROVE  IsFiniteSet(Locked(L)) /\ Cardinality(Locked(L)) \in Nat
<1>1. IsFiniteSet(Chains)
  BY LocksAssumption, FS_Interval DEF Chains
<1>2. IsFiniteSet(Lists)
  <2>1. IsFiniteSet(Chains \cup {Alloc})
    BY <1>1, FS_AddElement
  <2>2. Chains \cup {Alloc} = Lists
    BY DEF Lists
  <2> QED BY <2>1, <2>2
<1>3. Locked(L) \in SUBSET Lists
  BY DEF Locked
<1>4. IsFiniteSet(Locked(L))
  BY <1>2, <1>3, FS_Subset
<1> QED BY <1>4, FS_CardinalityType

LEMMA NoneLocked ==
  ASSUME NEW L \in Records
  PROVE  Cardinality(Locked(L)) = 0 <=> \A l \in Lists : L[l].count = 0
<1>1. Cardinality(Locked(L)) = 0 <=> Locked(L) = {}
  BY LockedFinite, FS_EmptySet
<1>2. \A l \in Lists : L[l].count \in Nat
  BY LocksAssumption DEF Records
<1> QED BY <1>1, <1>2 DEF Locked

LEMMA OneMoreLocked ==
  ASSUME NEW L \in Records, NEW l \in Lists, L[l].count = 0, NEW t
  PROVE  Cardinality(Locked([L EXCEPT ![l] = [count |-> 1, ltype |-> t]]))
           = Cardinality(Locked(L)) + 1
<1> DEFINE M == [L EXCEPT ![l] = [count |-> 1, ltype |-> t]]
<1>1. Locked(M) = Locked(L) \cup {l} /\ l \notin Locked(L)
  BY DEF Locked, Records
<1> QED BY <1>1, LockedFinite, FS_AddElement

LEMMA OneLessLocked ==
  ASSUME NEW L \in Records, NEW l \in Lists, L[l].count > 0
  PROVE  Cardinality(Locked([L EXCEPT ![l] = [count |-> 0, ltype |-> "none"]]))
           = Cardinality(Locked(L)) - 1
<1> DEFINE M == [L EXCEPT ![l] = [count |-> 0, ltype |-> "none"]]
<1>1. Locked(M) = Locked(L) \ {l} /\ l \in Locked(L)
  BY DEF Locked, Records
<1> QED BY <1>1, LockedFinite, FS_RemoveElement

(* A step that only counts up or down does not change which are locked.    *)
LEMMA SameLocked ==
  ASSUME NEW L \in Records, NEW M \in Records,
         \A l \in Lists : L[l].count > 0 <=> M[l].count > 0
  PROVE  Cardinality(Locked(L)) = Cardinality(Locked(M))
<1>1. Locked(L) = Locked(M)
  BY DEF Locked
<1> QED BY <1>1

----------------------------------------------------------------------------
(* One process moves, the others stand.                                    *)

Stands(q) ==
  /\ kern'[q] = kern[q] /\ lck'[q] = lck[q] /\ num'[q] = num[q]
  /\ glob'[q] = glob[q] /\ tx'[q] = tx[q] /\ pc'[q] = pc[q] /\ user'[q] = user[q]

(* Each lock of p is as it was, given up, or granted by fcntl.             *)
Allowed(p) ==
  \A r \in Ranges :
    \/ kern'[p][r] \in {kern[p][r], "none"}
    \/ Grants(p, {r}, kern'[p][r]) /\ (r = ACTIVE_LOCK => kern'[p][r] = "rd")

Moves(p) == \A q \in Procs \ {p} : Stands(q)

(* The kernel's rule keeps the locks compatible.                           *)
LEMMA KernelKeepsCompatible ==
  ASSUME Typed, Typed', Compatible, NEW p \in Procs, Moves(p), Allowed(p)
  PROVE  Compatible'
<1> SUFFICES ASSUME NEW a \in Procs, NEW b \in Procs, a # b, NEW r \in Ranges,
                    kern'[a][r] = "wr"
             PROVE  kern'[b][r] = "none"
  BY DEF Compatible
<1>1. CASE a = p
  <2>1. kern'[b] = kern[b]
    BY <1>1 DEF Moves, Stands
  <2>2. kern[a][r] = "wr" \/ Grants(p, {r}, "wr")
    BY <1>1 DEF Allowed
  <2> QED BY <1>1, <2>1, <2>2 DEF Compatible, Grants
<1>2. CASE b = p
  <2>1. kern'[a] = kern[a]
    BY <1>2 DEF Moves, Stands
  <2>2. kern'[b][r] \in {kern[b][r], "none"} \/ Grants(p, {r}, kern'[b][r])
    BY <1>2 DEF Allowed
  <2> QED BY <1>2, <2>1, <2>2 DEF Compatible, Grants
<1>3. CASE a # p /\ b # p
  BY <1>3 DEF Compatible, Moves, Stands
<1> QED BY <1>1, <1>2, <1>3

LEMMA OneMoves ==
  ASSUME Inv, NEW p \in Procs, Typed', Moves(p), Allowed(p), Own(p)'
  PROVE  Inv'
<1>1. Compatible'
  BY KernelKeepsCompatible DEF Inv
<1>2. ASSUME NEW q \in Procs PROVE Own(q)'
  <2>1. CASE q = p
    BY <2>1
  <2>2. CASE q # p
    <3>1. Own(q)
      BY DEF Inv
    <3> QED BY <2>2, <3>1 DEF Moves, Stands, Own
  <2> QED BY <2>1, <2>2
<1>3. ActiveShared'
  <2>1. ACTIVE_LOCK \in Ranges
    BY RangeFacts
  <2>2. kern'[p][ACTIVE_LOCK] # "wr"
    BY <2>1 DEF Allowed, Inv, ActiveShared
  <2> QED BY <2>2 DEF Inv, ActiveShared, Moves, Stands
<1> QED BY <1>1, <1>2, <1>3 DEF Inv

(* What taking or giving up the ranges R does to the kernel's locks.       *)
LEMMA HoldingIs ==
  ASSUME Typed, NEW p \in Procs, NEW R, NEW t \in Modes
  PROVE  /\ Holding(p, R, t) \in [Procs -> Locks]
         /\ \A q \in Procs \ {p} : Holding(p, R, t)[q] = kern[q]
         /\ \A r \in Ranges : Holding(p, R, t)[p][r] = IF r \in R THEN t ELSE kern[p][r]
BY DEF Typed, Holding, Locks

LEMMA HoldingAllowed ==
  ASSUME Typed, NEW p \in Procs, NEW R, NEW t \in Modes, kern' = Holding(p, R, t),
         t = "none" \/ (Grants(p, R, t) /\ ACTIVE_LOCK \notin R)
  PROVE  Allowed(p)
<1> SUFFICES ASSUME NEW r \in Ranges
             PROVE  \/ kern'[p][r] \in {kern[p][r], "none"}
                    \/ Grants(p, {r}, kern'[p][r]) /\ r # ACTIVE_LOCK
  BY DEF Allowed
<1>1. kern'[p][r] = IF r \in R THEN t ELSE kern[p][r]
  BY HoldingIs
<1>2. CASE r \notin R \/ t = "none"
  BY <1>1, <1>2
<1>3. CASE r \in R /\ t # "none"
  BY <1>1, <1>3 DEF Grants
<1> QED BY <1>2, <1>3

(* The same through tdb_brlock, which does nothing inside a transaction.   *)
LEMMA BrlockIs ==
  ASSUME Typed, NEW p \in Procs, NEW R, NEW t \in Modes,
         kern' = brlock(p, R, t), t = "none" \/ MayTake(p, R, t), R \subseteq Lists
  PROVE  /\ kern' \in [Procs -> Locks]
         /\ \A q \in Procs \ {p} : kern'[q] = kern[q]
         /\ \A r \in Ranges :
              kern'[p][r] = IF r \in R /\ ~tx[p].on THEN t ELSE kern[p][r]
         /\ Allowed(p)
<1>1. CASE tx[p].on
  BY <1>1 DEF brlock, Typed, Allowed
<1>2. CASE ~tx[p].on
  <2>1. ACTIVE_LOCK \notin R
    BY RangeFacts
  <2> QED BY <1>2, <2>1, HoldingIs, HoldingAllowed DEF brlock, MayTake
<1> QED BY <1>1, <1>2

LEMMA SameAllowed ==
  ASSUME NEW p, kern' = kern
  PROVE  Allowed(p)
BY DEF Allowed

----------------------------------------------------------------------------
(* The locks of a list.                                                    *)

LEMMA LockAgainKeeps ==
  ASSUME Inv, Disciplined, NEW p \in Procs, NEW l \in Lists, NEW t \in Types,
         tdb_lock_again(p, l, t)
  PROVE  Inv'
<1> USE DEF Inv
<1>0. /\ Own(p) /\ t \in Modes /\ l \in Lists /\ Typed
      /\ lck[p][l].count \in 1 .. (MaxCount - 1) /\ MaxCount \in Nat
  BY LocksAssumption DEF Types, Modes, tdb_lock_again
<1>1. /\ lck' \in [Procs -> Records]
      /\ \A q \in Procs \ {p} : lck'[q] = lck[q]
      /\ \A m \in Lists \ {l} : lck'[p][m] = lck[p][m]
      /\ lck'[p][l].count = lck[p][l].count + 1
      /\ lck'[p][l].ltype = lck[p][l].ltype
  <2> DEFINE e == [lck[p][l] EXCEPT !.count = @ + 1]
  <2>1. lck[p][l] \in [count : 0 .. MaxCount, ltype : Modes]
    BY <1>0 DEF Typed, Records
  <2>2. /\ e \in [count : 0 .. MaxCount, ltype : Modes]
        /\ e.count = lck[p][l].count + 1 /\ e.ltype = lck[p][l].ltype
    BY <1>0, <2>1
  <2>3. lck' = [lck EXCEPT ![p] = [lck[p] EXCEPT ![l] = e]]
    BY DEF tdb_lock_again
  <2> HIDE DEF e
  <2> QED BY <1>0, <2>2, <2>3 DEF Typed, Records
<1>2. /\ user[p][l].n = lck[p][l].count /\ user[p][l].t = lck[p][l].ltype
      /\ user[p][l].t \in {"rd", "wr"}
  BY <1>0 DEF Own, Good, Counted, Typed, Callers, Modes
<1>3. user[p][l].t = "rd" => t = "rd"
  BY <1>0 DEF tdb_lock_again, Stacks, May, Disciplined, Types
<1>4. /\ user' \in [Procs -> Callers]
      /\ \A q \in Procs \ {p} : user'[q] = user[q]
      /\ \A m \in Lists \ {l} : user'[p][m] = user[p][m]
      /\ user'[p][l].n = user[p][l].n + 1 /\ user'[p][l].t = user[p][l].t
  BY <1>0, <1>2, <1>3 DEF tdb_lock_again, Granted, Typed, Callers, Types
<1>5. Typed' /\ Moves(p) /\ Allowed(p)
  BY <1>1, <1>4 DEF tdb_lock_again, Typed, Moves, Stands, Allowed
<1>6. num[p] = Cardinality(Locked(lck'[p]))
  <2>1. \A m \in Lists : lck[p][m].count > 0 <=> lck'[p][m].count > 0
    BY <1>0, <1>1
  <2>2. lck[p] \in Records /\ lck'[p] \in Records
    BY <1>1 DEF Typed
  <2>3. Cardinality(Locked(lck[p])) = Cardinality(Locked(lck'[p]))
    BY <2>1, <2>2, SameLocked
  <2> QED BY <1>0, <2>3 DEF Own, Good, Counted
<1>7. Counted(lck'[p], num[p], glob[p], user'[p])
  BY <1>0, <1>1, <1>2, <1>4, <1>6 DEF Own, Good, Counted
<1>8. Backed(kern[p], glob[p], tx[p], user'[p])
  <2>1. \A m \in Lists : user'[p][m].t = user[p][m].t
    BY <1>4
  <2> QED BY <1>0, <2>1, RangeFacts DEF Own, Good, Backed
<1>9. Own(p)'
  BY <1>0, <1>7, <1>8 DEF Own, Good, tdb_lock_again
<1> QED BY <1>5, <1>9, OneMoves

LEMMA LockKeeps ==
  ASSUME Inv, NEW p \in Procs, NEW l \in Lists, NEW t \in Types, tdb_lock(p, l, t)
  PROVE  Inv'
<1>0. /\ Own(p) /\ t \in Modes /\ Typed /\ pc[p] = "idle" /\ glob[p].count = 0
      /\ lck[p][l].count = 0 /\ MaxCount \in Nat \ {0}
  BY LocksAssumption DEF Inv, Types, Modes, tdb_lock, Idle
<1>1. /\ lck' \in [Procs -> Records]
      /\ \A q \in Procs \ {p} : lck'[q] = lck[q]
      /\ lck'[p] = [lck[p] EXCEPT ![l] = [count |-> 1, ltype |-> t]]
  BY <1>0 DEF tdb_lock, Typed, Records
<1>2. user[p][l].n = 0 /\ user[p][l].t = "none" /\ lck[p][l].ltype = "none"
  BY <1>0 DEF Own, Good, Counted
<1>4. /\ user' \in [Procs -> Callers]
      /\ \A q \in Procs \ {p} : user'[q] = user[q]
      /\ \A m \in Lists \ {l} : user'[p][m] = user[p][m]
      /\ user'[p][l].n = 1 /\ user'[p][l].t = t
  BY <1>0, <1>2 DEF tdb_lock, Granted, Typed, Callers, Types
<1>5. /\ kern' \in [Procs -> Locks]
      /\ \A q \in Procs \ {p} : kern'[q] = kern[q]
      /\ \A r \in Ranges : kern'[p][r] = IF r \in {l} /\ ~tx[p].on THEN t ELSE kern[p][r]
      /\ Allowed(p)
  <2>1. kern' = brlock(p, {l}, t) /\ MayTake(p, {l}, t) /\ {l} \subseteq Lists
    BY DEF tdb_lock
  <2> QED BY <1>0, <2>1, BrlockIs, Zenon
<1>6. Typed' /\ Moves(p)
  <2>1. /\ num' \in [Procs -> Nat]
        /\ \A q \in Procs \ {p} : num'[q] = num[q]
    BY <1>0 DEF tdb_lock, Typed
  <2>2. glob' = glob /\ tx' = tx /\ pc' = pc /\ lost' = lost
    BY DEF tdb_lock
  <2> QED BY <1>0, <1>1, <1>4, <1>5, <2>1, <2>2 DEF Typed, Moves, Stands
<1>7. num'[p] = num[p] + 1 /\ num'[p] = Cardinality(Locked(lck'[p]))
  <2>1. lck[p] \in Records /\ lck[p][l].count = 0
    BY <1>0 DEF Typed
  <2>2. Cardinality(Locked([lck[p] EXCEPT ![l] = [count |-> 1, ltype |-> t]]))
          = Cardinality(Locked(lck[p])) + 1
    BY <2>1, OneMoreLocked, Zenon
  <2> QED BY <1>0, <1>1, <2>2 DEF Own, Good, Counted, tdb_lock, Typed
<1>8. Counted(lck'[p], num'[p], glob[p], user'[p])
  <2>1. \A m \in Lists : lck'[p][m] = IF m = l THEN [count |-> 1, ltype |-> t] ELSE lck[p][m]
    BY <1>0, <1>1 DEF Typed, Records
  <2> QED BY <1>0, <2>1, <1>4, <1>7 DEF Own, Good, Counted, Types
<1>9. Backed(kern'[p], glob[p], tx[p], user'[p])
  BY <1>0, <1>4, <1>5, RangeFacts DEF Own, Good, Backed, Types
<1>10. Staged(kern'[p], num'[p], glob[p], tx[p], pc[p])
  BY <1>0 DEF Staged
<1>11. Own(p)'
  BY <1>8, <1>9, <1>10 DEF Own, Good, tdb_lock
<1> QED BY <1>5, <1>6, <1>11, OneMoves

LEMMA UnlockKeeps ==
  ASSUME Inv, NEW p \in Procs, NEW l \in Lists, tdb_unlock(p, l)
  PROVE  Inv'
<1>0. /\ Own(p) /\ Typed /\ pc[p] = "idle" /\ glob[p].count = 0
      /\ lck[p][l].count > 0 /\ MaxCount \in Nat \ {0}
      /\ user[p][l].n = lck[p][l].count /\ user[p][l].t = lck[p][l].ltype
  BY LocksAssumption DEF Inv, tdb_unlock, Idle, Own, Good, Counted
<1>1. CASE lck[p][l].count = 1
  <2>1. /\ lck' \in [Procs -> Records]
        /\ \A q \in Procs \ {p} : lck'[q] = lck[q]
        /\ lck'[p] = [lck[p] EXCEPT ![l] = [count |-> 0, ltype |-> "none"]]
    <3>1. lck' = [lck EXCEPT ![p] = [lck[p] EXCEPT ![l] = [count |-> 0, ltype |-> "none"]]]
      BY <1>1 DEF tdb_unlock, FewerLocks
    <3> QED BY <1>0, <3>1 DEF Typed, Records, Modes
  <2>2. /\ user' \in [Procs -> Callers]
        /\ \A q \in Procs \ {p} : user'[q] = user[q]
        /\ \A m \in Lists \ {l} : user'[p][m] = user[p][m]
        /\ user'[p][l].n = 0 /\ user'[p][l].t = "none"
    <3>1. user' = [user EXCEPT ![p] = [user[p] EXCEPT ![l] = [n |-> 0, t |-> "none"]]]
      BY <1>0, <1>1 DEF tdb_unlock, FewerGrants
    <3> QED BY <1>0, <3>1 DEF Typed, Callers, Modes
  <2>3. /\ kern' \in [Procs -> Locks]
        /\ \A q \in Procs \ {p} : kern'[q] = kern[q]
        /\ \A r \in Ranges :
             kern'[p][r] = IF r \in {l} /\ ~tx[p].on THEN "none" ELSE kern[p][r]
        /\ Allowed(p)
    <3>1. kern' = brlock(p, {l}, "none") /\ "none" \in Modes /\ {l} \subseteq Lists
      BY <1>1 DEF tdb_unlock, Last, Modes
    <3> QED BY <1>0, <3>1, BrlockIs, Zenon
  <2>4. num'[p] = num[p] - 1 /\ num'[p] = Cardinality(Locked(lck'[p])) /\ num'[p] \in Nat
    <3>1. lck[p] \in Records
      BY <1>0 DEF Typed
    <3>2. Cardinality(Locked(lck'[p])) = Cardinality(Locked(lck[p])) - 1
      BY <1>0, <2>1, <3>1, OneLessLocked
    <3>3. num'[p] = num[p] - 1
      BY <1>0, <1>1 DEF tdb_unlock, Uncounted, Typed
    <3> QED BY <1>0, <3>2, <3>3, LockedFinite DEF Own, Good, Counted
  <2>5. Typed' /\ Moves(p)
    BY <1>0, <2>1, <2>2, <2>3, <2>4, ZenonT(60) DEF tdb_unlock, Typed, Moves, Stands
  <2>6. Counted(lck'[p], num'[p], glob[p], user'[p])
    <3>1. \A m \in Lists :
            lck'[p][m] = IF m = l THEN [count |-> 0, ltype |-> "none"] ELSE lck[p][m]
      BY <1>0, <2>1 DEF Typed, Records
    <3> QED BY <1>0, <3>1, <2>2, <2>4 DEF Own, Good, Counted
  <2>7. Backed(kern'[p], glob[p], tx[p], user'[p])
    BY <1>0, <2>2, <2>3, RangeFacts DEF Own, Good, Backed
  <2>8. Staged(kern'[p], num'[p], glob[p], tx[p], pc[p])
    BY <1>0 DEF Staged
  <2>9. Own(p)'
    BY <2>6, <2>7, <2>8 DEF Own, Good, tdb_unlock
  <2> QED BY <2>3, <2>5, <2>9, OneMoves
<1>2. CASE lck[p][l].count # 1
  <2>1. /\ lck' \in [Procs -> Records]
        /\ \A q \in Procs \ {p} : lck'[q] = lck[q]
        /\ \A m \in Lists \ {l} : lck'[p][m] = lck[p][m]
        /\ lck'[p][l].count = lck[p][l].count - 1
        /\ lck'[p][l].ltype = lck[p][l].ltype
    <3> DEFINE e == FewerLocks(lck[p][l])
    <3>1. lck[p][l] \in [count : 0 .. MaxCount, ltype : Modes]
      BY <1>0 DEF Typed, Records
    <3>2. /\ e \in [count : 0 .. MaxCount, ltype : Modes]
          /\ e.count = lck[p][l].count - 1 /\ e.ltype = lck[p][l].ltype
      BY <1>0, <1>2, <3>1 DEF FewerLocks
    <3>3. lck' = [lck EXCEPT ![p] = [lck[p] EXCEPT ![l] = e]]
      BY DEF tdb_unlock
    <3> HIDE DEF e
    <3> QED BY <1>0, <3>2, <3>3 DEF Typed, Records
  <2>2. /\ user' \in [Procs -> Callers]
        /\ \A q \in Procs \ {p} : user'[q] = user[q]
        /\ \A m \in Lists \ {l} : user'[p][m] = user[p][m]
        /\ user'[p][l].n = user[p][l].n - 1 /\ user'[p][l].t = user[p][l].t
    <3> DEFINE e == FewerGrants(user[p][l])
    <3>1. user[p][l] \in [n : 0 .. MaxCount, t : Modes]
      BY <1>0 DEF Typed, Callers
    <3>2. /\ e \in [n : 0 .. MaxCount, t : Modes]
          /\ e.n = user[p][l].n - 1 /\ e.t = user[p][l].t
      BY <1>0, <1>2, <3>1 DEF FewerGrants
    <3>3. user' = [user EXCEPT ![p] = [user[p] EXCEPT ![l] = e]]
      BY DEF tdb_unlock
    <3> HIDE DEF e
    <3> QED BY <1>0, <3>2, <3>3 DEF Typed, Callers
  <2>3. kern' = kern /\ num' = num
    BY <1>0, <1>2 DEF tdb_unlock, Last, Uncounted, Typed
  <2>4. num[p] = Cardinality(Locked(lck'[p]))
    <3>1. \A m \in Lists : lck[p][m].count > 0 <=> lck'[p][m].count > 0
      <4>1. lck[p][l].count \in 0 .. MaxCount
        BY <1>0 DEF Typed, Records
      <4> QED BY <1>0, <1>2, <2>1, <4>1
    <3>2. lck[p] \in Records /\ lck'[p] \in Records
      BY <1>0, <2>1 DEF Typed
    <3>3. Cardinality(Locked(lck[p])) = Cardinality(Locked(lck'[p]))
      BY <3>1, <3>2, SameLocked
    <3> QED BY <1>0, <3>3 DEF Own, Good, Counted
  <2>5. Typed' /\ Moves(p) /\ Allowed(p)
    BY <1>0, <2>1, <2>2, <2>3 DEF tdb_unlock, Typed, Moves, Stands, Allowed
  <2>6. Counted(lck'[p], num[p], glob[p], user'[p])
    <3>1. lck[p][l].count \in 0 .. MaxCount
      BY <1>0 DEF Typed, Records
    <3>2. lck'[p][l].count # 0 /\ lck[p][l].ltype # "none"
      BY <1>0, <1>2, <2>1, <3>1 DEF Own, Good, Counted
    <3> QED BY <1>0, <2>1, <2>2, <2>4, <3>1, <3>2 DEF Own, Good, Counted
  <2>7. Backed(kern[p], glob[p], tx[p], user'[p])
    <3>1. \A m \in Lists : user'[p][m].t = user[p][m].t
      BY <2>2
    <3> QED BY <1>0, <3>1, RangeFacts DEF Own, Good, Backed
  <2>8. Own(p)'
    BY <1>0, <2>3, <2>6, <2>7 DEF Own, Good, tdb_unlock
  <2> QED BY <2>5, <2>8, OneMoves
<1> QED BY <1>1, <1>2

----------------------------------------------------------------------------
(* The lock of the whole database.                                         *)

LEMMA NothingHeld ==
  ASSUME Typed, NEW p \in Procs, Own(p), num[p] = 0
  PROVE  \A l \in Lists : /\ lck[p][l].count = 0 /\ lck[p][l].ltype = "none"
                          /\ user[p][l].n = 0 /\ user[p][l].t = "none"
<1>1. lck[p] \in Records /\ Cardinality(Locked(lck[p])) = 0
  BY DEF Typed, Own, Good, Counted
<1>2. \A l \in Lists : lck[p][l].count = 0
  BY <1>1, NoneLocked
<1> QED BY <1>2 DEF Own, Good, Counted

LEMMA LockallAgainKeeps ==
  ASSUME Inv, NEW p \in Procs, NEW t \in Types, tdb_lockall_again(p, t)
  PROVE  Inv'
<1>0. /\ Own(p) /\ Typed /\ pc[p] = "idle" /\ MaxCount \in Nat
      /\ glob[p].count \in 1 .. (MaxCount - 1)
  BY LocksAssumption DEF Inv, tdb_lockall_again, Idle
<1>1. /\ glob' \in [Procs -> Wholes]
      /\ \A q \in Procs \ {p} : glob'[q] = glob[q]
      /\ glob'[p].count = glob[p].count + 1 /\ glob'[p].ltype = glob[p].ltype
  <2> DEFINE e == [glob[p] EXCEPT !.count = @ + 1]
  <2>1. glob[p] \in Wholes
    BY <1>0 DEF Typed
  <2>2. e \in Wholes /\ e.count = glob[p].count + 1 /\ e.ltype = glob[p].ltype
    BY <1>0, <2>1 DEF Wholes
  <2>3. glob' = [glob EXCEPT ![p] = e]
    BY DEF tdb_lockall_again
  <2> HIDE DEF e
  <2> QED BY <1>0, <2>2, <2>3 DEF Typed
<1>2. /\ kern' = kern /\ lck' = lck /\ num' = num /\ tx' = tx /\ pc' = pc
      /\ user' = user /\ lost' = lost
  BY DEF tdb_lockall_again
<1>3. Typed' /\ Moves(p) /\ Allowed(p)
  BY <1>0, <1>1, <1>2 DEF Typed, Moves, Stands, Allowed
<1>4. Counted(lck[p], num[p], glob'[p], user[p])
  BY <1>0, <1>1 DEF Own, Good, Counted
<1>5. Backed(kern[p], glob'[p], tx[p], user[p])
  BY <1>0, <1>1 DEF Own, Good, Backed
<1>6. Staged(kern[p], num[p], glob'[p], tx[p], pc[p])
  BY <1>0 DEF Staged
<1>7. Own(p)'
  BY <1>2, <1>4, <1>5, <1>6 DEF Own, Good
<1> QED BY <1>3, <1>7, OneMoves

LEMMA LockallKeeps ==
  ASSUME Inv, NEW p \in Procs, NEW t \in Types, tdb_lockall(p, t)
  PROVE  Inv'
<1>0. /\ Own(p) /\ Typed /\ pc[p] = "idle" /\ MaxCount \in Nat \ {0}
      /\ num[p] = 0 /\ t \in Modes /\ t # "none"
  BY LocksAssumption DEF Inv, tdb_lockall, Idle, Types, Modes
<1>1. /\ kern' \in [Procs -> Locks]
      /\ \A q \in Procs \ {p} : kern'[q] = kern[q]
      /\ \A r \in Ranges :
           kern'[p][r] = IF r \in Chains /\ ~tx[p].on THEN t ELSE kern[p][r]
      /\ Allowed(p)
  <2>1. kern' = brlock(p, Chains, t) /\ MayTake(p, Chains, t) /\ Chains \subseteq Lists
    BY RangeFacts DEF tdb_lockall
  <2> QED BY <1>0, <2>1, BrlockIs, Zenon
<1>2. /\ glob' \in [Procs -> Wholes]
      /\ \A q \in Procs \ {p} : glob'[q] = glob[q]
      /\ glob'[p] = [count |-> 1, ltype |-> t]
  BY <1>0 DEF tdb_lockall, Typed, Wholes
<1>3. lck' = lck /\ num' = num /\ tx' = tx /\ pc' = pc /\ user' = user /\ lost' = lost
  BY DEF tdb_lockall
<1>4. Typed' /\ Moves(p)
  BY <1>0, <1>1, <1>2, <1>3 DEF Typed, Moves, Stands
<1>5. Counted(lck[p], num[p], glob'[p], user[p])
  BY <1>0, <1>2 DEF Own, Good, Counted
<1>6. Backed(kern'[p], glob'[p], tx[p], user[p])
  <2>1. \A l \in Lists : user[p][l].t = "none"
    BY <1>0, NothingHeld
  <2> QED BY <1>0, <1>1, <1>2, <2>1, RangeFacts DEF Own, Good, Backed
<1>7. Staged(kern'[p], num[p], glob'[p], tx[p], pc[p])
  BY <1>0 DEF Staged
<1>8. Own(p)'
  BY <1>3, <1>5, <1>6, <1>7 DEF Own, Good
<1> QED BY <1>1, <1>4, <1>8, OneMoves

LEMMA UnlockallKeeps ==
  ASSUME Inv, NEW p \in Procs, tdb_unlockall(p)
  PROVE  Inv'
<1>0. /\ Own(p) /\ Typed /\ pc[p] = "idle" /\ MaxCount \in Nat \ {0}
      /\ glob[p].count > 0 /\ num[p] = 0 /\ glob[p] \in Wholes
  BY LocksAssumption DEF Inv, tdb_unlockall, Idle, Own, Good, Counted, Typed
<1>1. lck' = lck /\ num' = num /\ tx' = tx /\ pc' = pc /\ user' = user /\ lost' = lost
  BY DEF tdb_unlockall
<1>2. Staged(kern'[p], num[p], glob'[p], tx[p], pc[p])
  BY <1>0 DEF Staged
<1>3. CASE glob[p].count > 1
  <2>1. /\ glob' \in [Procs -> Wholes]
        /\ \A q \in Procs \ {p} : glob'[q] = glob[q]
        /\ glob'[p].count = glob[p].count - 1 /\ glob'[p].ltype = glob[p].ltype
    <3> DEFINE e == [glob[p] EXCEPT !.count = @ - 1]
    <3>1. e \in Wholes /\ e.count = glob[p].count - 1 /\ e.ltype = glob[p].ltype
      BY <1>0, <1>3 DEF Wholes
    <3>2. glob' = [glob EXCEPT ![p] = e]
      BY <1>3 DEF tdb_unlockall
    <3> HIDE DEF e
    <3> QED BY <1>0, <3>1, <3>2 DEF Typed
  <2>2. kern' = kern
    BY <1>3 DEF tdb_unlockall
  <2>3. Typed' /\ Moves(p) /\ Allowed(p)
    BY <1>0, <1>1, <2>1, <2>2 DEF Typed, Moves, Stands, Allowed
  <2>4. Counted(lck[p], num[p], glob'[p], user[p])
    BY <1>0, <2>1 DEF Own, Good, Counted
  <2>5. Backed(kern[p], glob'[p], tx[p], user[p])
    BY <1>0, <2>1 DEF Own, Good, Backed
  <2>6. Own(p)'
    BY <1>1, <1>2, <2>2, <2>4, <2>5 DEF Own, Good
  <2> QED BY <2>3, <2>6, OneMoves
<1>4. CASE ~(glob[p].count > 1)
  <2>1. /\ glob' \in [Procs -> Wholes]
        /\ \A q \in Procs \ {p} : glob'[q] = glob[q]
        /\ glob'[p].count = 0
    <3>1. glob' = [glob EXCEPT ![p] = NoGlobal]
      BY <1>4 DEF tdb_unlockall
    <3> QED BY <1>0, <3>1 DEF Typed, Wholes, NoGlobal, Modes
  <2>2. /\ kern' \in [Procs -> Locks]
        /\ \A q \in Procs \ {p} : kern'[q] = kern[q]
        /\ \A r \in Ranges :
             kern'[p][r] = IF r \in Chains /\ ~tx[p].on THEN "none" ELSE kern[p][r]
        /\ Allowed(p)
    <3>1. kern' = brlock(p, Chains, "none") /\ "none" \in Modes /\ Chains \subseteq Lists
      BY <1>4, RangeFacts DEF tdb_unlockall, Modes
    <3> QED BY <1>0, <3>1, BrlockIs, Zenon
  <2>3. Typed' /\ Moves(p)
    BY <1>0, <1>1, <2>1, <2>2 DEF Typed, Moves, Stands
  <2>4. Counted(lck[p], num[p], glob'[p], user[p])
    BY <1>0, <2>1 DEF Own, Good, Counted
  <2>5. Backed(kern'[p], glob'[p], tx[p], user[p])
    <3>1. \A l \in Lists : user[p][l].t = "none"
      BY <1>0, NothingHeld
    <3> QED BY <1>0, <2>1, <2>2, <3>1, RangeFacts DEF Own, Good, Backed
  <2>6. Own(p)'
    BY <1>1, <1>2, <2>4, <2>5 DEF Own, Good
  <2> QED BY <2>2, <2>3, <2>6, OneMoves
<1> QED BY <1>3, <1>4

----------------------------------------------------------------------------
(* Transactions.                                                           *)

(* A step that changes the kernel's locks, the stage and the transaction   *)
(* of p alone.                                                             *)
LEMMA QuietStep ==
  ASSUME Inv, NEW p \in Procs, kern' \in [Procs -> Locks],
         \A q \in Procs \ {p} : kern'[q] = kern[q], Allowed(p),
         NEW c \in Stages, pc' = [pc EXCEPT ![p] = c],
         NEW x \in Transactions, tx' = [tx EXCEPT ![p] = x],
         UNCHANGED <<lck, num, glob, user>>, lost' \subseteq Procs,
         Staged(kern'[p], num[p], glob[p], x, c),
         Backed(kern'[p], glob[p], x, user[p])
  PROVE  Inv'
<1>1. Typed /\ Own(p)
  BY DEF Inv
<1>2. /\ pc' \in [Procs -> Stages] /\ pc'[p] = c
      /\ \A q \in Procs \ {p} : pc'[q] = pc[q]
  BY <1>1 DEF Typed
<1>3. /\ tx' \in [Procs -> Transactions] /\ tx'[p] = x
      /\ \A q \in Procs \ {p} : tx'[q] = tx[q]
  BY <1>1 DEF Typed
<1>4. Typed' /\ Moves(p)
  BY <1>1, <1>2, <1>3 DEF Typed, Moves, Stands
<1>5. Own(p)'
  BY <1>1, <1>2, <1>3 DEF Own, Good
<1> QED BY <1>4, <1>5, OneMoves

LEMMA NestKeeps ==
  ASSUME Inv, NEW p \in Procs, tdb_transaction_nest(p)
  PROVE  Inv'
<1>0. /\ Own(p) /\ Typed /\ pc[p] = "idle" /\ MaxNest \in Nat /\ tx[p].on
      /\ tx[p] \in Transactions /\ tx[p].nesting < MaxNest
  BY LocksAssumption DEF Inv, tdb_transaction_nest, Idle, Typed
<1> DEFINE x == [tx[p] EXCEPT !.nesting = @ + 1]
<1>1. x \in Transactions /\ x.on
  BY <1>0 DEF Transactions
<1>2. tx' = [tx EXCEPT ![p] = x] /\ UNCHANGED <<kern, lck, num, glob, pc, user, lost>>
  BY DEF tdb_transaction_nest
<1> HIDE DEF x
<1>3. Backed(kern'[p], glob[p], x, user[p])
  BY <1>0, <1>1, <1>2 DEF Own, Good, Backed
<1>4. Staged(kern'[p], num[p], glob[p], x, "idle")
  BY DEF Staged
<1>5. pc' = [pc EXCEPT ![p] = "idle"] /\ "idle" \in Stages
  BY <1>0, <1>2 DEF Typed, Stages
<1>6. Allowed(p) /\ kern' \in [Procs -> Locks] /\ lost' \subseteq Procs
  BY <1>0, <1>2 DEF Allowed, Typed
<1> QED BY <1>1, <1>2, <1>3, <1>4, <1>5, <1>6, QuietStep

(* Only the kernel's locks and the stage change: the ranges R become t.    *)
LEMMA HoldStep ==
  ASSUME Inv, NEW p \in Procs, NEW R, NEW t \in Modes, kern' = Holding(p, R, t),
         t = "none" \/ (Grants(p, R, t) /\ ACTIVE_LOCK \notin R),
         NEW c \in Stages, pc' = [pc EXCEPT ![p] = c],
         NEW x \in Transactions, tx' = [tx EXCEPT ![p] = x],
         UNCHANGED <<lck, num, glob, user>>, lost' \subseteq Procs,
         Staged(kern'[p], num[p], glob[p], x, c),
         Backed(kern'[p], glob[p], x, user[p])
  PROVE  Inv'
<1>1. Typed
  BY DEF Inv
<1>2. /\ kern' \in [Procs -> Locks]
      /\ \A q \in Procs \ {p} : kern'[q] = kern[q]
  BY <1>1, HoldingIs
<1>3. Allowed(p)
  BY <1>1, HoldingAllowed
<1> QED BY <1>2, <1>3, QuietStep

LEMMA StartKeeps ==
  ASSUME Inv, NEW p \in Procs, tdb_transaction_start(p)
  PROVE  Inv'
<1>0. /\ Own(p) /\ Typed /\ pc[p] = "idle" /\ num[p] = 0 /\ glob[p].count = 0
      /\ ~tx[p].on /\ tx[p] \in Transactions /\ "wr" \in Modes /\ "start" \in Stages
  BY DEF Inv, tdb_transaction_start, Idle, Typed, Modes, Stages
<1>1. /\ kern' = Holding(p, {TRANSACTION_LOCK}, "wr")
      /\ Grants(p, {TRANSACTION_LOCK}, "wr") /\ ACTIVE_LOCK \notin {TRANSACTION_LOCK}
      /\ pc' = [pc EXCEPT ![p] = "start"]
      /\ UNCHANGED <<lck, num, glob, tx, user, lost>>
  BY RangeFacts DEF tdb_transaction_start
<1>2. \A r \in Ranges :
        kern'[p][r] = IF r \in {TRANSACTION_LOCK} THEN "wr" ELSE kern[p][r]
  BY <1>0, <1>1, HoldingIs
<1>3. Staged(kern'[p], num[p], glob[p], tx[p], "start")
  BY <1>0, <1>2, RangeFacts DEF Staged
<1>4. Backed(kern'[p], glob[p], tx[p], user[p])
  BY <1>0, <1>2, NothingHeld, RangeFacts DEF Backed
<1>5. tx' = [tx EXCEPT ![p] = tx[p]] /\ lost' \subseteq Procs
  BY <1>0, <1>1 DEF Typed
<1> QED BY <1>0, <1>1, <1>3, <1>4, <1>5, HoldStep

LEMMA StartReadKeeps ==
  ASSUME Inv, NEW p \in Procs, start_read(p)
  PROVE  Inv'
<1> DEFINE x == NewTx
<1>0. /\ Own(p) /\ Typed /\ pc[p] = "start" /\ "rd" \in Modes /\ "idle" \in Stages
      /\ kern[p][TRANSACTION_LOCK] = "wr"
  BY DEF Inv, start_read, Modes, Stages, Own, Good, Staged
<1>1. x \in Transactions /\ x.on
  BY LocksAssumption DEF NewTx, Transactions
<1>2. /\ kern' = Holding(p, ToEnd, "rd") /\ Grants(p, ToEnd, "rd") /\ ACTIVE_LOCK \notin ToEnd
      /\ pc' = [pc EXCEPT ![p] = "idle"] /\ tx' = [tx EXCEPT ![p] = x]
      /\ UNCHANGED <<lck, num, glob, user, lost>>
  BY RangeFacts DEF start_read
<1> HIDE DEF x
<1>3. \A r \in Ranges : kern'[p][r] = IF r \in ToEnd THEN "rd" ELSE kern[p][r]
  BY <1>0, <1>2, HoldingIs
<1>4. Staged(kern'[p], num[p], glob[p], x, "idle")
  BY DEF Staged
<1>5. Backed(kern'[p], glob[p], x, user[p])
  BY <1>0, <1>1, <1>3, RangeFacts DEF Backed
<1>6. lost' \subseteq Procs
  BY <1>0, <1>2 DEF Typed
<1> QED BY <1>0, <1>1, <1>2, <1>4, <1>5, <1>6, HoldStep

LEMMA StartFailsKeeps ==
  ASSUME Inv, NEW p \in Procs, start_fails(p)
  PROVE  Inv'
<1> DEFINE R == ToEnd \cup {TRANSACTION_LOCK}
<1>0. /\ Own(p) /\ Typed /\ pc[p] = "start" /\ "none" \in Modes /\ "idle" \in Stages
      /\ num[p] = 0 /\ glob[p].count = 0 /\ ~tx[p].on /\ tx[p] \in Transactions
  BY DEF Inv, start_fails, Modes, Stages, Own, Good, Staged, Typed
<1>1. /\ kern' = Holding(p, R, "none") /\ pc' = [pc EXCEPT ![p] = "idle"]
      /\ UNCHANGED <<lck, num, glob, tx, user, lost>>
  BY DEF start_fails
<1>2. Staged(kern'[p], num[p], glob[p], tx[p], "idle")
  BY DEF Staged
<1>3. Backed(kern'[p], glob[p], tx[p], user[p])
  BY <1>0, NothingHeld, RangeFacts DEF Backed
<1>4. tx' = [tx EXCEPT ![p] = tx[p]] /\ lost' \subseteq Procs
  BY <1>0, <1>1 DEF Typed
<1> HIDE DEF R
<1> QED BY <1>0, <1>1, <1>2, <1>3, <1>4, HoldStep

(* Cancelling with no lock of a caller pending.                            *)
LEMMA CancelKeeps ==
  ASSUME Inv, NEW p \in Procs, ~Pending(p), NEW R, kern' = Holding(p, R, "none"),
         glob' = [glob EXCEPT ![p].count = 0], num' = [num EXCEPT ![p] = 0],
         tx' = [tx EXCEPT ![p] = NoTx], pc' = [pc EXCEPT ![p] = "idle"],
         user' = [user EXCEPT ![p] = NoUser], UNCHANGED <<lck, lost>>
  PROVE  Inv'
<1>0. /\ Own(p) /\ Typed /\ num[p] = 0 /\ glob[p].count = 0 /\ glob[p] \in Wholes
      /\ "none" \in Modes /\ "idle" \in Stages
  BY DEF Inv, Pending, Typed, Modes, Stages
<1>1. NoTx \in Transactions /\ ~NoTx.on
  BY LocksAssumption DEF NoTx, Transactions
<1>2. glob' = glob
  <2> DEFINE e == [glob[p] EXCEPT !.count = 0]
  <2>1. e = glob[p]
    BY <1>0 DEF Wholes
  <2>2. glob' = [glob EXCEPT ![p] = e]
    OBVIOUS
  <2> HIDE DEF e
  <2> QED BY <1>0, <2>1, <2>2 DEF Typed
<1>3. num' = num
  BY <1>0 DEF Typed
<1>4. user' = user
  <2>1. \A l \in Lists : user[p][l].n = 0 /\ user[p][l].t = "none"
    BY <1>0, NothingHeld
  <2>2. user[p] = [l \in Lists |-> user[p][l]]
    BY <1>0 DEF Typed, Callers
  <2>3. \A l \in Lists : user[p][l] = [n |-> 0, t |-> "none"]
    BY <1>0, <2>1 DEF Typed, Callers
  <2>4. user[p] = NoUser
    BY <2>2, <2>3 DEF NoUser
  <2> QED BY <1>0, <2>4 DEF Typed
<1>5. Staged(kern'[p], num[p], glob[p], NoTx, "idle")
  BY DEF Staged
<1>6. Backed(kern'[p], glob[p], NoTx, user[p])
  BY <1>0, <1>1, NothingHeld, RangeFacts DEF Backed
<1>7. lost' \subseteq Procs
  BY <1>0 DEF Typed
<1> QED BY <1>0, <1>1, <1>2, <1>3, <1>4, <1>5, <1>6, <1>7, HoldStep

LEMMA CancelledKeeps ==
  ASSUME Inv, NEW p \in Procs, ~Pending(p), Cancel(p, Cancelled(p))
  PROVE  Inv'
<1> DEFINE R == ToEnd \cup {TRANSACTION_LOCK}
                  \cup {l \in Lists : num[p] # 0 /\ lck[p][l].count # 0}
<1>1. kern' = Holding(p, R, "none")
  BY DEF Cancel, Cancelled
<1> HIDE DEF R
<1> QED BY <1>1, CancelKeeps DEF Cancel

LEMMA SettledIsNotPending ==
  ASSUME Disciplined, NEW p, Settled(p)
  PROVE  ~Pending(p)
BY DEF Disciplined, Settled, May

(* Only the nesting or its flag changes.                                   *)
LEMMA TxStep ==
  ASSUME Inv, NEW p \in Procs, NEW x \in Transactions, tx' = [tx EXCEPT ![p] = x],
         x.on = tx[p].on, UNCHANGED <<kern, lck, num, glob, pc, user, lost>>
  PROVE  Inv'
<1>0. Own(p) /\ Typed /\ pc[p] \in Stages
  BY DEF Inv, Typed
<1>1. pc' = [pc EXCEPT ![p] = pc[p]] /\ lost' \subseteq Procs /\ kern' \in [Procs -> Locks]
  BY <1>0 DEF Typed
<1>2. Staged(kern'[p], num[p], glob[p], x, pc[p]) /\ Backed(kern'[p], glob[p], x, user[p])
  BY <1>0 DEF Own, Good, Staged, Backed
<1>3. Allowed(p)
  BY DEF Allowed
<1> QED BY <1>0, <1>1, <1>2, <1>3, QuietStep

LEMMA TransactionCancelKeeps ==
  ASSUME Inv, Disciplined, NEW p \in Procs, tdb_transaction_cancel(p)
  PROVE  Inv'
<1>1. CASE tx[p].nesting # 0
  <2> DEFINE x == [tx[p] EXCEPT !.nesting = @ - 1, !.error = TRUE]
  <2>1. tx[p] \in Transactions
    BY DEF Inv, Typed
  <2>2. x \in Transactions /\ x.on = tx[p].on
    <3>1. tx[p].nesting - 1 \in 0 .. MaxNest
      BY <1>1, <2>1, LocksAssumption DEF Transactions
    <3>2. [tx[p] EXCEPT !.nesting = @ - 1] \in Transactions
      BY <2>1, <3>1 DEF Transactions
    <3> QED BY <2>1, <3>1, <3>2 DEF Transactions
  <2>3. tx' = [tx EXCEPT ![p] = x] /\ UNCHANGED <<kern, lck, num, glob, pc, user, lost>>
    BY <1>1 DEF tdb_transaction_cancel
  <2> HIDE DEF x
  <2> QED BY <2>2, <2>3, TxStep
<1>2. CASE tx[p].nesting = 0
  BY <1>2, SettledIsNotPending, CancelledKeeps DEF tdb_transaction_cancel
<1> QED BY <1>1, <1>2

LEMMA TransactionCommitKeeps ==
  ASSUME Inv, Disciplined, NEW p \in Procs, tdb_transaction_commit(p)
  PROVE  Inv'
<1>0. Typed /\ Own(p) /\ tx[p] \in Transactions /\ tx[p].on
  BY DEF Inv, Typed, tdb_transaction_commit
<1>1. CASE tx[p].nesting # 0
  <2> DEFINE x == [tx[p] EXCEPT !.nesting = @ - 1]
  <2>1. x \in Transactions /\ x.on = tx[p].on
    <3>1. tx[p].nesting - 1 \in 0 .. MaxNest
      BY <1>0, <1>1, LocksAssumption DEF Transactions
    <3> QED BY <1>0, <3>1 DEF Transactions
  <2>2. tx' = [tx EXCEPT ![p] = x] /\ UNCHANGED <<kern, lck, num, glob, pc, user, lost>>
    BY <1>1 DEF tdb_transaction_commit
  <2> HIDE DEF x
  <2> QED BY <2>1, <2>2, TxStep
<1>2. CASE tx[p].nesting = 0
  <2>1. ~Pending(p)
    BY <1>2, SettledIsNotPending DEF tdb_transaction_commit
  <2>2. CASE Cancel(p, Cancelled(p))
    BY <2>1, <2>2, CancelledKeeps
  <2>3. CASE pc' = [pc EXCEPT ![p] = "upgrade"]
             /\ UNCHANGED <<kern, lck, num, glob, tx, user, lost>>
    <3>1. /\ "upgrade" \in Stages /\ tx' = [tx EXCEPT ![p] = tx[p]]
          /\ lost' \subseteq Procs /\ kern' \in [Procs -> Locks]
      BY <1>0, <2>3 DEF Stages, Typed
    <3>2. Staged(kern'[p], num[p], glob[p], tx[p], "upgrade")
      BY <1>0, <2>1 DEF Staged, Pending
    <3>3. Backed(kern'[p], glob[p], tx[p], user[p])
      BY <1>0, <2>3 DEF Own, Good
    <3>4. Allowed(p)
      BY <2>3 DEF Allowed
    <3> QED BY <1>0, <2>3, <3>1, <3>2, <3>3, <3>4, QuietStep
  <2> QED BY <1>2, <2>2, <2>3 DEF tdb_transaction_commit
<1> QED BY <1>1, <1>2

LEMMA CommitUpgradeKeeps ==
  ASSUME Inv, NEW p \in Procs, commit_upgrade(p)
  PROVE  Inv'
<1>0. /\ Own(p) /\ Typed /\ pc[p] = "upgrade" /\ "wr" \in Modes /\ "lockdb" \in Stages
      /\ tx[p].on /\ tx[p] \in Transactions /\ num[p] = 0 /\ glob[p].count = 0
      /\ kern[p][TRANSACTION_LOCK] = "wr"
  BY DEF Inv, commit_upgrade, Modes, Stages, Own, Good, Staged, Backed, Typed
<1>1. /\ kern' = Holding(p, ToEnd, "wr") /\ Grants(p, ToEnd, "wr") /\ ACTIVE_LOCK \notin ToEnd
      /\ pc' = [pc EXCEPT ![p] = "lockdb"] /\ UNCHANGED <<lck, num, glob, tx, user, lost>>
  BY RangeFacts DEF commit_upgrade, MayUpgrade
<1>2. \A r \in Ranges : kern'[p][r] = IF r \in ToEnd THEN "wr" ELSE kern[p][r]
  BY <1>0, <1>1, HoldingIs
<1>3. Staged(kern'[p], num[p], glob[p], tx[p], "lockdb")
  BY <1>0, <1>2, RangeFacts DEF Staged
<1>4. Backed(kern'[p], glob[p], tx[p], user[p])
  BY <1>0, <1>2, RangeFacts DEF Backed
<1>5. tx' = [tx EXCEPT ![p] = tx[p]] /\ lost' \subseteq Procs
  BY <1>0, <1>1 DEF Typed
<1> QED BY <1>0, <1>1, <1>3, <1>4, <1>5, HoldStep

LEMMA CommitGlobalKeeps ==
  ASSUME Inv, NEW p \in Procs, commit_global(p)
  PROVE  Inv'
<1>0. /\ Own(p) /\ Typed /\ pc[p] = "lockdb" /\ "wr" \in Modes /\ "write" \in Stages
      /\ tx[p].on /\ tx[p] \in Transactions /\ num[p] = 0 /\ glob[p].count = 0
      /\ kern[p][TRANSACTION_LOCK] = "wr" /\ \A r \in ToEnd : kern[p][r] = "wr"
  BY DEF Inv, commit_global, Modes, Stages, Own, Good, Staged, Backed, Typed
<1>1. /\ kern' = Holding(p, {GLOBAL_LOCK}, "wr")
      /\ Grants(p, {GLOBAL_LOCK}, "wr") /\ ACTIVE_LOCK \notin {GLOBAL_LOCK}
      /\ pc' = [pc EXCEPT ![p] = "write"] /\ UNCHANGED <<lck, num, glob, tx, user, lost>>
  BY RangeFacts DEF commit_global
<1>2. \A r \in Ranges : kern'[p][r] = IF r \in {GLOBAL_LOCK} THEN "wr" ELSE kern[p][r]
  BY <1>0, <1>1, HoldingIs
<1>3. Staged(kern'[p], num[p], glob[p], tx[p], "write")
  BY <1>0, <1>2, RangeFacts DEF Staged
<1>4. Backed(kern'[p], glob[p], tx[p], user[p])
  BY <1>0, <1>2, RangeFacts DEF Backed
<1>5. tx' = [tx EXCEPT ![p] = tx[p]] /\ lost' \subseteq Procs
  BY <1>0, <1>1 DEF Typed
<1> QED BY <1>0, <1>1, <1>3, <1>4, <1>5, HoldStep

LEMMA CommitLockFailsKeeps ==
  ASSUME Inv, NEW p \in Procs, commit_lock_fails(p)
  PROVE  Inv'
<1>1. ~Pending(p)
  BY DEF Inv, commit_lock_fails, Own, Good, Staged, Pending
<1> QED BY <1>1, CancelledKeeps DEF commit_lock_fails

LEMMA CommitEndKeeps ==
  ASSUME Inv, NEW p \in Procs, commit_end(p)
  PROVE  Inv'
<1> DEFINE R == ToEnd \cup {TRANSACTION_LOCK}
                  \cup {l \in Lists : num[p] # 0 /\ lck[p][l].count # 0}
           S == R \cup {GLOBAL_LOCK}
<1>0. Typed /\ GLOBAL_LOCK \in Ranges
  BY RangeFacts DEF Inv
<1>1. ~Pending(p)
  BY DEF Inv, commit_end, Own, Good, Staged, Pending
<1>2. Cancelled(p) = Holding(p, R, "none")
  BY DEF Cancelled
<1>3. kern' = [Holding(p, R, "none") EXCEPT ![p][GLOBAL_LOCK] = "none"]
  BY <1>2 DEF commit_end, Cancel
<1> HIDE DEF R
<1>4. [Holding(p, R, "none") EXCEPT ![p][GLOBAL_LOCK] = "none"] = Holding(p, S, "none")
  BY <1>0 DEF Holding, Typed, Locks
<1> HIDE DEF S
<1> QED BY <1>1, <1>3, <1>4, CancelKeeps DEF Cancel, commit_end

LEMMA CommitSyncFailsKeeps ==
  ASSUME Inv, NEW p \in Procs, commit_sync_fails(p)
  PROVE  Inv'
<1> DEFINE x == [tx[p] EXCEPT !.written = TRUE]
<1>0. /\ Own(p) /\ Typed /\ "idle" \in Stages /\ tx[p] \in Transactions
  BY DEF Inv, Stages, Typed
<1>1. x \in Transactions /\ x.on = tx[p].on
  BY <1>0 DEF Transactions
<1>2. /\ tx' = [tx EXCEPT ![p] = x] /\ pc' = [pc EXCEPT ![p] = "idle"]
      /\ UNCHANGED <<kern, lck, num, glob, user, lost>>
  BY DEF commit_sync_fails
<1> HIDE DEF x
<1>3. Staged(kern'[p], num[p], glob[p], x, "idle") /\ Backed(kern'[p], glob[p], x, user[p])
  BY <1>0, <1>1, <1>2 DEF Own, Good, Staged, Backed
<1>4. Allowed(p) /\ kern' \in [Procs -> Locks] /\ lost' \subseteq Procs
  BY <1>0, <1>2 DEF Allowed, Typed
<1> QED BY <1>0, <1>1, <1>2, <1>3, <1>4, QuietStep

----------------------------------------------------------------------------
(* Open and close.                                                         *)

LEMMA OpenKeeps ==
  ASSUME Inv, NEW p \in Procs, tdb_open(p)
  PROVE  Inv'
<1>0. /\ Own(p) /\ Typed /\ pc[p] = "closed" /\ "wr" \in Modes /\ "opening" \in Stages
      /\ ~tx[p].on /\ tx[p] \in Transactions /\ num[p] = 0 /\ glob[p].count = 0
  BY DEF Inv, tdb_open, Modes, Stages, Own, Good, Staged, Typed
<1>1. /\ kern' = Holding(p, {GLOBAL_LOCK}, "wr")
      /\ Grants(p, {GLOBAL_LOCK}, "wr") /\ ACTIVE_LOCK \notin {GLOBAL_LOCK}
      /\ pc' = [pc EXCEPT ![p] = "opening"] /\ UNCHANGED <<lck, num, glob, tx, user, lost>>
  BY RangeFacts DEF tdb_open
<1>2. \A r \in Ranges : kern'[p][r] = IF r \in {GLOBAL_LOCK} THEN "wr" ELSE kern[p][r]
  BY <1>0, <1>1, HoldingIs
<1>3. Staged(kern'[p], num[p], glob[p], tx[p], "opening")
  BY <1>0, <1>2, RangeFacts DEF Staged
<1>4. Backed(kern'[p], glob[p], tx[p], user[p])
  BY <1>0, NothingHeld, RangeFacts DEF Backed
<1>5. tx' = [tx EXCEPT ![p] = tx[p]] /\ lost' \subseteq Procs
  BY <1>0, <1>1 DEF Typed
<1> QED BY <1>0, <1>1, <1>3, <1>4, <1>5, HoldStep

(* The descriptor of p is closed, and with it go all its locks.            *)
LEMMA LosesAll ==
  ASSUME Typed, NEW p \in Procs, kern' = [kern EXCEPT ![p] = NoLocks]
  PROVE  /\ kern' \in [Procs -> Locks] /\ Allowed(p)
         /\ \A q \in Procs \ {p} : kern'[q] = kern[q]
         /\ \A r \in Ranges : kern'[p][r] = "none"
BY DEF Typed, NoLocks, Locks, Modes, Allowed

LEMMA OpenRestKeeps ==
  ASSUME Inv, NEW p \in Procs, open_rest(p)
  PROVE  Inv'
<1> DEFINE a == IF ClearFirst THEN "rd" ELSE "none"
           k == [NoLocks EXCEPT ![ACTIVE_LOCK] = a]
<1>0. /\ Own(p) /\ Typed /\ pc[p] = "opening" /\ "idle" \in Stages
      /\ ~tx[p].on /\ tx[p] \in Transactions /\ num[p] = 0 /\ glob[p].count = 0
  BY DEF Inv, open_rest, Stages, Own, Good, Staged, Typed
<1>1. /\ kern' = [kern EXCEPT ![p] = k]
      /\ pc' = [pc EXCEPT ![p] = "idle"] /\ UNCHANGED <<lck, num, glob, tx, user>>
      /\ lost' = IF Truncates(p) THEN lost \cup {q \in Procs : IsOpen(q)} ELSE lost
  BY DEF open_rest
<1>2. a \in {"rd", "none"}
  OBVIOUS
<1> HIDE DEF a
<1>3. /\ k \in Locks /\ k[ACTIVE_LOCK] = a
      /\ \A r \in Ranges : r # ACTIVE_LOCK => k[r] = "none"
  BY <1>2, RangeFacts DEF NoLocks, Locks, Modes
<1> HIDE DEF k
<1>4. /\ kern' \in [Procs -> Locks] /\ kern'[p] = k
      /\ \A q \in Procs \ {p} : kern'[q] = kern[q]
  BY <1>0, <1>1, <1>3 DEF Typed
<1>5. Allowed(p)
  <2>1. Grants(p, {ACTIVE_LOCK}, "rd")
    <3>1. \A q \in Procs : kern[q][ACTIVE_LOCK] \in Modes \ {"wr"}
      BY <1>0, RangeFacts DEF Inv, ActiveShared, Typed, Locks
    <3> QED BY <3>1 DEF Grants, Modes
  <2> QED BY <1>2, <1>3, <1>4, <2>1 DEF Allowed
<1>6. Staged(kern'[p], num[p], glob[p], tx[p], "idle")
  BY DEF Staged
<1>7. Backed(kern'[p], glob[p], tx[p], user[p])
  BY <1>0, NothingHeld, RangeFacts DEF Backed
<1>8. tx' = [tx EXCEPT ![p] = tx[p]] /\ lost' \subseteq Procs
  BY <1>0, <1>1 DEF Typed
<1> QED BY <1>0, <1>1, <1>4, <1>5, <1>6, <1>7, <1>8, QuietStep

LEMMA OpenAgainKeeps ==
  ASSUME Inv, Disciplined, NEW p \in Procs, tdb_open_again(p)
  PROVE  Inv'
<1>0. /\ Own(p) /\ Typed /\ pc[p] = "idle" /\ "idle" \in Stages
      /\ ~tx[p].on /\ tx[p] \in Transactions /\ num[p] = 0 /\ glob[p].count = 0
  BY DEF Inv, tdb_open_again, Stages, Typed, Idle, Free, Pending, May, Disciplined
<1>1. /\ kern' = [kern EXCEPT ![p] = NoLocks]
      /\ UNCHANGED <<lck, num, glob, tx, pc, user>>
      /\ lost' = IF Truncates(p) THEN lost \cup {q \in Procs : IsOpen(q)} ELSE lost
  BY DEF tdb_open_again
<1>2. /\ kern' \in [Procs -> Locks] /\ Allowed(p)
      /\ \A q \in Procs \ {p} : kern'[q] = kern[q]
  BY <1>0, <1>1, LosesAll
<1>3. Staged(kern'[p], num[p], glob[p], tx[p], "idle")
  BY DEF Staged
<1>4. Backed(kern'[p], glob[p], tx[p], user[p])
  BY <1>0, NothingHeld, RangeFacts DEF Backed
<1>5. /\ tx' = [tx EXCEPT ![p] = tx[p]] /\ pc' = [pc EXCEPT ![p] = "idle"]
      /\ lost' \subseteq Procs
  BY <1>0, <1>1 DEF Typed
<1> QED BY <1>0, <1>1, <1>2, <1>3, <1>4, <1>5, QuietStep

LEMMA ReopenKeeps ==
  ASSUME Inv, NEW p \in Procs, tdb_reopen(p)
  PROVE  Inv'
<1>0. /\ Own(p) /\ Typed /\ "reopen" \in Stages
      /\ ~tx[p].on /\ tx[p] \in Transactions /\ num[p] = 0 /\ glob[p].count = 0
  BY DEF Inv, tdb_reopen, Stages, Typed, Free, Pending
<1>1. /\ kern' = [kern EXCEPT ![p] = NoLocks] /\ pc' = [pc EXCEPT ![p] = "reopen"]
      /\ UNCHANGED <<lck, num, glob, tx, user, lost>>
  BY DEF tdb_reopen
<1>2. /\ kern' \in [Procs -> Locks] /\ Allowed(p)
      /\ \A q \in Procs \ {p} : kern'[q] = kern[q]
  BY <1>0, <1>1, LosesAll
<1>3. Staged(kern'[p], num[p], glob[p], tx[p], "reopen")
  BY <1>0 DEF Staged
<1>4. Backed(kern'[p], glob[p], tx[p], user[p])
  BY <1>0, NothingHeld, RangeFacts DEF Backed
<1>5. tx' = [tx EXCEPT ![p] = tx[p]] /\ lost' \subseteq Procs
  BY <1>0, <1>1 DEF Typed
<1> QED BY <1>0, <1>1, <1>2, <1>3, <1>4, <1>5, QuietStep

LEMMA ReopenActiveKeeps ==
  ASSUME Inv, NEW p \in Procs, reopen_active(p)
  PROVE  Inv'
<1>0. /\ Own(p) /\ Typed /\ pc[p] = "reopen" /\ "idle" \in Stages /\ "rd" \in Modes
      /\ ~tx[p].on /\ tx[p] \in Transactions /\ num[p] = 0 /\ glob[p].count = 0
  BY DEF Inv, reopen_active, Stages, Typed, Own, Good, Staged, Modes
<1>1. /\ pc' = [pc EXCEPT ![p] = "idle"] /\ UNCHANGED <<lck, num, glob, tx, user, lost>>
      /\ \/ kern' = kern
         \/ kern' = Holding(p, {ACTIVE_LOCK}, "rd") /\ Grants(p, {ACTIVE_LOCK}, "rd")
  BY DEF reopen_active
<1>2. /\ kern' \in [Procs -> Locks] /\ Allowed(p)
      /\ \A q \in Procs \ {p} : kern'[q] = kern[q]
  <2>1. CASE kern' = kern
    BY <1>0, <2>1 DEF Typed, Allowed
  <2>2. CASE kern' = Holding(p, {ACTIVE_LOCK}, "rd") /\ Grants(p, {ACTIVE_LOCK}, "rd")
    <3>1. /\ kern' \in [Procs -> Locks]
          /\ \A q \in Procs \ {p} : kern'[q] = kern[q]
          /\ \A r \in Ranges :
               kern'[p][r] = IF r \in {ACTIVE_LOCK} THEN "rd" ELSE kern[p][r]
      BY <1>0, <2>2, HoldingIs
    <3>2. Allowed(p)
      BY <2>2, <3>1 DEF Allowed
    <3> QED BY <3>1, <3>2
  <2> QED BY <1>1, <2>1, <2>2
<1>3. Staged(kern'[p], num[p], glob[p], tx[p], "idle")
  BY DEF Staged
<1>4. Backed(kern'[p], glob[p], tx[p], user[p])
  BY <1>0, NothingHeld, RangeFacts DEF Backed
<1>5. tx' = [tx EXCEPT ![p] = tx[p]] /\ lost' \subseteq Procs
  BY <1>0, <1>1 DEF Typed
<1> QED BY <1>0, <1>1, <1>2, <1>3, <1>4, <1>5, QuietStep

(* A process that has nothing, and knows it.                               *)
LEMMA FreshIsGood ==
  /\ NoLocks \in Locks /\ NoRecs \in Records /\ NoGlobal \in Wholes
  /\ NoTx \in Transactions /\ NoUser \in Callers /\ "closed" \in Stages
  /\ Good(NoLocks, NoRecs, 0, NoGlobal, NoTx, "closed", NoUser)
<1>1. NoLocks \in Locks
  BY DEF NoLocks, Locks, Modes
<1>2. NoRecs \in Records
  BY LocksAssumption DEF NoRecs, Records, Modes
<1>3. NoGlobal \in Wholes /\ NoGlobal.count = 0
  BY LocksAssumption DEF NoGlobal, Wholes, Modes
<1>4. NoTx \in Transactions /\ ~NoTx.on
  BY LocksAssumption DEF NoTx, Transactions
<1>5. NoUser \in Callers
  BY LocksAssumption DEF NoUser, Callers, Modes
<1>6. Cardinality(Locked(NoRecs)) = 0
  <2>1. \A l \in Lists : NoRecs[l].count = 0
    BY DEF NoRecs
  <2> QED BY <1>2, <2>1, NoneLocked
<1>7. Counted(NoRecs, 0, NoGlobal, NoUser)
  BY <1>3, <1>6 DEF Counted, NoRecs, NoUser
<1>8. Staged(NoLocks, 0, NoGlobal, NoTx, "closed")
  BY <1>3, <1>4 DEF Staged
<1>9. Backed(NoLocks, NoGlobal, NoTx, NoUser)
  BY <1>3, <1>4, RangeFacts DEF Backed, NoUser
<1>10. "closed" \in Stages
  BY DEF Stages
<1> QED BY <1>1, <1>2, <1>3, <1>4, <1>5, <1>7, <1>8, <1>9, <1>10 DEF Good

LEMMA CloseKeeps ==
  ASSUME Inv, NEW p \in Procs, tdb_close(p)
  PROVE  Inv'
<1>0. Typed
  BY DEF Inv
<1>1. kern' = [kern EXCEPT ![p] = NoLocks]
  BY DEF tdb_close
<1>2. /\ kern' \in [Procs -> Locks] /\ Allowed(p)
      /\ \A q \in Procs \ {p} : kern'[q] = kern[q]
  BY <1>0, <1>1, LosesAll
<1>3. /\ lck' \in [Procs -> Records] /\ num' \in [Procs -> Nat]
      /\ glob' \in [Procs -> Wholes] /\ tx' \in [Procs -> Transactions]
      /\ pc' \in [Procs -> Stages] /\ user' \in [Procs -> Callers] /\ lost' \subseteq Procs
  BY <1>0, FreshIsGood DEF Typed, tdb_close
<1>4. /\ kern'[p] = NoLocks /\ lck'[p] = NoRecs /\ num'[p] = 0 /\ glob'[p] = NoGlobal
      /\ tx'[p] = NoTx /\ pc'[p] = "closed" /\ user'[p] = NoUser
  BY <1>0 DEF Typed, tdb_close
<1>5. Typed'
  BY <1>2, <1>3 DEF Typed
<1>6. Moves(p)
  BY <1>0 DEF tdb_close, Moves, Stands, Typed
<1>7. Own(p)'
  BY <1>4, FreshIsGood DEF Own
<1> QED BY <1>2, <1>5, <1>6, <1>7, OneMoves

----------------------------------------------------------------------------
(* The theorems.                                                           *)

LEMMA InitInv == Init => Inv
<1> SUFFICES ASSUME Init PROVE Inv
  OBVIOUS
<1>1. Typed
  BY FreshIsGood DEF Init, Typed
<1>2. Compatible /\ ActiveShared
  BY RangeFacts DEF Init, Compatible, ActiveShared, NoLocks
<1>3. ASSUME NEW p \in Procs PROVE Own(p)
  <2>1. /\ kern[p] = NoLocks /\ lck[p] = NoRecs /\ num[p] = 0 /\ glob[p] = NoGlobal
        /\ tx[p] = NoTx /\ pc[p] = "closed" /\ user[p] = NoUser
    BY DEF Init
  <2> QED BY <2>1, FreshIsGood DEF Own
<1> QED BY <1>1, <1>2, <1>3 DEF Inv

LEMMA NextInv ==
  ASSUME Inv, Disciplined, [Next]_vars
  PROVE  Inv'
<1>1. ASSUME NEW p \in Procs, ListStep(p) PROVE Inv'
  BY <1>1, LockKeeps, LockAgainKeeps, UnlockKeeps DEF ListStep
<1>2. ASSUME NEW p \in Procs, AllStep(p) PROVE Inv'
  BY <1>2, LockallKeeps, LockallAgainKeeps, UnlockallKeeps DEF AllStep
<1>3. ASSUME NEW p \in Procs, TransactionStep(p) PROVE Inv'
  BY <1>3, NestKeeps, StartKeeps, StartReadKeeps, StartFailsKeeps, TransactionCancelKeeps,
     TransactionCommitKeeps, CommitUpgradeKeeps, CommitGlobalKeeps, CommitLockFailsKeeps,
     CommitEndKeeps, CommitSyncFailsKeeps DEF TransactionStep
<1>4. ASSUME NEW p \in Procs, OpenStep(p) PROVE Inv'
  BY <1>4, OpenKeeps, OpenRestKeeps, OpenAgainKeeps, CloseKeeps, ReopenKeeps,
     ReopenActiveKeeps DEF OpenStep
<1>5. CASE UNCHANGED vars
  BY <1>5 DEF Inv, Typed, Compatible, ActiveShared, Own, vars
<1> QED BY <1>1, <1>2, <1>3, <1>4, <1>5 DEF Next

LEMMA InvTypeOK == Inv => TypeOK
<1> SUFFICES ASSUME Inv PROVE TypeOK
  OBVIOUS
<1>1. Typed
  BY DEF Inv
<1>2. ASSUME NEW p \in Procs
      PROVE  /\ \A l \in Lists : /\ lck[p][l].count \in 0 .. MaxCount
                                 /\ (lck[p][l].count = 0) = (lck[p][l].ltype = "none")
             /\ num[p] \in Nat
             /\ num[p] = 0 <=> \A l \in Lists : lck[p][l].count = 0
             /\ glob[p].count \in 0 .. MaxCount
             /\ tx[p].nesting \in 0 .. MaxNest
  <2>1. Counted(lck[p], num[p], glob[p], user[p]) /\ lck[p] \in Records
    BY <1>1 DEF Inv, Own, Good, Typed
  <2>2. num[p] = 0 <=> \A l \in Lists : lck[p][l].count = 0
    BY <2>1, NoneLocked DEF Counted
  <2>3. \A l \in Lists : /\ lck[p][l].count \in 0 .. MaxCount
                         /\ (lck[p][l].count = 0) = (lck[p][l].ltype = "none")
    BY <2>1 DEF Counted, Records
  <2>4. num[p] \in Nat /\ glob[p].count \in 0 .. MaxCount /\ tx[p].nesting \in 0 .. MaxNest
    BY <1>1 DEF Typed, Wholes, Transactions
  <2> QED BY <2>2, <2>3, <2>4
<1>3. kern \in [Procs -> [Ranges -> {"none", "rd", "wr"}]] /\ lost \subseteq Procs
  BY <1>1 DEF Typed, Locks, Modes
<1> QED BY <1>2, <1>3 DEF TypeOK

(* What a process that writes or reads a chain outside a transaction has   *)
(* in the kernel.                                                          *)
LEMMA WritesHolds ==
  ASSUME Inv, NEW p \in Procs, NEW l \in Chains
  PROVE  /\ Writes(p, l) /\ ~tx[p].on => kern[p][l] = "wr"
         /\ Reads(p, l) /\ ~tx[p].on => kern[p][l] # "none"
         /\ tx[p].on => kern[p][l] # "none"
<1>1. Backed(kern[p], glob[p], tx[p], user[p])
  BY DEF Inv, Own, Good
<1> QED BY <1>1, RangeFacts DEF Backed, Writes, Reads, Whole

LEMMA OneTransaction ==
  ASSUME Inv, NEW p \in Procs, NEW q \in Procs, p # q, tx[p].on
  PROVE  ~tx[q].on
<1>1. Backed(kern[p], glob[p], tx[p], user[p]) /\ Backed(kern[q], glob[q], tx[q], user[q])
  BY DEF Inv, Own, Good
<1>2. tx[q].on => kern[p][TRANSACTION_LOCK] = "wr" /\ kern[q][TRANSACTION_LOCK] = "wr"
  BY <1>1 DEF Backed
<1> QED BY <1>2, RangeFacts DEF Inv, Compatible

LEMMA InvChainExclusive == Inv => ChainExclusive
<1> SUFFICES ASSUME Inv, NEW p \in Procs, NEW q \in Procs, p # q, NEW l \in Chains,
                    Writes(p, l)
             PROVE  ~Writes(q, l) /\ (tx[p].on \/ ~Reads(q, l))
  BY DEF ChainExclusive
<1>1. l \in Ranges
  BY RangeFacts
<1>2. CASE tx[p].on
  <2>1. ~tx[q].on
    BY <1>2, OneTransaction
  <2>2. kern[p][l] # "none" /\ (Writes(q, l) => kern[q][l] = "wr")
    BY <1>2, <2>1, WritesHolds
  <2> QED BY <1>1, <1>2, <2>2 DEF Inv, Compatible
<1>3. CASE ~tx[p].on
  <2>1. kern[p][l] = "wr"
    BY <1>3, WritesHolds
  <2>2. kern[q][l] = "none"
    BY <1>1, <2>1 DEF Inv, Compatible
  <2>3. ~tx[q].on
    BY <2>2, WritesHolds
  <2>4. ~Writes(q, l) /\ ~Reads(q, l)
    BY <2>2, <2>3, WritesHolds
  <2> QED BY <2>4
<1> QED BY <1>2, <1>3

LEMMA InvTransactionAlone == Inv => TransactionAlone
<1> SUFFICES ASSUME Inv, NEW p \in Procs, NEW q \in Procs, p # q
             PROVE  /\ tx[p].on => ~tx[q].on /\ \A l \in Chains : ~Writes(q, l)
                    /\ pc[p] = "write" => /\ \A l \in Chains : ~Reads(q, l)
                                          /\ pc[q] # "opening"
  BY DEF TransactionAlone
<1>1. ASSUME tx[p].on, NEW l \in Chains PROVE ~tx[q].on /\ ~Writes(q, l)
  <2>1. ~tx[q].on
    BY <1>1, OneTransaction
  <2>2. kern[p][l] # "none" /\ (Writes(q, l) => kern[q][l] = "wr") /\ l \in Ranges
    BY <1>1, <2>1, WritesHolds, RangeFacts
  <2>3. ~Writes(q, l)
    BY <2>2 DEF Inv, Compatible
  <2> QED BY <2>1, <2>3
<1>2. tx[p].on => ~tx[q].on
  BY OneTransaction
<1>3. ASSUME pc[p] = "write" PROVE (\A l \in Chains : ~Reads(q, l)) /\ pc[q] # "opening"
  <2>1. /\ tx[p].on /\ kern[p][GLOBAL_LOCK] = "wr" /\ \A r \in ToEnd : kern[p][r] = "wr"
        /\ pc[q] = "opening" => kern[q][GLOBAL_LOCK] = "wr"
    BY <1>3 DEF Inv, Own, Good, Staged
  <2>2. ~tx[q].on
    BY <2>1, OneTransaction
  <2>3. ASSUME NEW l \in Chains PROVE ~Reads(q, l)
    <3>1. kern[p][l] = "wr" /\ l \in Ranges
      BY <2>1, RangeFacts
    <3>2. kern[q][l] = "none"
      BY <3>1 DEF Inv, Compatible
    <3> QED BY <2>2, <3>2, WritesHolds
  <2>4. pc[q] # "opening"
    BY <2>1, RangeFacts DEF Inv, Compatible
  <2> QED BY <2>3, <2>4
<1> QED BY <1>1, <1>2, <1>3

(* The invariant above holds in every state of the locks, for any number   *)
(* of processes and chains, while callers keep to the library's rules.     *)
THEOREM LocksInvariant == Disciplined => (Spec => []Inv)
<1> SUFFICES ASSUME Disciplined PROVE Spec => []Inv
  OBVIOUS
<1>1. Init => Inv
  BY InitInv
<1>2. Inv /\ [Next]_vars => Inv'
  BY NextInv
<1> QED BY <1>1, <1>2, PTL DEF Spec

(* The three parts of LocksSound at once: a chain granted for writing is   *)
(* its owner's alone, a transaction is alone with what it has read, and    *)
(* num_locks agrees with the records (tdb_lock, tdb_unlock, _tdb_lockall,  *)
(* tdb_transaction_start, tdb_transaction_commit).                         *)
THEOREM LocksAreSound == Disciplined => (Spec => []LocksSound)
<1> SUFFICES ASSUME Disciplined PROVE Spec => []LocksSound
  OBVIOUS
<1>1. Inv => LocksSound
  BY InvTypeOK, InvChainExclusive, InvTransactionAlone DEF LocksSound
<1>2. Spec => []Inv
  BY LocksInvariant
<1> QED BY <1>1, <1>2, PTL

----------------------------------------------------------------------------
(* The locks that opening takes.                                           *)

(* With TDB_CLEAR_IF_FIRST an open database has ACTIVE_LOCK; nothing has   *)
(* been truncated under anybody.                                           *)
Joined(q) == ClearFirst /\ IsOpen(q) => pc[q] # "reopen" /\ kern[q][ACTIVE_LOCK] # "none"
JoinedInv == (\A q \in Procs : Joined(q)) /\ lost = {}

(* The two locks of an open are not among those the other calls take.      *)
Fixed(r) == \A q \in Procs : kern'[q][r] = kern[q][r]

LEMMA HoldingFixes ==
  ASSUME Typed, NEW p \in Procs, NEW R, NEW t \in Modes, NEW r \in Ranges \ R,
         kern' = Holding(p, R, t)
  PROVE  Fixed(r)
BY HoldingIs DEF Fixed

LEMMA ListsFix ==
  ASSUME Typed, NEW p \in Procs, ListStep(p) \/ AllStep(p)
  PROVE  Fixed(ACTIVE_LOCK) /\ Fixed(GLOBAL_LOCK) /\ pc' = pc /\ lost' = lost
<1>1. pc' = pc /\ lost' = lost
  BY DEF ListStep, AllStep, tdb_lock, tdb_lock_again, tdb_unlock, tdb_lockall,
     tdb_lockall_again, tdb_unlockall
<1>2. kern' = kern \/ \E R \in SUBSET Lists, t \in Modes : kern' = Holding(p, R, t)
  <2>1. ASSUME NEW R \in SUBSET Lists, NEW t \in Modes, kern' = brlock(p, R, t)
        PROVE  kern' = kern \/ kern' = Holding(p, R, t)
    BY <2>1 DEF brlock
  <2>2. ASSUME NEW l \in Lists, NEW t \in Types, tdb_lock(p, l, t)
        PROVE  {l} \in SUBSET Lists /\ t \in Modes /\ kern' = brlock(p, {l}, t)
    BY <2>2 DEF tdb_lock, Types, Modes
  <2>3. ASSUME NEW l \in Lists, tdb_unlock(p, l)
        PROVE  {l} \in SUBSET Lists /\ "none" \in Modes
               /\ (kern' = kern \/ kern' = brlock(p, {l}, "none"))
    BY <2>3 DEF tdb_unlock, Modes
  <2>4. ASSUME NEW t \in Types, tdb_lockall(p, t)
        PROVE  Chains \in SUBSET Lists /\ t \in Modes /\ kern' = brlock(p, Chains, t)
    BY <2>4, RangeFacts DEF tdb_lockall, Types, Modes
  <2>5. ASSUME tdb_unlockall(p)
        PROVE  Chains \in SUBSET Lists /\ "none" \in Modes
               /\ (kern' = kern \/ kern' = brlock(p, Chains, "none"))
    BY <2>5, RangeFacts DEF tdb_unlockall, Modes
  <2>6. ASSUME NEW l, NEW t, tdb_lock_again(p, l, t) \/ tdb_lockall_again(p, t)
        PROVE  kern' = kern
    BY <2>6 DEF tdb_lock_again, tdb_lockall_again
  <2> QED BY <2>1, <2>2, <2>3, <2>4, <2>5, <2>6 DEF ListStep, AllStep
<1>3. CASE kern' = kern
  BY <1>1, <1>3 DEF Fixed
<1>4. ASSUME NEW R \in SUBSET Lists, NEW t \in Modes, kern' = Holding(p, R, t)
      PROVE  Fixed(ACTIVE_LOCK) /\ Fixed(GLOBAL_LOCK)
  <2>1. ACTIVE_LOCK \in Ranges \ R /\ GLOBAL_LOCK \in Ranges \ R
    BY RangeFacts
  <2> QED BY <1>4, <2>1, HoldingFixes
<1> QED BY <1>1, <1>2, <1>3, <1>4

(* A step of a transaction stays out of ACTIVE_LOCK, and of GLOBAL_LOCK    *)
(* but where the commit takes it and gives it up.                          *)
LEMMA TransactionsFix ==
  ASSUME Typed, NEW p \in Procs, TransactionStep(p)
  PROVE  /\ Fixed(ACTIVE_LOCK) /\ lost' = lost
         /\ Fixed(GLOBAL_LOCK) \/ commit_global(p) \/ commit_end(p)
         /\ pc'[p] \notin {"closed", "opening", "reopen"} \/ pc'[p] = pc[p]
         /\ pc[p] \notin {"closed", "opening", "reopen"}
         /\ \A q \in Procs \ {p} : pc'[q] = pc[q]
<1> DEFINE R == ToEnd \cup {TRANSACTION_LOCK}
                  \cup {l \in Lists : num[p] # 0 /\ lck[p][l].count # 0}
<1>1. /\ ACTIVE_LOCK \in Ranges \ R /\ GLOBAL_LOCK \in Ranges \ R
      /\ ACTIVE_LOCK \in Ranges \ ToEnd /\ GLOBAL_LOCK \in Ranges \ ToEnd
      /\ ACTIVE_LOCK \in Ranges \ {GLOBAL_LOCK}
      /\ ACTIVE_LOCK \in Ranges \ {TRANSACTION_LOCK}
      /\ GLOBAL_LOCK \in Ranges \ {TRANSACTION_LOCK}
      /\ ACTIVE_LOCK \in Ranges \ (ToEnd \cup {TRANSACTION_LOCK})
      /\ GLOBAL_LOCK \in Ranges \ (ToEnd \cup {TRANSACTION_LOCK})
      /\ "none" \in Modes /\ "rd" \in Modes /\ "wr" \in Modes
  BY RangeFacts DEF Modes
<1>2. pc \in [Procs -> Stages]
  BY DEF Typed
<1>3. Cancelled(p) = Holding(p, R, "none")
  BY DEF Cancelled
<1> HIDE DEF R
<1>4. ASSUME Cancel(p, Cancelled(p)), pc[p] \notin {"closed", "opening", "reopen"}
      PROVE  /\ Fixed(ACTIVE_LOCK) /\ Fixed(GLOBAL_LOCK) /\ lost' = lost
             /\ pc'[p] = "idle" /\ \A q \in Procs \ {p} : pc'[q] = pc[q]
  BY <1>1, <1>2, <1>3, <1>4, HoldingFixes DEF Cancel
<1>5. CASE tdb_transaction_nest(p)
  BY <1>5 DEF tdb_transaction_nest, Fixed, Idle
<1>6. CASE tdb_transaction_start(p)
  BY <1>1, <1>2, <1>6, HoldingFixes DEF tdb_transaction_start, Idle
<1>7. CASE start_read(p)
  BY <1>1, <1>2, <1>7, HoldingFixes DEF start_read
<1>8. CASE start_fails(p)
  BY <1>1, <1>2, <1>8, HoldingFixes DEF start_fails
<1>9. CASE tdb_transaction_cancel(p)
  BY <1>4, <1>9 DEF tdb_transaction_cancel, Idle, Fixed
<1>10. CASE tdb_transaction_commit(p)
  BY <1>2, <1>4, <1>10 DEF tdb_transaction_commit, Idle, Fixed
<1>11. CASE commit_upgrade(p)
  BY <1>1, <1>2, <1>11, HoldingFixes DEF commit_upgrade
<1>12. CASE commit_global(p)
  BY <1>1, <1>2, <1>12, HoldingFixes DEF commit_global
<1>13. CASE commit_lock_fails(p)
  BY <1>4, <1>13 DEF commit_lock_fails
<1>14. CASE commit_end(p)
  <2>1. kern' = [Holding(p, R, "none") EXCEPT ![p][GLOBAL_LOCK] = "none"]
    BY <1>3, <1>14 DEF commit_end, Cancel
  <2>2. \A q \in Procs : kern'[q][ACTIVE_LOCK] = Holding(p, R, "none")[q][ACTIVE_LOCK]
    BY <1>1, <2>1, HoldingIs DEF Locks
  <2>3. Fixed(ACTIVE_LOCK)
    BY <1>1, <2>2, HoldingIs DEF Fixed
  <2> QED BY <1>2, <1>14, <2>3 DEF commit_end, Cancel
<1>15. CASE commit_sync_fails(p)
  BY <1>2, <1>15 DEF commit_sync_fails, Fixed
<1> QED BY <1>5, <1>6, <1>7, <1>8, <1>9, <1>10, <1>11, <1>12, <1>13, <1>14, <1>15
        DEF TransactionStep

(* No open truncates a database that a process has open, however opens,    *)
(* closes and crashes interleave, when nobody reopens (tdb_open_ex,        *)
(* TDB_CLEAR_IF_FIRST).                                                    *)
THEOREM ClearsOnlyIfFirst ==
  Disciplined /\ "reopen" \notin Liberties => (Spec => []ClearedOnlyIfFirst)
<1> SUFFICES ASSUME Disciplined, "reopen" \notin Liberties
             PROVE  Spec => []ClearedOnlyIfFirst
  OBVIOUS
<1>1. Init => JoinedInv
  BY DEF Init, JoinedInv, Joined, IsOpen
<1>2. Inv /\ JoinedInv /\ [Next]_vars => JoinedInv'
  <2> SUFFICES ASSUME Inv, JoinedInv, [Next]_vars PROVE JoinedInv'
    OBVIOUS
  <2>1. Typed /\ ACTIVE_LOCK \in Ranges
    BY RangeFacts DEF Inv
  <2>2. ASSUME NEW p \in Procs, ListStep(p) \/ AllStep(p) PROVE JoinedInv'
    BY <2>1, <2>2, ListsFix DEF JoinedInv, Joined, IsOpen, Fixed
  <2>3. ASSUME NEW p \in Procs, TransactionStep(p) PROVE JoinedInv'
    BY <2>1, <2>3, TransactionsFix DEF JoinedInv, Joined, IsOpen, Fixed
  <2>4. ASSUME NEW p \in Procs, OpenStep(p) PROVE JoinedInv'
    <3> USE DEF JoinedInv, Joined, IsOpen
    <3>1. CASE tdb_open(p)
      <4>1. Fixed(ACTIVE_LOCK)
        BY <2>1, <3>1, RangeFacts, HoldingFixes DEF tdb_open, Modes
      <4> QED BY <2>1, <3>1, <4>1 DEF tdb_open, Fixed, Typed
    <3>2. CASE open_rest(p)
      <4>1. Truncates(p) => {q \in Procs : IsOpen(q)} = {}
        <5>1. Truncates(p) => \A q \in Procs : q # p => kern[q][ACTIVE_LOCK] = "none"
          BY DEF Truncates, Grants
        <5>2. ~IsOpen(p) /\ (Truncates(p) => ClearFirst)
          BY <3>2 DEF open_rest, Truncates
        <5> QED BY <5>1, <5>2
      <4>2. lost' = {}
        BY <3>2, <4>1 DEF open_rest
      <4>3. /\ pc'[p] = "idle"
            /\ ClearFirst => kern'[p][ACTIVE_LOCK] = "rd"
            /\ \A q \in Procs \ {p} : pc'[q] = pc[q] /\ kern'[q] = kern[q]
        BY <2>1, <3>2 DEF open_rest, Typed, NoLocks, Locks
      <4> QED BY <4>2, <4>3
    <3>3. CASE tdb_open_again(p)
      BY <2>1, <3>3 DEF tdb_open_again, May, Disciplined, Truncates
    <3>4. CASE tdb_close(p)
      BY <2>1, <3>4 DEF tdb_close, Typed
    <3>5. CASE tdb_reopen(p)
      BY <2>1, <3>5 DEF tdb_reopen, May
    <3>6. CASE reopen_active(p)
      <4>1. ~ClearFirst
        BY <3>6 DEF reopen_active
      <4> QED BY <3>6, <4>1 DEF reopen_active
    <3> QED BY <2>4, <3>1, <3>2, <3>3, <3>4, <3>5, <3>6 DEF OpenStep
  <2>5. CASE UNCHANGED vars
    BY <2>5 DEF vars, JoinedInv, Joined, IsOpen
  <2> QED BY <2>2, <2>3, <2>4, <2>5 DEF Next
<1>3. JoinedInv => ClearedOnlyIfFirst
  BY DEF JoinedInv, ClearedOnlyIfFirst
<1>4. Spec => []Inv
  BY LocksInvariant
<1> QED BY <1>1, <1>2, <1>3, <1>4, PTL DEF Spec

(* Nobody keeps GLOBAL_LOCK after its call has returned, when no sync of a *)
(* commit fails (tdb_open_ex, tdb_transaction_commit).                     *)
THEOREM GlobalIsReleased ==
  Disciplined /\ "sync" \notin Liberties => (Spec => []GlobalReleased)
<1> SUFFICES ASSUME Disciplined, "sync" \notin Liberties
             PROVE  Spec => []GlobalReleased
  OBVIOUS
<1>1. Init => GlobalReleased
  BY RangeFacts DEF Init, GlobalReleased, NoLocks
<1>2. Inv /\ GlobalReleased /\ [Next]_vars => GlobalReleased'
  <2> SUFFICES ASSUME Inv, GlobalReleased, [Next]_vars PROVE GlobalReleased'
    OBVIOUS
  <2>1. Typed /\ GLOBAL_LOCK \in Ranges
    BY RangeFacts DEF Inv
  <2>2. ASSUME NEW p \in Procs, ListStep(p) \/ AllStep(p) PROVE GlobalReleased'
    BY <2>1, <2>2, ListsFix DEF GlobalReleased, Fixed
  <2>3. ASSUME NEW p \in Procs, TransactionStep(p) PROVE GlobalReleased'
    <3>1. \A q \in Procs \ {p} : pc'[q] = pc[q]
      BY <2>1, <2>3, TransactionsFix
    <3>2. CASE commit_global(p)
      <4>1. /\ pc'[p] = "write"
            /\ \A q \in Procs \ {p} : kern'[q] = kern[q]
        BY <2>1, <3>2, HoldingIs DEF commit_global, Typed, Modes
      <4> QED BY <3>1, <4>1 DEF GlobalReleased
    <3>3. CASE commit_end(p)
      <4>1. /\ kern' = [Cancelled(p) EXCEPT ![p][GLOBAL_LOCK] = "none"]
        BY <3>3 DEF commit_end, Cancel
      <4>2. /\ Cancelled(p) \in [Procs -> Locks]
            /\ \A q \in Procs \ {p} : Cancelled(p)[q] = kern[q]
        BY <2>1, HoldingIs DEF Cancelled, Modes
      <4>3. /\ kern'[p][GLOBAL_LOCK] = "none"
            /\ \A q \in Procs \ {p} : kern'[q] = kern[q]
        BY <2>1, <4>1, <4>2 DEF Locks
      <4> QED BY <3>1, <4>3 DEF GlobalReleased
    <3>4. CASE Fixed(GLOBAL_LOCK) /\ pc[p] \notin {"write", "opening"}
      BY <3>1, <3>4 DEF Fixed, GlobalReleased
    <3>5. CASE pc[p] = "write" /\ ~commit_end(p)
      BY <2>3, <3>5 DEF TransactionStep, tdb_transaction_nest, tdb_transaction_start,
         start_read, start_fails, tdb_transaction_cancel, tdb_transaction_commit, Idle,
         commit_upgrade, commit_global, commit_lock_fails, commit_sync_fails, May
    <3> QED BY <2>1, <2>3, <3>2, <3>3, <3>4, <3>5, TransactionsFix
  <2>4. ASSUME NEW p \in Procs, OpenStep(p) PROVE GlobalReleased'
    <3>1. CASE tdb_open(p)
      <4>1. \A q \in Procs \ {p} : kern'[q] = kern[q]
        BY <2>1, <3>1, HoldingIs DEF tdb_open, Modes
      <4> QED BY <2>1, <3>1, <4>1 DEF tdb_open, GlobalReleased, Typed
    <3>2. CASE open_rest(p)
      <4>1. /\ kern'[p][GLOBAL_LOCK] = "none"
            /\ \A q \in Procs \ {p} : pc'[q] = pc[q] /\ kern'[q] = kern[q]
        BY <2>1, <3>2, RangeFacts DEF open_rest, Typed, NoLocks, Locks
      <4> QED BY <4>1 DEF GlobalReleased
    <3>3. CASE tdb_open_again(p) \/ tdb_close(p) \/ tdb_reopen(p)
      <4>1. /\ kern' = [kern EXCEPT ![p] = NoLocks]
            /\ \A q \in Procs \ {p} : pc'[q] = pc[q]
        BY <2>1, <3>3 DEF tdb_open_again, tdb_close, tdb_reopen, Typed
      <4>2. /\ kern'[p][GLOBAL_LOCK] = "none"
            /\ \A q \in Procs \ {p} : kern'[q] = kern[q]
        BY <2>1, <4>1, LosesAll
      <4> QED BY <4>1, <4>2 DEF GlobalReleased
    <3>4. CASE reopen_active(p)
      <4>1. Fixed(GLOBAL_LOCK)
        <5>1. CASE kern' = kern
          BY <5>1 DEF Fixed
        <5>2. CASE kern' = Holding(p, {ACTIVE_LOCK}, "rd")
          <6>1. GLOBAL_LOCK \in Ranges \ {ACTIVE_LOCK} /\ "rd" \in Modes
            BY RangeFacts DEF Modes
          <6> QED BY <2>1, <5>2, <6>1, HoldingFixes
        <5> QED BY <3>4, <5>1, <5>2 DEF reopen_active
      <4>2. pc[p] = "reopen" /\ \A q \in Procs \ {p} : pc'[q] = pc[q]
        BY <2>1, <3>4 DEF reopen_active, Typed
      <4> QED BY <4>1, <4>2 DEF Fixed, GlobalReleased
    <3> QED BY <2>4, <3>1, <3>2, <3>3, <3>4 DEF OpenStep
  <2>5. CASE UNCHANGED vars
    BY <2>5 DEF vars, GlobalReleased
  <2> QED BY <2>2, <2>3, <2>4, <2>5 DEF Next
<1>3. Spec => []Inv
  BY LocksInvariant
<1> QED BY <1>1, <1>2, <1>3, PTL DEF Spec
=============================================================================
