----------------------------- MODULE TdbTraverse -----------------------------
(***************************************************************************)
(* The hash chains of lib/ext2fs/tdb.c and the walks over them: store,      *)
(* delete, append, the traversals that call back between records, and       *)
(* firstkey / nextkey.  A walker drops the chain lock between two records   *)
(* and keeps a read lock on the record it stands on; a delete that finds    *)
(* such a lock marks the record dead and leaves it for a later walk.        *)
(*                                                                          *)
(* What runs under one chain lock is one step, except the walk of firstkey  *)
(* and nextkey, which cleans dead records under a read lock.                *)
(***************************************************************************)
EXTENDS Integers, Sequences, FiniteSets

CONSTANTS
    Procs,      \* processes with the database open
    NChains,    \* hash_size
    Keys,
    KeyChain,   \* BUCKET(hash_fn(key))
    MaxVal,     \* values are 1 .. MaxVal, and a value is its own length
    NSlots,     \* bound: the records there is space for
    MaxDead,    \* max_dead_records
    Depth,      \* bound: traversals inside each other
    Walkers,    \* the processes that call tdb_firstkey and tdb_nextkey
    Absent      \* no key

ChainsAssumption ==
    /\ NChains \in Nat \ {0} /\ NSlots \in Nat
    /\ KeyChain \in [Keys -> 0 .. (NChains - 1)]
    /\ Absent \notin Keys

VARIABLES
    db,       \* the chains' heads and the records
    trav,     \* each process's traversals, the innermost last
    walk,     \* each process's tdb->travlocks: firstkey and nextkey
    rlock,    \* fcntl read locks on records
    tlock,    \* fcntl lock on TRANSACTION_LOCK
    twice     \* a record was freed that was not dead in its chain

vars == <<db, trav, walk, rlock, tlock, twice>>

-----------------------------------------------------------------------------
\* Records and chains

Hashes == 0 .. (NChains - 1)
Slots == 1 .. NSlots
Vals == 1 .. MaxVal
FreeRec == [key |-> Absent, val |-> 0, len |-> 0, next |-> 0, magic |-> "free"]

From(d, o) == LET W[n \in 0 .. NSlots] ==
                    IF n = 0 THEN o
                    ELSE IF W[n - 1] = 0 THEN 0 ELSE d.rec[W[n - 1]].next
              IN  W
OnChain(d, c) == {From(d, d.top[c])[n] : n \in 0 .. NSlots} \ {0}

\* The first record at or after o that is not in F, and those before it.
Steps(d, o, F) == LET W == From(d, o)
                  IN  CHOOSE n \in 0 .. NSlots :
                        W[n] \notin F /\ \A i \in 0 .. (n - 1) : W[i] \in F
Beyond(d, o, F) == From(d, o)[Steps(d, o, F)]
Passed(d, o, F) == {From(d, o)[i] : i \in 0 .. (Steps(d, o, F) - 1)}
FirstOf(d, c, S) == Beyond(d, d.top[c], Slots \ S)

WithMagic(d, magic) == {o \in Slots : d.rec[o].magic = magic}
Dead(d, c) == OnChain(d, c) \cap WithMagic(d, "dead")

tdb_find(d, k) ==
    FirstOf(d, KeyChain[k], {o \in WithMagic(d, "live") : d.rec[o].key = k})

\* Records F leave their chain and their space is freed.
Free(d, F) ==
    [top |-> [c \in Hashes |-> Beyond(d, d.top[c], F)],
     rec |-> [o \in Slots |-> IF o \in F THEN FreeRec
                              ELSE [d.rec[o] EXCEPT !.next = Beyond(d, @, F)]]]

-----------------------------------------------------------------------------
\* Locks

\* tdb_write_lock_record fails on the process's own traversals and on the
\* record locks of the others.
Own(p, o) == walk[p].off = o \/ \E i \in DOMAIN trav[p] : trav[p][i].off = o
Locked(p, o) == Own(p, o) \/ \E q \in Procs \ {p} : o \in rlock[q]

\* tdb_unlock_record: fcntl locks do not stack.
Standing(p, o) == Cardinality({i \in DOMAIN trav[p] : trav[p][i].off = o})
                  + (IF walk[p].off = o THEN 1 ELSE 0)
tdb_unlock_record_Always(p, o) == rlock[p] \ {o}
tdb_unlock_record(p, o) == IF Standing(p, o) = 1 THEN rlock[p] \ {o} ELSE rlock[p]

\* A chain lock is held across steps only by firstkey and nextkey.
CanWrite(p, c) == \A q \in Procs \ {p} : walk[q].held # c /\ (walk[q].in => walk[q].hash # c)
CanRead(p, c) == \A q \in Procs \ {p} : walk[q].held # c

Searching(p) == trav[p] # <<>> /\ trav[p][Len(trav[p])].off = 0
InCall(p) == walk[p].busy \/ Searching(p)
ReadOnly(p) == \E i \in DOMAIN trav[p] : trav[p][i].rw = "rd"
Writer(p, c) == ~InCall(p) /\ ~ReadOnly(p) /\ CanWrite(p, c)

-----------------------------------------------------------------------------
\* Store and delete

tdb_do_delete(d, p, o) ==
    IF Locked(p, o) THEN [d EXCEPT !.rec[o].magic = "dead"] ELSE Free(d, {o})

tdb_purge_dead(d, p, c) == Free(d, {o \in Dead(d, c) : ~Locked(p, o)})

tdb_delete_hash(d, p, k) ==
    LET c == KeyChain[k]
        e == IF MaxDead # 0 /\ Cardinality(Dead(d, c)) >= MaxDead
             THEN tdb_purge_dead(d, p, c) ELSE d
        o == tdb_find(e, k)
    IN  IF o = 0 THEN e
        ELSE IF MaxDead # 0 THEN [e EXCEPT !.rec[o].magic = "dead"]
        ELSE tdb_do_delete(e, p, o)

tdb_find_dead(d, c, len) ==
    IF MaxDead = 0 THEN 0
    ELSE FirstOf(d, c, {o \in Dead(d, c) : d.rec[o].len >= len})

Linked_First(d, c) == 0
Linked(d, c) == d.top[c]

\* A new record in front of its chain; without space the store fails.
Insert(d, k, v) ==
    LET c == KeyChain[k]
        space == WithMagic(d, "free")
        o == CHOOSE s \in space : \A x \in space : s <= x
    IN  IF space = {} THEN d
        ELSE [top |-> [d.top EXCEPT ![c] = o],
              rec |-> [d.rec EXCEPT ![o] = [key |-> k, val |-> v, len |-> v,
                                            next |-> Linked(d, c), magic |-> "live"]]]

Reuse(d, o, k, v) ==
    [d EXCEPT !.rec[o] = [@ EXCEPT !.key = k, !.val = v, !.magic = "live"]]

InPlace(d, k, v) == tdb_find(d, k) # 0 /\ d.rec[tdb_find(d, k)].len >= v

StoreNew(d, p, k, v) ==
    LET o == tdb_find_dead(d, KeyChain[k], v)
    IN  IF o # 0 THEN Reuse(d, o, k, v)
        ELSE Insert(IF MaxDead # 0 THEN tdb_purge_dead(d, p, KeyChain[k]) ELSE d, k, v)

StoreOver(d, p, k, v) ==
    IF InPlace(d, k, v) THEN [d EXCEPT !.rec[tdb_find(d, k)].val = v]
    ELSE StoreNew(tdb_delete_hash(d, p, k), p, k, v)

\* What every traversal owes: the records that stay where they are, those done
\* among them, and the keys that stay in the database.
Owed(gone, d) ==
    [p \in Procs |->
       [i \in DOMAIN trav[p] |->
          [trav[p][i] EXCEPT !.stay = @ \ gone, !.done = @ \ gone,
                             !.keep = {k \in @ : tdb_find(d, k) # 0}]]]

Change(d, gone) ==
    /\ db' = d
    /\ trav' = Owed(gone, d)
    /\ UNCHANGED <<walk, rlock, tlock, twice>>

tdb_store_insert(p, k, v) ==
    /\ Writer(p, KeyChain[k]) /\ tdb_find(db, k) = 0
    /\ Change(StoreNew(db, p, k, v), {})

tdb_store_replace(p, k, v) ==
    /\ Writer(p, KeyChain[k])
    /\ Change(StoreOver(db, p, k, v),
              IF InPlace(db, k, v) THEN {} ELSE {tdb_find(db, k)})

tdb_append(p, k) ==
    LET o == tdb_find(db, k)
        v == IF o = 0 THEN 1 ELSE db.rec[o].val + 1
    IN  /\ Writer(p, KeyChain[k]) /\ v \in Vals
        /\ Change(StoreOver(db, p, k, v), IF InPlace(db, k, v) THEN {} ELSE {o})

tdb_delete(p, k) ==
    /\ Writer(p, KeyChain[k]) /\ tdb_find(db, k) # 0
    /\ Change(tdb_delete_hash(db, p, k), {tdb_find(db, k)})

-----------------------------------------------------------------------------
\* Traversals

Top(p) == trav[p][Len(trav[p])]
SetTop(p, t) == [trav EXCEPT ![p] = [@ EXCEPT ![Len(@)] = t]]
Pop(p) == [trav EXCEPT ![p] = SubSeq(@, 1, Len(@) - 1)]

\* tdb_traverse or tdb_traverse_read: inside a read traversal both only read.
tdb_traverse(p, rw) ==
    LET mode == IF ReadOnly(p) THEN "rd" ELSE rw
    IN  /\ ~InCall(p) /\ Len(trav[p]) < Depth
        /\ \A q \in Procs \ {p} : tlock[q] = "none" \/ (mode = "rd" /\ tlock[q] = "rd")
        /\ tlock' = [tlock EXCEPT ![p] = mode]
        /\ trav' = [trav EXCEPT ![p] = Append(@,
             [hash |-> 0, off |-> 0, rw |-> mode, again |-> FALSE,
              stay |-> WithMagic(db, "live"), done |-> {},
              keep |-> {k \in Keys : tdb_find(db, k) # 0}])]
        /\ UNCHANGED <<db, walk, rlock, twice>>

\* next_hash_chain: the next chain that is not empty, seen without a lock.
NextChain_Again(d, h) == IF d.top[0] # 0 THEN 0 ELSE NChains
NextChain(d, h) ==
    IF \E c \in Hashes : c > h /\ d.top[c] # 0
    THEN CHOOSE c \in Hashes : /\ c > h /\ d.top[c] # 0
                               /\ \A x \in Hashes : x > h /\ d.top[x] # 0 => c <= x
    ELSE NChains

\* tdb_next_lock on one chain: leave the record, clean the dead ones that
\* follow, and lock the next live one, or go on to another chain.
tdb_next_lock(p) ==
    /\ trav[p] # <<>> /\ ~walk[p].busy /\ Top(p).hash < NChains
    /\ IF Top(p).rw = "wr" THEN CanWrite(p, Top(p).hash) ELSE CanRead(p, Top(p).hash)
    /\ LET t == Top(p)
           start == IF t.off = 0 THEN db.top[t.hash] ELSE db.rec[t.off].next
           dead == WithMagic(db, "dead")
           next == Beyond(db, start, dead)
           left == IF t.off = 0 THEN rlock[p] ELSE tdb_unlock_record(p, t.off)
       IN  /\ db' = IF t.rw = "rd" THEN db
                    ELSE Free(db, {o \in Passed(db, start, dead) : ~Locked(p, o)})
           /\ rlock' = [rlock EXCEPT ![p] = IF next = 0 THEN left ELSE left \cup {next}]
           /\ trav' = SetTop(p,
                IF next = 0
                THEN [t EXCEPT !.off = 0, !.hash = NextChain(db', t.hash)]
                ELSE [t EXCEPT !.off = next,
                               !.again = @ \/ next \in t.done,
                               !.done = @ \cup ({next} \cap t.stay),
                               !.keep = @ \ {db.rec[next].key}])
    /\ UNCHANGED <<walk, tlock, twice>>

\* The traversal has come to its end, and gives up the transaction lock.
traverse_end(p) ==
    /\ trav[p] # <<>> /\ Top(p).hash = NChains
    /\ trav' = Pop(p)
    /\ tlock' = [tlock EXCEPT ![p] = "none"]
    /\ UNCHANGED <<db, walk, rlock, twice>>

\* The callback asks to stop.
traverse_stop(p) ==
    /\ trav[p] # <<>> /\ ~walk[p].busy /\ Top(p).off # 0
    /\ rlock' = [rlock EXCEPT ![p] = tdb_unlock_record(p, Top(p).off)]
    /\ trav' = Pop(p)
    /\ tlock' = [tlock EXCEPT ![p] = "none"]
    /\ UNCHANGED <<db, walk, twice>>

-----------------------------------------------------------------------------
\* firstkey and nextkey

NoWalk == [hash |-> 0, off |-> 0, key |-> Absent, busy |-> FALSE,
           in |-> FALSE,      \* between the lock and the unlock of chain hash
           held |-> -1,       \* the chain of the old record, locked by nextkey
           cur |-> 0,         \* the record the walk looks at
           victim |-> 0, prev |-> 0, after |-> 0]     \* tdb_do_delete's locals

tdb_firstkey(p) ==
    /\ p \in Walkers /\ ~InCall(p)
    /\ rlock' = [rlock EXCEPT ![p] = tdb_unlock_record(p, walk[p].off)]
    /\ walk' = [walk EXCEPT ![p] = [NoWalk EXCEPT !.busy = TRUE]]
    /\ UNCHANGED <<db, trav, tlock, twice>>

\* tdb_nextkey of the key returned last: the record it stands on, if that still
\* has the key, and otherwise the record tdb_find gives.
tdb_nextkey(p) ==
    LET w == walk[p]
        same == w.off # 0 /\ db.rec[w.off].key = w.key
        o == IF same THEN w.off ELSE tdb_find(db, w.key)
        c == IF same THEN w.hash ELSE KeyChain[w.key]
        left == IF w.off = 0 THEN rlock[p] ELSE tdb_unlock_record(p, w.off)
    IN  /\ p \in Walkers /\ ~InCall(p) /\ ~ReadOnly(p) /\ w.key # Absent
        /\ CanWrite(p, c) /\ (w.off # 0 => CanWrite(p, w.hash))
        /\ rlock' = [rlock EXCEPT ![p] = IF same THEN @ ELSE IF o = 0 THEN left ELSE left \cup {o}]
        /\ walk' = [walk EXCEPT ![p] =
             IF o = 0 THEN NoWalk
             ELSE [NoWalk EXCEPT !.hash = c, !.off = o, !.busy = TRUE, !.held = c]]
        /\ UNCHANGED <<db, trav, tlock, twice>>

\* tdb_next_lock of these two, with F_RDLCK: lock the chain, ...
walk_lock(p) ==
    LET w == walk[p]
    IN  /\ w.busy /\ ~w.in /\ CanRead(p, w.hash)
        /\ rlock' = [rlock EXCEPT ![p] = IF w.off = 0 THEN @ ELSE tdb_unlock_record(p, w.off)]
        /\ walk' = [walk EXCEPT ![p].in = TRUE, ![p].off = 0,
                      ![p].cur = IF w.off = 0 THEN db.top[w.hash] ELSE db.rec[w.off].next]
        /\ UNCHANGED <<db, trav, tlock, twice>>

\* ... look at a record: the end of the chain, a record that is gone, a live
\* one to return, or a dead one to pass or to clean, ...
MayClean(p, o) == ~ReadOnly(p) /\ ~Locked(p, o)

walk_look(p) ==
    LET w == walk[p]
        o == w.cur
        chain == NextChain(db, w.hash)
        magic == IF o = 0 THEN "end" ELSE db.rec[o].magic
        prev == {x \in OnChain(db, w.hash) : db.rec[x].next = o}
    IN  /\ w.in /\ w.victim = 0
        /\ walk' = [walk EXCEPT ![p] =
             CASE magic = "end" /\ chain < NChains ->
                    [w EXCEPT !.hash = chain, !.in = FALSE]
               [] magic = "free" \/ (magic = "end" /\ chain = NChains) -> NoWalk
               [] magic = "live" ->
                    [NoWalk EXCEPT !.hash = w.hash, !.off = o, !.key = db.rec[o].key]
               [] magic = "dead" /\ MayClean(p, o) ->
                    [w EXCEPT !.cur = db.rec[o].next, !.victim = o, !.after = db.rec[o].next,
                              !.prev = IF prev = {} THEN 0 ELSE CHOOSE x \in prev : TRUE]
               [] OTHER -> [w EXCEPT !.cur = db.rec[o].next]]
        /\ rlock' = [rlock EXCEPT ![p] = IF magic = "live" THEN @ \cup {o} ELSE @]
        /\ UNCHANGED <<db, trav, tlock, twice>>

\* ... and unlink and free the dead one.
walk_clean(p) ==
    LET w == walk[p]
    IN  /\ w.victim # 0
        /\ twice' = (twice \/ w.victim \notin Dead(db, w.hash))
        /\ db' = [top |-> IF w.prev = 0 THEN [db.top EXCEPT ![w.hash] = w.after] ELSE db.top,
                  rec |-> [o \in Slots |-> IF o = w.victim THEN FreeRec
                                           ELSE IF o = w.prev THEN [db.rec[o] EXCEPT !.next = w.after]
                                           ELSE db.rec[o]]]
        /\ walk' = [walk EXCEPT ![p].victim = 0, ![p].prev = 0, ![p].after = 0]
        /\ UNCHANGED <<trav, rlock, tlock>>

-----------------------------------------------------------------------------
Init ==
    /\ db = [top |-> [c \in Hashes |-> 0], rec |-> [o \in Slots |-> FreeRec]]
    /\ trav = [p \in Procs |-> <<>>]
    /\ walk = [p \in Procs |-> NoWalk]
    /\ rlock = [p \in Procs |-> {}]
    /\ tlock = [p \in Procs |-> "none"]
    /\ twice = FALSE

Update(p) ==
    \E k \in Keys :
      \/ \E v \in Vals : tdb_store_insert(p, k, v)
      \/ \E v \in Vals : tdb_store_replace(p, k, v)
      \/ tdb_append(p, k)
      \/ tdb_delete(p, k)

Traverse(p) ==
    \/ \E rw \in {"rd", "wr"} : tdb_traverse(p, rw)
    \/ tdb_next_lock(p) \/ traverse_end(p) \/ traverse_stop(p)

KeyWalk(p) ==
    \/ tdb_firstkey(p) \/ tdb_nextkey(p)
    \/ walk_lock(p) \/ walk_look(p) \/ walk_clean(p)

Next == \E p \in Procs : Update(p) \/ Traverse(p) \/ KeyWalk(p)

Spec == Init /\ [][Next]_vars

\* A traversal goes on: its callback returns and the loop calls tdb_next_lock.
LiveSpec == Spec /\ \A p \in Procs : WF_vars(tdb_next_lock(p)) /\ WF_vars(traverse_end(p))

-----------------------------------------------------------------------------
\* Properties

\* Every variable keeps its type.
TypeOK ==
    /\ db.top \in [Hashes -> 0 .. NSlots]
    /\ \A o \in Slots : /\ db.rec[o].magic \in {"free", "live", "dead"}
                        /\ db.rec[o].next \in 0 .. NSlots
                        /\ db.rec[o].val <= db.rec[o].len
    /\ \A p \in Procs : rlock[p] \subseteq Slots /\ tlock[p] \in {"none", "rd", "wr"}

\* A record is in the chain of its key, in one chain only, and no key has two
\* live records, whatever was deleted under walkers, reused or cleaned
\* (tdb_store, tdb_do_delete, tdb_next_lock).
ChainsSound ==
    /\ \A c \in Hashes : \A o \in OnChain(db, c) :
         db.rec[o].magic # "free" /\ KeyChain[db.rec[o].key] = c
    /\ \A o \in Slots : db.rec[o].magic # "free" => \E c \in Hashes : o \in OnChain(db, c)
    /\ \A o, x \in WithMagic(db, "live") : db.rec[o].key = db.rec[x].key => o = x

\* The record a traversal, or firstkey and nextkey, stands on is never freed
\* under it: its next pointer still leads on along the chain
\* ("record lock stops delete underneath", tdb_lock_record).
StandsInChain ==
    \A p \in Procs :
      /\ \A i \in DOMAIN trav[p] :
           trav[p][i].off # 0 => trav[p][i].off \in OnChain(db, trav[p][i].hash)
      /\ walk[p].off # 0 => walk[p].off \in OnChain(db, walk[p].hash)

\* A traversal that ran to its end has called back for every record that was
\* there when it began and was not deleted since, and for none of them twice,
\* whatever other processes and its own callbacks did to the chains meanwhile.
VisitsAll ==
    \A p \in Procs : \A i \in DOMAIN trav[p] :
      LET t == trav[p][i]
      IN  /\ ~t.again
          /\ t.hash = NChains => t.stay \subseteq t.done

\* No record is unlinked and freed that is not a dead record of its chain
\* (tdb_do_delete under tdb_next_lock).
NoDoubleFree == ~twice

Contents == [k \in Keys |-> IF tdb_find(db, k) = 0 THEN Absent ELSE db.rec[tdb_find(db, k)].val]
KM == INSTANCE KeyMap WITH m <- Contents

\* Dead records, their reuse and their cleaning are invisible to callers: the
\* database is a map that changes one key at a time.
ImplementsKeyMap == KM!Spec
KeyMapStep == UNCHANGED Contents \/ KM!Next

\* "traverse the entire database - calling fn(tdb, key, data) on each element":
\* a key that is in the database all through a traversal is seen by it.
VisitsEveryKey ==
    \A p \in Procs : \A i \in DOMAIN trav[p] :
      trav[p][i].hash = NChains => trav[p][i].keep = {}

\* "needs to get the transaction lock": a process inside a traversal holds it.
TraverseHoldsLock == \A p \in Procs : trav[p] # <<>> => tlock[p] # "none"

\* A traversal comes to its end although other processes go on storing and
\* deleting: new records go in front of their chain, behind the traversal.
TraverseEnds == \A p \in Procs : trav[p] # <<>> ~> trav[p] = <<>>
=============================================================================
