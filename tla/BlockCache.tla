----------------------------- MODULE BlockCache -----------------------------
(***************************************************************************)
(* The I/O channel every block goes through: the write-back cache of       *)
(* lib/ext2fs/unix_io.c, and src/src/wipe_block.c, which writes to the     *)
(* device behind the cache's back.                                         *)
(*                                                                         *)
(* A cached read or write of several blocks is a loop; each iteration is a *)
(* step here, so that a crash can come between two of them.  A raw write   *)
(* may fail; a raw read does not.                                          *)
(***************************************************************************)
EXTENDS Integers, FiniteSets

CONSTANTS
  LastBlock,        \* the device has blocks 1 .. LastBlock
  Values,           \* what a block may hold
  WipeValue,        \* what a wiped block holds
  Wipeable,         \* bound: the blocks that get freed and wiped
  CacheSize,        \* CACHE_SIZE
  DirectSize,       \* WRITE_DIRECT_SIZE: longer requests bypass the cache
  TimeHalf          \* access_time is an int from -TimeHalf to TimeHalf - 1

Blocks == 1 .. LastBlock
Slots == 1 .. CacheSize
MinTime == -TimeHalf
MaxTime == TimeHalf - 1
Times == MinTime .. MaxTime
Data == Values \cup {WipeValue}

ASSUME CacheAssumption ==
  /\ LastBlock \in Nat \ {0}
  /\ CacheSize \in Nat \ {0}
  /\ DirectSize \in Nat \ {0}
  /\ TimeHalf \in Nat /\ 2 * TimeHalf >= DirectSize
  /\ Values # {}
  /\ Wipeable \subseteq 1 .. LastBlock

VARIABLES
  disk,    \* what the device holds
  cache,   \* the CACHE_SIZE entries of struct unix_cache
  clock,   \* data->access_time
  req,     \* the loop of unix_read_blk or unix_write_blk being run
  got,     \* what the read has stored in the caller's buffer so far
  wiped,   \* blocks wiped and not written since
  lost     \* a raw write failed in a place that drops the data

vars == <<disk, cache, clock, req, got, wiped, lost>>

Entry == [in_use : BOOLEAN, block : Blocks \cup {0}, buf : Data,
          dirty : BOOLEAN, access_time : Times]

Idle == [op |-> "none", block |-> 1, left |-> 0, data |-> WipeValue]
Requests == [op : {"none", "read", "write"}, block : 1 .. (LastBlock + 1),
             left : 0 .. DirectSize, data : Data]

Empty == [in_use |-> FALSE, block |-> 0, buf |-> WipeValue, dirty |-> FALSE,
          access_time |-> 0]

EmptyCache == [s \in Slots |-> Empty]

Nothing == [x \in {} |-> WipeValue]

(* Mutant: the counter is taken for unbounded.                             *)
Tick_NoWrap(t, n) == t + n

(* access_time after n more accesses; it wraps.                            *)
Tick(t, n) ==
  IF t + n > MaxTime THEN t + n - (MaxTime - MinTime + 1) ELSE t + n

(* Mutant: a block is looked for in the first entry only.                  *)
Holding_First(c, b) == {s \in {1} : c[s].in_use /\ c[s].block = b}

Holding(c, b) == {s \in Slots : c[s].in_use /\ c[s].block = b}

(* find_cached_block's eldest: the first entry not in use, else the first  *)
(* of those accessed longest ago.                                          *)
Eldest(c) ==
  LET unused == {s \in Slots : ~c[s].in_use}
  IN IF unused # {} THEN CHOOSE s \in unused : \A t \in unused : s <= t
     ELSE CHOOSE s \in Slots : \A t \in Slots :
            \/ c[s].access_time < c[t].access_time
            \/ c[s].access_time = c[t].access_time /\ s <= t

(* What a read of each block would return.                                 *)
View(d, c) ==
  [b \in Blocks |-> IF Holding(c, b) = {} THEN d[b]
                    ELSE c[CHOOSE s \in Holding(c, b) : TRUE].buf]

----------------------------------------------------------------------------
(* reuse_cache: a dirty entry is written back, whether or not that works   *)
(* (`ok'), and the entry is made to hold block b, with contents v.         *)

NeedsWrite(e) == e.dirty /\ e.in_use

(* Mutant: the entry is reused without being written back.                 *)
EvictTo_Drop(d, e, ok) == d

EvictTo(d, e, ok) ==
  IF NeedsWrite(e) /\ ok THEN [d EXCEPT ![e.block] = e.buf] ELSE d

reuse_cache(c, s, b, v, dirty, t) ==
  [c EXCEPT ![s] = [in_use |-> TRUE, block |-> b, buf |-> v,
                    dirty |-> dirty, access_time |-> t]]

(* flush_cached_blocks: every dirty entry is written, those in F without   *)
(* success; `invalidate' drops the entries first.  What is left in an      *)
(* entry that is not in use is never looked at: it becomes Empty.          *)
DirtySlots(c) == {s \in Slots : NeedsWrite(c[s])}

(* Mutant: the loop over the entries ends one too early.                   *)
FlushedDisk_Short(d, c, F) ==
  [b \in Blocks |->
     LET w == {s \in DirtySlots(c) \ F : c[s].block = b /\ s < CacheSize}
     IN IF w = {} THEN d[b] ELSE c[CHOOSE s \in w : TRUE].buf]

FlushedDisk(d, c, F) ==
  [b \in Blocks |->
     LET w == {s \in DirtySlots(c) \ F : c[s].block = b}
     IN IF w = {} THEN d[b] ELSE c[CHOOSE s \in w : TRUE].buf]

(* Mutant: an entry is taken for clean although writing it failed.         *)
FlushedCache_Forget(c, F, invalidate) ==
  [s \in Slots |-> IF invalidate THEN Empty ELSE [c[s] EXCEPT !.dirty = FALSE]]

FlushedCache(c, F, invalidate) ==
  [s \in Slots |-> IF invalidate THEN Empty
                   ELSE [c[s] EXCEPT !.dirty = @ /\ s \in F]]

----------------------------------------------------------------------------
(* unix_read_blk.                                                          *)

Run(b, n) == b .. (b + n - 1)

(* Mutant: the whole rest of the request is read from the device.          *)
Uncached_All(c, b, n) == n

(* How many blocks from b on, at most n, are not in the cache.             *)
Uncached(c, b, n) ==
  CHOOSE i \in 0 .. n :
    /\ \A x \in Run(b, i) : Holding(c, x) = {}
    /\ i = n \/ Holding(c, b + i) # {}

StartRead(b, n) ==
  /\ ~lost /\ req = Idle
  /\ n <= DirectSize
  /\ req' = [op |-> "read", block |-> b, left |-> n, data |-> WipeValue]
  /\ UNCHANGED <<got, disk, cache, clock, wiped, lost>>

(* The values stored in the buffer for the i blocks from b on.             *)
Store(g, b, i, f) ==
  [x \in DOMAIN g \cup Run(b, i) |-> IF x \in Run(b, i) THEN f[x] ELSE g[x]]

(* Mutant: the loop does not move on.                                      *)
Advance_Stay(i) == req' = req

Advance(i) == req' = [req EXCEPT !.block = @ + i, !.left = @ - i]

ReadHit ==
  /\ req.op = "read" /\ req.left > 0
  /\ \E s \in Holding(cache, req.block) :
       /\ clock' = Tick(clock, 1)
       /\ cache' = [cache EXCEPT ![s].access_time = clock']
       /\ got' = Store(got, req.block, 1,
                       [x \in {req.block} |-> cache[s].buf])
  /\ Advance(1)
  /\ UNCHANGED <<disk, wiped, lost>>

(* A run of uncached blocks is read at once.  reuse[] was filled before    *)
(* any entry changed, so all of the run goes through one entry, which ends *)
(* up holding the last block of it.                                        *)
ReadMiss(ok) ==
  /\ req.op = "read" /\ req.left > 0
  /\ Holding(cache, req.block) = {}
  /\ LET i == Uncached(cache, req.block, req.left)
         e == Eldest(cache)
         last == req.block + i - 1
         peeked == IF i < req.left THEN Holding(cache, req.block + i) ELSE {}
         time == IF peeked = {} THEN clock ELSE Tick(clock, 1)
         touched == [s \in Slots |-> IF s \in peeked
                                     THEN [cache[s] EXCEPT !.access_time = time]
                                     ELSE cache[s]]
     IN /\ got' = Store(got, req.block, i, disk)
        /\ clock' = Tick(time, i)
        /\ disk' = EvictTo(disk, cache[e], ok)
        /\ lost' = (lost \/ (NeedsWrite(cache[e]) /\ ~ok))
        /\ cache' = reuse_cache(touched, e, last, disk[last], FALSE, clock')
        /\ Advance(i)
  /\ UNCHANGED wiped

(* A longer or odd-sized read flushes the cache and goes to the device.    *)
ReadDirect(b, n, F) ==
  /\ ~lost /\ req = Idle
  /\ F \subseteq DirtySlots(cache)
  /\ disk' = FlushedDisk(disk, cache, F)
  /\ cache' = FlushedCache(cache, F, FALSE)
  /\ IF F = {} THEN /\ got' = Store(Nothing, b, n, disk')
                    /\ req' = [Idle EXCEPT !.op = "read"]
     ELSE UNCHANGED <<got, req>>
  /\ UNCHANGED <<clock, wiped, lost>>

----------------------------------------------------------------------------
(* unix_write_blk, unix_write_byte.                                        *)

StartWrite(b, n, v) ==
  /\ ~lost /\ req = Idle
  /\ n <= DirectSize
  /\ req' = [op |-> "write", block |-> b, left |-> n, data |-> v]
  /\ UNCHANGED <<got, disk, cache, clock, wiped, lost>>

WriteHit ==
  /\ req.op = "write" /\ req.left > 0
  /\ \E s \in Holding(cache, req.block) :
       /\ clock' = Tick(clock, 1)
       /\ cache' = reuse_cache(cache, s, req.block, req.data, TRUE, clock')
  /\ wiped' = wiped \ {req.block}
  /\ Advance(1)
  /\ UNCHANGED <<disk, got, lost>>

WriteMiss(ok) ==
  /\ req.op = "write" /\ req.left > 0
  /\ Holding(cache, req.block) = {}
  /\ LET e == Eldest(cache)
     IN /\ clock' = Tick(clock, 1)
        /\ disk' = EvictTo(disk, cache[e], ok)
        /\ lost' = (lost \/ (NeedsWrite(cache[e]) /\ ~ok))
        /\ cache' = reuse_cache(cache, e, req.block, req.data, TRUE, clock')
  /\ wiped' = wiped \ {req.block}
  /\ Advance(1)
  /\ UNCHANGED got

(* A longer or odd-sized write, and a write of some bytes, flush the cache, *)
(* drop its entries and go to the device; k of the n blocks get there.     *)
WriteDirect(b, n, v, F, k) ==
  /\ ~lost /\ req = Idle
  /\ F \subseteq DirtySlots(cache)
  /\ k <= n
  /\ LET flushed == FlushedDisk(disk, cache, F)
     IN IF F # {}
        THEN disk' = flushed /\ UNCHANGED wiped
        ELSE /\ disk' = [x \in Blocks |-> IF x \in Run(b, k) THEN v
                                          ELSE flushed[x]]
             /\ wiped' = wiped \ Run(b, k)
  /\ cache' = FlushedCache(cache, F, TRUE)
  /\ lost' = (F # {})
  /\ UNCHANGED <<got, clock, req>>

(* The request is done: the caller takes what was read.                    *)
Finish ==
  /\ req.op # "none" /\ req.left = 0
  /\ req' = Idle
  /\ got' = Nothing
  /\ UNCHANGED <<disk, cache, clock, wiped, lost>>

----------------------------------------------------------------------------
(* unix_flush; unix_set_blksize; unix_close, then unix_open; a crash of the process;   *)
(* test_wipe_block.                                                        *)

Flush(F) ==
  /\ ~lost /\ req = Idle
  /\ F \subseteq DirtySlots(cache)
  /\ disk' = FlushedDisk(disk, cache, F)
  /\ cache' = FlushedCache(cache, F, FALSE)
  /\ UNCHANGED <<got, clock, req, wiped, lost>>

(* Another block size, round the superblock: the entries are allocated     *)
(* anew, unless one of them could not be written.                          *)
unix_set_blksize(F) ==
  /\ ~lost /\ req = Idle
  /\ F \subseteq DirtySlots(cache)
  /\ disk' = FlushedDisk(disk, cache, F)
  /\ cache' = IF F = {} THEN EmptyCache ELSE FlushedCache(cache, F, FALSE)
  /\ UNCHANGED <<got, clock, req, wiped, lost>>

Reopen(F) ==
  /\ ~lost /\ req = Idle
  /\ F \subseteq DirtySlots(cache)
  /\ disk' = FlushedDisk(disk, cache, F)
  /\ cache' = EmptyCache
  /\ clock' = 0
  /\ lost' = (F # {})
  /\ UNCHANGED <<got, req, wiped>>

Crash ==
  /\ ~lost
  /\ cache' = EmptyCache
  /\ clock' = 0
  /\ req' = Idle
  /\ got' = Nothing
  /\ UNCHANGED <<disk, wiped, lost>>

test_wipe_block(b) ==
  /\ ~lost /\ req = Idle
  /\ disk' = [disk EXCEPT ![b] = WipeValue]
  /\ wiped' = wiped \cup {b}
  /\ UNCHANGED <<got, cache, clock, req, lost>>

Init ==
  /\ disk \in [Blocks -> Values]
  /\ cache = EmptyCache
  /\ clock = 0
  /\ req = Idle
  /\ got = Nothing
  /\ wiped = {}
  /\ lost = FALSE

Step ==
  \/ ReadHit \/ WriteHit \/ Finish
  \/ \E ok \in BOOLEAN : ReadMiss(ok) \/ WriteMiss(ok)

Next ==
  \/ Step
  \/ \E b \in Blocks : \E n \in 1 .. (LastBlock - b + 1) :
       \/ StartRead(b, n)
       \/ \E F \in SUBSET Slots : ReadDirect(b, n, F)
       \/ \E v \in Values :
            \/ StartWrite(b, n, v)
            \/ \E F \in SUBSET Slots, k \in 0 .. n : WriteDirect(b, n, v, F, k)
  \/ \E F \in SUBSET Slots : Flush(F) \/ unix_set_blksize(F) \/ Reopen(F)
  \/ Crash
  \/ \E b \in Wipeable : test_wipe_block(b)

Spec == Init /\ [][Next]_vars

(* The loops of unix_read_blk and unix_write_blk run on by themselves: the *)
(* process does nothing else until they end.                               *)
FairSpec == Spec /\ WF_vars(Step)

----------------------------------------------------------------------------
(* Properties.                                                             *)

TypeOK ==
  /\ disk \in [Blocks -> Data]
  /\ cache \in [Slots -> Entry]
  /\ clock \in Times
  /\ req \in Requests
  /\ DOMAIN got \subseteq Blocks
  /\ \A x \in DOMAIN got : got[x] \in Data
  /\ wiped \subseteq Blocks
  /\ lost \in BOOLEAN

(* No block is in two entries of the cache: a second copy would be read,   *)
(* or written back, after the first one changed.                           *)
OneEntryPerBlock ==
  \A s, t \in Slots :
    /\ cache[s].in_use /\ cache[t].in_use
    /\ cache[s].block = cache[t].block
    => s = t

(* An entry that is not dirty holds what the device holds: this is what    *)
(* lets reuse_cache drop it without writing it.                            *)
CleanMatchesDisk ==
  ~lost => \A s \in Slots :
    cache[s].in_use /\ ~cache[s].dirty /\ cache[s].block \notin wiped
      => cache[s].buf = disk[cache[s].block]

(* What unix_read_blk puts in the caller's buffer, block by block and      *)
(* across evictions, is what was written last.                             *)
ReadReturnsLastWrite ==
  ~lost => \A x \in DOMAIN got \ wiped : got[x] = View(disk, cache)[x]

(* When unix_flush reports success the device holds what was written last. *)
FlushIsDurable ==
  [][Flush({}) => \A b \in Blocks \ wiped : disk'[b] = View(disk, cache)[b]]_vars

(* The cache implements WriteBackStore, with failing raw writes and        *)
(* crashes, until a raw write fails where the code drops the data: in      *)
(* reuse_cache, in an invalidating flush or in unix_close.  A failing      *)
(* unix_flush loses nothing.                                               *)
WB == INSTANCE WriteBackStore WITH cur <- View(disk, cache), held <- disk,
                                   freed <- wiped

ImplementsStore ==
  WB!StoreInit /\ [][lost' \/ WB!StoreNext]_<<View(disk, cache), disk, wiped>>

(* Every cached read or write comes to its end.                            *)
RequestsEnd == (req # Idle) ~> (req = Idle)

(* A block that was wiped when it was freed, and has not been given to     *)
(* anyone since, keeps none of its old contents on the device.             *)
WipedStaysWiped == \A b \in wiped : disk[b] = WipeValue
=============================================================================
