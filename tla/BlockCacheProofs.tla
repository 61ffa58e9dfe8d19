-------------------------- MODULE BlockCacheProofs --------------------------
(***************************************************************************)
(* Proofs about BlockCache, for every size of the device and of the cache, *)
(* every set of values and every width of the access clock.                *)
(***************************************************************************)
EXTENDS BlockCache, NumberFacts, TLAPS

(* The parts of the inductive invariant, as operators on a cache.          *)
One(c) ==
  \A s, t \in Slots :
    c[s].in_use /\ c[t].in_use /\ c[s].block = c[t].block => s = t

Placed(c) == \A s \in Slots : c[s].in_use => c[s].block \in Blocks

Clean(d, c, w) ==
  \A s \in Slots : c[s].in_use /\ ~c[s].dirty /\ c[s].block \notin w
                     => c[s].buf = d[c[s].block]

(* f and g agree on B; d has changed to d2 only towards g.                 *)
SameOn(B, f, g) == \A x \in B : f[x] = g[x]

Towards(d, d2, g) == \A x \in Blocks : d2[x] \in {d[x], g[x]}

(* The loops stay inside the device, and the caller's buffer is empty      *)
(* unless a read is running.                                               *)
ReqInRange == req.block + req.left <= LastBlock + 1

GotWhileReading == req.op # "read" => got = Nothing

Inv ==
  /\ TypeOK
  /\ ReqInRange
  /\ GotWhileReading
  /\ Placed(cache)
  /\ OneEntryPerBlock
  /\ CleanMatchesDisk
  /\ ReadReturnsLastWrite

----------------------------------------------------------------------------
(* Numbers.                                                                *)

(* The access clock stays an int, whatever a request adds to it.           *)
LEMMA TickType ==
  ASSUME NEW t \in Times, NEW n \in 0 .. DirectSize
  PROVE  Tick(t, n) \in Times
BY CacheAssumption DEF Tick, Times, MinTime, MaxTime

(* find_cached_block always has an entry to offer.                         *)
LEMMA EldestInSlots ==
  ASSUME NEW c \in [Slots -> Entry]
  PROVE  Eldest(c) \in Slots
<1> DEFINE unused == {s \in Slots : ~c[s].in_use}
<1>0. Slots \in SUBSET Nat /\ Slots # {}
  <2>1. 1 \in Slots /\ \A s \in Slots : s \in Nat
    BY CacheAssumption DEF Slots
  <2> QED BY <2>1
<1>1. CASE unused # {}
  <2>1. \E s \in unused : \A t \in unused : s <= t
    BY <1>0, <1>1, LeastNat
  <2> QED BY <1>1, <2>1 DEF Eldest
<1>2. CASE unused = {}
  <2> DEFINE age(s) == c[s].access_time + TimeHalf
             ages == {age(s) : s \in Slots}
  <2>1. \A s \in Slots : age(s) \in Nat /\ c[s].access_time \in Int
    BY CacheAssumption DEF Entry, Times, MinTime, MaxTime
  <2>2. ages \in SUBSET Nat /\ ages # {}
    BY <1>0, <2>1
  <2>3. PICK a \in ages : \A y \in ages : a <= y
    BY <2>2, LeastNat
  <2> DEFINE eldest == {s \in Slots : age(s) = a}
  <2>4. eldest \in SUBSET Nat /\ eldest # {}
    BY <1>0, <2>3
  <2>5. PICK s \in eldest : \A t \in eldest : s <= t
    BY <2>4, LeastNat
  <2>6. \A t \in Slots : \/ c[s].access_time < c[t].access_time
                         \/ c[s].access_time = c[t].access_time /\ s <= t
    <3> TAKE t \in Slots
    <3>1. age(s) <= age(t)
      BY <2>3, <2>5
    <3>2. s \in Slots /\ c[s].access_time \in Int /\ c[t].access_time \in Int
      BY <2>1, <2>5
    <3>3. age(s) = age(t) => s <= t
      BY <2>5
    <3> QED BY <3>1, <3>2, <3>3, CacheAssumption
  <2> QED BY <1>2, <2>5, <2>6 DEF Eldest
<1> QED BY <1>1, <1>2

(* The run of uncached blocks is neither empty nor too long, and no block  *)
(* of it is in the cache.                                                  *)
LEMMA UncachedRun ==
  ASSUME NEW c, NEW b \in Int, NEW n \in Nat \ {0}, Holding(c, b) = {}
  PROVE  /\ Uncached(c, b, n) \in 1 .. n
         /\ \A x \in Run(b, Uncached(c, b, n)) : Holding(c, x) = {}
<1> DEFINE T == {k \in 0 .. n : k = n \/ Holding(c, b + k) # {}}
           P(i) == /\ \A x \in Run(b, i) : Holding(c, x) = {}
                   /\ i = n \/ Holding(c, b + i) # {}
<1>1. T \in SUBSET Nat /\ T # {}
  <2>1. n \in T
    OBVIOUS
  <2> QED BY <2>1
<1>2. PICK i \in T : \A y \in T : i <= y
  BY <1>1, LeastNat
<1>3. P(i)
  <2>1. ASSUME NEW x \in Run(b, i) PROVE Holding(c, x) = {}
    <3>1. x - b \in 0 .. n /\ x - b < i /\ b + (x - b) = x
      BY <1>2 DEF Run
    <3>2. x - b \notin T
      BY <1>2, <3>1
    <3> QED BY <3>1, <3>2
  <2> QED BY <1>2, <2>1
<1>4. PICK j \in 0 .. n : j = Uncached(c, b, n) /\ P(j)
  BY <1>2, <1>3 DEF Uncached
<1>5. j # 0
  <2>1. b + 0 = b
    OBVIOUS
  <2> QED BY <1>4, <2>1
<1> QED BY <1>4, <1>5

----------------------------------------------------------------------------
(* What a read returns.                                                    *)

(* What is read is data.                                                   *)
LEMMA ViewType ==
  ASSUME NEW d \in [Blocks -> Data], NEW c \in [Slots -> Entry]
  PROVE  View(d, c) \in [Blocks -> Data]
<1>1. ASSUME NEW b \in Blocks, Holding(c, b) # {}
      PROVE  c[CHOOSE s \in Holding(c, b) : TRUE].buf \in Data
  <2>1. (CHOOSE s \in Holding(c, b) : TRUE) \in Slots
    BY <1>1 DEF Holding
  <2> QED BY <2>1 DEF Entry
<1> QED BY <1>1 DEF View

(* A block that is not in the cache is read from the device.               *)
LEMMA ViewUncached ==
  ASSUME NEW d, NEW c, NEW b \in Blocks, Holding(c, b) = {}
  PROVE  View(d, c)[b] = d[b]
BY DEF View

(* A block that is in the cache is read from its only entry.               *)
LEMMA ViewCached ==
  ASSUME NEW d, NEW c, One(c), NEW b \in Blocks, NEW s \in Holding(c, b)
  PROVE  View(d, c)[b] = c[s].buf
<1>1. Holding(c, b) = {s}
  BY DEF One, Holding
<1>2. (CHOOSE t \in Holding(c, b) : TRUE) = s
  BY <1>1
<1> QED BY <1>1, <1>2 DEF View

(* Two caches that differ only in when their entries were used.            *)
SameContents(c, e) ==
  \A s \in Slots : /\ e[s].in_use = c[s].in_use
                   /\ e[s].block = c[s].block
                   /\ e[s].buf = c[s].buf
                   /\ e[s].dirty = c[s].dirty

(* When an entry was used does not change what is read.                    *)
LEMMA ViewOfTouched ==
  ASSUME NEW d, NEW c, NEW e, SameContents(c, e)
  PROVE  /\ View(d, e) = View(d, c)
         /\ One(c) => One(e)
         /\ Placed(c) => Placed(e)
         /\ \A w : Clean(d, c, w) => Clean(d, e, w)
         /\ \A b : Holding(e, b) = Holding(c, b)
<1>1. \A b : Holding(e, b) = Holding(c, b)
  BY DEF SameContents, Holding
<1>2. ASSUME NEW b \in Blocks, Holding(c, b) # {}
      PROVE  e[CHOOSE s \in Holding(c, b) : TRUE].buf
               = c[CHOOSE s \in Holding(c, b) : TRUE].buf
  <2>1. (CHOOSE s \in Holding(c, b) : TRUE) \in Slots
    BY <1>2 DEF Holding
  <2> QED BY <2>1 DEF SameContents
<1>3. View(d, e) = View(d, c)
  <2>1. ASSUME NEW b \in Blocks PROVE View(d, e)[b] = View(d, c)[b]
    <3>1. Holding(e, b) = Holding(c, b)
      BY <1>1
    <3>2. (CHOOSE s \in Holding(e, b) : TRUE) = (CHOOSE s \in Holding(c, b) : TRUE)
      BY <3>1, Zenon
    <3> QED BY <1>2, <3>1, <3>2 DEF View
  <2> QED BY <2>1 DEF View
<1>4. (One(c) => One(e)) /\ (Placed(c) => Placed(e))
  BY DEF SameContents, One, Placed
<1>5. \A w : Clean(d, c, w) => Clean(d, e, w)
  BY DEF SameContents, Clean
<1> QED BY <1>1, <1>3, <1>4, <1>5

----------------------------------------------------------------------------
(* Reusing an entry.                                                       *)

(* c2 is c with entry e made to hold block b, which no other entry holds.  *)
Replaced(c, c2, e, b) ==
  /\ e \in Slots /\ b \in Blocks
  /\ Holding(c, b) \subseteq {e}
  /\ c2[e].in_use /\ c2[e].block = b
  /\ \A s \in Slots \ {e} : c2[s] = c[s]

(* d2 is d after entry e of c was written back, if it was dirty.           *)
WrittenBack(d, d2, c, e) ==
  \A x \in Blocks : d2[x] = IF NeedsWrite(c[e]) /\ x = c[e].block
                            THEN c[e].buf ELSE d[x]

(* A reused entry is the only one of its block, and its buffer is read.    *)
LEMMA ReplacedShape ==
  ASSUME NEW c, NEW c2, NEW e, NEW b, Replaced(c, c2, e, b), One(c), Placed(c)
  PROVE  /\ One(c2) /\ Placed(c2)
         /\ \A d : View(d, c2)[b] = c2[e].buf
<1>1. \A s \in Slots \ {e} : c[s].in_use => c[s].block # b
  BY DEF Replaced, Holding
<1>2. One(c2)
  BY <1>1 DEF Replaced, One
<1>3. Placed(c2)
  BY DEF Replaced, Placed
<1>4. e \in Holding(c2, b) /\ b \in Blocks
  BY DEF Replaced, Holding
<1> QED BY <1>2, <1>3, <1>4, ViewCached

(* reuse_cache writes the old block back unless the raw write fails.       *)
LEMMA EvictWritesBack ==
  ASSUME NEW d \in [Blocks -> Data], NEW c \in [Slots -> Entry], Placed(c),
         NEW e \in Slots, NEW ok, NEW d2, d2 = EvictTo(d, c[e], ok)
  PROVE  /\ d2 \in [Blocks -> Data]
         /\ (NeedsWrite(c[e]) => ok) => WrittenBack(d, d2, c, e)
<1>1. c[e].buf \in Data /\ (c[e].in_use => c[e].block \in Blocks)
  BY DEF Entry, Placed
<1>2. d2 \in [Blocks -> Data]
  BY <1>1 DEF EvictTo
<1>3. ASSUME NeedsWrite(c[e]) => ok PROVE WrittenBack(d, d2, c, e)
  <2>1. CASE NeedsWrite(c[e])
    <3>1. d2 = [d EXCEPT ![c[e].block] = c[e].buf]
      BY <1>3, <2>1 DEF EvictTo
    <3> QED BY <2>1, <3>1 DEF WrittenBack
  <2>2. CASE ~NeedsWrite(c[e])
    <3>1. d2 = d
      BY <2>2 DEF EvictTo
    <3> QED BY <2>2, <3>1 DEF WrittenBack
  <2> QED BY <2>1, <2>2
<1> QED BY <1>2, <1>3

(* After the write-back every other block reads the same, and the device   *)
(* has changed only towards what is read.                                  *)
LEMMA ReplacedKeeps ==
  ASSUME NEW d, NEW d2, NEW c \in [Slots -> Entry], NEW c2, NEW w, NEW e, NEW b,
         Replaced(c, c2, e, b), WrittenBack(d, d2, c, e),
         One(c), Placed(c), Clean(d, c, w)
  PROVE  /\ SameOn(Blocks \ (w \cup {b}), View(d2, c2), View(d, c))
         /\ Towards(d, d2, View(d, c))
         /\ c2[e].dirty \/ c2[e].buf = d2[b]
              => Clean(d2, c2, w) /\ (c2[e].dirty => Clean(d2, c2, w \ {b}))
<1>1. /\ e \in Slots /\ b \in Blocks
      /\ c2[e].in_use /\ c2[e].block = b
      /\ \A s \in Slots \ {e} : c2[s] = c[s]
  BY DEF Replaced
<1>2. \A s \in Slots : c[s].in_use \in BOOLEAN /\ c[s].dirty \in BOOLEAN
  BY DEF Entry
<1>3. One(c2) /\ Placed(c2)
  BY ReplacedShape
<1>4. \A x \in Blocks : d2[x] = IF NeedsWrite(c[e]) /\ x = c[e].block
                                THEN c[e].buf ELSE d[x]
  BY DEF WrittenBack
<1>5. ASSUME NEW s \in Slots \ {e}, c[s].in_use
      PROVE  /\ c[s].block # b
             /\ d2[c[s].block] = d[c[s].block]
  <2>1. c[s].block # b
    BY <1>5 DEF Replaced, Holding
  <2>2. c[e].in_use => c[s].block # c[e].block
    BY <1>1, <1>5 DEF One
  <2>3. c[s].block \in Blocks
    BY <1>5 DEF Placed
  <2> QED BY <1>4, <2>1, <2>2, <2>3 DEF NeedsWrite
<1>6. ASSUME NEW x \in Blocks \ w, x # b
      PROVE  View(d2, c2)[x] = View(d, c)[x]
  <2>1. CASE Holding(c, x) \ {e} # {}
    <3>1. PICK s \in Holding(c, x) : s # e
      BY <2>1
    <3>2. s \in Holding(c2, x) /\ c2[s] = c[s]
      BY <1>1, <3>1 DEF Holding
    <3>3. View(d, c)[x] = c[s].buf
      BY <3>1, ViewCached
    <3>4. View(d2, c2)[x] = c2[s].buf
      BY <1>3, <3>2, ViewCached
    <3> QED BY <3>2, <3>3, <3>4
  <2>2. CASE Holding(c, x) \ {e} = {}
    <3>1. Holding(c2, x) = {}
      BY <1>1, <1>6, <2>2 DEF Holding
    <3>2. View(d2, c2)[x] = d2[x]
      BY <3>1, ViewUncached
    <3>3. CASE e \in Holding(c, x)
      <4>1. View(d, c)[x] = c[e].buf
        BY <3>3, ViewCached
      <4>2. c[e].in_use /\ c[e].block = x
        BY <3>3 DEF Holding
      <4>3. c[e].dirty \/ d[x] = c[e].buf
        BY <1>1, <1>6, <4>2 DEF Clean
      <4> QED BY <1>1, <1>2, <1>4, <3>2, <4>1, <4>2, <4>3 DEF NeedsWrite
    <3>4. CASE e \notin Holding(c, x)
      <4>1. Holding(c, x) = {}
        BY <2>2, <3>4
      <4>2. View(d, c)[x] = d[x]
        BY <4>1, ViewUncached
      <4>3. ~(c[e].in_use /\ c[e].block = x)
        BY <1>1, <3>4 DEF Holding
      <4> QED BY <1>4, <3>2, <4>2, <4>3 DEF NeedsWrite
    <3> QED BY <3>3, <3>4
  <2> QED BY <2>1, <2>2
<1>7. ASSUME NEW x \in Blocks
      PROVE  d2[x] \in {d[x], View(d, c)[x]}
  <2>1. CASE NeedsWrite(c[e]) /\ x = c[e].block
    <3>1. e \in Holding(c, x)
      BY <1>1, <2>1 DEF NeedsWrite, Holding
    <3>2. View(d, c)[x] = c[e].buf
      BY <3>1, ViewCached
    <3> QED BY <1>4, <2>1, <3>2
  <2> QED BY <1>4, <2>1
<1>8. ASSUME NEW u, w \subseteq u \cup {b}, NEW s \in Slots \ {e},
             c2[s].in_use, ~c2[s].dirty, c2[s].block \notin u
      PROVE  c2[s].buf = d2[c2[s].block]
  <2>1. c2[s] = c[s]
    BY <1>1
  <2>2. c[s].block # b /\ d2[c[s].block] = d[c[s].block]
    BY <1>5, <1>8, <2>1
  <2>3. c[s].block \notin w
    BY <1>8, <2>1, <2>2
  <2> QED BY <1>8, <2>1, <2>2, <2>3 DEF Clean
<1>9. c2[e].dirty \/ c2[e].buf = d2[b] => Clean(d2, c2, w)
  BY <1>1, <1>8 DEF Clean
<1>10. c2[e].dirty => Clean(d2, c2, w \ {b})
  <2>1. w \subseteq (w \ {b}) \cup {b}
    OBVIOUS
  <2> QED BY <1>1, <1>8, <2>1 DEF Clean
<1> QED BY <1>6, <1>7, <1>9, <1>10 DEF SameOn, Towards

(* Writing over a block that is in the cache changes no other block.       *)
LEMMA OverwriteKeeps ==
  ASSUME NEW d, NEW c, NEW c2, NEW w, NEW e, NEW b,
         Replaced(c, c2, e, b), e \in Holding(c, b), One(c), Placed(c)
  PROVE  /\ SameOn(Blocks \ {b}, View(d, c2), View(d, c))
         /\ Clean(d, c, w) /\ c2[e].dirty => Clean(d, c2, w \ {b})
<1>1. /\ e \in Slots /\ b \in Blocks
      /\ c2[e].in_use /\ c2[e].block = b /\ c[e].block = b
      /\ \A s \in Slots \ {e} : c2[s] = c[s]
  BY DEF Replaced, Holding
<1>2. One(c2)
  BY ReplacedShape
<1>3. ASSUME NEW x \in Blocks, x # b
      PROVE  View(d, c2)[x] = View(d, c)[x]
  <2>0. Holding(c2, x) = Holding(c, x) /\ e \notin Holding(c, x)
    BY <1>1, <1>3 DEF Holding
  <2>1. CASE Holding(c, x) # {}
    <3>1. PICK s \in Holding(c, x) : s # e
      BY <2>0, <2>1
    <3>2. s \in Holding(c2, x) /\ c2[s] = c[s]
      BY <1>1, <2>0, <3>1 DEF Holding
    <3>3. View(d, c)[x] = c[s].buf
      BY <3>1, ViewCached
    <3>4. View(d, c2)[x] = c2[s].buf
      BY <1>2, <3>2, ViewCached
    <3> QED BY <3>2, <3>3, <3>4
  <2>2. CASE Holding(c, x) = {}
    <3>1. View(d, c)[x] = d[x]
      BY <2>2, ViewUncached
    <3>2. View(d, c2)[x] = d[x]
      BY <2>0, <2>2, ViewUncached
    <3> QED BY <3>1, <3>2
  <2> QED BY <2>1, <2>2
<1>4. ASSUME Clean(d, c, w), c2[e].dirty PROVE Clean(d, c2, w \ {b})
  <2> SUFFICES ASSUME NEW s \in Slots,
                      c2[s].in_use, ~c2[s].dirty, c2[s].block \notin w \ {b}
               PROVE  c2[s].buf = d[c2[s].block]
    BY DEF Clean
  <2>1. s # e
    BY <1>4
  <2>2. c2[s] = c[s] /\ c[s].block # b
    BY <1>1, <2>1 DEF Replaced, Holding
  <2> QED BY <1>4, <2>2 DEF Clean
<1> QED BY <1>3, <1>4 DEF SameOn

----------------------------------------------------------------------------
(* Emptying and flushing the cache.                                        *)

(* A cache without entries: what is read is what the device holds.         *)
LEMMA EmptyCacheFacts ==
  /\ EmptyCache \in [Slots -> Entry]
  /\ One(EmptyCache) /\ Placed(EmptyCache)
  /\ \A d, w : Clean(d, EmptyCache, w)
  /\ \A d \in [Blocks -> Data] : View(d, EmptyCache) = d
<1>1. \A s \in Slots : EmptyCache[s] = Empty
  BY DEF EmptyCache
<1>2. ~Empty.in_use
  BY DEF Empty
<1>3. Empty \in Entry
  BY CacheAssumption DEF Empty, Entry, Data, Times, MinTime, MaxTime
<1>4. EmptyCache \in [Slots -> Entry]
  BY <1>3 DEF EmptyCache
<1>5. One(EmptyCache) /\ Placed(EmptyCache) /\ \A d, w : Clean(d, EmptyCache, w)
  BY <1>1, <1>2 DEF One, Placed, Clean
<1>6. ASSUME NEW d \in [Blocks -> Data] PROVE View(d, EmptyCache) = d
  <2>1. \A b \in Blocks : Holding(EmptyCache, b) = {}
    BY <1>1, <1>2 DEF Holding
  <2>2. \A b \in Blocks : View(d, EmptyCache)[b] = d[b]
    BY <2>1, ViewUncached
  <2>3. View(d, EmptyCache) \in [Blocks -> Data]
    BY <1>4, ViewType
  <2> QED BY <2>2, <2>3
<1> QED BY <1>4, <1>5, <1>6

(* An invalidating flush leaves an empty cache.                            *)
LEMMA DroppedIsEmpty ==
  ASSUME NEW c, NEW F
  PROVE  FlushedCache(c, F, TRUE) = EmptyCache
BY DEF FlushedCache, EmptyCache

(* flush_cached_blocks block by block: a block of a dirty entry gets that  *)
(* entry's contents, the others keep theirs.                               *)
LEMMA FlushedBlock ==
  ASSUME NEW d \in [Blocks -> Data], NEW c \in [Slots -> Entry], NEW F,
         One(c), Placed(c)
  PROVE  /\ FlushedDisk(d, c, F) \in [Blocks -> Data]
         /\ \A s \in DirtySlots(c) \ F :
              FlushedDisk(d, c, F)[c[s].block] = c[s].buf
         /\ \A b \in Blocks : (\A s \in DirtySlots(c) \ F : c[s].block # b)
              => FlushedDisk(d, c, F)[b] = d[b]
<1> DEFINE W(b) == {s \in DirtySlots(c) \ F : c[s].block = b}
           D == FlushedDisk(d, c, F)
<1>1. \A b \in Blocks : D[b] = IF W(b) = {} THEN d[b]
                               ELSE c[CHOOSE s \in W(b) : TRUE].buf
  BY DEF FlushedDisk
<1>2. ASSUME NEW b \in Blocks, W(b) # {}
      PROVE  c[CHOOSE s \in W(b) : TRUE].buf \in Data
  <2>1. (CHOOSE s \in W(b) : TRUE) \in Slots
    BY <1>2 DEF DirtySlots
  <2> QED BY <2>1 DEF Entry
<1>3. D \in [Blocks -> Data]
  BY <1>2 DEF FlushedDisk
<1>4. ASSUME NEW s \in DirtySlots(c) \ F PROVE D[c[s].block] = c[s].buf
  <2>1. s \in Slots /\ c[s].in_use /\ c[s].block \in Blocks
    BY DEF DirtySlots, NeedsWrite, Placed
  <2>2. W(c[s].block) = {s}
    BY <2>1 DEF One, DirtySlots, NeedsWrite
  <2> HIDE DEF D, W
  <2>3. D[c[s].block] = c[CHOOSE t \in W(c[s].block) : TRUE].buf
    BY <1>1, <2>1, <2>2
  <2>4. (CHOOSE t \in W(c[s].block) : TRUE) = s
    BY <2>2
  <2> QED BY <2>3, <2>4
<1>5. ASSUME NEW b \in Blocks, \A s \in DirtySlots(c) \ F : c[s].block # b
      PROVE  D[b] = d[b]
  <2>1. W(b) = {}
    BY <1>5
  <2> QED BY <1>1, <2>1
<1> QED BY <1>3, <1>4, <1>5

(* d2 and c2 are what a flush that keeps the entries makes of d and c.     *)
Flushed(d, d2, c, c2, F) ==
  d2 = FlushedDisk(d, c, F) /\ c2 = FlushedCache(c, F, FALSE)

(* A flush changes no block that is read, brings the device no further     *)
(* than what is read and, when every write worked, as far as that.         *)
LEMMA FlushKeeps ==
  ASSUME NEW d \in [Blocks -> Data], NEW c \in [Slots -> Entry], One(c), Placed(c),
         NEW d2, NEW c2, NEW F, Flushed(d, d2, c, c2, F), NEW w
  PROVE  /\ d2 \in [Blocks -> Data]
         /\ c2 \in [Slots -> Entry] /\ One(c2) /\ Placed(c2)
         /\ SameOn(Blocks, View(d2, c2), View(d, c))
         /\ Towards(d, d2, View(d, c))
         /\ Clean(d, c, w) => Clean(d2, c2, w)
         /\ Clean(d, c, w) /\ F = {} => SameOn(Blocks \ w, d2, View(d, c))
<1>1. \A s \in Slots : c[s].in_use \in BOOLEAN /\ c[s].dirty \in BOOLEAN
  BY DEF Entry
<1>2. /\ c2 \in [Slots -> Entry]
      /\ \A s \in Slots : /\ c2[s].in_use = c[s].in_use
                          /\ c2[s].block = c[s].block
                          /\ c2[s].buf = c[s].buf
                          /\ c2[s].dirty = (c[s].dirty /\ s \in F)
  BY DEF Flushed, FlushedCache, Entry
<1>3. One(c2) /\ Placed(c2)
  BY <1>2 DEF One, Placed
<1>4. /\ \A s \in Slots : s \in DirtySlots(c) <=> c[s].in_use /\ c[s].dirty
      /\ DirtySlots(c) \subseteq Slots
  BY <1>1 DEF DirtySlots, NeedsWrite
<1>5. /\ d2 \in [Blocks -> Data]
      /\ \A s \in DirtySlots(c) \ F : d2[c[s].block] = c[s].buf
      /\ \A b \in Blocks : (\A s \in DirtySlots(c) \ F : c[s].block # b)
           => d2[b] = d[b]
  BY FlushedBlock DEF Flushed
<1>6. \A x \in Blocks : Holding(c2, x) = Holding(c, x)
  BY <1>2 DEF Holding
<1>7. ASSUME NEW x \in Blocks
      PROVE  /\ View(d2, c2)[x] = View(d, c)[x]
             /\ d2[x] \in {d[x], View(d, c)[x]}
             /\ Clean(d, c, w) /\ F = {} /\ x \notin w => d2[x] = View(d, c)[x]
  <2>1. CASE Holding(c, x) # {}
    <3>1. PICK s \in Holding(c, x) : TRUE
      BY <2>1
    <3>2. s \in Slots /\ c[s].in_use /\ c[s].block = x /\ c2[s].buf = c[s].buf
      BY <1>2, <3>1 DEF Holding
    <3>3. View(d, c)[x] = c[s].buf
      BY <3>1, ViewCached
    <3>4. View(d2, c2)[x] = c2[s].buf
      BY <1>3, <1>6, <3>1, ViewCached
    <3>5. CASE s \in DirtySlots(c) \ F
      BY <1>5, <3>2, <3>3, <3>4, <3>5
    <3>6. CASE s \notin DirtySlots(c) \ F
      <4>1. \A t \in DirtySlots(c) \ F : c[t].block # x
        BY <1>4, <3>2, <3>6 DEF One
      <4>2. d2[x] = d[x]
        BY <1>5, <4>1
      <4>3. ASSUME Clean(d, c, w), F = {}, x \notin w
            PROVE  d[x] = c[s].buf
        BY <1>1, <1>4, <3>2, <3>6, <4>3 DEF Clean
      <4> QED BY <3>2, <3>3, <3>4, <4>2, <4>3
    <3> QED BY <3>5, <3>6
  <2>2. CASE Holding(c, x) = {}
    <3>1. \A t \in DirtySlots(c) \ F : c[t].block # x
      BY <1>4, <2>2 DEF Holding
    <3>2. View(d, c)[x] = d[x]
      BY <2>2, ViewUncached
    <3>3. View(d2, c2)[x] = d2[x]
      BY <1>6, <2>2, ViewUncached
    <3> QED BY <1>5, <3>1, <3>2, <3>3
  <2> QED BY <2>1, <2>2
<1>9. ASSUME Clean(d, c, w) PROVE Clean(d2, c2, w)
  <2> SUFFICES ASSUME NEW s \in Slots,
                      c2[s].in_use, ~c2[s].dirty, c2[s].block \notin w
               PROVE  c2[s].buf = d2[c2[s].block]
    BY DEF Clean
  <2>1. c[s].in_use /\ c[s].block \notin w /\ ~(c[s].dirty /\ s \in F)
    BY <1>2
  <2>2. CASE s \in DirtySlots(c) \ F
    BY <1>2, <1>5, <2>2
  <2>3. CASE s \notin DirtySlots(c) \ F
    <3>1. \A t \in DirtySlots(c) \ F : c[t].block # c[s].block
      BY <1>4, <2>1, <2>3 DEF One
    <3>2. c[s].block \in Blocks /\ ~c[s].dirty
      BY <1>1, <1>4, <2>1, <2>3 DEF Placed
    <3>3. d2[c[s].block] = d[c[s].block]
      BY <1>5, <3>1, <3>2
    <3> QED BY <1>2, <1>9, <2>1, <3>2, <3>3 DEF Clean
  <2> QED BY <2>2, <2>3
<1> QED BY <1>2, <1>3, <1>5, <1>7, <1>9 DEF SameOn, Towards

----------------------------------------------------------------------------
(* Each action keeps Inv and is a step of WriteBackStore, or a stutter, or *)
(* loses data.                                                             *)

StoreStep ==
  \/ lost'
  \/ WB!StoreNext
  \/ UNCHANGED <<View(disk, cache), disk, wiped>>

(* Inv in terms of the operators on caches.                                *)
LEMMA InvFacts ==
  ASSUME Inv
  PROVE  /\ disk \in [Blocks -> Data] /\ cache \in [Slots -> Entry]
         /\ One(cache) /\ Placed(cache)
         /\ ~lost => Clean(disk, cache, wiped)
         /\ View(disk, cache) \in [Blocks -> Data]
BY ViewType DEF Inv, TypeOK, OneEntryPerBlock, One, CleanMatchesDisk, Clean

(* The loop of a running request is at a block of the device.              *)
LEMMA RunInDevice ==
  ASSUME Inv, req.left > 0, NEW i \in 1 .. req.left
  PROVE  /\ Run(req.block, i) \subseteq Blocks
         /\ req.block \in Blocks /\ req.block \in Run(req.block, i)
         /\ req.block + i - 1 \in Blocks
         /\ req.block + i - 1 \in Run(req.block, i)
         /\ [req EXCEPT !.block = @ + i, !.left = @ - i] \in Requests
         /\ (req.block + i) + (req.left - i) <= LastBlock + 1
<1>1. /\ req \in Requests
      /\ req.block \in 1 .. (LastBlock + 1) /\ req.left \in 0 .. DirectSize
      /\ req.block + req.left <= LastBlock + 1
  BY DEF Inv, TypeOK, ReqInRange, Requests
<1>2. req.block + i \in 1 .. (LastBlock + 1) /\ req.left - i \in 0 .. DirectSize
  BY <1>1, CacheAssumption
<1>3. [req EXCEPT !.block = @ + i, !.left = @ - i] \in Requests
  BY <1>1, <1>2 DEF Requests
<1> QED BY <1>1, <1>3, CacheAssumption DEF Run, Blocks

(* A read of a cached block.                                               *)
LEMMA ReadHitStep ==
  ASSUME Inv, ReadHit
  PROVE  Inv' /\ StoreStep
<1>1. PICK s \in Holding(cache, req.block) :
        /\ clock' = Tick(clock, 1)
        /\ cache' = [cache EXCEPT ![s].access_time = clock']
        /\ got' = Store(got, req.block, 1, [x \in {req.block} |-> cache[s].buf])
  BY DEF ReadHit
<1>2. s \in Slots /\ cache[s].in_use /\ cache[s].block = req.block
  BY <1>1 DEF Holding
<1>3. /\ req.left > 0 /\ 1 \in 1 .. req.left /\ 1 \in 0 .. DirectSize
      /\ req.op = "read"
      /\ req' = [req EXCEPT !.block = @ + 1, !.left = @ - 1]
      /\ UNCHANGED <<disk, wiped, lost>>
  BY CacheAssumption DEF ReadHit, Advance, Inv, TypeOK, Requests
<1>4. clock' \in Times
  BY <1>1, <1>3, TickType DEF Inv, TypeOK
<1>5. cache' \in [Slots -> Entry]
  BY <1>1, <1>2, <1>4, InvFacts DEF Entry
<1>6. SameContents(cache, cache')
  BY <1>1, <1>2, InvFacts DEF Entry, SameContents
<1>7. /\ View(disk, cache') = View(disk, cache)
      /\ One(cache') /\ Placed(cache')
      /\ ~lost => Clean(disk, cache', wiped)
  BY <1>5, <1>6, InvFacts, ViewOfTouched
<1>8. View(disk, cache)[req.block] = cache[s].buf /\ cache[s].buf \in Data
  <2>1. req.block \in Blocks
    BY <1>3, RunInDevice
  <2>2. cache[s].buf \in Data
    BY <1>2, InvFacts DEF Entry
  <2> QED BY <1>1, <2>1, <2>2, InvFacts, ViewCached
<1>9. Run(req.block, 1) = {req.block}
  BY <1>3 DEF Run, Inv, TypeOK, Requests
<1>10. /\ DOMAIN got' = DOMAIN got \cup {req.block}
       /\ got'[req.block] = cache[s].buf
       /\ \A x \in DOMAIN got \ {req.block} : got'[x] = got[x]
  BY <1>1, <1>9 DEF Store
<1>11. TypeOK'
  BY <1>3, <1>4, <1>5, <1>8, <1>10, RunInDevice DEF TypeOK, Inv
<1>12. ReqInRange' /\ GotWhileReading'
  BY <1>3, RunInDevice DEF ReqInRange, GotWhileReading, Inv, TypeOK, Requests
<1>13. ReadReturnsLastWrite'
  BY <1>3, <1>7, <1>8, <1>10 DEF ReadReturnsLastWrite, Inv
<1>14. OneEntryPerBlock' /\ CleanMatchesDisk'
  BY <1>3, <1>7 DEF One, Clean, OneEntryPerBlock, CleanMatchesDisk
<1>15. StoreStep
  BY <1>3, <1>7 DEF StoreStep
<1> QED BY <1>7, <1>11, <1>12, <1>13, <1>14, <1>15 DEF Inv, Placed

(* A read of a run of uncached blocks, with its eviction.                  *)
LEMMA ReadMissStep ==
  ASSUME Inv, NEW ok \in BOOLEAN, ReadMiss(ok)
  PROVE  Inv' /\ StoreStep
<1> DEFINE i == Uncached(cache, req.block, req.left)
           e == Eldest(cache)
           last == req.block + i - 1
           peeked == IF i < req.left THEN Holding(cache, req.block + i) ELSE {}
           time == IF peeked = {} THEN clock ELSE Tick(clock, 1)
           touched == [s \in Slots |-> IF s \in peeked
                                       THEN [cache[s] EXCEPT !.access_time = time]
                                       ELSE cache[s]]
<1>1. /\ req.op = "read" /\ req.left > 0 /\ Holding(cache, req.block) = {}
      /\ got' = Store(got, req.block, i, disk)
      /\ clock' = Tick(time, i)
      /\ disk' = EvictTo(disk, cache[e], ok)
      /\ lost' = (lost \/ (NeedsWrite(cache[e]) /\ ~ok))
      /\ cache' = reuse_cache(touched, e, last, disk[last], FALSE, clock')
      /\ req' = [req EXCEPT !.block = @ + i, !.left = @ - i]
      /\ wiped' = wiped
  BY DEF ReadMiss, Advance
<1>2. /\ req.block \in Int /\ req.left \in Nat \ {0} /\ req.left <= DirectSize
      /\ lost \in BOOLEAN /\ clock \in Times
  BY <1>1, CacheAssumption DEF Inv, TypeOK, Requests
<1>3. i \in 1 .. req.left /\ \A x \in Run(req.block, i) : Holding(cache, x) = {}
  BY <1>1, <1>2, UncachedRun
<1>4. e \in Slots
  BY InvFacts, EldestInSlots
<1>5. time \in Times
  BY <1>2, TickType, CacheAssumption
<1>6. clock' \in Times
  <2>1. i \in 0 .. DirectSize
    BY <1>2, <1>3, CacheAssumption
  <2> HIDE DEF i, time
  <2> QED BY <1>1, <1>5, <2>1, TickType
<1> HIDE DEF i, e, time, peeked
<1>7. /\ touched \in [Slots -> Entry]
      /\ SameContents(cache, touched)
  BY <1>5, InvFacts DEF Entry, SameContents
<1> HIDE DEF touched
<1>8. /\ View(disk, touched) = View(disk, cache)
      /\ One(touched) /\ Placed(touched)
      /\ ~lost => Clean(disk, touched, wiped)
      /\ \A b : Holding(touched, b) = Holding(cache, b)
  BY <1>7, InvFacts, ViewOfTouched
<1>9. /\ last \in Blocks /\ last \in Run(req.block, i)
      /\ Run(req.block, i) \subseteq Blocks
      /\ req' \in Requests
      /\ (req.block + i) + (req.left - i) <= LastBlock + 1
  BY <1>1, <1>3, RunInDevice
<1> HIDE DEF last
<1>10. Holding(touched, last) = {} /\ disk[last] \in Data
  BY <1>3, <1>8, <1>9, InvFacts
<1>11. EvictTo(disk, touched[e], ok) = disk' /\ (NeedsWrite(touched[e]) <=> NeedsWrite(cache[e]))
  BY <1>1, <1>4, <1>7 DEF EvictTo, NeedsWrite, SameContents
<1>12. /\ cache' \in [Slots -> Entry]
       /\ Replaced(touched, cache', e, last)
       /\ cache'[e].buf = disk[last]
  <2> DEFINE new == [in_use |-> TRUE, block |-> last, buf |-> disk[last],
                     dirty |-> FALSE, access_time |-> clock']
  <2>1. new \in Entry
    BY <1>6, <1>9, <1>10 DEF Entry
  <2>2. cache' = [touched EXCEPT ![e] = new]
    BY <1>1 DEF reuse_cache
  <2> QED BY <1>4, <1>7, <1>9, <1>10, <2>1, <2>2 DEF Replaced
<1>13. /\ disk' \in [Blocks -> Data]
       /\ One(cache') /\ Placed(cache')
       /\ View(disk', cache')[last] = disk[last]
  <2>1. disk' \in [Blocks -> Data]
    BY <1>1, <1>4, InvFacts, EvictWritesBack
  <2> QED BY <1>8, <1>12, <2>1, ReplacedShape
<1>14. /\ DOMAIN got' = DOMAIN got \cup Run(req.block, i)
       /\ \A x \in Run(req.block, i) : got'[x] = disk[x]
       /\ \A x \in DOMAIN got \ Run(req.block, i) : got'[x] = got[x]
  BY <1>1 DEF Store
<1>15. TypeOK'
  <2>1. \A x \in DOMAIN got' : got'[x] \in Data
    BY <1>9, <1>14, InvFacts DEF Inv, TypeOK
  <2>2. lost' \in BOOLEAN /\ wiped' \subseteq Blocks /\ DOMAIN got' \subseteq Blocks
    BY <1>1, <1>2, <1>9, <1>14 DEF Inv, TypeOK
  <2> QED BY <1>6, <1>9, <1>12, <1>13, <2>1, <2>2 DEF TypeOK
<1>16. ReqInRange' /\ GotWhileReading'
  BY <1>1, <1>9 DEF ReqInRange, GotWhileReading, Inv, TypeOK, Requests
<1>17. ASSUME ~lost'
       PROVE  /\ Clean(disk', cache', wiped)
              /\ \A x \in Blocks \ wiped : View(disk', cache')[x] = View(disk, cache)[x]
              /\ \A x \in Blocks : disk'[x] \in {disk[x], View(disk, cache)[x]}
  <2>1. ~lost /\ (NeedsWrite(touched[e]) => ok)
    BY <1>1, <1>11, <1>17
  <2>2. WrittenBack(disk, disk', touched, e)
    BY <1>4, <1>7, <1>8, <1>11, <2>1, InvFacts, EvictWritesBack
  <2>3. /\ SameOn(Blocks \ (wiped \cup {last}), View(disk', cache'), View(disk, touched))
        /\ Towards(disk, disk', View(disk, touched))
        /\ cache'[e].buf = disk'[last] => Clean(disk', cache', wiped)
    <3>1. Clean(disk, touched, wiped) /\ One(touched) /\ Placed(touched)
      BY <1>8, <2>1
    <3> QED BY <1>7, <1>12, <2>2, <3>1, ReplacedKeeps
  <2>4. View(disk, touched)[last] = disk[last]
    BY <1>9, <1>10, ViewUncached
  <2>5. disk'[last] = disk[last]
    BY <1>9, <2>3, <2>4 DEF Towards
  <2> QED BY <1>8, <1>12, <1>13, <2>3, <2>4, <2>5 DEF SameOn, Towards
<1>18. ReadReturnsLastWrite'
  <2> SUFFICES ASSUME ~lost', NEW x \in DOMAIN got' \ wiped
               PROVE  got'[x] = View(disk', cache')[x]
    BY <1>1 DEF ReadReturnsLastWrite
  <2>1. x \in Blocks /\ View(disk', cache')[x] = View(disk, cache)[x]
    BY <1>15, <1>17 DEF TypeOK
  <2>2. CASE x \in Run(req.block, i)
    <3>1. View(disk, cache)[x] = disk[x]
      BY <1>3, <2>1, <2>2, ViewUncached
    <3> QED BY <1>14, <2>1, <2>2, <3>1
  <2>3. CASE x \notin Run(req.block, i)
    <3>1. x \in DOMAIN got \ wiped /\ ~lost
      BY <1>1, <1>14, <2>3
    <3> QED BY <1>14, <2>1, <2>3, <3>1 DEF Inv, ReadReturnsLastWrite
  <2> QED BY <2>2, <2>3
<1>19. OneEntryPerBlock' /\ CleanMatchesDisk'
  BY <1>1, <1>13, <1>17 DEF One, Clean, OneEntryPerBlock, CleanMatchesDisk
<1>20. ASSUME ~lost' PROVE WB!StoreNext
  <2>1. View(disk', cache') \in [Blocks -> Data]
    BY <1>12, <1>13, ViewType
  <2>2. WB!Settle
    BY <1>1, <1>13, <1>17, <1>20, <2>1 DEF WB!Settle, WB!Same, WB!Destage
  <2> QED BY <2>2 DEF WB!StoreNext
<1> QED BY <1>13, <1>15, <1>16, <1>18, <1>19, <1>20 DEF Inv, Placed, StoreStep

(* A write of a cached block.                                              *)
LEMMA WriteHitStep ==
  ASSUME Inv, WriteHit
  PROVE  Inv' /\ StoreStep
<1> DEFINE b == req.block
           v == req.data
<1>1. PICK s \in Holding(cache, b) :
        /\ clock' = Tick(clock, 1)
        /\ cache' = reuse_cache(cache, s, b, v, TRUE, clock')
  BY DEF WriteHit
<1>2. s \in Slots /\ cache[s].in_use /\ cache[s].block = b
  BY <1>1 DEF Holding
<1>3. /\ req.left > 0 /\ 1 \in 1 .. req.left /\ 1 \in 0 .. DirectSize
      /\ req.op = "write" /\ v \in Data /\ wiped \subseteq Blocks
      /\ req' = [req EXCEPT !.block = @ + 1, !.left = @ - 1]
      /\ wiped' = wiped \ {b}
      /\ UNCHANGED <<disk, got, lost>>
  BY CacheAssumption DEF WriteHit, Advance, Inv, TypeOK, Requests
<1>4. clock' \in Times
  BY <1>1, <1>3, TickType DEF Inv, TypeOK
<1>5. b \in Blocks /\ req' \in Requests /\ (b + 1) + (req.left - 1) <= LastBlock + 1
  BY <1>3, RunInDevice
<1>6. /\ cache' \in [Slots -> Entry] /\ One(cache') /\ Placed(cache')
      /\ View(disk, cache')[b] = v
      /\ \A x \in Blocks : x # b => View(disk, cache')[x] = View(disk, cache)[x]
      /\ ~lost => Clean(disk, cache', wiped \ {b})
  <2>0. TRUE \in BOOLEAN /\ Holding(cache, b) \subseteq {s}
    BY <1>2, InvFacts DEF One, Holding
  <2>1. /\ cache' \in [Slots -> Entry] /\ Replaced(cache, cache', s, b)
        /\ cache'[s].buf = v /\ cache'[s].dirty
    <3> DEFINE new == [in_use |-> TRUE, block |-> b, buf |-> v,
                       dirty |-> TRUE, access_time |-> clock']
    <3>1. new \in Entry
      BY <1>3, <1>4, <1>5 DEF Entry
    <3>2. cache' = [cache EXCEPT ![s] = new]
      BY <1>1 DEF reuse_cache
    <3> QED BY <1>2, <1>5, <2>0, <3>1, <3>2, InvFacts DEF Replaced
  <2>2. One(cache) /\ Placed(cache) /\ (~lost => Clean(disk, cache, wiped))
    BY InvFacts
  <2>3. One(cache') /\ Placed(cache') /\ View(disk, cache')[b] = v
    BY <2>1, <2>2, ReplacedShape
  <2>4. SameOn(Blocks \ {b}, View(disk, cache'), View(disk, cache))
    BY <1>1, <2>1, <2>2, OverwriteKeeps
  <2>5. ~lost => Clean(disk, cache', wiped \ {b})
    BY <1>1, <2>1, <2>2, OverwriteKeeps
  <2> QED BY <2>1, <2>3, <2>4, <2>5 DEF SameOn
<1>7. got = Nothing /\ DOMAIN got = {}
  BY <1>3 DEF Inv, GotWhileReading, Nothing
<1>8. TypeOK'
  BY <1>3, <1>4, <1>5, <1>6 DEF Inv, TypeOK
<1>9. ReqInRange' /\ GotWhileReading' /\ ReadReturnsLastWrite'
  BY <1>3, <1>5, <1>7
  DEF ReqInRange, GotWhileReading, ReadReturnsLastWrite, Inv, TypeOK, Requests
<1>10. OneEntryPerBlock' /\ CleanMatchesDisk'
  BY <1>3, <1>6 DEF One, Clean, OneEntryPerBlock, CleanMatchesDisk
<1>11. WB!StoreNext
  <2>1. View(disk, cache') \in [Blocks -> Data]
    BY <1>6, InvFacts, ViewType
  <2>2. WB!Put({b}, v)
    BY <1>3, <1>6, <2>1, InvFacts DEF WB!Put, WB!Destage
  <2> QED BY <1>3, <1>5, <2>2 DEF WB!StoreNext
<1> QED BY <1>6, <1>8, <1>9, <1>10, <1>11 DEF Inv, Placed, StoreStep

(* A write of an uncached block, with its eviction.                        *)
LEMMA WriteMissStep ==
  ASSUME Inv, NEW ok \in BOOLEAN, WriteMiss(ok)
  PROVE  Inv' /\ StoreStep
<1> DEFINE b == req.block
           v == req.data
           e == Eldest(cache)
<1>1. /\ req.op = "write" /\ req.left > 0 /\ Holding(cache, b) = {}
      /\ clock' = Tick(clock, 1)
      /\ disk' = EvictTo(disk, cache[e], ok)
      /\ lost' = (lost \/ (NeedsWrite(cache[e]) /\ ~ok))
      /\ cache' = reuse_cache(cache, e, b, v, TRUE, clock')
      /\ wiped' = wiped \ {b}
      /\ req' = [req EXCEPT !.block = @ + 1, !.left = @ - 1]
      /\ got' = got
  BY DEF WriteMiss, Advance
<1>2. e \in Slots
  BY InvFacts, EldestInSlots
<1>3. /\ 1 \in 1 .. req.left /\ 1 \in 0 .. DirectSize /\ v \in Data
      /\ wiped \subseteq Blocks /\ lost \in BOOLEAN
  BY <1>1, CacheAssumption DEF Inv, TypeOK, Requests
<1>4. clock' \in Times
  BY <1>1, <1>3, TickType DEF Inv, TypeOK
<1>5. b \in Blocks /\ req' \in Requests /\ (b + 1) + (req.left - 1) <= LastBlock + 1
  BY <1>1, <1>3, RunInDevice
<1>6. TRUE \in BOOLEAN /\ Holding(cache, b) \subseteq {e}
  BY <1>1
<1> HIDE DEF e
<1>7. /\ cache' \in [Slots -> Entry] /\ Replaced(cache, cache', e, b)
      /\ cache'[e].buf = v /\ cache'[e].dirty
  <2> DEFINE new == [in_use |-> TRUE, block |-> b, buf |-> v,
                     dirty |-> TRUE, access_time |-> clock']
  <2>1. new \in Entry
    BY <1>3, <1>4, <1>5 DEF Entry
  <2>2. cache' = [cache EXCEPT ![e] = new]
    BY <1>1 DEF reuse_cache
  <2> QED BY <1>2, <1>5, <1>6, <2>1, <2>2, InvFacts DEF Replaced
<1>8. /\ disk' \in [Blocks -> Data] /\ One(cache') /\ Placed(cache')
       /\ View(disk', cache')[b] = v
  <2>1. disk' \in [Blocks -> Data]
    BY <1>1, <1>2, InvFacts, EvictWritesBack
  <2> QED BY <1>7, <2>1, InvFacts, ReplacedShape
<1>9. ASSUME ~lost'
      PROVE  /\ \A x \in Blocks \ wiped : x # b
                  => View(disk', cache')[x] = View(disk, cache)[x]
             /\ \A x \in Blocks : disk'[x] \in {disk[x], View(disk, cache)[x]}
             /\ Clean(disk', cache', wiped \ {b})
  <2>1. ~lost /\ (NeedsWrite(cache[e]) => ok)
    BY <1>1, <1>9
  <2>2. WrittenBack(disk, disk', cache, e)
    BY <1>1, <1>2, <2>1, InvFacts, EvictWritesBack
  <2>3. /\ cache \in [Slots -> Entry] /\ One(cache) /\ Placed(cache)
        /\ Clean(disk, cache, wiped)
    BY <2>1, InvFacts
  <2>4. /\ SameOn(Blocks \ (wiped \cup {b}), View(disk', cache'), View(disk, cache))
        /\ Towards(disk, disk', View(disk, cache))
        /\ Clean(disk', cache', wiped \ {b})
    BY <1>7, <2>2, <2>3, ReplacedKeeps
  <2> QED BY <2>4 DEF SameOn, Towards
<1>10. got = Nothing /\ DOMAIN got = {}
  BY <1>1 DEF Inv, GotWhileReading, Nothing
<1>11. TypeOK'
  BY <1>1, <1>3, <1>4, <1>5, <1>7, <1>8 DEF Inv, TypeOK
<1>12. ReqInRange' /\ GotWhileReading' /\ ReadReturnsLastWrite'
  BY <1>1, <1>5, <1>10
  DEF ReqInRange, GotWhileReading, ReadReturnsLastWrite, Inv, TypeOK, Requests
<1>13. OneEntryPerBlock' /\ CleanMatchesDisk'
  BY <1>1, <1>8, <1>9 DEF One, Clean, OneEntryPerBlock, CleanMatchesDisk
<1>14. ASSUME ~lost' PROVE WB!StoreNext
  <2>1. View(disk', cache') \in [Blocks -> Data]
    BY <1>7, <1>8, ViewType
  <2>2. WB!Put({b}, v)
    BY <1>1, <1>8, <1>9, <1>14, <2>1 DEF WB!Put, WB!Destage
  <2> QED BY <1>3, <1>5, <2>2 DEF WB!StoreNext
<1> QED BY <1>8, <1>11, <1>12, <1>13, <1>14 DEF Inv, Placed, StoreStep

(* A cached read or write begins.                                          *)
LEMMA StartStep ==
  ASSUME Inv, NEW b \in Blocks, NEW n \in 1 .. (LastBlock - b + 1),
         \/ StartRead(b, n)
         \/ \E v \in Values : StartWrite(b, n, v)
  PROVE  Inv' /\ StoreStep
<1>1. /\ req = Idle /\ n <= DirectSize
      /\ UNCHANGED <<got, disk, cache, clock, wiped, lost>>
      /\ \E o \in {"read", "write"}, v \in Data :
           req' = [op |-> o, block |-> b, left |-> n, data |-> v]
  BY DEF StartRead, StartWrite, Data
<1>2. got = Nothing
  BY <1>1 DEF Inv, GotWhileReading, Idle
<1>3. req' \in Requests /\ ReqInRange'
  BY <1>1, CacheAssumption DEF Requests, Blocks, ReqInRange
<1>4. TypeOK' /\ GotWhileReading' /\ OneEntryPerBlock' /\ CleanMatchesDisk'
      /\ ReadReturnsLastWrite' /\ Placed(cache)'
  BY <1>1, <1>2, <1>3 DEF Inv, TypeOK, GotWhileReading, OneEntryPerBlock,
     CleanMatchesDisk, ReadReturnsLastWrite, Placed
<1> QED BY <1>1, <1>3, <1>4 DEF Inv, StoreStep

(* A read or write returns to its caller.                                  *)
LEMMA FinishStep ==
  ASSUME Inv, Finish
  PROVE  Inv' /\ StoreStep
<1>1. /\ req' = Idle /\ got' = Nothing /\ DOMAIN got' = {}
      /\ UNCHANGED <<disk, cache, clock, wiped, lost>>
  BY DEF Finish, Nothing
<1>2. Idle \in Requests
  BY CacheAssumption DEF Idle, Requests, Data
<1>3. ReqInRange' /\ GotWhileReading' /\ ReadReturnsLastWrite'
  BY <1>1, CacheAssumption
  DEF ReqInRange, GotWhileReading, ReadReturnsLastWrite, Idle
<1>4. TypeOK' /\ OneEntryPerBlock' /\ CleanMatchesDisk' /\ Placed(cache)'
  BY <1>1, <1>2 DEF Inv, TypeOK, OneEntryPerBlock, CleanMatchesDisk, Placed
<1> QED BY <1>1, <1>3, <1>4 DEF Inv, StoreStep

(* A flush that keeps the entries: the common part of unix_flush and of a  *)
(* direct read.                                                            *)
LEMMA FlushingStep ==
  ASSUME Inv, ~lost, NEW F \in SUBSET Slots,
         Flushed(disk, disk', cache, cache', F),
         UNCHANGED <<clock, wiped, lost>>
  PROVE  /\ disk' \in [Blocks -> Data] /\ cache' \in [Slots -> Entry]
         /\ Placed(cache') /\ OneEntryPerBlock' /\ CleanMatchesDisk'
         /\ View(disk', cache') = View(disk, cache)
         /\ F = {} => \A x \in Blocks \ wiped : disk'[x] = View(disk, cache)[x]
         /\ StoreStep
<1>1. /\ disk' \in [Blocks -> Data]
      /\ cache' \in [Slots -> Entry] /\ One(cache') /\ Placed(cache')
      /\ View(disk', cache') = View(disk, cache)
      /\ \A x \in Blocks : disk'[x] \in {disk[x], View(disk, cache)[x]}
      /\ Clean(disk', cache', wiped)
      /\ F = {} => \A x \in Blocks \ wiped : disk'[x] = View(disk, cache)[x]
  <2>0. /\ disk \in [Blocks -> Data] /\ cache \in [Slots -> Entry]
        /\ One(cache) /\ Placed(cache) /\ Clean(disk, cache, wiped)
    BY InvFacts
  <2>2. disk' \in [Blocks -> Data] /\ Towards(disk, disk', View(disk, cache))
    BY <2>0, FlushKeeps
  <2>3. cache' \in [Slots -> Entry] /\ One(cache') /\ Placed(cache')
    BY <2>0, FlushKeeps
  <2>4. Clean(disk', cache', wiped)
    BY <2>0, FlushKeeps
  <2>5. View(disk', cache') = View(disk, cache)
    <3>1. SameOn(Blocks, View(disk', cache'), View(disk, cache))
      BY <2>0, FlushKeeps
    <3>2. View(disk', cache') \in [Blocks -> Data] /\ View(disk, cache) \in [Blocks -> Data]
      BY <2>0, <2>2, <2>3, ViewType
    <3> QED BY <3>1, <3>2 DEF SameOn
  <2>6. F = {} => SameOn(Blocks \ wiped, disk', View(disk, cache))
    BY <2>0, FlushKeeps
  <2> QED BY <2>2, <2>3, <2>4, <2>5, <2>6 DEF SameOn, Towards
<1>2. OneEntryPerBlock' /\ CleanMatchesDisk'
  BY <1>1 DEF One, Clean, OneEntryPerBlock, CleanMatchesDisk
<1>3. WB!Settle
  BY <1>1, InvFacts DEF WB!Settle, WB!Same, WB!Destage
<1> QED BY <1>1, <1>2, <1>3 DEF StoreStep, WB!StoreNext

(* unix_flush.                                                             *)
LEMMA FlushStep ==
  ASSUME Inv, NEW F \in SUBSET Slots, Flush(F)
  PROVE  Inv' /\ StoreStep
<1>1. /\ ~lost /\ req = Idle
      /\ disk' = FlushedDisk(disk, cache, F)
      /\ cache' = FlushedCache(cache, F, FALSE)
      /\ UNCHANGED <<got, clock, req, wiped, lost>>
  BY DEF Flush
<1>2. /\ disk' \in [Blocks -> Data] /\ cache' \in [Slots -> Entry]
      /\ Placed(cache') /\ OneEntryPerBlock' /\ CleanMatchesDisk' /\ StoreStep
  <2>1. Flushed(disk, disk', cache, cache', F)
    BY <1>1 DEF Flushed
  <2> QED BY <1>1, <2>1, FlushingStep
<1>3. got = Nothing /\ DOMAIN got = {}
  BY <1>1 DEF Inv, GotWhileReading, Idle, Nothing
<1>4. TypeOK' /\ ReqInRange' /\ GotWhileReading' /\ ReadReturnsLastWrite'
  BY <1>1, <1>2, <1>3
  DEF Inv, TypeOK, ReqInRange, GotWhileReading, ReadReturnsLastWrite
<1> QED BY <1>2, <1>4 DEF Inv, Placed

(* A read that goes round the cache.                                       *)
LEMMA ReadDirectStep ==
  ASSUME Inv, NEW b \in Blocks, NEW n \in 1 .. (LastBlock - b + 1),
         NEW F \in SUBSET Slots, ReadDirect(b, n, F)
  PROVE  Inv' /\ StoreStep
<1>1. /\ ~lost /\ req = Idle
      /\ disk' = FlushedDisk(disk, cache, F)
      /\ cache' = FlushedCache(cache, F, FALSE)
      /\ UNCHANGED <<clock, wiped, lost>>
      /\ IF F = {} THEN /\ got' = Store(Nothing, b, n, disk')
                        /\ req' = [Idle EXCEPT !.op = "read"]
         ELSE UNCHANGED <<got, req>>
  BY DEF ReadDirect
<1>2. /\ disk' \in [Blocks -> Data] /\ cache' \in [Slots -> Entry]
      /\ Placed(cache') /\ OneEntryPerBlock' /\ CleanMatchesDisk' /\ StoreStep
      /\ View(disk', cache') = View(disk, cache)
      /\ F = {} => \A x \in Blocks \ wiped : disk'[x] = View(disk, cache)[x]
  <2>1. Flushed(disk, disk', cache, cache', F)
    BY <1>1 DEF Flushed
  <2> QED BY <1>1, <2>1, FlushingStep
<1>3. got = Nothing /\ DOMAIN Nothing = {}
  BY <1>1 DEF Inv, GotWhileReading, Idle, Nothing
<1>4. Run(b, n) \subseteq Blocks
  BY CacheAssumption DEF Run, Blocks
<1>5. CASE F = {}
  <2>1. /\ DOMAIN got' = Run(b, n)
        /\ \A x \in Run(b, n) : got'[x] = disk'[x]
    BY <1>1, <1>3, <1>5 DEF Store
  <2>2. req' \in Requests /\ ReqInRange' /\ GotWhileReading'
    BY <1>1, <1>5, CacheAssumption
    DEF Idle, Requests, Data, ReqInRange, GotWhileReading
  <2>3. TypeOK'
    BY <1>1, <1>2, <1>4, <2>1, <2>2 DEF Inv, TypeOK
  <2>4. ReadReturnsLastWrite'
    BY <1>1, <1>2, <1>4, <1>5, <2>1 DEF ReadReturnsLastWrite
  <2> QED BY <1>2, <2>2, <2>3, <2>4 DEF Inv, Placed
<1>6. CASE F # {}
  <2>1. TypeOK' /\ ReqInRange' /\ GotWhileReading' /\ ReadReturnsLastWrite'
    BY <1>1, <1>2, <1>3, <1>6
    DEF Inv, TypeOK, ReqInRange, GotWhileReading, ReadReturnsLastWrite
  <2> QED BY <1>2, <2>1 DEF Inv, Placed
<1> QED BY <1>5, <1>6
(* A step that empties the cache with no request running: what is read is  *)
(* what the device holds.                                                  *)
LEMMA EmptyingStep ==
  ASSUME Inv, cache' = EmptyCache, disk' \in [Blocks -> Data], clock' \in Times,
         req' = Idle, got' = Nothing, wiped' \subseteq Blocks, lost' \in BOOLEAN
  PROVE  Inv' /\ View(disk', cache') = disk'
<1>1. /\ cache' \in [Slots -> Entry] /\ One(cache') /\ Placed(cache')
      /\ Clean(disk', cache', wiped') /\ View(disk', cache') = disk'
  BY EmptyCacheFacts
<1>2. DOMAIN got' = {}
  BY DEF Nothing
<1>3. req' \in Requests
  BY CacheAssumption DEF Idle, Requests, Data
<1>4. TypeOK'
  BY <1>1, <1>2, <1>3 DEF TypeOK
<1>5. ReqInRange' /\ GotWhileReading' /\ ReadReturnsLastWrite'
  BY <1>2, CacheAssumption
  DEF ReqInRange, GotWhileReading, ReadReturnsLastWrite, Idle
<1>6. OneEntryPerBlock' /\ CleanMatchesDisk'
  BY <1>1 DEF One, Clean, OneEntryPerBlock, CleanMatchesDisk
<1> QED BY <1>1, <1>4, <1>5, <1>6 DEF Inv, Placed

(* A write that goes round the cache.                                      *)
LEMMA WriteDirectStep ==
  ASSUME Inv, NEW b \in Blocks, NEW n \in 1 .. (LastBlock - b + 1),
         NEW v \in Values, NEW F \in SUBSET Slots, NEW k \in 0 .. n,
         WriteDirect(b, n, v, F, k)
  PROVE  Inv' /\ StoreStep
<1> DEFINE flushed == FlushedDisk(disk, cache, F)
<1>1. /\ ~lost /\ req = Idle
      /\ cache' = FlushedCache(cache, F, TRUE)
      /\ lost' = (F # {})
      /\ UNCHANGED <<got, clock, req>>
      /\ IF F # {} THEN disk' = flushed /\ wiped' = wiped
         ELSE /\ disk' = [x \in Blocks |-> IF x \in Run(b, k) THEN v ELSE flushed[x]]
              /\ wiped' = wiped \ Run(b, k)
  BY DEF WriteDirect
<1>2. cache' = EmptyCache
  BY <1>1, DroppedIsEmpty
<1>3. /\ flushed \in [Blocks -> Data]
      /\ \A x \in Blocks : flushed[x] \in {disk[x], View(disk, cache)[x]}
      /\ F = {} => \A x \in Blocks \ wiped : flushed[x] = View(disk, cache)[x]
  <2>0. /\ disk \in [Blocks -> Data] /\ cache \in [Slots -> Entry]
        /\ One(cache) /\ Placed(cache) /\ Clean(disk, cache, wiped)
    BY <1>1, InvFacts
  <2>1. Flushed(disk, flushed, cache, FlushedCache(cache, F, FALSE), F)
    BY DEF Flushed
  <2>2. /\ flushed \in [Blocks -> Data]
        /\ Towards(disk, flushed, View(disk, cache))
        /\ F = {} => SameOn(Blocks \ wiped, flushed, View(disk, cache))
    BY <2>0, <2>1, FlushKeeps
  <2> QED BY <2>2 DEF SameOn, Towards
<1> HIDE DEF flushed
<1>4. v \in Data /\ wiped \subseteq Blocks /\ clock \in Times
  BY DEF Data, Inv, TypeOK
<1>5. disk' \in [Blocks -> Data] /\ wiped' \subseteq Blocks /\ lost' \in BOOLEAN
  BY <1>1, <1>3, <1>4
<1>6. got = Nothing
  BY <1>1 DEF Inv, GotWhileReading, Idle
<1>7. Inv' /\ View(disk', cache') = disk'
  BY <1>1, <1>2, <1>4, <1>5, <1>6, EmptyingStep
<1>8. ASSUME F = {} PROVE WB!StoreNext
  <2>1. Run(b, k) \in SUBSET Blocks
    BY CacheAssumption DEF Run, Blocks
  <2>2. \A x \in Blocks : disk'[x] = IF x \in Run(b, k) THEN v ELSE flushed[x]
    BY <1>1, <1>8
  <2>3. WB!Put(Run(b, k), v)
    BY <1>1, <1>3, <1>5, <1>7, <1>8, <2>2 DEF WB!Put, WB!Destage
  <2> QED BY <1>4, <2>1, <2>3 DEF WB!StoreNext
<1> QED BY <1>1, <1>7, <1>8 DEF StoreStep

(* unix_close and unix_open.                                               *)
LEMMA ReopenStep ==
  ASSUME Inv, NEW F \in SUBSET Slots, Reopen(F)
  PROVE  Inv' /\ StoreStep
<1>1. /\ ~lost /\ req = Idle
      /\ disk' = FlushedDisk(disk, cache, F)
      /\ cache' = EmptyCache /\ clock' = 0 /\ lost' = (F # {})
      /\ UNCHANGED <<got, req, wiped>>
  BY DEF Reopen
<1>2. /\ disk' \in [Blocks -> Data]
      /\ \A x \in Blocks : disk'[x] \in {disk[x], View(disk, cache)[x]}
      /\ F = {} => \A x \in Blocks \ wiped : disk'[x] = View(disk, cache)[x]
  <2>0. /\ disk \in [Blocks -> Data] /\ cache \in [Slots -> Entry]
        /\ One(cache) /\ Placed(cache) /\ Clean(disk, cache, wiped)
    BY <1>1, InvFacts
  <2>1. Flushed(disk, disk', cache, FlushedCache(cache, F, FALSE), F)
    BY <1>1 DEF Flushed
  <2>2. /\ disk' \in [Blocks -> Data]
        /\ Towards(disk, disk', View(disk, cache))
        /\ F = {} => SameOn(Blocks \ wiped, disk', View(disk, cache))
    BY <2>0, <2>1, FlushKeeps
  <2> QED BY <2>2 DEF SameOn, Towards
<1>3. clock' \in Times /\ wiped' \subseteq Blocks /\ lost' \in BOOLEAN
  BY <1>1, CacheAssumption DEF Times, MinTime, MaxTime, Inv, TypeOK
<1>4. got = Nothing
  BY <1>1 DEF Inv, GotWhileReading, Idle
<1>5. Inv' /\ View(disk', cache') = disk'
  BY <1>1, <1>2, <1>3, <1>4, EmptyingStep
<1>6. ASSUME F = {} PROVE WB!Settle
  BY <1>1, <1>2, <1>5, <1>6 DEF WB!Settle, WB!Same, WB!Destage
<1> QED BY <1>1, <1>5, <1>6 DEF StoreStep, WB!StoreNext

(* unix_set_blksize.                                                       *)
LEMMA SetBlksizeStep ==
  ASSUME Inv, NEW F \in SUBSET Slots, unix_set_blksize(F)
  PROVE  Inv' /\ StoreStep
<1>1. /\ ~lost /\ req = Idle
      /\ disk' = FlushedDisk(disk, cache, F)
      /\ cache' = IF F = {} THEN EmptyCache ELSE FlushedCache(cache, F, FALSE)
      /\ UNCHANGED <<got, clock, req, wiped, lost>>
  BY DEF unix_set_blksize
<1>2. got = Nothing /\ DOMAIN got = {}
  BY <1>1 DEF Inv, GotWhileReading, Idle, Nothing
<1>3. CASE F = {}
  <2>0. /\ disk \in [Blocks -> Data] /\ cache \in [Slots -> Entry]
        /\ One(cache) /\ Placed(cache) /\ Clean(disk, cache, wiped)
    BY <1>1, InvFacts
  <2>1. Flushed(disk, disk', cache, FlushedCache(cache, F, FALSE), F)
    BY <1>1 DEF Flushed
  <2>2. /\ disk' \in [Blocks -> Data]
        /\ Towards(disk, disk', View(disk, cache))
        /\ SameOn(Blocks \ wiped, disk', View(disk, cache))
    BY <1>3, <2>0, <2>1, FlushKeeps
  <2>3. clock' \in Times /\ wiped' \subseteq Blocks /\ lost' \in BOOLEAN
    BY <1>1 DEF Inv, TypeOK
  <2>4. Inv' /\ View(disk', cache') = disk'
    BY <1>1, <1>2, <1>3, <2>2, <2>3, EmptyingStep
  <2>5. WB!Settle
    BY <1>1, <2>2, <2>4 DEF WB!Settle, WB!Same, WB!Destage, SameOn, Towards
  <2> QED BY <2>4, <2>5 DEF StoreStep, WB!StoreNext
<1>4. CASE F # {}
  <2>1. Flushed(disk, disk', cache, cache', F)
    BY <1>1, <1>4 DEF Flushed
  <2>2. /\ disk' \in [Blocks -> Data] /\ cache' \in [Slots -> Entry]
        /\ Placed(cache') /\ OneEntryPerBlock' /\ CleanMatchesDisk' /\ StoreStep
    BY <1>1, <2>1, FlushingStep
  <2>3. TypeOK' /\ ReqInRange' /\ GotWhileReading' /\ ReadReturnsLastWrite'
    BY <1>1, <1>2, <2>2
    DEF Inv, TypeOK, ReqInRange, GotWhileReading, ReadReturnsLastWrite
  <2> QED BY <2>2, <2>3 DEF Inv, Placed
<1> QED BY <1>3, <1>4

(* A crash, also in the middle of a request.                               *)
LEMMA CrashStep ==
  ASSUME Inv, Crash
  PROVE  Inv' /\ StoreStep
<1>1. /\ cache' = EmptyCache /\ clock' = 0 /\ req' = Idle /\ got' = Nothing
      /\ UNCHANGED <<disk, wiped, lost>>
  BY DEF Crash
<1>2. /\ clock' \in Times /\ wiped' \subseteq Blocks /\ lost' \in BOOLEAN
      /\ disk' \in [Blocks -> Data]
  BY <1>1, CacheAssumption DEF Times, MinTime, MaxTime, Inv, TypeOK
<1>3. Inv' /\ View(disk', cache') = disk'
  BY <1>1, <1>2, EmptyingStep
<1>4. WB!Crash
  BY <1>1, <1>3 DEF WB!Crash
<1> QED BY <1>3, <1>4 DEF StoreStep, WB!StoreNext

(* test_wipe_block writes behind the cache.                                *)
LEMMA WipeStep ==
  ASSUME Inv, NEW b \in Wipeable, test_wipe_block(b)
  PROVE  Inv' /\ StoreStep
<1>1. /\ req = Idle /\ wiped' = wiped \cup {b}
      /\ disk' = [disk EXCEPT ![b] = WipeValue]
      /\ UNCHANGED <<got, cache, clock, req, lost>>
  BY DEF test_wipe_block
<1>2. b \in Blocks /\ WipeValue \in Data
  BY CacheAssumption DEF Blocks, Data
<1>3. /\ disk' \in [Blocks -> Data]
      /\ \A x \in Blocks : x # b => disk'[x] = disk[x]
  BY <1>1, <1>2, InvFacts
<1>4. got = Nothing /\ DOMAIN got = {}
  BY <1>1 DEF Inv, GotWhileReading, Idle, Nothing
<1>5. TypeOK'
  BY <1>1, <1>2, <1>3 DEF Inv, TypeOK
<1>6. ReqInRange' /\ GotWhileReading' /\ ReadReturnsLastWrite' /\ OneEntryPerBlock'
      /\ Placed(cache')
  BY <1>1, <1>4 DEF Inv, ReqInRange, GotWhileReading, ReadReturnsLastWrite,
     OneEntryPerBlock, Placed
<1>7. CleanMatchesDisk'
  <2> SUFFICES ASSUME ~lost, NEW s \in Slots, cache[s].in_use, ~cache[s].dirty,
                      cache[s].block \notin wiped \cup {b}
               PROVE  cache[s].buf = disk'[cache[s].block]
    BY <1>1 DEF CleanMatchesDisk
  <2>1. cache[s].block \in Blocks /\ cache[s].block # b
    BY DEF Inv, Placed
  <2>2. cache[s].buf = disk[cache[s].block]
    BY DEF Inv, CleanMatchesDisk
  <2> QED BY <1>3, <2>1, <2>2
<1>8. WB!Free(b)
  <2>1. View(disk', cache) \in [Blocks -> Data]
    BY <1>3, InvFacts, ViewType
  <2>2. \A x \in Blocks : x # b => View(disk', cache)[x] = View(disk, cache)[x]
    BY <1>3 DEF View
  <2> QED BY <1>1, <1>3, <2>1, <2>2 DEF WB!Free, WB!Same, WB!Destage
<1> QED BY <1>2, <1>5, <1>6, <1>7, <1>8 DEF Inv, Placed, StoreStep, WB!StoreNext

----------------------------------------------------------------------------
(* The theorems.                                                           *)

(* The invariant holds of a channel that has just been opened.             *)
LEMMA InitInv == Init => Inv
<1> SUFFICES ASSUME Init PROVE Inv
  OBVIOUS
<1>1. /\ disk \in [Blocks -> Data] /\ cache \in [Slots -> Entry]
      /\ One(cache) /\ Placed(cache) /\ Clean(disk, cache, wiped)
  BY EmptyCacheFacts DEF Init, Data
<1>2. DOMAIN got = {} /\ 0 \in Times /\ Idle \in Requests
  BY CacheAssumption DEF Init, Nothing, Times, MinTime, MaxTime, Idle, Requests, Data
<1>3. TypeOK
  BY <1>1, <1>2 DEF Init, TypeOK
<1>4. ReqInRange /\ GotWhileReading /\ ReadReturnsLastWrite
  BY <1>2, CacheAssumption
  DEF Init, Idle, ReqInRange, GotWhileReading, ReadReturnsLastWrite
<1>5. OneEntryPerBlock /\ CleanMatchesDisk
  BY <1>1 DEF One, Clean, OneEntryPerBlock, CleanMatchesDisk
<1> QED BY <1>1, <1>3, <1>4, <1>5 DEF Inv

(* Every step keeps the invariant and is a step of the store.              *)
LEMMA NextStep ==
  ASSUME Inv, [Next]_vars
  PROVE  Inv' /\ StoreStep
<1>1. CASE Step
  BY <1>1, ReadHitStep, WriteHitStep, FinishStep, ReadMissStep, WriteMissStep DEF Step
<1>2. ASSUME NEW b \in Blocks, NEW n \in 1 .. (LastBlock - b + 1),
             \/ StartRead(b, n)
             \/ \E F \in SUBSET Slots : ReadDirect(b, n, F)
             \/ \E v \in Values :
                  \/ StartWrite(b, n, v)
                  \/ \E F \in SUBSET Slots, k \in 0 .. n : WriteDirect(b, n, v, F, k)
      PROVE  Inv' /\ StoreStep
  <2>1. CASE StartRead(b, n) \/ \E v \in Values : StartWrite(b, n, v)
    BY <2>1, StartStep
  <2>2. CASE \E F \in SUBSET Slots : ReadDirect(b, n, F)
    BY <2>2, ReadDirectStep
  <2>3. CASE \E v \in Values, F \in SUBSET Slots, k \in 0 .. n :
               WriteDirect(b, n, v, F, k)
    BY <2>3, WriteDirectStep
  <2> QED BY <1>2, <2>1, <2>2, <2>3
<1>3. CASE \E F \in SUBSET Slots : Flush(F) \/ unix_set_blksize(F) \/ Reopen(F)
  BY <1>3, FlushStep, SetBlksizeStep, ReopenStep
<1>4. CASE Crash
  BY <1>4, CrashStep
<1>5. CASE \E b \in Wipeable : test_wipe_block(b)
  BY <1>5, WipeStep
<1>6. CASE UNCHANGED vars
  <2>1. StoreStep
    BY <1>6 DEF vars, StoreStep
  <2>2. TypeOK' /\ ReqInRange' /\ GotWhileReading' /\ Placed(cache)'
    BY <1>6 DEF vars, Inv, TypeOK, ReqInRange, GotWhileReading, Placed
  <2>3. OneEntryPerBlock' /\ CleanMatchesDisk' /\ ReadReturnsLastWrite'
    BY <1>6 DEF vars, Inv, OneEntryPerBlock, CleanMatchesDisk, ReadReturnsLastWrite
  <2> QED BY <2>1, <2>2, <2>3 DEF Inv
<1> QED BY <1>1, <1>2, <1>3, <1>4, <1>5, <1>6 DEF Next

(* The invariant of the cache, and with it: no block is ever in two        *)
(* entries, a clean entry holds what the device holds, and what            *)
(* unix_read_blk returns is what was written last.                         *)
THEOREM CacheInvariant == Spec => []Inv
<1>1. Inv /\ [Next]_vars => Inv'
  BY NextStep
<1> QED BY <1>1, InitInv, PTL DEF Spec

(* Entries, clock and request keep their types: the loops of unix_read_blk *)
(* and unix_write_blk never leave the device, and the clock never leaves   *)
(* its int.                                                                *)
THEOREM CacheTypeOK == Spec => []TypeOK
<1>1. Inv => TypeOK
  BY DEF Inv
<1> QED BY <1>1, CacheInvariant, PTL

(* No block is ever in two entries of the cache.                           *)
THEOREM CacheHoldsBlockOnce == Spec => []OneEntryPerBlock
<1>1. Inv => OneEntryPerBlock
  BY DEF Inv
<1> QED BY <1>1, CacheInvariant, PTL

(* What reuse_cache drops without writing is on the device already.        *)
THEOREM CacheCleanMatchesDisk == Spec => []CleanMatchesDisk
<1>1. Inv => CleanMatchesDisk
  BY DEF Inv
<1> QED BY <1>1, CacheInvariant, PTL

(* What unix_read_blk stores in the caller's buffer is what was written    *)
(* last.                                                                   *)
THEOREM CacheReadsLastWrite == Spec => []ReadReturnsLastWrite
<1>1. Inv => ReadReturnsLastWrite
  BY DEF Inv
<1> QED BY <1>1, CacheInvariant, PTL

(* A unix_flush that reports success leaves on the device what was written *)
(* last.                                                                   *)
THEOREM CacheFlushIsDurable == Spec => FlushIsDurable
<1>1. ASSUME Inv, [Next]_vars
      PROVE  [Flush({}) => \A b \in Blocks \ wiped :
                             disk'[b] = View(disk, cache)[b]]_vars
  <2> SUFFICES ASSUME Flush({})
               PROVE  \A b \in Blocks \ wiped : disk'[b] = View(disk, cache)[b]
    OBVIOUS
  <2>1. ~lost /\ disk' = FlushedDisk(disk, cache, {})
    BY DEF Flush
  <2>2. Flushed(disk, disk', cache, FlushedCache(cache, {}, FALSE), {})
    BY <2>1 DEF Flushed
  <2>3. /\ disk \in [Blocks -> Data] /\ cache \in [Slots -> Entry]
        /\ One(cache) /\ Placed(cache) /\ Clean(disk, cache, wiped)
    BY <1>1, <2>1, InvFacts
  <2>4. SameOn(Blocks \ wiped, disk', View(disk, cache))
    BY <2>2, <2>3, FlushKeeps
  <2> QED BY <2>4 DEF SameOn
<1> QED BY <1>1, CacheInvariant, PTL DEF Spec, FlushIsDurable

(* The cache implements WriteBackStore until a failed raw write loses data. *)
THEOREM CacheImplementsStore == Spec => ImplementsStore
<1>1. Init => WB!StoreInit
  <2> SUFFICES ASSUME Init PROVE WB!StoreInit
    OBVIOUS
  <2>1. disk \in [Blocks -> Data] /\ View(disk, cache) = disk
    BY EmptyCacheFacts DEF Init, Data
  <2> QED BY <2>1 DEF Init, WB!StoreInit
<1>2. Inv /\ [Next]_vars
        => [lost' \/ WB!StoreNext]_<<View(disk, cache), disk, wiped>>
  BY NextStep DEF StoreStep
<1> QED BY <1>1, <1>2, CacheInvariant, PTL DEF Spec, ImplementsStore
=============================================================================
