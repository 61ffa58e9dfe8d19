---------------------------- MODULE BitmapProofs ----------------------------
(***************************************************************************)
(* Proofs about Bitmap, for every width of a byte and every range of       *)
(* numbers whose memory ends with a whole byte.                            *)
(***************************************************************************)
EXTENDS Bitmap, NumberFacts, TLAPS

(* The callers' real_end closes a byte: it is that of whole groups, of a   *)
(* multiple of eight blocks or inodes each.                                *)
ByteAligned == \A e \in RealEnds : e + 1 - Start = ByteBits * Size(e)

Bits == 0 .. (ByteBits - 1)
Memory(e) == [0 .. (Size(e) - 1) -> SUBSET Bits]

----------------------------------------------------------------------------
(* Bits of an array of bytes.                                              *)

LEMMA BitFacts ==
  ASSUME NEW x \in Nat
  PROVE  /\ ByteOf(x) \in Nat /\ BitOf(x) \in Bits
         /\ x = ByteOf(x) * ByteBits + BitOf(x)
<1>1. ByteBits \in Nat \ {0}
  BY BitmapAssumption
<1>2. x = ByteBits * (x \div ByteBits) + (x % ByteBits) /\ x % ByteBits \in 0 .. (ByteBits - 1)
  BY <1>1, Division
<1>3. x \div ByteBits \in Nat
  BY <1>1, DivisionNat
<1> QED BY <1>1, <1>2, <1>3 DEF ByteOf, BitOf, Bits

(* Different numbers have different bits, and every bit has a number.      *)
LEMMA BitsApart ==
  ASSUME NEW x \in Nat, NEW y \in Nat, ByteOf(x) = ByteOf(y), BitOf(x) = BitOf(y)
  PROVE  x = y
BY BitFacts

LEMMA BitNumber ==
  ASSUME NEW i \in Nat, NEW j \in Bits
  PROVE  /\ i * ByteBits + j \in Nat
         /\ ByteOf(i * ByteBits + j) = i /\ BitOf(i * ByteBits + j) = j
<1>1. ByteBits \in Nat \ {0} /\ j \in Nat
  BY BitmapAssumption DEF Bits
<1> DEFINE x == i * ByteBits + j
<1>2. x \in Nat
  BY <1>1
<1>3. i * ByteBits + j = ByteOf(x) * ByteBits + BitOf(x) /\ ByteOf(x) \in Nat /\ BitOf(x) \in Bits
  BY <1>2, BitFacts
<1> HIDE DEF x
<1>4. i = ByteOf(x) /\ j = BitOf(x)
  BY <1>1, <1>3, UniqueDivision DEF Bits
<1> QED BY <1>2, <1>4 DEF x

LEMMA SetBitsIs ==
  ASSUME NEW D, NEW m \in [D -> SUBSET Bits], NEW N \in SUBSET Nat
  PROVE  /\ SetBits(N, m) \in [D -> SUBSET Bits]
         /\ ClearBits(N, m) \in [D -> SUBSET Bits]
         /\ \A x \in Nat : ByteOf(x) \in D =>
              /\ ext2fs_test_bit(x, SetBits(N, m)) <=> ext2fs_test_bit(x, m) \/ x \in N
              /\ ext2fs_test_bit(x, ClearBits(N, m)) <=> ext2fs_test_bit(x, m) /\ x \notin N
<1>1. \A n \in N : n \in Nat /\ BitOf(n) \in Bits
  BY BitFacts
<1>2. SetBits(N, m) \in [D -> SUBSET Bits] /\ ClearBits(N, m) \in [D -> SUBSET Bits]
  BY <1>1 DEF SetBits, ClearBits
<1>3. ASSUME NEW x \in Nat, ByteOf(x) \in D
      PROVE  /\ ext2fs_test_bit(x, SetBits(N, m)) <=> ext2fs_test_bit(x, m) \/ x \in N
             /\ ext2fs_test_bit(x, ClearBits(N, m)) <=> ext2fs_test_bit(x, m) /\ x \notin N
  <2> DEFINE S == {BitOf(n) : n \in {y \in N : ByteOf(y) = ByteOf(x)}}
  <2>1. BitOf(x) \in S <=> x \in N
    BY <1>1, BitsApart
  <2>2. SetBits(N, m)[ByteOf(x)] = m[ByteOf(x)] \cup S
    BY <1>3 DEF SetBits
  <2>3. ClearBits(N, m)[ByteOf(x)] = m[ByteOf(x)] \ S
    BY <1>3 DEF ClearBits
  <2> HIDE DEF S
  <2> QED BY <2>1, <2>2, <2>3 DEF ext2fs_test_bit
<1> QED BY <1>2, <1>3

(* One bit is a run of one.                                                *)
LEMMA SetBitIs ==
  ASSUME NEW D, NEW m \in [D -> SUBSET Bits], NEW x \in Nat, ByteOf(x) \in D
  PROVE  /\ ext2fs_set_bit(x, m) = SetBits({x}, m)
         /\ ext2fs_clear_bit(x, m) = ClearBits({x}, m)
<1>1. \A i \in D : {BitOf(n) : n \in {y \in {x} : ByteOf(y) = i}}
                     = IF i = ByteOf(x) THEN {BitOf(x)} ELSE {}
  OBVIOUS
<1> QED BY <1>1 DEF ext2fs_set_bit, ext2fs_clear_bit, SetBits, ClearBits

LEMMA EndFacts ==
  ASSUME NEW e \in RealEnds
  PROVE  /\ e \in Int /\ Start \in Nat /\ Start <= e /\ e <= MaxEnd /\ MaxEnd \in Nat
         /\ ByteBits \in Nat \ {0}
         /\ Size(e) \in Nat \ {0}
         /\ \A n \in Start .. e : n - Start \in Nat /\ ByteOf(n - Start) \in 0 .. (Size(e) - 1)
<1>1. /\ e \in Int /\ Start \in Nat /\ Start <= e /\ e <= MaxEnd /\ MaxEnd \in Nat
      /\ ByteBits \in Nat \ {0}
  BY BitmapAssumption
<1> DEFINE z == e - Start
<1>2. z \in Nat /\ z \div ByteBits \in Nat /\ Size(e) = z \div ByteBits + 1
  BY <1>1, DivisionNat DEF Size
<1> HIDE DEF z
<1>3. ASSUME NEW n \in Start .. e
      PROVE  n - Start \in Nat /\ ByteOf(n - Start) \in 0 .. (Size(e) - 1)
  <2> DEFINE y == n - Start
  <2>1. y \in Nat /\ y <= z
    BY <1>1 DEF z
  <2> HIDE DEF y
  <2>2. y \div ByteBits <= z \div ByteBits /\ y \div ByteBits \in Nat
    BY <1>1, <1>2, <2>1, QuotientMonotone, DivisionNat
  <2>3. ByteOf(y) \in 0 .. (Size(e) - 1)
    BY <1>2, <2>2 DEF ByteOf
  <2> QED BY <2>1, <2>3 DEF y
<1> QED BY <1>1, <1>2, <1>3

----------------------------------------------------------------------------
(* The inductive invariant: the bits of the whole memory, padding too, are *)
(* the numbers of the history.                                             *)
Holds(b, h) ==
  /\ b = [end |-> b.end, real_end |-> b.real_end, mem |-> b.mem]
  /\ b.real_end \in RealEnds /\ b.end \in Start .. b.real_end
  /\ b.mem \in Memory(b.real_end)
  /\ h \subseteq Start .. b.real_end
  /\ \A n \in Start .. b.real_end : ext2fs_test_bit(n - Start, b.mem) <=> n \in h

Inv == Holds(bm, held) /\ Holds(copy, copied) /\ ~wild

(* Other memory, of other numbers.                                         *)
LEMMA NewMemory ==
  ASSUME NEW b, NEW h, Holds(b, h), NEW m \in Memory(b.real_end),
         NEW g \in SUBSET (Start .. b.real_end),
         \A n \in Start .. b.real_end : ext2fs_test_bit(n - Start, m) <=> n \in g
  PROVE  Holds([b EXCEPT !.mem = m], g)
<1> DEFINE c == [b EXCEPT !.mem = m]
<1>1. c = [end |-> b.end, real_end |-> b.real_end, mem |-> m]
  BY DEF Holds
<1>2. c.end = b.end /\ c.real_end = b.real_end /\ c.mem = m
  BY <1>1
<1> HIDE DEF c
<1>3. Holds(c, g)
  BY <1>1, <1>2 DEF Holds
<1> QED BY <1>3 DEF c

(* A run of numbers is marked or cleared.                                  *)
LEMMA RunIs ==
  ASSUME NEW b, NEW h, Holds(b, h), NEW S \in SUBSET (Start .. b.real_end), NEW N,
         N = {n - Start : n \in S}
  PROVE  /\ Holds([b EXCEPT !.mem = SetBits(N, b.mem)], h \cup S)
         /\ Holds([b EXCEPT !.mem = ClearBits(N, b.mem)], h \ S)
         /\ SetBits(N, b.mem) \in Memory(b.real_end)
         /\ ClearBits(N, b.mem) \in Memory(b.real_end)
<1> DEFINE e == b.real_end
           D == 0 .. (Size(e) - 1)
<1>1. e \in RealEnds /\ b.mem \in [D -> SUBSET Bits]
  BY DEF Holds, Memory
<1>2. /\ e \in Int /\ Start \in Nat
      /\ \A n \in Start .. e : n - Start \in Nat /\ ByteOf(n - Start) \in D
  BY <1>1, EndFacts
<1>3. N \in SUBSET Nat
  BY <1>2
<1>4. \A n \in Start .. e : n - Start \in N <=> n \in S
  BY <1>2
<1>5. /\ SetBits(N, b.mem) \in [D -> SUBSET Bits]
      /\ ClearBits(N, b.mem) \in [D -> SUBSET Bits]
      /\ \A x \in Nat : ByteOf(x) \in D =>
           /\ ext2fs_test_bit(x, SetBits(N, b.mem)) <=> ext2fs_test_bit(x, b.mem) \/ x \in N
           /\ ext2fs_test_bit(x, ClearBits(N, b.mem)) <=> ext2fs_test_bit(x, b.mem) /\ x \notin N
  BY <1>1, <1>3, SetBitsIs
<1>6. \A n \in Start .. e :
        /\ ext2fs_test_bit(n - Start, SetBits(N, b.mem)) <=> n \in h \cup S
        /\ ext2fs_test_bit(n - Start, ClearBits(N, b.mem)) <=> n \in h \ S
  BY <1>2, <1>4, <1>5 DEF Holds
<1>7. SetBits(N, b.mem) \in Memory(e) /\ ClearBits(N, b.mem) \in Memory(e)
  BY <1>5 DEF Memory
<1>8. h \cup S \in SUBSET (Start .. e) /\ h \ S \in SUBSET (Start .. e)
  BY DEF Holds
<1> HIDE DEF e, D
<1>9. Holds([b EXCEPT !.mem = SetBits(N, b.mem)], h \cup S)
  BY <1>6, <1>7, <1>8, NewMemory DEF e
<1>10. Holds([b EXCEPT !.mem = ClearBits(N, b.mem)], h \ S)
  BY <1>6, <1>7, <1>8, NewMemory DEF e
<1> QED BY <1>7, <1>9, <1>10 DEF e

(* Inside the range no access is wild.                                     *)
LEMMA NotWild ==
  ASSUME NEW b, NEW h, Holds(b, h), NEW S \in SUBSET (Start .. b.real_end), ~wild,
         Accessed(S, b)
  PROVE  ~wild'
<1>1. b.real_end \in RealEnds /\ DOMAIN b.mem = 0 .. (Size(b.real_end) - 1)
  BY DEF Holds, Memory
<1>2. \A n \in S : InMemory(n - Start, b.mem)
  BY <1>1, EndFacts DEF InMemory
<1> QED BY <1>2 DEF Accessed

LEMMA InitInv == BitInit => Inv
<1> SUFFICES ASSUME BitInit PROVE Inv
  OBVIOUS
<1>1. PICK e \in RealEnds : \E end \in Start .. e : bm = ext2fs_allocate_generic_bitmap(end, e)
  BY DEF BitInit
<1>2. PICK end \in Start .. e : bm = ext2fs_allocate_generic_bitmap(end, e)
  BY <1>1
<1> DEFINE m == [i \in 0 .. (Size(e) - 1) |-> {}]
<1>3. bm = [end |-> end, real_end |-> e, mem |-> m]
  BY <1>2 DEF ext2fs_allocate_generic_bitmap, make_bitmap, Zero
<1>4. m \in Memory(e)
  BY DEF Memory
<1>5. \A n \in Start .. e : ~ext2fs_test_bit(n - Start, m)
  BY EndFacts DEF ext2fs_test_bit
<1> HIDE DEF m
<1>6. bm.end = end /\ bm.real_end = e /\ bm.mem = m
  BY <1>3
<1>7. Holds(bm, {})
  BY <1>3, <1>4, <1>5, <1>6 DEF Holds
<1> QED BY <1>7 DEF BitInit, Inv

----------------------------------------------------------------------------
(* The calls.                                                              *)

LEMMA MarkKeeps ==
  ASSUME Inv, NEW n \in Numbers, mark(n) \/ unmark(n)
  PROVE  Inv'
<1> DEFINE e == bm.real_end
<1>0. /\ Holds(bm, held) /\ Holds(copy, copied) /\ ~wild /\ n \in Int
      /\ copy' = copy /\ copied' = copied
  BY BitmapAssumption DEF Inv, mark, unmark, Numbers
<1>1. e \in RealEnds /\ bm.end \in Start .. e /\ bm.mem \in [0 .. (Size(e) - 1) -> SUBSET Bits]
  BY <1>0 DEF Holds, Memory
<1>2. /\ e \in Int /\ Start \in Nat
      /\ \A x \in Start .. e : x - Start \in Nat /\ ByteOf(x - Start) \in 0 .. (Size(e) - 1)
  BY <1>1, EndFacts
<1>3. CASE InRange(bm, n)
  <2>1. n \in Start .. e
    BY <1>0, <1>1, <1>2, <1>3 DEF InRange
  <2>2. /\ ext2fs_set_bit(n - Start, bm.mem) = SetBits({n - Start}, bm.mem)
        /\ ext2fs_clear_bit(n - Start, bm.mem) = ClearBits({n - Start}, bm.mem)
    BY <1>1, <1>2, <2>1, SetBitIs
  <2>3. {n} \in SUBSET (Start .. e) /\ {n - Start} = {x - Start : x \in {n}}
    BY <2>1
  <2>4. /\ Holds([bm EXCEPT !.mem = SetBits({n - Start}, bm.mem)], held \cup {n})
        /\ Holds([bm EXCEPT !.mem = ClearBits({n - Start}, bm.mem)], held \ {n})
    BY <1>0, <2>3, RunIs
  <2>5. Accessed({n}, bm)
    BY <1>3 DEF mark, unmark
  <2>6. ~wild'
    BY <1>0, <2>3, <2>5, NotWild
  <2>7. CASE mark(n)
    <3>1. /\ bm' = [bm EXCEPT !.mem = SetBits({n - Start}, bm.mem)]
          /\ held' = held \cup {n}
      BY <1>3, <2>2, <2>7 DEF mark, ext2fs_mark_generic_bitmap
    <3> QED BY <1>0, <2>4, <2>6, <3>1 DEF Inv
  <2>8. CASE unmark(n)
    <3>1. /\ bm' = [bm EXCEPT !.mem = ClearBits({n - Start}, bm.mem)]
          /\ held' = held \ {n}
      BY <1>3, <2>2, <2>8 DEF unmark, ext2fs_unmark_generic_bitmap
    <3> QED BY <1>0, <2>4, <2>6, <3>1 DEF Inv
  <2> QED BY <2>7, <2>8
<1>4. CASE ~InRange(bm, n)
  <2>1. bm' = bm /\ held' = held /\ Accessed({}, bm)
    BY <1>4 DEF mark, unmark, ext2fs_mark_generic_bitmap, ext2fs_unmark_generic_bitmap
  <2>2. ~wild'
    BY <1>0, <2>1 DEF Accessed
  <2> QED BY <1>0, <2>1, <2>2 DEF Inv
<1> QED BY <1>3, <1>4

LEMMA RangeKeeps ==
  ASSUME Inv, NEW n \in Numbers, NEW num \in 2 .. 3, mark_range(n, num) \/ unmark_range(n, num)
  PROVE  Inv'
<1> DEFINE S == n .. (n + num - 1)
<1>0. /\ Holds(bm, held) /\ Holds(copy, copied) /\ ~wild /\ n \in Int
      /\ copy' = copy /\ copied' = copied
  BY BitmapAssumption DEF Inv, mark_range, unmark_range, Numbers
<1>1. RunInRange(bm, n, num) /\ Accessed(S, bm)
  BY DEF mark_range, unmark_range
<1>2. bm.real_end \in RealEnds /\ bm.end \in Start .. bm.real_end
  BY <1>0 DEF Holds
<1>3. Start \in Nat /\ bm.real_end \in Int
  BY <1>2, EndFacts
<1>4. S \in SUBSET (Start .. bm.real_end)
  BY <1>0, <1>1, <1>2, <1>3 DEF RunInRange
<1>5. Run(n, num) = {x - Start : x \in S}
  <2>1. ASSUME NEW i \in 0 .. (num - 1) PROVE n + i \in S /\ (n + i) - Start = n + i - Start
    BY <1>0, <1>3
  <2>2. ASSUME NEW x \in S PROVE x - n \in 0 .. (num - 1) /\ n + (x - n) - Start = x - Start
    BY <1>0, <1>3
  <2> QED BY <2>1, <2>2 DEF Run
<1>6. /\ Holds([bm EXCEPT !.mem = SetBits(Run(n, num), bm.mem)], held \cup S)
      /\ Holds([bm EXCEPT !.mem = ClearBits(Run(n, num), bm.mem)], held \ S)
  BY <1>0, <1>4, <1>5, RunIs
<1>7. ~wild'
  BY <1>0, <1>1, <1>4, NotWild
<1>8. CASE mark_range(n, num)
  <2>1. bm' = [bm EXCEPT !.mem = SetBits(Run(n, num), bm.mem)] /\ held' = held \cup S
    BY <1>1, <1>8 DEF mark_range, ext2fs_mark_block_bitmap_range
  <2> QED BY <1>0, <1>6, <1>7, <2>1 DEF Inv
<1>9. CASE unmark_range(n, num)
  <2>1. bm' = [bm EXCEPT !.mem = ClearBits(Run(n, num), bm.mem)] /\ held' = held \ S
    BY <1>1, <1>9 DEF unmark_range, ext2fs_unmark_block_bitmap_range
  <2> QED BY <1>0, <1>6, <1>7, <2>1 DEF Inv
<1> QED BY <1>8, <1>9

LEMMA PaddingKeeps ==
  ASSUME Inv, set_padding
  PROVE  Inv'
<1> DEFINE S == (bm.end + 1) .. bm.real_end
           N == {i - Start : i \in S}
<1>0. /\ Holds(bm, held) /\ Holds(copy, copied) /\ ~wild
      /\ copy' = copy /\ copied' = copied
  BY DEF Inv, set_padding
<1>1. bm.real_end \in RealEnds /\ bm.end \in Start .. bm.real_end
  BY <1>0 DEF Holds
<1>2. Start \in Nat /\ bm.real_end \in Int
  BY <1>1, EndFacts
<1>3. S \in SUBSET (Start .. bm.real_end)
  BY <1>1, <1>2
<1>4. bm' = [bm EXCEPT !.mem = SetBits(N, bm.mem)] /\ held' = held \cup S /\ Accessed(S, bm)
  BY DEF set_padding, ext2fs_set_bitmap_padding
<1>5. Holds([bm EXCEPT !.mem = SetBits(N, bm.mem)], held \cup S)
  BY <1>0, <1>3, RunIs
<1>6. ~wild'
  BY <1>0, <1>3, <1>4, NotWild
<1> QED BY <1>0, <1>4, <1>5, <1>6 DEF Inv

LEMMA FudgeKeeps ==
  ASSUME Inv, NEW n \in Numbers, fudge_end(n)
  PROVE  Inv'
<1>0. /\ Holds(bm, held) /\ Holds(copy, copied) /\ ~wild
      /\ copy' = copy /\ copied' = copied /\ held' = held /\ wild' = wild
  BY DEF Inv, fudge_end
<1>1. CASE n > bm.real_end
  BY <1>0, <1>1 DEF fudge_end, ext2fs_fudge_bitmap_end, Inv
<1>2. CASE ~(n > bm.real_end)
  <2>1. bm.real_end \in Int /\ Start \in Nat /\ n \in Int /\ n >= Start
    BY <1>0, EndFacts, BitmapAssumption DEF Holds, Numbers
  <2>2. bm' = [bm EXCEPT !.end = n]
    BY <1>2 DEF fudge_end, ext2fs_fudge_bitmap_end
  <2>3. bm' = [end |-> n, real_end |-> bm.real_end, mem |-> bm.mem]
    BY <1>0, <2>2 DEF Holds
  <2>4. bm'.end = n /\ bm'.real_end = bm.real_end /\ bm'.mem = bm.mem
    BY <2>3
  <2>5. n \in Start .. bm.real_end
    BY <1>2, <2>1
  <2>6. Holds(bm', held)
    BY <1>0, <2>3, <2>4, <2>5 DEF Holds
  <2> QED BY <1>0, <2>6 DEF Inv
<1> QED BY <1>1, <1>2

LEMMA ClearKeeps ==
  ASSUME Inv, clear
  PROVE  Inv'
<1>0. /\ Holds(bm, held) /\ Holds(copy, copied) /\ ~wild
      /\ copy' = copy /\ copied' = copied /\ held' = {} /\ wild' = wild
  BY DEF Inv, clear
<1> DEFINE m == Zero(Size(bm.real_end))
<1>1. m \in Memory(bm.real_end) /\ \A n \in Start .. bm.real_end : ~ext2fs_test_bit(n - Start, m)
  BY <1>0, EndFacts DEF Zero, Memory, Holds, ext2fs_test_bit
<1>2. bm' = [bm EXCEPT !.mem = m]
  BY DEF clear, ext2fs_clear_bitmap
<1> HIDE DEF m
<1>3. {} \in SUBSET (Start .. bm.real_end)
  OBVIOUS
<1>4. Holds([bm EXCEPT !.mem = m], {})
  BY <1>0, <1>1, <1>3, NewMemory
<1> QED BY <1>0, <1>2, <1>4 DEF Inv

LEMMA DupKeeps ==
  ASSUME Inv, dup
  PROVE  Inv'
<1>0. /\ Holds(bm, held) /\ ~wild
      /\ bm' = bm /\ copied' = held /\ held' = held /\ wild' = wild
  BY DEF Inv, dup
<1>1. copy' = [end |-> bm.end, real_end |-> bm.real_end,
               mem |-> [i \in 0 .. (Size(bm.real_end) - 1) |-> bm.mem[i]]]
  BY DEF dup, ext2fs_copy_bitmap, make_bitmap
<1>2. bm.mem = [i \in 0 .. (Size(bm.real_end) - 1) |-> bm.mem[i]]
  BY <1>0 DEF Holds, Memory
<1>3. copy' = bm
  BY <1>0, <1>1, <1>2 DEF Holds
<1> QED BY <1>0, <1>3 DEF Inv

(* Numbers after an aligned end lie in bytes after its memory.             *)
LEMMA AfterMemory ==
  ASSUME ByteAligned, NEW e \in RealEnds, NEW n \in Int, n > e
  PROVE  ByteOf(n - Start) \notin 0 .. (Size(e) - 1)
<1>1. /\ e \in Int /\ Start \in Nat /\ ByteBits \in Nat \ {0} /\ Size(e) \in Nat \ {0}
      /\ Start <= e
  BY EndFacts
<1> DEFINE x == Size(e) * ByteBits + 0
           y == n - Start
<1>2. x \in Nat /\ ByteOf(x) = Size(e)
  <2>1. 0 \in Bits
    BY <1>1 DEF Bits
  <2> QED BY <1>1, <2>1, BitNumber
<1>3. y \in Nat /\ x <= y
  <2>1. e + 1 - Start = ByteBits * Size(e)
    BY DEF ByteAligned
  <2>2. x = ByteBits * Size(e)
    BY <1>1
  <2> QED BY <1>1, <2>1, <2>2
<1> HIDE DEF x, y
<1>4. x \div ByteBits <= y \div ByteBits /\ y \div ByteBits \in Nat
  BY <1>1, <1>2, <1>3, QuotientMonotone, DivisionNat
<1>5. ByteOf(y) \notin 0 .. (Size(e) - 1)
  BY <1>1, <1>2, <1>4 DEF ByteOf
<1> QED BY <1>5 DEF y

(* The part of a resize inside the memory there was.                       *)
LEMMA GrowIs ==
  ASSUME NEW b, NEW h, Holds(b, h), NEW end \in Start .. MaxEnd
  PROVE  /\ GrowInPlace(b, end) \in Memory(b.real_end)
         /\ \A n \in Start .. b.real_end :
              ext2fs_test_bit(n - Start, GrowInPlace(b, end))
                <=> n \in h \ ((b.end + 1) .. end)
<1> DEFINE last == IF b.real_end > end THEN end ELSE b.real_end
           S == (b.end + 1) .. last
           N == {i - Start : i \in S}
           m == ClearBits(N, b.mem)
<1>0. b.real_end \in RealEnds /\ b.end \in Start .. b.real_end /\ end \in Int
  BY BitmapAssumption DEF Holds
<1>1. Start \in Nat /\ b.real_end \in Int /\ b.end \in Int
  BY <1>0, EndFacts
<1>2. last \in Int /\ last <= b.real_end /\ last <= end /\ (last = end \/ last = b.real_end)
  BY <1>0, <1>1
<1>3. GrowInPlace(b, end) = IF end > b.end THEN m ELSE b.mem
  BY DEF GrowInPlace
<1> HIDE DEF last
<1>4. S \in SUBSET (Start .. b.real_end)
  BY <1>0, <1>1, <1>2
<1>5. \A n \in Start .. b.real_end : n \in S <=> n \in (b.end + 1) .. end
  BY <1>0, <1>1, <1>2
<1>6. CASE end > b.end
  <2>1. Holds([b EXCEPT !.mem = m], h \ S) /\ m \in Memory(b.real_end)
    BY <1>4, RunIs
  <2> HIDE DEF m, S
  <2>2. /\ [b EXCEPT !.mem = m].mem = m
        /\ [b EXCEPT !.mem = m].real_end = b.real_end
    <3>1. [b EXCEPT !.mem = m] = [end |-> b.end, real_end |-> b.real_end, mem |-> m]
      BY DEF Holds
    <3> QED BY <3>1
  <2>3. \A n \in Start .. b.real_end : ext2fs_test_bit(n - Start, m) <=> n \in h \ S
    BY <2>1, <2>2 DEF Holds
  <2> QED BY <1>3, <1>5, <1>6, <2>1, <2>3
<1>7. CASE ~(end > b.end)
  <2>1. (b.end + 1) .. end = {}
    BY <1>0, <1>1, <1>7
  <2> QED BY <1>3, <1>7, <2>1 DEF Holds
<1> QED BY <1>6, <1>7

LEMMA ResizeKeeps ==
  ASSUME Inv, ByteAligned, NEW e \in RealEnds, NEW end \in Start .. MaxEnd, resize(end, e)
  PROVE  Inv'
<1> DEFINE m == GrowInPlace(bm, end)
           G == (bm.end + 1) .. end
<1>0. /\ Holds(bm, held) /\ Holds(copy, copied) /\ ~wild
      /\ copy' = copy /\ copied' = copied /\ wild' = wild /\ end <= e
      /\ held' = {n \in held \ G : n <= e}
  BY DEF Inv, resize
<1>1. /\ bm.real_end \in RealEnds /\ bm.real_end \in Int /\ e \in Int /\ Start \in Nat
      /\ end \in Start .. e
  BY <1>0, EndFacts, BitmapAssumption DEF Holds
<1>2. /\ m \in Memory(bm.real_end)
      /\ \A n \in Start .. bm.real_end : ext2fs_test_bit(n - Start, m) <=> n \in held \ G
  BY <1>0, GrowIs
<1>3. bm' = ext2fs_resize_generic_bitmap(bm, end, e)
  BY DEF resize
<1>4. [bm EXCEPT !.mem = m] = [end |-> bm.end, real_end |-> bm.real_end, mem |-> m]
  BY <1>0 DEF Holds
<1>5. CASE e = bm.real_end
  <2>1. bm' = [[bm EXCEPT !.mem = m] EXCEPT !.end = end]
    BY <1>3, <1>5 DEF ext2fs_resize_generic_bitmap
  <2> HIDE DEF m, G
  <2>2. bm' = [end |-> end, real_end |-> e, mem |-> m]
    BY <1>4, <1>5, <2>1
  <2>3. bm'.end = end /\ bm'.real_end = e /\ bm'.mem = m
    BY <2>2
  <2>4. held' = held \ G /\ held' \subseteq Start .. e
    BY <1>0, <1>1, <1>5 DEF Holds
  <2>5. Holds(bm', held')
    BY <1>1, <1>2, <1>5, <2>2, <2>3, <2>4 DEF Holds
  <2> QED BY <1>0, <2>5 DEF Inv
<1>6. CASE e # bm.real_end
  <2> DEFINE r == ResizeMem(m, Size(e))
  <2>1. bm' = [end |-> end, real_end |-> e, mem |-> r]
    BY <1>3, <1>4, <1>6 DEF ext2fs_resize_generic_bitmap
  <2> HIDE DEF m, G
  <2>2. DOMAIN m = 0 .. (Size(bm.real_end) - 1)
    BY <1>2 DEF Memory
  <2>3. /\ r \in Memory(e)
        /\ \A i \in 0 .. (Size(e) - 1) : r[i] = IF i \in DOMAIN m THEN m[i] ELSE {}
    BY <1>2 DEF ResizeMem, Memory
  <2>4. ASSUME NEW n \in Start .. e
        PROVE  ext2fs_test_bit(n - Start, r) <=> n \in held'
    <3>1. ByteOf(n - Start) \in 0 .. (Size(e) - 1) /\ n \in Int /\ n <= e
      BY <1>1, EndFacts
    <3>2. CASE n <= bm.real_end
      <4>1. n \in Start .. bm.real_end
        BY <1>1, <3>1, <3>2
      <4>2. ByteOf(n - Start) \in DOMAIN m
        BY <1>1, <2>2, <4>1, EndFacts
      <4>3. r[ByteOf(n - Start)] = m[ByteOf(n - Start)]
        BY <2>3, <3>1, <4>2
      <4> QED BY <1>0, <1>2, <3>1, <4>1, <4>3 DEF ext2fs_test_bit
    <3>3. CASE ~(n <= bm.real_end)
      <4>0. n > bm.real_end
        BY <1>1, <3>1, <3>3
      <4>a. ByteOf(n - Start) \notin 0 .. (Size(bm.real_end) - 1)
        BY <1>1, <3>1, <4>0, AfterMemory
      <4>1. ByteOf(n - Start) \notin DOMAIN m
        BY <2>2, <4>a
      <4>2. r[ByteOf(n - Start)] = {}
        BY <2>3, <3>1, <4>1
      <4>3. n \notin held
        BY <1>0, <1>1, <3>1, <3>3 DEF Holds
      <4> QED BY <1>0, <4>2, <4>3 DEF ext2fs_test_bit
    <3> QED BY <3>2, <3>3
  <2> HIDE DEF r
  <2>5. bm'.end = end /\ bm'.real_end = e /\ bm'.mem = r
    BY <2>1
  <2>6. held' \subseteq Start .. e
    BY <1>0, <1>1 DEF Holds
  <2>7. Holds(bm', held')
    BY <1>1, <2>1, <2>3, <2>4, <2>5, <2>6 DEF Holds
  <2> QED BY <1>0, <2>7 DEF Inv
<1> QED BY <1>5, <1>6

LEMMA NextInv ==
  ASSUME Inv, ByteAligned, [BitNext]_bitVars
  PROVE  Inv'
<1>1. CASE UNCHANGED bitVars
  BY <1>1 DEF bitVars, Inv, Holds
<1>2. CASE BitNext
  BY <1>2, MarkKeeps, FudgeKeeps, RangeKeeps, PaddingKeeps, ClearKeeps, DupKeeps, ResizeKeeps
     DEF BitNext
<1> QED BY <1>1, <1>2

----------------------------------------------------------------------------
(* What follows from it.                                                   *)

LEMMA InvTypeOK == Inv => BitTypeOK
BY DEF Inv, Holds, Memory, Bits, BitTypeOK

LEMMA HoldsRepresents ==
  ASSUME NEW b, NEW h, Holds(b, h)
  PROVE  {n \in Numbers : ext2fs_test_generic_bitmap(b, n)} = {n \in h : n <= b.end}
<1>1. /\ b.real_end \in Int /\ Start \in Nat /\ b.real_end <= MaxEnd /\ MaxEnd \in Nat
      /\ b.end \in Start .. b.real_end
  BY EndFacts DEF Holds
<1>2. ASSUME NEW n \in Numbers, ext2fs_test_generic_bitmap(b, n) PROVE n \in h /\ n <= b.end
  <2>1. n \in Start .. b.real_end /\ n <= b.end
    BY <1>1, <1>2 DEF Numbers, ext2fs_test_generic_bitmap, InRange
  <2> QED BY <1>2, <2>1 DEF Holds, ext2fs_test_generic_bitmap
<1>3. ASSUME NEW n \in h, n <= b.end PROVE n \in Numbers /\ ext2fs_test_generic_bitmap(b, n)
  <2>1. n \in Start .. b.real_end
    BY DEF Holds
  <2> QED BY <1>1, <1>3, <2>1 DEF Holds, Numbers, ext2fs_test_generic_bitmap, InRange
<1> QED BY <1>2, <1>3

LEMMA InvRangeTest == Inv => RangeTestAgrees
<1> SUFFICES ASSUME Inv, NEW n \in Numbers, NEW num \in 1 .. 3
             PROVE  ext2fs_test_block_bitmap_range(bm, n, num) =
                      (\A i \in n .. (n + num - 1) :
                         InRange(bm, i) /\ ~ext2fs_test_generic_bitmap(bm, i))
  BY DEF RangeTestAgrees
<1>1. n \in Int /\ Start \in Nat /\ bm.end \in Int /\ num \in Int /\ num >= 1
  BY EndFacts, BitmapAssumption DEF Inv, Holds, Numbers
<1>2. RunInRange(bm, n, num) <=> \A i \in n .. (n + num - 1) : InRange(bm, i)
  <2>1. n \in n .. (n + num - 1) /\ n + num - 1 \in n .. (n + num - 1)
    BY <1>1
  <2> QED BY <1>1, <2>1 DEF RunInRange, InRange
<1>3. (\A nr \in Run(n, num) : ~ext2fs_test_bit(nr, bm.mem))
        <=> \A i \in n .. (n + num - 1) : ~ext2fs_test_bit(i - Start, bm.mem)
  <2>1. ASSUME NEW i \in 0 .. (num - 1)
        PROVE  n + i \in n .. (n + num - 1) /\ (n + i) - Start = n + i - Start
    BY <1>1
  <2>2. ASSUME NEW x \in n .. (n + num - 1)
        PROVE  x - n \in 0 .. (num - 1) /\ n + (x - n) - Start = x - Start
    BY <1>1
  <2>3. Run(n, num) = {x - Start : x \in n .. (n + num - 1)}
    BY <2>1, <2>2 DEF Run
  <2> QED BY <2>3
<1>4. ext2fs_test_block_bitmap_range(bm, n, num) <=>
        (\A i \in n .. (n + num - 1) : InRange(bm, i) /\ ~ext2fs_test_generic_bitmap(bm, i))
  BY <1>2, <1>3 DEF ext2fs_test_block_bitmap_range, ext2fs_test_generic_bitmap
<1> QED BY <1>4 DEF ext2fs_test_block_bitmap_range

(* Comparing whole bytes and then the bits left over compares every bit.   *)
LEMMA CompareBits ==
  ASSUME NEW z \in Nat, NEW D, NEW E, 0 .. (z \div ByteBits) \subseteq D \cap E,
         NEW m \in [D -> SUBSET Bits], NEW k \in [E -> SUBSET Bits]
  PROVE  (/\ \A i \in 0 .. ((z \div ByteBits) - 1) : m[i] = k[i]
          /\ \A x \in (z - (z % ByteBits)) .. z : ext2fs_test_bit(x, m) <=> ext2fs_test_bit(x, k))
           <=> \A x \in 0 .. z : ext2fs_test_bit(x, m) <=> ext2fs_test_bit(x, k)
<1> DEFINE w == z \div ByteBits
           r == z % ByteBits
<1>1. ByteBits \in Nat \ {0}
  BY BitmapAssumption
<1>a. /\ z = ByteBits * (z \div ByteBits) + (z % ByteBits)
      /\ z \div ByteBits \in Nat /\ z % ByteBits \in 0 .. (ByteBits - 1)
  <2>1. z \in Int
    OBVIOUS
  <2> QED BY <1>1, <2>1, Division, DivisionNat
<1>2. w \in Nat /\ r \in 0 .. (ByteBits - 1) /\ z = w * ByteBits + r
  BY <1>1, <1>a
<1> HIDE DEF w, r
<1>3. z - r \in Nat /\ z - r = w * ByteBits
  <2>1. w * ByteBits \in Nat
    BY <1>1, <1>2
  <2> QED BY <1>1, <1>2, <2>1
<1>4. ASSUME \A i \in 0 .. (w - 1) : m[i] = k[i],
             \A x \in (z - r) .. z : ext2fs_test_bit(x, m) <=> ext2fs_test_bit(x, k),
             NEW x \in 0 .. z
      PROVE  ext2fs_test_bit(x, m) <=> ext2fs_test_bit(x, k)
  <2>1. CASE x >= z - r
    BY <1>3, <1>4, <2>1
  <2>2. CASE x < z - r
    <3>1. x \in Nat /\ ByteOf(x) \in Nat /\ BitOf(x) \in Bits
          /\ x = ByteOf(x) * ByteBits + BitOf(x)
      BY BitFacts
    <3>2. ByteOf(x) < w
      <4>1. SUFFICES ASSUME w <= ByteOf(x) PROVE FALSE
        BY <1>2, <3>1
      <4>2. w * ByteBits <= ByteOf(x) * ByteBits
        BY <1>1, <1>2, <3>1, <4>1, ProductMonotone
      <4>3. w * ByteBits \in Int /\ ByteOf(x) * ByteBits \in Int /\ BitOf(x) \in Nat
        BY <1>1, <1>2, <3>1 DEF Bits
      <4> QED BY <1>3, <2>2, <3>1, <4>2, <4>3
    <3>3. m[ByteOf(x)] = k[ByteOf(x)]
      BY <1>2, <1>4, <3>1, <3>2
    <3> QED BY <3>3 DEF ext2fs_test_bit
  <2> QED BY <1>3, <2>1, <2>2
<1>5. ASSUME \A x \in 0 .. z : ext2fs_test_bit(x, m) <=> ext2fs_test_bit(x, k),
             NEW i \in 0 .. (w - 1)
      PROVE  m[i] = k[i]
  <2>1. m[i] \subseteq Bits /\ k[i] \subseteq Bits
    BY <1>2 DEF w
  <2>2. ASSUME NEW j \in Bits PROVE j \in m[i] <=> j \in k[i]
    <3> DEFINE x == i * ByteBits + j
    <3>1. x \in Nat /\ ByteOf(x) = i /\ BitOf(x) = j
      BY <1>2, BitNumber
    <3>2. (i + 1) * ByteBits <= w * ByteBits
      BY <1>1, <1>2, ProductMonotone
    <3>3. (i + 1) * ByteBits = i * ByteBits + ByteBits
      BY <1>1, <1>2
    <3>4. i * ByteBits \in Int /\ w * ByteBits \in Int /\ j < ByteBits /\ j \in Nat
      BY <1>1, <1>2 DEF Bits
    <3>5. x <= z
      BY <1>1, <1>2, <3>2, <3>3, <3>4
    <3> HIDE DEF x
    <3>6. ext2fs_test_bit(x, m) <=> ext2fs_test_bit(x, k)
      BY <1>5, <3>1, <3>5
    <3> QED BY <3>1, <3>6 DEF ext2fs_test_bit
  <2> QED BY <2>1, <2>2
<1>6. (z - r) .. z \subseteq 0 .. z
  BY <1>3
<1>7. (/\ \A i \in 0 .. (w - 1) : m[i] = k[i]
       /\ \A x \in (z - r) .. z : ext2fs_test_bit(x, m) <=> ext2fs_test_bit(x, k))
        <=> \A x \in 0 .. z : ext2fs_test_bit(x, m) <=> ext2fs_test_bit(x, k)
  BY <1>4, <1>5, <1>6
<1> QED BY <1>7 DEF w, r

LEMMA InvCompare == Inv => CompareIsExact
<1> SUFFICES ASSUME Inv PROVE CompareIsExact
  OBVIOUS
<1>1. Holds(bm, held) /\ Holds(copy, copied)
  BY DEF Inv
<1>2. CASE bm.end # copy.end
  BY <1>2 DEF CompareIsExact, ext2fs_compare_bitmap
<1>3. CASE bm.end = copy.end
  <2> DEFINE z == bm.end - Start
             w == z \div ByteBits
             r == z % ByteBits
             D == 0 .. (Size(bm.real_end) - 1)
             E == 0 .. (Size(copy.real_end) - 1)
  <2>1. /\ bm.real_end \in RealEnds /\ bm.end \in Start .. bm.real_end
        /\ copy.real_end \in RealEnds /\ bm.end \in Start .. copy.real_end
        /\ bm.mem \in [D -> SUBSET Bits] /\ copy.mem \in [E -> SUBSET Bits]
    BY <1>1, <1>3 DEF Holds, Memory
  <2>2. Start \in Nat /\ bm.end \in Int /\ z \in Nat /\ ByteBits \in Nat \ {0}
    BY <2>1, EndFacts
  <2>3. w \in Nat /\ w \in D /\ w \in E /\ Size(bm.real_end) \in Nat /\ Size(copy.real_end) \in Nat
    BY <2>1, <2>2, EndFacts, DivisionNat DEF ByteOf
  <2>4. 0 .. (z \div ByteBits) \subseteq D \cap E
    BY <2>3
  <2> HIDE DEF z, D, E
  <2>5. (/\ \A i \in 0 .. (w - 1) : bm.mem[i] = copy.mem[i]
         /\ \A x \in (z - r) .. z :
              ext2fs_test_bit(x, bm.mem) <=> ext2fs_test_bit(x, copy.mem))
          <=> \A x \in 0 .. z : ext2fs_test_bit(x, bm.mem) <=> ext2fs_test_bit(x, copy.mem)
    <3>1. z \in Nat /\ bm.mem \in [D -> SUBSET Bits] /\ copy.mem \in [E -> SUBSET Bits]
      BY <2>1, <2>2
    <3> DEFINE m == bm.mem
               k == copy.mem
    <3>2. m \in [D -> SUBSET Bits] /\ k \in [E -> SUBSET Bits]
      BY <3>1
    <3> HIDE DEF m, k
    <3>3. (/\ \A i \in 0 .. ((z \div ByteBits) - 1) : m[i] = k[i]
           /\ \A x \in (z - (z % ByteBits)) .. z :
                ext2fs_test_bit(x, m) <=> ext2fs_test_bit(x, k))
            <=> \A x \in 0 .. z : ext2fs_test_bit(x, m) <=> ext2fs_test_bit(x, k)
      BY <2>4, <3>1, <3>2, CompareBits
    <3> QED BY <3>3 DEF m, k
  <2>6. r \in Nat
    <3>1. z \in Int
      BY <2>2
    <3>2. r \in 0 .. (ByteBits - 1)
      BY <2>2, <3>1, Division
    <3> QED BY <2>2, <3>2
  <2>7. ext2fs_compare_bitmap(bm, copy) <=>
          /\ \A i \in 0 .. (w - 1) : bm.mem[i] = copy.mem[i]
          /\ \A n \in (bm.end - r) .. bm.end :
               ext2fs_test_bit(n - Start, bm.mem) = ext2fs_test_bit(n - Start, copy.mem)
    BY <1>3 DEF ext2fs_compare_bitmap, WholeBytes, z
  <2> HIDE DEF w, r
  <2>8. (\A n \in (bm.end - r) .. bm.end :
           ext2fs_test_bit(n - Start, bm.mem) = ext2fs_test_bit(n - Start, copy.mem))
          <=> \A x \in (z - r) .. z :
                ext2fs_test_bit(x, bm.mem) <=> ext2fs_test_bit(x, copy.mem)
    <3>1. ASSUME NEW n \in (bm.end - r) .. bm.end PROVE n - Start \in (z - r) .. z
      BY <2>2, <2>6 DEF z
    <3>2. ASSUME NEW x \in (z - r) .. z
          PROVE  x + Start \in (bm.end - r) .. bm.end /\ (x + Start) - Start = x
      BY <2>2, <2>6 DEF z
    <3>3. \A x : ext2fs_test_bit(x, bm.mem) \in BOOLEAN /\ ext2fs_test_bit(x, copy.mem) \in BOOLEAN
      BY DEF ext2fs_test_bit
    <3> QED BY <3>1, <3>2, <3>3
  <2>9. (\A n \in Start .. bm.end : (n \in held) = (n \in copied))
          <=> \A x \in 0 .. z : ext2fs_test_bit(x, bm.mem) <=> ext2fs_test_bit(x, copy.mem)
    <3>1. ASSUME NEW n \in Start .. bm.end
          PROVE  /\ n - Start \in 0 .. z
                 /\ ext2fs_test_bit(n - Start, bm.mem) <=> n \in held
                 /\ ext2fs_test_bit(n - Start, copy.mem) <=> n \in copied
      <4>0. bm.real_end \in Int /\ copy.real_end \in Int
        BY <2>1, EndFacts
      <4>1. n \in Start .. bm.real_end /\ n \in Start .. copy.real_end /\ n - Start \in 0 .. z
        BY <2>1, <2>2, <4>0 DEF z
      <4> QED BY <1>1, <4>1 DEF Holds
    <3>2. ASSUME NEW x \in 0 .. z
          PROVE  x + Start \in Start .. bm.end /\ (x + Start) - Start = x
      BY <2>2 DEF z
    <3> QED BY <3>1, <3>2
  <2>10. ext2fs_compare_bitmap(bm, copy)
           <=> \A n \in Start .. bm.end : (n \in held) = (n \in copied)
    BY <2>5, <2>7, <2>8, <2>9
  <2> QED BY <1>3, <2>10 DEF CompareIsExact, ext2fs_compare_bitmap
<1> QED BY <1>2, <1>3

----------------------------------------------------------------------------
(* After any sequence of calls the bits of both bitmaps, the padding       *)
(* included, are those marked last rather than cleared, provided that      *)
(* memory ends with a whole byte.                                          *)
THEOREM BitmapInvariant == ByteAligned => (BitSpec => []Inv)
<1> SUFFICES ASSUME ByteAligned PROVE BitSpec => []Inv
  OBVIOUS
<1>1. BitInit => Inv
  BY InitInv
<1>2. Inv /\ [BitNext]_bitVars => Inv'
  BY NextInv
<1> QED BY <1>1, <1>2, PTL DEF BitSpec

(* "make sure all of the new parts of the bitmap are zero": the numbers a  *)
(* resize has added are clear, whatever the padding held before, provided  *)
(* that memory ends with a whole byte.                                     *)
THEOREM ResizeAddsZeros == ByteAligned => (BitSpec => []NewPartsAreZero)
<1> SUFFICES ASSUME ByteAligned PROVE BitSpec => []NewPartsAreZero
  OBVIOUS
<1> DEFINE Clear == grown \cap held = {} /\ grown \subseteq Int
<1>1. BitInit => Clear
  BY DEF BitInit
<1>2. Clear /\ [BitNext]_bitVars => Clear'
  <2> SUFFICES ASSUME Clear, [BitNext]_bitVars PROVE Clear'
    OBVIOUS
  <2>1. CASE UNCHANGED bitVars
    BY <2>1 DEF bitVars
  <2>2. ASSUME NEW e, NEW end, resize(end, e) PROVE Clear'
    <3>1. /\ grown' = (bm.end + 1) .. end
          /\ held' = {n \in held \ ((bm.end + 1) .. end) : n <= e}
      BY <2>2 DEF resize
    <3>2. (bm.end + 1) .. end \subseteq Int
      OBVIOUS
    <3> QED BY <3>1, <3>2
  <2>3. CASE grown' = {}
    BY <2>3
  <2>4. CASE BitNext
    BY <2>2, <2>3, <2>4 DEF BitNext, mark, unmark, fudge_end, mark_range, unmark_range,
                            set_padding, clear, dup
  <2> QED BY <2>1, <2>4
<1>3. Inv /\ Clear => NewPartsAreZero
  <2> SUFFICES ASSUME Inv, Clear, NEW n \in grown, ext2fs_test_generic_bitmap(bm, n)
               PROVE  FALSE
    BY DEF NewPartsAreZero
  <2>1. n \in Start .. bm.real_end
    <3>1. Start \in Nat /\ bm.real_end \in Int /\ bm.end \in Start .. bm.real_end /\ n \in Int
      BY EndFacts DEF Inv, Holds
    <3> QED BY <3>1 DEF ext2fs_test_generic_bitmap, InRange
  <2>2. n \in held
    BY <2>1 DEF Inv, Holds, ext2fs_test_generic_bitmap
  <2> QED BY <2>2
<1>4. BitSpec => []Inv
  BY BitmapInvariant
<1> QED BY <1>1, <1>2, <1>3, <1>4, PTL DEF BitSpec

(* What tests as marked, what a run of bits tests as and what two bitmaps  *)
(* compare as is what was marked, and no call of bitops.c touches a byte   *)
(* outside a bitmap's memory, across resizes and moved ends.               *)
THEOREM BitmapIsSound == ByteAligned => (BitSpec => []BitmapSound)
<1> SUFFICES ASSUME ByteAligned PROVE BitSpec => []BitmapSound
  OBVIOUS
<1>1. Inv /\ NewPartsAreZero => BitmapSound
  <2> SUFFICES ASSUME Inv, NewPartsAreZero PROVE BitmapSound
    OBVIOUS
  <2>1. Represents
    BY HoldsRepresents DEF Inv, Represents
  <2>2. StaysInMemory
    BY DEF Inv, StaysInMemory
  <2> QED BY <2>1, <2>2, InvTypeOK, InvRangeTest, InvCompare DEF BitmapSound
<1>2. BitSpec => []Inv
  BY BitmapInvariant
<1>3. BitSpec => []NewPartsAreZero
  BY ResizeAddsZeros
<1> QED BY <1>1, <1>2, <1>3, PTL
=============================================================================
