------------------------------ MODULE Bitmap -------------------------------
(***************************************************************************)
(* The bitmaps of blocks and inodes in use: a range start..end of numbers  *)
(* that may be marked, inside start..real_end, the numbers memory is held  *)
(* for, as bytes of ByteBits bits.  Two bitmaps are kept, as dup_handle    *)
(* keeps a copy, beside the set of numbers each should hold (a history     *)
(* variable, in terms of which the properties are stated).                 *)
(***************************************************************************)
EXTENDS Integers, FiniteSets

CONSTANTS ByteBits,     \* bits of a byte, 8 in the code
          Start,        \* s_first_data_block, or 1 for inodes
          MaxEnd,       \* bound on real_end
          RealEnds      \* the values of real_end that the callers use

ASSUME BitmapAssumption ==
  /\ ByteBits \in Nat \ {0} /\ Start \in Nat /\ MaxEnd \in Nat
  /\ RealEnds \subseteq Start..MaxEnd /\ RealEnds # {}

VARIABLES
  bm,       \* the bitmap in use
  copy,     \* the bitmap of the duplicate handle
  held,     \* history: the numbers that were marked last rather than cleared, in bm
  copied,   \* history: the same for copy
  grown,    \* history: the numbers the last resize added to bm
  wild      \* an access fell outside the memory of its bitmap

bitVars == <<bm, copy, held, copied, grown, wild>>
----------------------------------------------------------------------------
(* bitops.c: one bit of an array of bytes.  Memory is a function from byte     *)
(* numbers to the set of bits that are one.                                    *)

ByteOf(nr) == nr \div ByteBits
BitOf(nr) == nr % ByteBits
ext2fs_set_bit(nr, mem) == [mem EXCEPT ![ByteOf(nr)] = @ \cup {BitOf(nr)}]
ext2fs_clear_bit(nr, mem) == [mem EXCEPT ![ByteOf(nr)] = @ \ {BitOf(nr)}]
ext2fs_test_bit(nr, mem) == BitOf(nr) \in mem[ByteOf(nr)]
InMemory(nr, mem) == ByteOf(nr) \in DOMAIN mem

\* Loops over consecutive bits.
SetBits(N, mem) == [i \in DOMAIN mem |-> mem[i] \cup {BitOf(n) : n \in {x \in N : ByteOf(x) = i}}]
ClearBits(N, mem) == [i \in DOMAIN mem |-> mem[i] \ {BitOf(n) : n \in {x \in N : ByteOf(x) = i}}]
----------------------------------------------------------------------------
(* bitmaps.c, gen_bitmap.c, bitops.h, rs_bitmap.c, cmp_bitmaps.c               *)

Size(real_end) == (real_end - Start) \div ByteBits + 1
Zero(size) == [i \in 0..(size - 1) |-> {}]

make_bitmap(end, real_end, init) ==
  [end |-> end, real_end |-> real_end,
   mem |-> [i \in 0..(Size(real_end) - 1) |-> init[i]]]
ext2fs_allocate_generic_bitmap(end, real_end) ==
  make_bitmap(end, real_end, Zero(Size(real_end)))
ext2fs_copy_bitmap(b) == make_bitmap(b.end, b.real_end, b.mem)

InRange(b, n) == n >= Start /\ n <= b.end
ext2fs_mark_generic_bitmap(b, n) ==
  IF InRange(b, n) THEN [b EXCEPT !.mem = ext2fs_set_bit(n - Start, @)] ELSE b
ext2fs_unmark_generic_bitmap(b, n) ==
  IF InRange(b, n) THEN [b EXCEPT !.mem = ext2fs_clear_bit(n - Start, @)] ELSE b
ext2fs_test_generic_bitmap(b, n) == InRange(b, n) /\ ext2fs_test_bit(n - Start, b.mem)

Run(n, num) == {n + i - Start : i \in 0..(num - 1)}
RunInRange(b, n, num) == n >= Start /\ n + num - 1 <= b.end
ext2fs_test_block_bitmap_range(b, n, num) ==
  RunInRange(b, n, num) /\ \A nr \in Run(n, num) : ~ext2fs_test_bit(nr, b.mem)
ext2fs_mark_block_bitmap_range(b, n, num) ==
  IF RunInRange(b, n, num) THEN [b EXCEPT !.mem = SetBits(Run(n, num), @)] ELSE b
ext2fs_unmark_block_bitmap_range(b, n, num) ==
  IF RunInRange(b, n, num) THEN [b EXCEPT !.mem = ClearBits(Run(n, num), @)] ELSE b

ext2fs_set_bitmap_padding(b) ==
  [b EXCEPT !.mem = SetBits({i - Start : i \in (b.end + 1)..b.real_end}, @)]
ext2fs_fudge_bitmap_end(b, end) == IF end > b.real_end THEN b ELSE [b EXCEPT !.end = end]
ext2fs_clear_bitmap(b) == [b EXCEPT !.mem = Zero(Size(b.real_end))]

\* Mutant: the numbers after the old end are not cleared.
GrowInPlace_Keep(b, new_end) == b.mem
\* The numbers after the old end that memory is already held for.
GrowInPlace(b, new_end) ==
  LET last == IF b.real_end > new_end THEN new_end ELSE b.real_end IN
  IF new_end > b.end THEN ClearBits({i - Start : i \in (b.end + 1)..last}, b.mem) ELSE b.mem
\* ext2fs_resize_mem and the memset of the bytes it adds.
ResizeMem(mem, size) == [i \in 0..(size - 1) |-> IF i \in DOMAIN mem THEN mem[i] ELSE {}]
ext2fs_resize_generic_bitmap(b, new_end, new_real_end) ==
  LET cleared == [b EXCEPT !.mem = GrowInPlace(b, new_end)] IN
  IF new_real_end = b.real_end
  THEN [cleared EXCEPT !.end = new_end]
  ELSE [end |-> new_end, real_end |-> new_real_end,
        mem |-> ResizeMem(cleared.mem, Size(new_real_end))]

\* memcmp of the whole bytes, then the bits left over one by one.
WholeBytes(b) == (b.end - Start) \div ByteBits
ext2fs_compare_bitmap(b, c) ==
  /\ b.end = c.end
  /\ \A i \in 0..(WholeBytes(b) - 1) : b.mem[i] = c.mem[i]
  /\ \A n \in (b.end - ((b.end - Start) % ByteBits))..b.end :
       ext2fs_test_bit(n - Start, b.mem) = ext2fs_test_bit(n - Start, c.mem)
----------------------------------------------------------------------------
(* The calls *)

Numbers == Start..(MaxEnd + 1)
Accessed(N, b) == wild' = (wild \/ \E n \in N : ~InMemory(n - Start, b.mem))

BitInit ==
  /\ \E e \in RealEnds : \E end \in Start..e : bm = ext2fs_allocate_generic_bitmap(end, e)
  /\ copy = bm
  /\ held = {} /\ copied = {} /\ grown = {} /\ wild = FALSE

mark(n) ==
  /\ bm' = ext2fs_mark_generic_bitmap(bm, n)
  /\ held' = IF InRange(bm, n) THEN held \cup {n} ELSE held
  /\ Accessed(IF InRange(bm, n) THEN {n} ELSE {}, bm)
  /\ grown' = {}
  /\ UNCHANGED <<copy, copied>>
unmark(n) ==
  /\ bm' = ext2fs_unmark_generic_bitmap(bm, n)
  /\ held' = IF InRange(bm, n) THEN held \ {n} ELSE held
  /\ Accessed(IF InRange(bm, n) THEN {n} ELSE {}, bm)
  /\ grown' = {}
  /\ UNCHANGED <<copy, copied>>
mark_range(n, num) ==
  /\ RunInRange(bm, n, num)
  /\ bm' = ext2fs_mark_block_bitmap_range(bm, n, num)
  /\ held' = held \cup n..(n + num - 1)
  /\ Accessed(n..(n + num - 1), bm)
  /\ grown' = {}
  /\ UNCHANGED <<copy, copied>>
unmark_range(n, num) ==
  /\ RunInRange(bm, n, num)
  /\ bm' = ext2fs_unmark_block_bitmap_range(bm, n, num)
  /\ held' = held \ (n..(n + num - 1))
  /\ Accessed(n..(n + num - 1), bm)
  /\ grown' = {}
  /\ UNCHANGED <<copy, copied>>
set_padding ==
  /\ bm' = ext2fs_set_bitmap_padding(bm)
  /\ held' = held \cup (bm.end + 1)..bm.real_end
  /\ Accessed((bm.end + 1)..bm.real_end, bm)
  /\ grown' = {}
  /\ UNCHANGED <<copy, copied>>
fudge_end(end) ==
  /\ bm' = ext2fs_fudge_bitmap_end(bm, end)
  /\ grown' = {}
  /\ UNCHANGED <<copy, held, copied, wild>>
clear ==
  /\ bm' = ext2fs_clear_bitmap(bm)
  /\ held' = {} /\ grown' = {}
  /\ UNCHANGED <<copy, copied, wild>>
\* What a resize should leave: the numbers it adds are clear.
resize(end, real_end) ==
  /\ end <= real_end
  /\ bm' = ext2fs_resize_generic_bitmap(bm, end, real_end)
  /\ grown' = (bm.end + 1)..end
  /\ held' = {n \in held \ grown' : n <= real_end}
  /\ UNCHANGED <<copy, copied, wild>>
dup ==
  /\ copy' = ext2fs_copy_bitmap(bm) /\ copied' = held
  /\ grown' = {}
  /\ UNCHANGED <<bm, held, wild>>

BitNext ==
  \/ \E n \in Numbers : mark(n) \/ unmark(n) \/ fudge_end(n)
  \/ \E n \in Numbers, num \in 2..3 : mark_range(n, num) \/ unmark_range(n, num)
  \/ set_padding \/ clear \/ dup
  \/ \E e \in RealEnds, end \in Start..MaxEnd : resize(end, e)

BitSpec == BitInit /\ [][BitNext]_bitVars
----------------------------------------------------------------------------
(* Properties *)

\* Memory, its size and the two ends fit each other.
BitTypeOK == \A b \in {bm, copy} :
  /\ b.real_end \in RealEnds /\ b.end \in Start..b.real_end
  /\ DOMAIN b.mem = 0..(Size(b.real_end) - 1)
  /\ \A i \in DOMAIN b.mem : b.mem[i] \subseteq 0..(ByteBits - 1)

\* After any sequence of calls, and whatever end has been moved to in between, the
\* numbers that test as marked are those marked last rather than cleared.
Represents ==
  /\ {n \in Numbers : ext2fs_test_generic_bitmap(bm, n)} = {n \in held : n <= bm.end}
  /\ {n \in Numbers : ext2fs_test_generic_bitmap(copy, n)} = {n \in copied : n <= copy.end}

\* A run tests as free exactly when none of its numbers tests as marked and all are
\* inside the bitmap.
RangeTestAgrees ==
  \A n \in Numbers, num \in 1..3 :
    ext2fs_test_block_bitmap_range(bm, n, num) =
      (\A i \in n..(n + num - 1) : InRange(bm, i) /\ ~ext2fs_test_generic_bitmap(bm, i))

\* Two bitmaps compare equal exactly when they have the same end and the same
\* numbers up to it: padding does not count.
CompareIsExact ==
  ext2fs_compare_bitmap(bm, copy) =
    (bm.end = copy.end /\ \A n \in Start..bm.end : (n \in held) = (n \in copied))

\* No call touches a byte outside the bitmap's memory.
StaysInMemory == ~wild

\* "If we're expanding the bitmap, make sure all of the new parts of the bitmap are
\* zero": the numbers a resize has just added are not marked.
NewPartsAreZero == \A n \in grown : ~ext2fs_test_generic_bitmap(bm, n)

\* The numbers that test as marked are those marked last, runs are tested and
\* bitmaps compared by the numbers in them, and no byte outside a bitmap's memory
\* is touched, across resizes and moved ends; what a resize adds is clear.
BitmapSound ==
  /\ BitTypeOK /\ Represents /\ RangeTestAgrees /\ CompareIsExact
  /\ StaysInMemory /\ NewPartsAreZero
=============================================================================
