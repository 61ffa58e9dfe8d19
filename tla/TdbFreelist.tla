----------------------------- MODULE TdbFreelist -----------------------------
(***************************************************************************)
(* The space allocator of lib/ext2fs/tdb.c: a list of free records threaded *)
(* through the file, boundary tags at both ends of every record, merging on *)
(* free, best fit on allocate, and a file that grows when nothing fits.     *)
(*                                                                          *)
(* The file is an array of cells of TDB_ALIGNMENT bytes.  A cell holds the  *)
(* header of a record, a tailer, user data, the padding of a new file tail, *)
(* or what a record that is gone left there.  Every write of the code is a  *)
(* step; the allocation lock makes the steps of one call follow each other, *)
(* but the process may be killed, or a write may fail, after any of them.   *)
(***************************************************************************)
EXTENDS Integers, FiniteSetsExt

CONSTANTS
    Procs,      \* processes with the database open, each with its own map_size
    Align,      \* TDB_ALIGNMENT: bytes in a cell
    Hdr,        \* cells of a struct list_struct
    Page,       \* page_size, in cells
    Grow,       \* tdb_expand makes room for so many records (10 in the code)
    Wrap,       \* offsets are unsigned and wrap here, in cells
    Payloads,   \* the key and data sizes requests ask for, in bytes
    MaxFaults   \* bound: kills and failing writes of a behaviour

SizesAssumption ==
    /\ Align \in Nat \ {0} /\ Hdr \in Nat \ {0} /\ Page \in Nat \ {0}
    /\ Grow \in Nat \ {0} /\ Payloads \subseteq Nat \ {0}
    /\ Wrap \in Nat \ {0} /\ Wrap % Page = 0

VARIABLES
    mem,     \* the cells of the file
    file,    \* the length of the file
    top,     \* FREELIST_TOP
    map,     \* map_size of each process
    held,    \* records linked into a hash chain: offset -> cells of user data
    pc,      \* the next write of the call under way, "idle" between calls
    me,      \* the process whose call it is
    fr,      \* tdb_free's offset and rec: [off, len]
    al,      \* tdb_allocate's length, and the record it decided on
    back,    \* where tdb_free returns to
    faults

vars == <<mem, file, top, map, held, pc, me, fr, al, back, faults>>

-----------------------------------------------------------------------------
\* Cells

TDB_DATA_START == 1                 \* the cell of the last hash chain's head
First == TDB_DATA_START + 1         \* where the first record begins
Tail == 1                           \* cells of a tailer (a tdb_off_t)
MIN_REC_SIZE == 2 * Hdr + 1

Head(next, len, magic) == [kind |-> "head", next |-> next, len |-> len, magic |-> magic]
Tailer(total) == [kind |-> "tail", total |-> total]
Pad  == [kind |-> "pad"]            \* TDB_PAD_BYTE
Zero == [kind |-> "zero"]           \* a hole of the file
User == [kind |-> "user"]
NoRec == [off |-> 0, len |-> 0]
NoAlloc == [bytes |-> 0, off |-> 0, len |-> 0, split |-> FALSE, tried |-> FALSE]

IsFree(a) == mem[a].kind = "head" /\ mem[a].magic = "free"
Bytes(cells) == Align * cells
TDB_ALIGN(bytes) == (bytes + Align - 1) \div Align          \* in cells
RoundUp(cells) == ((cells + Page - 1) \div Page) * Page
Extent(off, len) == off .. (off + Hdr + len - 1)

\* The free list, in its order: the walk every reader of it makes.
Walk == LET W[n \in 0 .. Wrap] ==
              IF n = 0 THEN top
              ELSE IF W[n - 1] = 0 \/ mem[W[n - 1]].kind # "head" THEN 0
              ELSE mem[W[n - 1]].next
        IN  W
FreeList == {Walk[n] : n \in 0 .. Wrap} \ {0}
Position(off) == CHOOSE n \in 0 .. Wrap : Walk[n] = off

\* tdb_oob: an access past the map makes the process look at the file again.
tdb_oob(end) == [map EXCEPT ![me] = IF end > @ THEN file ELSE @]

update_tailer(off, len) == [mem EXCEPT ![off + Hdr + len - 1] = Tailer(Hdr + len)]

\* Unlinking a record writes its successor over the pointer that led to it.
Unlink(off, next) ==
    IF top = off
    THEN top' = next /\ mem' = mem
    ELSE /\ mem' = [mem EXCEPT ![Walk[Position(off) - 1]].next = next]
         /\ top' = top

-----------------------------------------------------------------------------
\* Faults

MayFail == faults < MaxFaults
Fault == MayFail /\ faults' = faults + 1

\* tdb_free and tdb_allocate give up: what they held stays unlinked.
Abandon == pc' = "idle" /\ me' = me /\ fr' = NoRec /\ al' = NoAlloc /\ back' = "idle"

-----------------------------------------------------------------------------
\* tdb_free

StartFree(off, len, then) ==
    pc' = "free_tailer" /\ fr' = [off |-> off, len |-> len] /\ back' = then

free_tailer ==
    /\ pc = "free_tailer"
    /\ mem' = update_tailer(fr.off, fr.len)
    /\ map' = tdb_oob(fr.off + Hdr + fr.len)
    /\ pc' = "free_right"
    /\ UNCHANGED <<file, top, held, me, fr, al, back, faults>>

Right == fr.off + Hdr + fr.len
OnList(off) == off \in FreeList
MergesRight == Right + Hdr <= map[me] /\ IsFree(Right) /\ OnList(Right)
WithRight == fr.len + Hdr + mem[Right].len

free_right ==
    /\ pc = "free_right"
    /\ pc' = "free_left"
    /\ \/ /\ MergesRight
          /\ Unlink(Right, mem[Right].next)
          /\ fr' = [fr EXCEPT !.len = WithRight]
          /\ UNCHANGED faults
       \/ ~MergesRight /\ UNCHANGED <<mem, top, fr, faults>>
       \/ MergesRight /\ Fault /\ UNCHANGED <<mem, top, fr>>
    /\ UNCHANGED <<file, map, held, me, al, back>>

\* What the word before the record may say of the record to its left: a tailer
\* its size, a padded or empty cell nothing, any other cell any number.
LeftSizes ==
    LET c == mem[fr.off - Tail]
    IN  CASE c.kind = "tail" -> {c.total}
          [] c.kind \in {"pad", "zero"} -> {0}
          [] OTHER -> 0 .. (fr.off - First)

HasLeft == fr.off - Tail > TDB_DATA_START
MergesLeft(size) ==
    size > 0 /\ IsFree(fr.off - size) /\ OnList(fr.off - size)
WithLeft_Header(size) == fr.len + size + Hdr
WithLeft(size) == fr.len + size

free_left ==
    /\ pc = "free_left"
    /\ pc' = "free_update"
    /\ \E size \in IF HasLeft THEN LeftSizes ELSE {0} :
         \/ /\ MergesLeft(size)
            /\ Unlink(fr.off - size, mem[fr.off - size].next)
            /\ fr' = [off |-> fr.off - size, len |-> WithLeft(size)]
            /\ UNCHANGED faults
         \/ ~MergesLeft(size) /\ UNCHANGED <<mem, top, fr, faults>>
         \/ MergesLeft(size) /\ Fault /\ UNCHANGED <<mem, top, fr>>
    /\ UNCHANGED <<file, map, held, me, al, back>>

free_update ==
    /\ pc = "free_update"
    /\ mem' = update_tailer(fr.off, fr.len)
    /\ pc' = "free_write"
    /\ UNCHANGED <<file, top, map, held, me, fr, al, back, faults>>

free_write ==
    /\ pc = "free_write"
    /\ mem' = [mem EXCEPT ![fr.off] = Head(top, fr.len, "free")]
    /\ pc' = "free_top"
    /\ UNCHANGED <<file, top, map, held, me, fr, al, back, faults>>

free_top ==
    /\ pc = "free_top"
    /\ top' = fr.off
    /\ pc' = back /\ back' = "idle" /\ fr' = NoRec
    /\ UNCHANGED <<mem, file, map, held, me, al, faults>>

-----------------------------------------------------------------------------
\* tdb_allocate

Fits(n) == Walk[n] # 0 /\ Bytes(mem[Walk[n]].len) >= al.bytes
Fitting == {n \in 0 .. Wrap : Fits(n)}
GoodFit == {n \in Fitting : Bytes(mem[Walk[n]].len) < 2 * al.bytes}
Smallest == {n \in Fitting : \A k \in Fitting : mem[Walk[n]].len <= mem[Walk[k]].len}
BestFit == Min(IF GoodFit # {} THEN GoodFit ELSE Smallest)

Splits(len) == Bytes(len) > al.bytes + Bytes(MIN_REC_SIZE)

\* The search, and the pointer write of tdb_allocate_ofs that ends it.
allocate_unlink ==
    /\ pc = "search" /\ Fitting # {}
    /\ LET off == Walk[BestFit]
           len == mem[off].len
       IN  /\ al' = [al EXCEPT !.off = off,
                               !.len = IF Splits(len) THEN TDB_ALIGN(al.bytes) ELSE len,
                               !.split = Splits(len)]
           /\ fr' = IF Splits(len)
                    THEN [off |-> off + Hdr + TDB_ALIGN(al.bytes),
                          len |-> len - (Hdr + TDB_ALIGN(al.bytes))]
                    ELSE NoRec
           /\ map' = tdb_oob(Max({w + Hdr : w \in {Walk[n] : n \in 0 .. Wrap}}))
           /\ Unlink(off, mem[off].next)
    /\ pc' = "allocate_header"
    /\ UNCHANGED <<file, held, me, back, faults>>

allocate_header ==
    /\ pc = "allocate_header"
    /\ mem' = [mem EXCEPT ![al.off] = Head(mem[al.off].next, al.len, "used")]
    /\ pc' = IF al.split THEN "allocate_tailer" ELSE "link"
    /\ UNCHANGED <<file, top, map, held, me, fr, al, back, faults>>

allocate_tailer ==
    /\ pc = "allocate_tailer"
    /\ mem' = update_tailer(al.off, al.len)
    /\ StartFree(fr.off, fr.len, "link")
    /\ UNCHANGED <<file, top, map, held, me, al, faults>>

-----------------------------------------------------------------------------
\* tdb_expand

ExpandBy == TDB_ALIGN(al.bytes) + Hdr
Known == Max({map[me], file})               \* tdb_oob(map_size + 1, probe)
NewEnd == RoundUp(Known + ExpandBy * Grow) % Wrap
Addition == (NewEnd - Known) % Wrap
Padded == {(Known + i) % Wrap : i \in 0 .. (Addition - 1)}

\* Bound: the device has no room for a file that reaches Wrap.
DeviceFull == Known + ExpandBy * Grow + Page >= Wrap

ExpandFile ==
    /\ pc = "search" /\ Fitting = {}
    /\ mem' = [a \in DOMAIN mem |->
                 IF a \in Padded THEN Pad ELSE IF a >= NewEnd THEN Zero ELSE mem[a]]
    /\ file' = Max({NewEnd} \cup {a + 1 : a \in Padded})
    /\ map' = [map EXCEPT ![me] = NewEnd]
    /\ al' = [al EXCEPT !.tried = TRUE]
    /\ fr' = [off |-> Known, len |-> Addition - Hdr]
    /\ pc' = "expand"
    /\ UNCHANGED <<top, held, me, back, faults>>

expand_file == ~DeviceFull /\ ExpandFile

\* ftruncate has no room: tdb_allocate answers 0.
expand_file_full ==
    /\ pc = "search" /\ Fitting = {} /\ DeviceFull
    /\ Abandon
    /\ UNCHANGED <<mem, file, top, map, held, faults>>

\* The file was lengthened, and padding it failed: tdb_allocate answers 0.
expand_file_fails ==
    /\ pc = "search" /\ Fitting = {} /\ ~DeviceFull /\ Fault
    /\ file' = NewEnd
    /\ Abandon
    /\ UNCHANGED <<mem, top, map, held>>

expand ==
    /\ pc = "expand"
    /\ StartFree(fr.off, fr.len, "search")
    /\ UNCHANGED <<mem, file, top, map, held, me, al, faults>>

-----------------------------------------------------------------------------
\* The callers

\* tdb_store of a new key: allocate with the tailer's bytes added.
tdb_store(p, size) ==
    /\ pc = "idle"
    /\ me' = p
    /\ al' = [NoAlloc EXCEPT !.bytes = size + Bytes(Tail)]
    /\ pc' = "search"
    /\ UNCHANGED <<mem, file, top, map, held, fr, back, faults>>

Stored(off, len, cells) ==
    [a \in DOMAIN mem |->
       IF a = off THEN Head(0, len, "used")
       ELSE IF a \in (off + Hdr) .. (off + Hdr + cells - 1) THEN User ELSE mem[a]]

\* tdb_store writes key and data into the record and links it.
link ==
    /\ pc = "link"
    /\ LET cells == TDB_ALIGN(al.bytes) - Tail
       IN  /\ mem' = Stored(al.off, al.len, cells)
           /\ held' = [o \in DOMAIN held \cup {al.off} |->
                         IF o = al.off THEN cells ELSE held[o]]
    /\ Abandon
    /\ UNCHANGED <<file, top, map, faults>>

HasRoom(off, size) == Bytes(mem[off].len) >= size + Bytes(Tail)

\* tdb_update_hash: new data for a key whose record has the room.
tdb_update_hash(p, off, size) ==
    /\ pc = "idle" /\ HasRoom(off, size)
    /\ me' = p
    /\ map' = [map EXCEPT ![p] = IF off + Hdr + TDB_ALIGN(size) > @ THEN file ELSE @]
    /\ mem' = Stored(off, mem[off].len, TDB_ALIGN(size))
    /\ held' = [held EXCEPT ![off] = TDB_ALIGN(size)]
    /\ UNCHANGED <<file, top, pc, fr, al, back, faults>>

\* tdb_do_delete: the record leaves its chain, then its space is freed.
tdb_do_delete(p, off) ==
    /\ pc = "idle"
    /\ me' = p
    /\ held' = [o \in DOMAIN held \ {off} |-> held[o]]
    /\ map' = [map EXCEPT ![p] = IF off + Hdr > @ THEN file ELSE @]
    /\ StartFree(off, mem[off].len, "idle")
    /\ UNCHANGED <<mem, file, top, al, faults>>

\* The process is killed, or a write fails that the call cannot go on without:
\* what it had unlinked stays unlinked.
Kill ==
    /\ pc # "idle"
    /\ Fault
    /\ Abandon
    /\ UNCHANGED <<mem, file, top, map, held>>

Init ==
    /\ mem = [a \in 0 .. (Wrap - 1) |-> Zero]
    /\ file = First
    /\ top = 0
    /\ map = [p \in Procs |-> First]
    /\ held = [o \in {} |-> 0]
    /\ pc = "idle" /\ back = "idle" /\ fr = NoRec /\ al = NoAlloc
    /\ me \in Procs
    /\ faults = 0

Call ==
    \E p \in Procs :
      \/ \E size \in Payloads : tdb_store(p, size)
      \/ \E off \in DOMAIN held : tdb_do_delete(p, off)
      \/ \E off \in DOMAIN held, size \in Payloads : tdb_update_hash(p, off, size)

Steps ==
    \/ free_tailer \/ free_right \/ free_left
    \/ free_update \/ free_write \/ free_top
    \/ allocate_unlink \/ allocate_header \/ allocate_tailer \/ link
    \/ expand_file \/ expand_file_full \/ expand_file_fails \/ expand
    \/ Kill

Next == Call \/ Steps
Spec == Init /\ [][Next]_vars

\* The file may reach the width of an offset, as the code lets it.
WrapSpec == Init /\ [][Call \/ Steps \/ ExpandFile]_vars

-----------------------------------------------------------------------------
\* Properties

\* Every variable keeps its type, and no process maps more than the file has.
TypeOK ==
    /\ file \in First .. Wrap
    /\ top \in 0 .. (Wrap - 1)
    /\ \A p \in Procs : map[p] \in First .. file
    /\ DOMAIN held \subseteq First .. (Wrap - 1)
    /\ fr.len \in 0 .. Wrap /\ al.len \in 0 .. Wrap
    /\ faults \in 0 .. MaxFaults

Records == {[off |-> o, len |-> mem[o].len] : o \in DOMAIN held \cup FreeList}
Cells(r) == Extent(r.off, r.len)

\* The free list ends, every record on it carries TDB_FREE_MAGIC (so that the
\* repair of rec_free_read is never needed), and no cell belongs to two of the
\* records that are in a chain or on the list: after any kill or failed write,
\* in the middle of any call (tdb_free, tdb_allocate_ofs).
SpaceApart ==
    /\ Walk[Wrap] = 0
    /\ \A o \in FreeList : IsFree(o)
    /\ \A o \in DOMAIN held : mem[o].kind = "head" /\ mem[o].magic = "used"
    /\ \A r \in Records : Cells(r) \subseteq First .. (file - 1)
    /\ \A r, s \in Records : r # s => Cells(r) \cap Cells(s) = {}
    /\ DOMAIN held \cap FreeList = {}

\* No step of the allocator touches the key or the data of a record that is in
\* a chain, or the tailer that a later free of its neighbour will trust
\* (tdb_free, tdb_update_hash).
HeldIntact ==
    \A o \in DOMAIN held :
      LET end == o + Hdr + mem[o].len - 1
      IN  /\ mem[end] = Tailer(Hdr + mem[o].len)
          /\ \A a \in (o + Hdr) .. (o + Hdr + held[o] - 1) : mem[a] = User

\* Without kills and failing writes no space is lost between calls: every cell
\* of the file belongs to a record of a chain or of the free list.
NoSpaceLost ==
    faults = 0 /\ pc = "idle" =>
      First .. (file - 1) = UNION {Cells(r) : r \in Records}

\* "Merge adjacent records": without faults two free records never lie side by
\* side, whatever the order of frees and splits (tdb_free).  With two processes
\* this is refuted: tdb_free compares the right neighbour with a map_size that
\* another process's expansion has left behind.
Coalesced ==
    faults = 0 /\ pc = "idle" =>
      \A o \in FreeList : o + Hdr + mem[o].len \notin FreeList

\* tdb_allocate searches again after tdb_expand, and then finds room: the loop
\* "again" is entered at most twice.
ExpandSuffices == pc = "search" /\ al.tried => Fitting # {}

\* "expand the database at least size bytes": a record in a chain stays inside
\* the file (tdb_expand, tdb_expand_file).
ExpandKeepsRecords == \A o \in DOMAIN held : mem[o].kind = "head"
=============================================================================
