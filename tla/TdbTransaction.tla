--------------------------- MODULE TdbTransaction ---------------------------
(***************************************************************************)
(* Transactions of the trivial database (tdb.c) over a file whose writes   *)
(* reach the disk in any order until an fsync.  Writes of a transaction    *)
(* gather in a list of elements; the commit first saves what they will     *)
(* overwrite in a recovery area at the end of the file, marks the area     *)
(* valid, writes, and unmarks it; an open that finds the mark puts the     *)
(* saved contents back.  A cell is the unit of the file: cell 0 is the     *)
(* recovery_start field of the header, cell 1 the hash heads, the rest     *)
(* records.  A recovery area is a header, its magic, and one cell for each *)
(* cell saved.                                                             *)
(***************************************************************************)
EXTENDS Integers, Sequences, FiniteSets, FiniteSetsExt, SequencesExt, Functions, TLC

CONSTANTS InitSize,   \* cells of the database at first
          MaxSize,    \* cells the file may grow to
          MaxTrans,   \* bound on the transactions started
          MaxWrites,  \* bound on the writes of one transaction
          PageSize,   \* a recovery area holds a multiple of it
          PadLen      \* TDB_PAD_U32: padding, read as a length

TdbAssumption == /\ InitSize \in 3..MaxSize /\ MaxSize \in Nat
                        /\ MaxTrans \in Nat /\ MaxWrites \in Nat
                        /\ PageSize \in Nat \ {0} /\ PadLen \in Nat /\ PadLen > MaxSize

VARIABLES
  file,       \* what a read of the file returns: its size and its cells
  disk,       \* the sizes and the cells' values that may be on the disk
  map_size,   \* tdb->map_size
  tr,         \* tdb->transaction
  pc,         \* what the process is doing
  last,       \* what the last call that ended a transaction returned
  view,       \* history: the cells as the transaction should read them
  committed,  \* history: the records as of the last commit
  maybe,      \* history: what the records may be if the process stops now
  extent,     \* history: for each place an area was put, the cells it may save
  writes,     \* history: the writes of this transaction
  count       \* history: the transactions started

vars == <<file, disk, map_size, tr, pc, last, view, committed, maybe, extent, writes, count>>
----------------------------------------------------------------------------
(* Cells *)
Addr == 0..(MaxSize - 1)
Zero == <<"zero">>
Pad == <<"pad">>
HeadAt(off) == <<"head", off>>
Magic(on) == <<"magic", on>>
Area(len, max, eof) == <<"area", len, max, eof>>
Saved(addr, v) == <<"saved", addr, v>>
Data(n) == <<"data", n>>
HeaderLen == 2

NoTrans == [active |-> FALSE, nesting |-> 0, error |-> FALSE, els |-> <<>>, old |-> 0, eof |-> 0, max |-> 0]

\* The recovery area that the header of file f leads to, 0 when there is none, and the
\* cells that are not in it.
RecoveryHead(f) == f.c[0][2]
AreaCells(f) == LET h == RecoveryHead(f) IN IF h = 0 THEN {} ELSE h..(h + HeaderLen + extent[h] - 1)
RecordCells(f) == 1..(f.size - 1) \ AreaCells(f)

\* The rec_len that is read from a cell: padding and zeros are numbers too.
RecLen(v) == CASE v[1] = "area" -> v[3] [] v[1] = "pad" -> PadLen [] OTHER -> 0

\* Writes w, a function on cells, reach the cache at once and the disk in any order.
Store(w) ==
  /\ file' = [file EXCEPT !.c = [a \in Addr |-> IF a \in DOMAIN w THEN w[a] ELSE @[a]]]
  /\ disk' = [disk EXCEPT !.c = [a \in Addr |-> IF a \in DOMAIN w THEN @[a] \cup {w[a]} ELSE @[a]]]

\* tdb_expand_file, or ftruncate, to n cells, with the writes w.
Resize(n, w) ==
  /\ file' = [size |-> n, c |-> [a \in Addr |-> IF a >= n THEN Zero
                                                ELSE IF a \in DOMAIN w THEN w[a] ELSE file.c[a]]]
  /\ disk' = [size |-> disk.size \cup {n},
              c |-> [a \in Addr |-> IF a \in DOMAIN w THEN disk.c[a] \cup {w[a]} ELSE disk.c[a]]]

transaction_sync ==
  /\ disk' = [size |-> {file.size}, c |-> [a \in Addr |-> {file.c[a]}]]
  /\ UNCHANGED file
----------------------------------------------------------------------------
(* The element list *)
Ends(e) == e.off + Len(e.data)
Overlaps(e, off, len) == off + len > e.off /\ off < Ends(e)
Element(off, data) == [off |-> off, data |-> data]
Pads(n) == [i \in 1..n |-> Pad]

\* An element does not grow from the old file into the part that is new.
MayExtend(old, off, len) == off + len < old \/ off > old

\* Mutant: the newest element that the write touches is replaced from its start.
Overwrite_Start(e, off, data) ==
  [e EXCEPT !.data = [i \in DOMAIN @ |-> IF i <= Len(data) THEN data[i] ELSE @[i]]]
Overwrite(e, off, data) ==
  [e EXCEPT !.data = [i \in DOMAIN @ |->
     LET j == e.off + i - off IN IF j \in DOMAIN data THEN data[j] ELSE @[i]]]

RECURSIVE transaction_write(_, _, _, _)
transaction_write(els, old, off, data) ==
  LET len == Len(data)
      hits == {i \in DOMAIN els : Overlaps(els[i], off, len)}
      ends == {i \in DOMAIN els : Ends(els[i]) = off}
  IN  IF hits # {}
      THEN LET i == Max(hits)
               e == els[i]
               n == IF off < e.off THEN e.off - off ELSE 0
               first == IF n = 0 THEN els
                        ELSE transaction_write(els, old, off, SubSeq(data, 1, n))
               part == IF off + len <= Ends(e) THEN len ELSE Ends(e) - off
               mid == [first EXCEPT ![i] = Overwrite(e, off + n, SubSeq(data, n + 1, part))]
           IN  IF part = len THEN mid
               ELSE transaction_write(mid, old, off + part, SubSeq(data, part + 1, len))
      ELSE IF ends # {} /\ MayExtend(old, off, len)
      THEN [els EXCEPT ![Max(ends)].data = @ \o data]
      ELSE Append(els, Element(off, data))

RECURSIVE transaction_read(_, _, _)
transaction_read(els, off, len) ==
  LET hits == {i \in DOMAIN els : Overlaps(els[i], off, len)} IN
  IF hits = {} THEN [i \in 1..len |-> file.c[off + i - 1]]
  ELSE LET e == els[Max(hits)]
           n == IF off < e.off THEN e.off - off ELSE 0
           first == IF n = 0 THEN <<>> ELSE transaction_read(els, off, n)
           part == IF off + len <= Ends(e) THEN len ELSE Ends(e) - off
           mid == SubSeq(e.data, off + n - e.off + 1, off + part - e.off)
       IN  IF part = len THEN first \o mid
           ELSE first \o mid \o transaction_read(els, off + part, len - part)
----------------------------------------------------------------------------
(* Calls within a transaction *)
Init ==
  LET c == [a \in Addr |-> IF a = 0 THEN HeadAt(0) ELSE IF a < InitSize THEN Data(0) ELSE Zero] IN
  /\ file = [size |-> InitSize, c |-> c]
  /\ disk = [size |-> {InitSize}, c |-> [a \in Addr |-> {c[a]}]]
  /\ map_size = InitSize /\ tr = NoTrans /\ pc = "idle" /\ last = "none"
  /\ view = c /\ writes = 0 /\ count = 0 /\ extent = [a \in Addr |-> 0]
  /\ committed = [a \in 1..(InitSize - 1) |-> Data(0)] /\ maybe = {committed}

\* The hash heads are the first element, so that they are always a part of the list.
tdb_transaction_start ==
  /\ pc = "idle" /\ ~tr.active /\ count < MaxTrans
  /\ map_size <= file.size   \* a map past the end of the file is not followed further
  /\ tr' = [active |-> TRUE, nesting |-> 0, error |-> FALSE, old |-> file.size,
            els |-> <<Element(1, <<file.c[1]>>)>>, eof |-> 0, max |-> 0]
  /\ map_size' = file.size
  /\ view' = file.c /\ writes' = 0 /\ count' = count + 1
  /\ UNCHANGED <<file, disk, pc, last, committed, maybe, extent>>

tdb_transaction_start_nested ==
  /\ pc = "idle" /\ tr.active /\ tr.nesting = 0
  /\ tr' = [tr EXCEPT !.nesting = @ + 1]
  /\ UNCHANGED <<file, disk, map_size, pc, last, view, committed, maybe, extent, writes, count>>

\* A record is written somewhere outside the recovery area.
tdb_write(off, len) ==
  /\ pc = "idle" /\ tr.active /\ writes < MaxWrites
  /\ off >= 1 /\ off + len <= map_size /\ off..(off + len - 1) \cap AreaCells(file) = {}
  /\ tr' = [tr EXCEPT !.els = transaction_write(@, tr.old, off, [i \in 1..len |-> Data(count)])]
  /\ view' = [a \in Addr |-> IF a \in off..(off + len - 1) THEN Data(count) ELSE view[a]]
  /\ writes' = writes + 1
  /\ UNCHANGED <<file, disk, map_size, pc, last, committed, maybe, extent, count>>

\* tdb_expand: the new part is padding, and joins the free list.  Once in a transaction.
tdb_expand ==
  /\ pc = "idle" /\ tr.active /\ map_size = tr.old /\ map_size + 1 < MaxSize
  /\ LET pads == transaction_write(tr.els, tr.old, map_size, Pads(1)) IN
     tr' = [tr EXCEPT !.els = transaction_write(pads, tr.old, 1, <<Data(count)>>)]
  /\ view' = [view EXCEPT ![map_size] = Pad, ![1] = Data(count)]
  /\ map_size' = map_size + 1
  /\ UNCHANGED <<file, disk, pc, last, committed, maybe, extent, writes, count>>

\* tdb_transaction_cancel at the outermost level.
Cancelled == /\ tr' = NoTrans /\ pc' = "idle" /\ map_size' = tr.old

Inner == tr.nesting # 0

tdb_transaction_cancel ==
  /\ pc = "idle" /\ tr.active
  /\ \/ /\ Inner
        /\ tr' = [tr EXCEPT !.nesting = @ - 1, !.error = TRUE]
        /\ UNCHANGED <<map_size, pc, last>>
     \/ /\ ~Inner
        /\ Cancelled
        /\ last' = "cancelled"
  /\ UNCHANGED <<file, disk, view, committed, maybe, extent, writes, count>>
----------------------------------------------------------------------------
(* Commit *)
Step(from, to) == /\ pc = from /\ pc' = to
                  /\ UNCHANGED <<extent, writes, count>>

tdb_transaction_commit ==
  /\ pc = "idle" /\ tr.active
  /\ \/ /\ tr.error
        /\ IF Inner
           THEN /\ tr' = [tr EXCEPT !.nesting = @ - 1] /\ UNCHANGED <<pc, map_size>>
           ELSE Cancelled
        /\ last' = "failed"
     \/ /\ ~tr.error /\ Inner
        /\ tr' = [tr EXCEPT !.nesting = @ - 1]
        /\ UNCHANGED <<pc, map_size, last>>
     \/ /\ ~tr.error /\ ~Inner
        /\ pc' = "allocate"
        /\ tr' = [tr EXCEPT !.eof = tr.old]
        /\ UNCHANGED <<map_size, last>>
  /\ UNCHANGED <<file, disk, view, committed, maybe, extent, writes, count>>

\* The cells whose old contents must be saved.
InOld(els, old) == SelectSeq(els, LAMBDA e : e.off < old)
tdb_recovery_size(els, old) ==
  FoldLeft(LAMBDA n, e : n + Len(e.data), 0, InOld(els, old))
RoundUp(n) == ((n + PageSize - 1) \div PageSize) * PageSize

AreaSize(max) == HeaderLen + max

\* The area in use, and how much it holds.
Capacity == LET h == RecoveryHead(file) IN IF h = 0 THEN 0 ELSE RecLen(file.c[h])
AreaFits == RecoveryHead(file) # 0 /\ tdb_recovery_size(tr.els, tr.old) <= Capacity

\* tdb_free, inside the transaction, of an area that has become too small: its header,
\* its tailer and the head of the free list.
FreedCells == LET h == RecoveryHead(file) IN
  IF h = 0 THEN <<>> ELSE <<h, h + HeaderLen + Capacity - 1, 1>>
FreedArea == FoldLeft(LAMBDA els, a : transaction_write(els, tr.old, a, <<Data(count)>>),
                      tr.els, FreedCells)

\* The area that is there, or a new one at the end of the file.
tdb_recovery_allocate ==
  \/ /\ AreaFits
     /\ Step("allocate", "setup")
     /\ tr' = [tr EXCEPT !.max = Capacity]
     /\ UNCHANGED <<file, disk, map_size, last, view, committed, maybe>>
  \/ LET els == FreedArea
         max == RoundUp(tdb_recovery_size(els, tr.old))
         size == map_size + AreaSize(max)
     IN  /\ ~AreaFits /\ size <= MaxSize
         /\ pc = "allocate" /\ pc' = "setup"
         /\ Resize(size, [a \in {0} \cup tr.old..(size - 1) |->
                            IF a = 0 THEN HeadAt(map_size) ELSE Pad])
         /\ map_size' = size
         /\ extent' = [extent EXCEPT ![map_size] = max]
         /\ tr' = [tr EXCEPT !.els = els, !.old = size, !.max = max]
         /\ view' = [a \in Addr |-> IF a \in Range(FreedCells) THEN Data(count)
                                    ELSE IF a \in map_size..(size - 1) THEN file'.c[a] ELSE view[a]]
         /\ UNCHANGED <<last, committed, maybe, writes, count>>

\* The contents that the elements will overwrite, in the order of the elements.
Blob == FoldLeft(LAMBDA acc, e : acc \o [i \in DOMAIN e.data |->
                                          Saved(e.off + i - 1, file.c[e.off + i - 1])],
                 <<>>, InOld(tr.els, tr.eof))

\* The commit gives up: the transaction is cancelled.
GiveUp(from) == /\ pc = from /\ Cancelled
                /\ last' = "failed" /\ maybe' = {committed}
                /\ UNCHANGED <<file, disk, view, committed, extent, writes, count>>

transaction_setup_recovery ==
  \/ /\ RecoveryHead(file) + HeaderLen + Len(Blob) > file.size
     /\ GiveUp("setup")
  \/ LET h == RecoveryHead(file)
         blob == Blob
     IN  /\ h + HeaderLen + Len(blob) <= file.size
         /\ Step("setup", "sync_area")
         /\ Store([a \in h..(h + HeaderLen + Len(blob) - 1) |->
                     CASE a = h -> Area(Len(blob), tr.max, tr.eof)
                       [] a = h + 1 -> Magic(0)
                       [] OTHER -> blob[a - h - 1]])
         /\ UNCHANGED <<map_size, tr, last, view, committed, maybe>>

SyncArea == Step("sync_area", "mark") /\ transaction_sync
setup_recovery_sync == SyncArea /\ UNCHANGED <<map_size, tr, last, view, committed, maybe>>

setup_recovery_mark ==
  /\ Step("mark", "sync_mark")
  /\ Store((RecoveryHead(file) + 1) :> Magic(1))
  /\ UNCHANGED <<map_size, tr, last, view, committed, maybe>>

setup_recovery_sync_mark ==
  /\ Step("sync_mark", "expand") /\ transaction_sync
  /\ UNCHANGED <<map_size, tr, last, view, committed, maybe>>

\* The file grows if the transaction made it larger and no new area has done so.  When the
\* disk is full the commit gives up, and the mark stays.
commit_expand ==
  /\ Step("expand", "write")
  /\ IF map_size = tr.old THEN UNCHANGED <<file, disk>>
     ELSE Resize(map_size, [a \in tr.old..(map_size - 1) |-> Pad])
  /\ UNCHANGED <<map_size, tr, last, view, committed, maybe>>
commit_expand_fails == map_size # tr.old /\ GiveUp("expand")

\* The first n elements as writes.
ElementWrites(n) ==
  LET S == 1..n
      cells == UNION {tr.els[i].off..(Ends(tr.els[i]) - 1) : i \in S}
      top(a) == Max({i \in S : a \in tr.els[i].off..(Ends(tr.els[i]) - 1)})
  IN  [a \in cells |-> tr.els[top(a)].data[a - tr.els[top(a)].off + 1]]

commit_write ==
  /\ Step("write", "sync_data")
  /\ Store(ElementWrites(Len(tr.els)))
  /\ tr' = [tr EXCEPT !.els = <<>>]
  /\ maybe' = {committed, [a \in RecordCells(file) |-> view[a]]}
  /\ UNCHANGED <<map_size, last, view, committed>>

\* A write fails after some were done: the saved contents are put back.
commit_write_fails ==
  /\ Step("write", "recover")
  /\ \E n \in 0..(Len(tr.els) - 1) :
       /\ Store(ElementWrites(n))
       /\ tr' = [tr EXCEPT !.els = SubSeq(@, n + 1, Len(@))]
  /\ UNCHANGED <<map_size, last, view, committed, maybe>>

\* Mutant: the mark is removed before the records are on the disk.
SyncData_None == Step("sync_data", "unmark") /\ UNCHANGED <<file, disk>>
SyncData == Step("sync_data", "unmark") /\ transaction_sync
commit_sync == SyncData /\ UNCHANGED <<map_size, tr, last, view, committed, maybe>>

commit_unmark ==
  /\ Step("unmark", "sync_unmark")
  /\ Store((RecoveryHead(file) + 1) :> Magic(0))
  /\ UNCHANGED <<map_size, tr, last, view, committed, maybe>>

commit_sync_unmark ==
  /\ pc = "sync_unmark" /\ transaction_sync
  /\ Cancelled /\ last' = "ok"
  /\ committed' = [a \in RecordCells(file) |-> view[a]] /\ maybe' = {committed'}
  /\ UNCHANGED <<view, extent, writes, count>>
----------------------------------------------------------------------------
(* Recovery *)

\* tdb_close; a transaction in progress is cancelled first.
tdb_close ==
  /\ pc = "idle"
  /\ pc' = "closed" /\ tr' = NoTrans
  /\ map_size' = file.size
  /\ UNCHANGED <<file, disk, last, view, committed, maybe, extent, writes, count>>

\* tdb_open_ex, up to the recovery.
tdb_open_ex ==
  /\ Step("closed", "recover")
  /\ map_size' = file.size
  /\ UNCHANGED <<file, disk, tr, last, view, committed, maybe>>

\* What the records are, as one of the contents they may have.
Match(m) == \A a \in DOMAIN m : a < file.size /\ file.c[a] = m[a]
Settle == LET ok == {m \in maybe : Match(m)} IN
          /\ committed' = IF ok = {} THEN committed ELSE CHOOSE m \in ok : TRUE
          /\ maybe' = {committed'}

\* The end of a recovery: the open is done, or the commit that failed is cancelled.
Recovered ==
  /\ IF tr.active THEN Cancelled /\ last' = "failed"
     ELSE pc' = "idle" /\ UNCHANGED <<tr, map_size, last>>
  /\ Settle

HeadInFile == RecoveryHead(file) + HeaderLen <= file.size
Marked == HeadInFile /\ file.c[RecoveryHead(file) + 1] = Magic(1)
SavedCells == LET h == RecoveryHead(file) IN
              {file.c[a] : a \in (h + HeaderLen)..(h + HeaderLen + file.c[h][2] - 1)}

tdb_transaction_recover ==
  /\ pc = "recover"
  /\ \/ /\ RecoveryHead(file) = 0 \/ (HeadInFile /\ ~Marked)
        /\ Recovered
        /\ UNCHANGED <<file, disk>>
     \/ /\ RecoveryHead(file) # 0 /\ ~HeadInFile
        /\ pc' = "refused"
        /\ UNCHANGED <<file, disk, map_size, tr, last, committed, maybe>>
     \/ /\ RecoveryHead(file) # 0 /\ Marked
        /\ IF \A v \in SavedCells : v[1] = "saved"
           THEN /\ Store([a \in {v[2] : v \in SavedCells} |->
                           (CHOOSE v \in SavedCells : v[2] = a)[3]])
                /\ pc' = "recover_sync"
           ELSE pc' = "garbled" /\ UNCHANGED <<file, disk>>
        /\ UNCHANGED <<map_size, tr, last, committed, maybe>>
  /\ UNCHANGED <<view, extent, writes, count>>

RecoverSync == Step("recover_sync", "recover_unmark") /\ transaction_sync
recover_sync == RecoverSync /\ UNCHANGED <<map_size, tr, last, view, committed, maybe>>

\* The head, if the area is past the old end, the mark and the end of the file.
recover_unmark ==
  LET h == RecoveryHead(file)
      eof == file.c[h][4]
      w == (0 :> HeadAt(IF eof <= h THEN 0 ELSE h)) @@ ((h + 1) :> Magic(0))
  IN  /\ Step("recover_unmark", "recover_sync2")
      /\ Resize(eof, w)
      /\ map_size' = eof
      /\ UNCHANGED <<tr, last, view, committed, maybe>>

recover_sync2 ==
  /\ pc = "recover_sync2" /\ transaction_sync /\ Recovered
  /\ UNCHANGED <<view, extent, writes, count>>

\* The machine stops: of what was not synced, any part is on the disk.
Images == LET cells == FoldLeft(LAMBDA S, a : {Append(s, v) : s \in S, v \in disk.c[a]},
                                {<<>>}, [i \in 1..MaxSize |-> i - 1])
          IN  {[size |-> n, c |-> [a \in Addr |-> IF a < n THEN s[a + 1] ELSE Zero]] :
                 n \in disk.size, s \in cells}
Stop(image) ==
  /\ pc \notin {"closed", "refused", "garbled"}
  /\ file' = image
  /\ disk' = [size |-> {file'.size}, c |-> [a \in Addr |-> {file'.c[a]}]]
  /\ pc' = "closed" /\ tr' = NoTrans /\ map_size' = file'.size /\ last' = "crash"
  /\ UNCHANGED <<view, committed, maybe, extent, writes, count>>

AnyCrash == \E image \in Images : Stop(image)

\* The stops that leave the head of the recovery area only with the area's header.
AreaWritten(f) == LET h == RecoveryHead(f) IN
                  h = 0 \/ (h + HeaderLen <= f.size /\ f.c[h][1] = "area")
Crash == \E image \in {i \in Images : AreaWritten(i)} : Stop(image)
----------------------------------------------------------------------------
Work ==
  \/ tdb_transaction_start \/ tdb_transaction_start_nested
  \/ \E off \in 1..(MaxSize - 1), len \in 1..2 : tdb_write(off, len)
  \/ tdb_expand \/ tdb_transaction_cancel \/ tdb_transaction_commit
  \/ tdb_recovery_allocate \/ transaction_setup_recovery \/ setup_recovery_sync
  \/ setup_recovery_mark \/ setup_recovery_sync_mark
  \/ commit_expand \/ commit_expand_fails \/ commit_write \/ commit_write_fails
  \/ commit_sync \/ commit_unmark \/ commit_sync_unmark
  \/ tdb_close \/ tdb_open_ex \/ tdb_transaction_recover
  \/ recover_sync \/ recover_unmark \/ recover_sync2

Next == Work \/ Crash
Spec == Init /\ [][Next]_vars
\* The process does not stop.
WorkSpec == Init /\ [][Work]_vars
\* The machine stops with any part on the disk.
AnyNext == Work \/ AnyCrash
AnySpec == Init /\ [][AnyNext]_vars

\* Records written without a transaction, between transactions.
tdb_store_direct(a) ==
  /\ pc = "idle" /\ ~tr.active /\ map_size <= file.size
  /\ a \in DOMAIN committed
  /\ Store(a :> Data(100)) /\ committed' = [committed EXCEPT ![a] = Data(100)]
  /\ maybe' = {committed'}
  /\ UNCHANGED <<map_size, tr, pc, last, view, extent, writes, count>>
MixNext == Work \/ \E a \in 2..(MaxSize - 1) : tdb_store_direct(a)
MixSpec == Init /\ [][MixNext]_vars

\* The fsync after the records are written fails: the commit returns at once.
commit_sync_fails ==
  /\ Step("sync_data", "idle")
  /\ last' = "failed" /\ maybe' = {committed}
  /\ UNCHANGED <<file, disk, map_size, tr, view, committed>>
SyncSpec == Init /\ [][Work \/ commit_sync_fails]_vars
----------------------------------------------------------------------------
(* Properties *)

\* The type of the state.
TypeOK ==
  /\ file.size \in 0..MaxSize /\ file.size \in disk.size
  /\ \A a \in 0..(file.size - 1) : file.c[a] \in disk.c[a]
  /\ map_size \in 0..MaxSize /\ tr.nesting \in 0..1 /\ tr.old \in 0..MaxSize

\* Wherever the machine stops, during a commit or during the recovery from an earlier
\* stop, the open that succeeds finds the records of before the transaction or those of
\* after it, all of them; after a commit has returned, those of after it.
CommitIsAtomic ==
  /\ pc # "garbled"
  /\ pc = "idle" /\ ~tr.active => \E m \in maybe : Match(m)

\* A transaction that was cancelled, or whose commit failed, leaves the records alone.
FailedCommitLeavesNothing ==
  pc = "idle" /\ ~tr.active /\ last \in {"failed", "cancelled"} => Match(committed)

\* A read in a transaction returns what was last written to each cell, however the writes
\* and the read overlap.
TransactionReads ==
  pc = "idle" /\ tr.active =>
    \A off \in 1..(map_size - 1), len \in 1..3 :
      off + len <= map_size =>
        transaction_read(tr.els, off, len) = [i \in 1..len |-> view[off + i - 1]]

\* No cell is in two elements: the order in which a commit writes them does not matter.
ElementsApart == \A i, j \in DOMAIN tr.els :
                   i # j => Ends(tr.els[i]) <= tr.els[j].off \/ Ends(tr.els[j]) <= tr.els[i].off

\* No element reaches from the old file into the new part: the commit never takes its own
\* transaction for a corrupted one (its test "transaction data over new region boundary").
ElementsInRegion ==
  pc \in {"idle", "allocate"} /\ tr.active =>
    \A i \in DOMAIN tr.els : tr.els[i].off >= tr.old \/ Ends(tr.els[i]) <= tr.old

\* The area never covers a record that was committed, nor claims room that it has not.
AreaApart ==
  LET h == RecoveryHead(file)
      end == h + HeaderLen + Capacity
  IN  pc = "idle" /\ ~tr.active /\ h # 0 =>
        end <= file.size /\ DOMAIN committed \cap h..(end - 1) = {}

\* An open recovers by itself from any stop.
OpenSucceeds == pc # "refused"
\* An access past the end of the file is noticed: the map is not larger than the file.
MapInFile == pc = "idle" /\ ~tr.active => map_size <= file.size
\* What was written between transactions is there after the database is opened again.
ReopenKeepsWrites == pc = "idle" /\ ~tr.active => Match(committed)
=============================================================================
