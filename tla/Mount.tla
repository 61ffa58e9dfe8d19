------------------------------- MODULE Mount -------------------------------
(***************************************************************************)
(* The life of a mounted volume: op_init reads the superblock, the group   *)
(* descriptors and the bitmaps into memory, requests change them there and *)
(* raise dirty flags, ext2fs_flush (from op_fsync and, through             *)
(* ext2fs_close, from op_destroy) writes them back, and the process may    *)
(* die or the device may refuse writes at any point in between.            *)
(*                                                                         *)
(* Files are abstracted to an inode that owns at most one block; the block *)
(* cache to the set of blocks written but not yet on the device.  A place  *)
(* is one device block of metadata.                                        *)
(***************************************************************************)
EXTENDS Integers, FiniteSets

CONSTANTS NGroups,       \* s_blocks_count / s_blocks_per_group
          BlocksPer,     \* s_blocks_per_group
          InodesPer,     \* s_inodes_per_group
          LazyGroups,    \* groups with EXT2_BG_BLOCK_UNINIT on a lazy_bg volume
          InitFiles,     \* how many files the volume holds at first
          CountWrap,     \* where a free count wraps: 2^16 in a descriptor, 2^32 in the superblock
          FaultsAt,      \* which device writes may fail: "evict", "flush", "byte", "read"
          MaxFaults,     \* bound on the periods in which the device fails
          MaxCrashes,    \* bound on the crashes of the process
          MaxRequests    \* bound on the requests that allocate or free

MountSizes ==
  /\ NGroups \in Nat \ {0} /\ BlocksPer \in Nat \ {0} /\ InodesPer \in Nat \ {0}
  /\ LazyGroups \subseteq 1..NGroups
  /\ FaultsAt \subseteq {"evict", "flush", "byte", "read"}
  /\ InitFiles \in Nat /\ InitFiles <= NGroups * InodesPer /\ InitFiles <= NGroups * BlocksPer
  /\ (1..InitFiles) \cap {b \in 1..(NGroups * BlocksPer) :
                            (b - 1) \div BlocksPer + 1 \in LazyGroups} = {}
  /\ CountWrap \in Nat /\ CountWrap > NGroups * BlocksPer /\ CountWrap > NGroups * InodesPer
  /\ MaxFaults \in Nat /\ MaxCrashes \in Nat /\ MaxRequests \in Nat

ASSUME MountAssumption == MountSizes

VARIABLES
  dev,      \* the device's blocks of metadata, by place
  sb,       \* the primary superblock on the device
  backup,   \* the superblock copy in a later group
  cache,    \* blocks of metadata written to the I/O channel but not to the device
  fs,       \* struct_ext2_filsys: the process's copy of the volume
  pc,       \* where ext2fs_flush stands
  ret,      \* what the last ext2fs_flush or ext2fs_close returned
  failing,  \* the device refuses writes at the moment
  faults, crashes, requests, \* what the bounds count
  lost,     \* since op_init a block given to the channel was dropped unwritten
  hurt      \* some mount ended otherwise than by a complete ext2fs_close

env == <<failing, faults, crashes>>
vars == <<dev, sb, backup, cache, fs, pc, ret, lost, hurt, requests, env>>
----------------------------------------------------------------------------
Groups == 1..NGroups
Blocks == 1..(NGroups * BlocksPer)
Inodes == 1..(NGroups * InodesPer)
ext2fs_group_of_blk(b) == (b - 1) \div BlocksPer + 1
ext2fs_group_of_ino(i) == (i - 1) \div InodesPer + 1
GroupBlocks(g) == {b \in Blocks : ext2fs_group_of_blk(b) = g}
GroupInodes(g) == {i \in Inodes : ext2fs_group_of_ino(i) = g}
\* The blocks the superblock's free count is about.
Usable == UNION {GroupBlocks(g) : g \in Groups \ LazyGroups}

Desc == <<"desc", 0>>            \* the group descriptors
Itab == <<"itab", 0>>            \* the inode table
BB(g) == <<"bb", g>>             \* a group's block bitmap
IB(g) == <<"ib", g>>             \* a group's inode bitmap
Places == {Desc, Itab} \cup ({"bb", "ib"} \X Groups)

Dead == -1                       \* an inode that is not in use
NoBlock == 0                     \* an inode in use that has no block
Count(n) == n % CountWrap        \* an unsigned counter

\* The block a read of the I/O channel returns for a place.
Seen(p) == IF p \in DOMAIN cache THEN cache[p] ELSE dev[p]
Put(c, p, v) == [q \in DOMAIN c \cup {p} |-> IF q = p THEN v ELSE c[q]]
PutAll(c, f) == [q \in DOMAIN c \cup DOMAIN f |-> IF q \in DOMAIN f THEN f[q] ELSE c[q]]
Empty == [p \in {} |-> 0]

Down == [state |-> "down", maps |-> {}, super |-> [fb |-> 0, fi |-> 0, valid |-> FALSE],
         orig |-> [fb |-> 0, fi |-> 0, valid |-> FALSE],
         desc |-> [g \in Groups |-> [fb |-> 0, fi |-> 0]],
         bb |-> {}, ib |-> {}, flags |-> {}]
----------------------------------------------------------------------------
\* The volume as an earlier mount left it: some files of one block each; the blocks
\* of the lazy groups are counted as used and their bitmap blocks never written.
Files == 1..InitFiles
FreshDesc == [g \in Groups |-> [fb |-> IF g \in LazyGroups THEN 0
                                       ELSE Cardinality(GroupBlocks(g) \ Files),
                                fi |-> Cardinality(GroupInodes(g) \ Files)]]
FreshSuper == [fb |-> Cardinality(Usable \ Files),
               fi |-> Cardinality(Inodes \ Files), valid |-> TRUE]

Init == /\ dev = [p \in Places |->
                    CASE p = Desc -> FreshDesc
                      [] p = Itab -> [i \in Inodes |-> IF i \in Files THEN i ELSE Dead]
                      [] p[1] = "bb" -> IF p[2] \in LazyGroups THEN {} ELSE Files \cap GroupBlocks(p[2])
                      [] p[1] = "ib" -> Files \cap GroupInodes(p[2])]
        /\ sb = FreshSuper /\ backup = FreshSuper
        /\ cache = Empty
        /\ fs = Down /\ pc = "idle" /\ ret = "none"
        /\ failing = FALSE /\ faults = 0 /\ crashes = 0 /\ requests = 0 /\ lost = FALSE /\ hurt = FALSE
----------------------------------------------------------------------------
(* Mounting *)

\* read_bitmaps: a group whose bitmap was never initialised reads as all ones.
ReadBlockMap == UNION {IF g \in LazyGroups THEN GroupBlocks(g) ELSE dev[BB(g)] : g \in Groups}
ReadInodeMap == UNION {dev[IB(g)] : g \in Groups}

\* The superblock and the group descriptors as read; the tests of magic number,
\* revision, features and block size pass for the volumes considered here.
ReadSuper == sb
ReadDesc == dev[Desc]

\* ext2fs_open2 keeps a copy of the superblock as it was read; op_init gives up
\* at the first bitmap it cannot read, and the requests are served all the same.
ext2fs_open2(maps) ==
  [state |-> "up", maps |-> maps, super |-> ReadSuper, orig |-> ReadSuper, desc |-> ReadDesc,
   bb |-> IF "bb" \in maps THEN ReadBlockMap ELSE {},
   ib |-> IF "ib" \in maps THEN ReadInodeMap ELSE {}, flags |-> {}]

op_init ==
  /\ fs.state = "down"
  /\ \E maps \in {{"ib", "bb"}} \cup (IF failing /\ "read" \in FaultsAt THEN {{}, {"ib"}} ELSE {}) :
       fs' = ext2fs_open2(maps)
  /\ ret' = "none" /\ lost' = FALSE
  /\ UNCHANGED <<dev, sb, backup, cache, pc, hurt, env, requests>>

\* The volume cannot be opened: fs stays NULL and the session goes on without it.
op_init_fails ==
  /\ fs.state = "down" /\ failing /\ "read" \in FaultsAt
  /\ fs' = [Down EXCEPT !.state = "nofs"]
  /\ UNCHANGED <<dev, sb, backup, cache, pc, ret, lost, hurt, env, requests>>
----------------------------------------------------------------------------
(* Requests *)

Serving == fs.state = "up" /\ pc = "idle"
Request == /\ Serving /\ requests < MaxRequests /\ requests' = requests + 1
           /\ UNCHANGED <<dev, sb, backup, pc, ret, lost, hurt, env>>

\* Mutant: the bitmap is not marked dirty when a block is released.
ext2fs_block_alloc_stats_Quiet(f, b, inuse) ==
  [f EXCEPT !.bb = IF inuse > 0 THEN @ \cup {b} ELSE @ \ {b},
            !.desc[ext2fs_group_of_blk(b)].fb = Count(@ - inuse),
            !.super.fb = Count(@ - inuse),
            !.flags = @ \cup (IF inuse > 0 THEN {"DIRTY", "BB"} ELSE {"DIRTY"})]
\* ext2fs_inode_alloc_stats2 and ext2fs_block_alloc_stats, inuse in {1, -1}.
ext2fs_inode_alloc_stats(f, i, inuse) ==
  [f EXCEPT !.ib = IF inuse > 0 THEN @ \cup {i} ELSE @ \ {i},
            !.desc[ext2fs_group_of_ino(i)].fi = Count(@ - inuse),
            !.super.fi = Count(@ - inuse),
            !.flags = @ \cup {"DIRTY", "IB"}]
ext2fs_block_alloc_stats(f, b, inuse) ==
  [f EXCEPT !.bb = IF inuse > 0 THEN @ \cup {b} ELSE @ \ {b},
            !.desc[ext2fs_group_of_blk(b)].fb = Count(@ - inuse),
            !.super.fb = Count(@ - inuse),
            !.flags = @ \cup {"DIRTY", "BB"}]

\* ext2fs_write_inode: the inode table's block goes to the I/O channel.
ext2fs_write_inode(i, v) == cache' = Put(cache, Itab, [Seen(Itab) EXCEPT ![i] = v])

Lowest(S) == CHOOSE x \in S : \A y \in S : x <= y

\* ext2fs_new_block and ext2fs_new_inode pick from these.
FreeBlocks == Blocks \ fs.bb
FreeInodes == Inodes \ fs.ib

\* do_create: without an inode bitmap ext2fs_new_inode answers an error.
op_create ==
  /\ Request /\ "ib" \in fs.maps /\ FreeInodes # {}
  /\ LET i == Lowest(FreeInodes) IN
     /\ fs' = ext2fs_inode_alloc_stats(fs, i, 1)
     /\ ext2fs_write_inode(i, NoBlock)

\* The first write of a file allocates its block.
op_write(i) ==
  /\ Request /\ Seen(Itab)[i] = NoBlock /\ "bb" \in fs.maps /\ FreeBlocks # {}
  /\ LET b == Lowest(FreeBlocks) IN
     /\ fs' = ext2fs_block_alloc_stats(fs, b, 1)
     /\ ext2fs_write_inode(i, b)

\* kill_file_by_inode, when the bitmaps it needs are there.
op_unlink(i) ==
  /\ Request /\ Seen(Itab)[i] # Dead /\ "ib" \in fs.maps
  /\ LET b == Seen(Itab)[i] IN
     /\ b # NoBlock => "bb" \in fs.maps
     /\ fs' = ext2fs_inode_alloc_stats(
                IF b = NoBlock THEN fs ELSE ext2fs_block_alloc_stats(fs, b, -1), i, -1)
     /\ ext2fs_write_inode(i, Dead)
----------------------------------------------------------------------------
(* ext2fs_flush *)

\* write_bitmaps: the bitmaps that are present and dirty; the last group's padding
\* is left out.  A lazy group's block bitmap is skipped.
BlockMapBlocks(f) == IF {"bb"} \subseteq f.maps /\ "BB" \in f.flags
                     THEN [p \in {"bb"} \X (Groups \ LazyGroups) |-> f.bb \cap GroupBlocks(p[2])]
                     ELSE Empty
InodeMapBlocks(f) == IF {"ib"} \subseteq f.maps /\ "IB" \in f.flags
                     THEN [p \in {"ib"} \X Groups |-> f.ib \cap GroupInodes(p[2])]
                     ELSE Empty
MapFlags(f) == {x \in {"BB", "IB"} : (IF x = "BB" THEN "bb" ELSE "ib") \in f.maps}

\* The loop over the groups writes the descriptors; EXT2_FLAG_MASTER_SB_ONLY, which
\* ext2fs_open2 sets, keeps it from writing the backup superblocks, the only ones
\* that would carry the non-valid state.
MasterSbOnly == TRUE
write_backup_super == backup' = IF MasterSbOnly THEN backup
                                ELSE [fs.super EXCEPT !.valid = FALSE]

\* All of it up to the first io_channel_flush: blocks go to the I/O channel only.
ext2fs_flush(state) ==
  /\ pc' = "flush" /\ ret' = "none"
  /\ cache' = PutAll(PutAll(Put(cache, Desc, fs.desc), BlockMapBlocks(fs)), InodeMapBlocks(fs))
  /\ fs' = [fs EXCEPT !.flags = @ \ MapFlags(fs), !.state = state]
  /\ write_backup_super
  /\ UNCHANGED <<dev, sb, lost, hurt, env, requests>>

\* flush_cached_blocks: every dirty block is tried; those refused stay dirty, or
\* are dropped when the cache is invalidated.
FlushCached(invalidate, refused) ==
  /\ refused # {} => failing /\ "flush" \in FaultsAt
  /\ dev' = [p \in Places |-> IF p \in DOMAIN cache \ refused THEN cache[p] ELSE dev[p]]
  /\ cache' = IF invalidate THEN Empty ELSE [p \in refused |-> cache[p]]
  /\ lost' = (lost \/ (invalidate /\ refused # {}))

\* The result of the first io_channel_flush is overwritten by the next call's.
io_channel_flush_first ==
  /\ pc = "flush"
  /\ \E refused \in SUBSET DOMAIN cache : FlushCached(FALSE, refused)
  /\ pc' = "super"
  /\ UNCHANGED <<sb, backup, fs, ret, hurt, env, requests>>

\* The runs of superblock words that differ from the words read: the two free
\* counts here, and after them s_wtime unless the second has not changed.
Differs == {f \in {"fb", "fi"} : fs.super[f] # fs.orig[f]}

\* Mutant: the write is tried again until it succeeds.
Fail_Again == /\ pc' = "super" /\ ret' = "error"
              /\ UNCHANGED fs
Fail == /\ pc' = "failed" /\ ret' = "error"
        /\ UNCHANGED fs

\* Mutant: the cache is not flushed before the bytes are written.
write_byte_NoFlush(field, next) ==
  /\ sb' = IF field \in Differs THEN [sb EXCEPT ![field] = fs.super[field]] ELSE sb
  /\ pc' = next
  /\ UNCHANGED <<dev, cache, fs, ret, lost>>
\* unix_write_byte for one run: the cache is flushed and invalidated first.
write_byte(field, next) ==
  LET wanted == field \in Differs \cup {"wtime"} IN
  \/ /\ field \notin Differs
     /\ pc' = next
     /\ UNCHANGED <<dev, sb, cache, fs, ret, lost>>
  \/ /\ wanted
     /\ \E refused \in (SUBSET DOMAIN cache) \ {{}} : FlushCached(TRUE, refused)
     /\ Fail
     /\ UNCHANGED sb
  \/ /\ wanted /\ failing /\ "byte" \in FaultsAt
     /\ FlushCached(TRUE, {})
     /\ Fail
     /\ UNCHANGED sb
  \/ /\ wanted
     /\ FlushCached(TRUE, {})
     /\ sb' = IF field = "wtime" THEN sb ELSE [sb EXCEPT ![field] = fs.super[field]]
     /\ pc' = next
     /\ UNCHANGED <<fs, ret>>

write_primary_superblock ==
  /\ \/ pc = "super" /\ write_byte("fb", "super_fi")
     \/ pc = "super_fi" /\ write_byte("fi", "super_wtime")
     \/ pc = "super_wtime" /\ write_byte("wtime", "super_done")
  /\ UNCHANGED <<backup, hurt, env, requests>>

\* orig_super catches up, the dirty flag falls, and what is left in the cache is
\* flushed once more; that result is ext2fs_flush's.
io_channel_flush_last ==
  /\ pc = "super_done"
  /\ fs' = [fs EXCEPT !.orig = fs.super, !.flags = @ \ {"DIRTY"}]
  /\ \E refused \in SUBSET DOMAIN cache :
       /\ FlushCached(FALSE, refused)
       /\ ret' = IF refused = {} THEN "ok" ELSE "error"
       /\ pc' = IF refused = {} THEN "done" ELSE "failed"
  /\ UNCHANGED <<sb, backup, hurt, env, requests>>
----------------------------------------------------------------------------
(* Who calls ext2fs_flush *)

\* op_fsync replies success whatever ext2fs_flush returns.
op_fsync == Serving /\ ext2fs_flush("up")
op_fsync_reply ==
  /\ pc \in {"done", "failed"} /\ fs.state = "up"
  /\ pc' = "idle"
  /\ UNCHANGED <<dev, sb, backup, cache, fs, ret, lost, hurt, env, requests>>

\* ext2fs_close: a volume that is not dirty is closed without ext2fs_flush.
op_destroy ==
  /\ Serving
  /\ \/ "DIRTY" \in fs.flags /\ ext2fs_flush("closing")
     \/ /\ "DIRTY" \notin fs.flags
        /\ fs' = [fs EXCEPT !.state = "closing"]
        /\ pc' = "done" /\ ret' = "ok"
        /\ UNCHANGED <<dev, sb, backup, cache, lost, hurt, env, requests>>

\* Mutant: the volume is freed without closing its channel.
ext2fs_free_NoClose ==
  /\ fs.state = "closing" /\ pc \in {"done", "failed"}
  /\ cache' = Empty /\ fs' = Down /\ pc' = "idle"
  /\ hurt' = (hurt \/ pc = "failed")
  /\ UNCHANGED <<dev, sb, backup, ret, lost, env, requests>>
\* ext2fs_free closes the channel, whose last flush may fail unnoticed; after an
\* error of ext2fs_flush nothing is freed and the process ends.
ext2fs_free ==
  /\ fs.state = "closing"
  /\ \/ /\ pc = "done"
        /\ \E refused \in SUBSET DOMAIN cache : FlushCached(TRUE, refused)
        /\ hurt' = (hurt \/ lost')
     \/ /\ pc = "failed"
        /\ cache' = Empty /\ lost' = TRUE /\ hurt' = TRUE
        /\ UNCHANGED dev
  /\ fs' = Down /\ pc' = "idle"
  /\ UNCHANGED <<sb, backup, ret, env, requests>>
----------------------------------------------------------------------------
(* The environment *)

\* A slot of the block cache is reused: its block is written, and an error of that
\* write is ignored.
Evict(p) ==
  /\ p \in DOMAIN cache
  /\ \/ /\ dev' = [dev EXCEPT ![p] = cache[p]] /\ UNCHANGED lost
     \/ /\ failing /\ "evict" \in FaultsAt
        /\ lost' = TRUE /\ UNCHANGED dev
  /\ cache' = [q \in DOMAIN cache \ {p} |-> cache[q]]
  /\ UNCHANGED <<sb, backup, fs, pc, ret, hurt, env, requests>>

\* The process dies: by itself, or because a request dereferences a volume or a
\* bitmap that op_init did not get.
Crash ==
  /\ fs.state # "down" /\ crashes < MaxCrashes
  /\ cache' = Empty /\ fs' = Down /\ pc' = "idle" /\ ret' = "none"
  /\ crashes' = crashes + 1 /\ hurt' = TRUE
  /\ UNCHANGED <<dev, sb, backup, failing, faults, lost, requests>>
Abort ==
  /\ \/ fs.state = "nofs"
     \/ Serving /\ \E i \in Inodes : /\ Seen(Itab)[i] # Dead
                                     /\ \/ "ib" \notin fs.maps
                                        \/ "bb" \notin fs.maps /\ Seen(Itab)[i] # NoBlock
  /\ cache' = Empty /\ fs' = Down /\ pc' = "idle" /\ ret' = "none"
  /\ hurt' = TRUE
  /\ UNCHANGED <<dev, sb, backup, lost, env, requests>>

DeviceFails == /\ ~failing /\ faults < MaxFaults
               /\ failing' = TRUE /\ faults' = faults + 1
               /\ UNCHANGED <<dev, sb, backup, cache, fs, pc, ret, crashes, lost, hurt, requests>>
DeviceRecovers == /\ failing /\ failing' = FALSE
                  /\ UNCHANGED <<dev, sb, backup, cache, fs, pc, ret, faults, crashes, lost, hurt, requests>>
----------------------------------------------------------------------------
FlushStep == io_channel_flush_first \/ write_primary_superblock \/ io_channel_flush_last

Next == \/ op_init \/ op_init_fails
        \/ op_create
        \/ \E i \in Inodes : op_write(i) \/ op_unlink(i)
        \/ op_fsync \/ op_fsync_reply \/ op_destroy \/ ext2fs_free
        \/ FlushStep
        \/ \E p \in Places : Evict(p)
        \/ Crash \/ Abort \/ DeviceFails \/ DeviceRecovers

Spec == Init /\ [][Next]_vars
----------------------------------------------------------------------------
(* Properties *)

TypeOK ==
  /\ DOMAIN dev = Places /\ DOMAIN cache \subseteq Places
  /\ pc \in {"idle", "flush", "super", "super_fi", "super_wtime", "super_done", "done", "failed"}
  /\ fs.state \in {"down", "nofs", "up", "closing"}
  /\ fs.maps \in {{}, {"ib"}, {"ib", "bb"}}
  /\ fs.flags \subseteq {"DIRTY", "BB", "IB"}
  /\ fs.bb \subseteq Blocks /\ fs.ib \subseteq Inodes

Owned == {dev[Itab][i] : i \in Inodes} \ {Dead, NoBlock}
Live == {i \in Inodes : dev[Itab][i] # Dead}
\* The device by itself: bitmaps, descriptors and superblock say what the inode
\* table says.
Consistent ==
  /\ \A g \in Groups \ LazyGroups : dev[BB(g)] = Owned \cap GroupBlocks(g)
  /\ \A g \in Groups : dev[IB(g)] = Live \cap GroupInodes(g)
  /\ \A g \in Groups : dev[Desc][g].fi = Cardinality(GroupInodes(g) \ Live)
  /\ \A g \in Groups \ LazyGroups : dev[Desc][g].fb = Cardinality(GroupBlocks(g) \ Owned)
  /\ sb.fi = Cardinality(Inodes \ Live)
  /\ sb.fb = Cardinality(Usable \ Owned)

\* ext2fs_close leaves a volume whose parts agree, after any sequence of requests,
\* fsyncs, evictions and refused writes that were retried, and after any number of
\* mounts, as long as no mount died and no block was dropped.
UnmountedIsConsistent == fs.state = "down" /\ ~hurt => Consistent

\* Whatever memory holds that the channel does not, a dirty flag remembers: what
\* ext2fs_flush and ext2fs_close will skip is already written.
FlagsCoverChanges ==
  fs.state = "up" /\ ~lost =>
    /\ "BB" \notin fs.flags /\ "bb" \in fs.maps =>
         \A g \in Groups \ LazyGroups : Seen(BB(g)) = fs.bb \cap GroupBlocks(g)
    /\ "IB" \notin fs.flags /\ "ib" \in fs.maps =>
         \A g \in Groups : Seen(IB(g)) = fs.ib \cap GroupInodes(g)
    /\ "DIRTY" \notin fs.flags => Seen(Desc) = fs.desc /\ sb = fs.super

\* A block of a group whose bitmap was never initialised is not handed out.
LazyStaysUnused == \A g \in LazyGroups : Owned \cap GroupBlocks(g) = {}

\* The superblock is written only when every other pending change is on the
\* device, also when the flush before it failed; no backup superblock is written.
SuperStep ==
  sb' # sb /\ ~lost' =>
    /\ cache' = Empty /\ dev'[Desc] = fs.desc
    /\ fs.maps = {"ib", "bb"} =>
         \A g \in Groups \ LazyGroups : dev'[BB(g)] = fs.bb \cap GroupBlocks(g)
SuperblockLast == [][SuperStep /\ backup' = backup]_vars

\* An ext2fs_flush that reports success has written every superblock field that
\* changed ("we need to only write out those fields which we have changed").
SuperWritten == pc = "done" /\ ret = "ok" /\ "DIRTY" \notin fs.flags => sb = fs.super

\* A volume that was closed, by any number of mounts none of which died or dropped a
\* block, is one whose bitmaps, descriptors, superblock and inodes agree (ext2fs_close,
\* ext2fs_flush), and no block of a lazy group is ever owned.
VolumeSound == TypeOK /\ UnmountedIsConsistent /\ LazyStaysUnused

\* What memory holds that the channel does not, a dirty flag remembers, and a flush
\* that reports success has written each changed superblock field
\* (ext2fs_mark_bb_dirty, write_primary_superblock).
FlagsSound == FlagsCoverChanges /\ SuperWritten

\* ext2fs_flush reports success only when all pending changes are on the device
\* ("We flush all other pending changes out to disk first").
FlushOkIsComplete ==
  pc = "done" /\ ret = "ok" /\ fs.state = "up" =>
    /\ dev[Desc] = fs.desc
    /\ \A g \in Groups \ LazyGroups : dev[BB(g)] = fs.bb \cap GroupBlocks(g)
    /\ \A g \in Groups : dev[IB(g)] = fs.ib \cap GroupInodes(g)

\* A volume left inconsistent is not marked as valid ("Set the state of the FS to
\* be non-valid").
InconsistentIsMarked == fs.state = "down" /\ ~Consistent => ~sb.valid
=============================================================================
