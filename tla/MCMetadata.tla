----------------------------- MODULE MCMetadata -----------------------------
(***************************************************************************)
(* Inodes and directories for TLC: single inodes through the cache         *)
(* (InodeCache), all inodes in turn (InodeScan), the records of a          *)
(* directory on the volume (DirBlock) and its listing in several calls     *)
(* (Readdir).  They share no state, so a behaviour is one of either:       *)
(* `part' says of which, and in which instance.  InodeCache is extended,   *)
(* with the constants of the configuration, and rests in its initial state *)
(* in the behaviours of the others.                                        *)
(***************************************************************************)
EXTENDS InodeCache, TLC

VARIABLES part,
          vol, scan, got, seen, touched, gotos,   \* InodeScan
          blocks, res, dir, struck,               \* DirBlock
          list, walk                              \* Readdir

scanVars == <<vol, scan, got, seen, touched, gotos>>
blockVars == <<blocks, res, dir, struck>>
listVars == <<list, walk>>
allVars == <<part, vars, scanVars, blockVars, listVars>>

(* Volumes of up to three groups.  Inodes divide blocks where there are    *)
(* bad blocks, as the format demands, and straddle them where there are    *)
(* none.                                                                   *)
Scannable(g, ipg, bs, is, buf, bad, lazy, missing, skip) ==
  [groups |-> g, ipg |-> ipg, bsize |-> bs, isize |-> is, buffer |-> buf,
   bad |-> bad, lazy |-> lazy, missing |-> missing, skip |-> skip]
BadLists == {<<>>, <<1>>, <<2>>, <<4>>, <<1, 2>>, <<2, 3>>, <<1, 4>>, <<2, 4, 5>>}
Whole == {Scannable(g, ipg, 2, 1, buf, bad, lazy, missing, TRUE) :
            g \in 1..3, ipg \in {3, 4}, buf \in 1..3, bad \in BadLists,
            lazy \in {{}, {1}, {2}}, missing \in {{}, {0}, {1}}}
Straddling == {Scannable(g, ipg, 3, 2, buf, <<>>, {}, missing, skip) :
                 g \in 1..2, ipg \in 1..4, buf \in 1..3, missing \in {{}, {1}}, skip \in BOOLEAN}
SomeVolumes ==
  {v \in Whole \cup Straddling : v.missing \cup v.lazy \subseteq 0..(v.groups - 1)}

Scanned == INSTANCE InodeScan WITH Volumes <- SomeVolumes, MaxGotos <- 1

(* Names of one to three units, in two blocks of sixteen.                  *)
Units(n) == CASE n \in {"a", "b"} -> 1 [] n = "cc" -> 2 [] OTHER -> 3
Records == INSTANCE DirBlock WITH
  out <- res, Names <- {"a", "b", "cc", "ddd"}, NameLen <- Units, BlockSize <- 16,
  MaxBlocks <- 2, Inodes <- {3}

(* Dirents of different sizes, in answers that hold one to three of them.  *)
Exact == INSTANCE Readdir WITH
  dir <- list, Names <- {"a", "b", "c"}, NSlots <- 3,
  Size <- "a" :> 1 @@ "b" :> 2 @@ "c" :> 3,
  BufSize <- 3, Readers <- {1}, NoName <- ""

(* Dirents of one size, two to an answer.                                  *)
Stable == INSTANCE Readdir WITH
  dir <- list, Names <- {"a", "b", "c"}, NSlots <- 4,
  Size <- [n \in {"a", "b", "c"} |-> 1],
  BufSize <- 2, Readers <- {1}, NoName <- ""

ASSUME MetadataInstances ==
  /\ Scanned!InodeScanAssumption /\ Records!DirBlockAssumption
  /\ Exact!ReaddirAssumption /\ Stable!ReaddirAssumption

NoScan == vol = 0 /\ scan = 0 /\ got = 0 /\ seen = 0 /\ touched = 0 /\ gotos = 0
NoBlocks == blocks = 0 /\ res = 0 /\ dir = 0 /\ struck = 0
NoListing == list = 0 /\ walk = 0

AllInit ==
  /\ Init
  /\ \/ part = "cache" /\ NoScan /\ NoBlocks /\ NoListing
     \/ part = "scan" /\ Scanned!Init /\ NoBlocks /\ NoListing
     \/ part = "records" /\ Records!Init /\ NoScan /\ NoListing
     \/ part = "exact" /\ Exact!Init /\ NoScan /\ NoBlocks
     \/ part = "stable" /\ Stable!Init /\ NoScan /\ NoBlocks

CacheStep == part = "cache" /\ Next /\ UNCHANGED <<part, scanVars, blockVars, listVars>>
ScanStep == part = "scan" /\ Scanned!Next /\ UNCHANGED <<part, vars, blockVars, listVars>>
RecordsStep == part = "records" /\ Records!Next /\ UNCHANGED <<part, vars, scanVars, listVars>>
OfListing(A) == A /\ UNCHANGED <<part, vars, scanVars, blockVars>>
ReadStep == OfListing(part = "exact" /\ Exact!op_readdir(1))
ListingStep == OfListing(\/ part = "exact" /\ Exact!Next
                         \/ part = "stable" /\ Stable!Next)

AllNext == CacheStep \/ ScanStep \/ RecordsStep \/ ListingStep

(* The kernel reads an open directory to its end.                          *)
AllSpec == AllInit /\ [][AllNext]_allVars /\ WF_allVars(ReadStep)
----------------------------------------------------------------------------
(* Properties, beside CacheSound and ImplementsInodeArray of InodeCache.   *)

(* Each inode of a table in use is returned once, in order, with the       *)
(* contents stored for its number, also when it straddles two buffers, and *)
(* no bad block is read (ext2fs_get_next_inode).                           *)
ScanIsExact ==
  part = "scan" => Scanned!ScanIsExact

(* Links and unlinks keep every block of a directory tiled by records that *)
(* hold their names, a lookup finds exactly the names that are linked,     *)
(* whatever older ones have left behind, the walk that also shows removed  *)
(* records hides no live one, and a link is refused only when no record of *)
(* any block has room for the name (link_proc, unlink_proc,                *)
(* ext2fs_process_dir_block).                                              *)
RecordsSound ==
  part = "records" => /\ Records!TypeOK /\ Records!RecordsTile
                      /\ Records!LookupAgrees /\ Records!RemovedWalkShowsLive
                      /\ Records!RefusalIsJust

(* However the answers cut it, a directory that nobody changes is listed   *)
(* name by name, each once; while only new names come, each name that was  *)
(* there all along is listed (op_readdir, reply_buf_limited).              *)
ListingExact ==
  /\ part = "exact" => Exact!TypeOK /\ Exact!UnchangedIsExact
  /\ part = "stable" => Stable!TypeOK /\ Stable!StableListed

Listed == part = "exact" /\ walk[1].open

(* A listing ends, however often the directory changes under it.           *)
ListingEnds == Listed ~> ~Listed
=============================================================================
