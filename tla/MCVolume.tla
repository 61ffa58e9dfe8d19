------------------------------ MODULE MCVolume ------------------------------
(***************************************************************************)
(* The volume's own data for TLC: what a mount reads, changes and writes   *)
(* back (Mount), the bitmaps (Bitmap), and where the volume keeps them     *)
(* (Layout).  They share no state, so a behaviour is one of either: `part' *)
(* says of which, and in which instance.  Mount and Bitmap are extended,   *)
(* with the constants of the configuration, and rest in an initial state   *)
(* in the behaviours of the others.                                        *)
(***************************************************************************)
EXTENDS Mount, Bitmap

VARIABLES part,
          fdev, fsb, fbackup, fcache, ffs, fpc, fret,     \* Mount, while reads fail
          ffailing, ffaults, fcrashes, frequests, flost, fhurt,
          param, lsb, lpc, grp, map, desc                 \* Layout

faultyVars == <<fdev, fsb, fbackup, fcache, ffs, fpc, fret, flost, fhurt, frequests,
                ffailing, ffaults, fcrashes>>
layoutVars == <<param, lsb, lpc, grp, map, desc>>
allVars == <<part, vars, faultyVars, layoutVars, bitVars>>

(* Two groups, the second without a block bitmap; the device refuses reads *)
(* and single bytes.                                                       *)
Faulty == INSTANCE Mount WITH
  dev <- fdev, sb <- fsb, backup <- fbackup, cache <- fcache, fs <- ffs, pc <- fpc,
  ret <- fret, failing <- ffailing, faults <- ffaults, crashes <- fcrashes,
  requests <- frequests, lost <- flost, hurt <- fhurt,
  NGroups <- 2, BlocksPer <- 1, InodesPer <- 1, LazyGroups <- {2}, InitFiles <- 1,
  CountWrap <- 8, FaultsAt <- {"byte", "read"}, MaxFaults <- 1,
  MaxCrashes <- 0, MaxRequests <- 2

(* Volumes of one to eight small groups.                                   *)
Laid == INSTANCE Layout WITH
  sb <- lsb, pc <- lpc, DescPerBlock <- 3, InodesPerBlock <- 4, BitsPerBlock <- 16,
  AddrPerBlock <- 4, Multiple <- 2, MinInodes <- 4, Slack <- 3, RetryMin <- 12,
  RetryStep <- 2,
  Params <- [blocks : 16 .. 66, first : {0, 1}, bpg : {8, 10, 13}, inodes : {4, 30, 50},
             sparse : BOOLEAN, meta : {-1, 1}, reserved : {0, 1}]

ASSUME VolumeInstances == Faulty!MountSizes /\ Laid!LayoutAssumption

NoFaulty == /\ fdev = 0 /\ fsb = 0 /\ fbackup = 0 /\ fcache = 0 /\ ffs = 0 /\ fpc = 0 /\ fret = 0
            /\ ffailing = 0 /\ ffaults = 0 /\ fcrashes = 0 /\ frequests = 0 /\ flost = 0
            /\ fhurt = 0
NoBits == BitInit /\ bm = ext2fs_allocate_generic_bitmap(Start, CHOOSE e \in RealEnds : TRUE)
NoLayout == param = 0 /\ lsb = 0 /\ lpc = 0 /\ grp = 0 /\ map = 0 /\ desc = 0

AllInit ==
  /\ Init
  /\ \/ part = "mount" /\ NoFaulty /\ NoBits /\ NoLayout
     \/ part = "faulty" /\ Faulty!Init /\ NoBits /\ NoLayout
     \/ part = "bits" /\ NoFaulty /\ BitInit /\ NoLayout
     \/ part = "layout" /\ NoFaulty /\ NoBits /\ Laid!Init

OfFaulty(A) == part = "faulty" /\ A /\ UNCHANGED <<part, vars, bitVars, layoutVars>>

MountStep == part = "mount" /\ Next /\ UNCHANGED <<part, faultyVars, bitVars, layoutVars>>
FaultyStep == OfFaulty(Faulty!Next)
BitStep == part = "bits" /\ BitNext /\ UNCHANGED <<part, vars, faultyVars, layoutVars>>
LayoutStep == part = "layout" /\ Laid!Next /\ UNCHANGED <<part, vars, faultyVars, bitVars>>

AllNext == MountStep \/ FaultyStep \/ BitStep \/ LayoutStep

(* The process goes on with a flush, and a volume that is flushed is       *)
(* closed.                                                                 *)
AllSpec == /\ AllInit /\ [][AllNext]_allVars
           /\ WF_allVars(OfFaulty(Faulty!FlushStep))
           /\ WF_allVars(OfFaulty(Faulty!ext2fs_free))
----------------------------------------------------------------------------
(* Properties, beside VolumeSound, FlagsSound and SuperblockLast of Mount  *)
(* and BitmapSound of Bitmap.                                              *)

FaultyCloses == part = "faulty" /\ ffs.state = "closing"

(* op_destroy gets the volume closed, whatever the device refuses.         *)
CloseEnds == FaultyCloses ~> ~FaultyCloses

(* Every group's tables lie in the group and apart from each other and     *)
(* from the descriptors, the descriptors are read from where they are      *)
(* written, and the free counts and statfs() agree with what is left       *)
(* (ext2fs_initialize, ext2fs_allocate_tables, do_statvfs); a block of a   *)
(* group whose bitmap was never initialised is not handed out.             *)
LayoutSound ==
  /\ part = "layout" =>
       /\ Laid!TypeOK /\ Laid!TablesInTheirGroup /\ Laid!TablesApart /\ Laid!FreeCountsAgree
       /\ Laid!DescReadWhereWritten /\ Laid!DescApartFromTables /\ Laid!StatvfsAgrees
  /\ part = "faulty" => Faulty!TypeOK /\ Faulty!LazyStaysUnused
=============================================================================
