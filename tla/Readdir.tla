------------------------------ MODULE Readdir -------------------------------
(***************************************************************************)
(* Listing a directory.  op_readdir keeps nothing between two calls: each  *)
(* one lists the whole directory again into a buffer of fuse_dirents and   *)
(* answers the part of it from byte `off' on.  The offset a dirent carries *)
(* is the place where the next one starts, and the kernel comes back with  *)
(* the offset of the last dirent it got whole.  Between the calls other    *)
(* processes link and unlink names of the directory.                       *)
(***************************************************************************)
EXTENDS Integers, Sequences, FiniteSets, SequencesExt

CONSTANTS Names,      \* the names a directory may have
          NSlots,     \* the records it has room for
          Size,       \* fuse_dirent_size of each name
          BufSize,    \* the size the kernel asks for
          Readers,    \* open directories
          NoName

ReaddirAssumption ==
  /\ NSlots \in Nat \ {0} /\ BufSize \in Nat /\ NoName \notin Names
  /\ \A n \in Names : Size[n] \in 1 .. BufSize     \* a page holds any dirent

VARIABLES
  dir,     \* the names, in the order of the directory's records
  walk     \* what each reader has got since opendir

vars == <<dir, walk>>

Slots == 1 .. NSlots
Present == {dir[s] : s \in Slots} \ {NoName}

\* open: between opendir and the end; off: the kernel's offset; listed: how often
\* it got each name; stay: the names there ever since; still: no name was linked or unlinked;
\* kept: none was unlinked; torn: an offset fell inside a dirent.
Walk0 == [open |-> FALSE, off |-> 0, listed |-> [n \in Names |-> 0], stay |-> {},
          still |-> TRUE, kept |-> TRUE, torn |-> FALSE, ok |-> TRUE]

Init == /\ dir \in {d \in [Slots -> Names \cup {NoName}] :
                      \A s, t \in Slots : d[s] = d[t] /\ s # t => d[s] = NoName}
        /\ walk = [r \in Readers |-> Walk0]
-----------------------------------------------------------------------------
dirbuf_add(b, name) ==
  [size |-> b.size + Size[name],
   ents |-> Append(b.ents, [name |-> name, at |-> b.size, off |-> b.size + Size[name]])]

\* ext2fs_dir_iterate without flags calls walk_dir for the records in use.
walk_dir(b, name) == IF name = NoName THEN b ELSE dirbuf_add(b, name)
Listing == FoldLeft(walk_dir, [size |-> 0, ents |-> <<>>], [s \in Slots |-> dir[s]])

\* Mutant: the answer starts after the byte asked for.
reply_buf_limited_Past(e, off) == e.at > off /\ e.off <= off + BufSize
\* Mutant: every answer starts at the beginning.
reply_buf_limited_Begin(e, off) == e.off <= BufSize
\* The dirents that lie whole in the part answered.
reply_buf_limited(e, off) == e.at >= off /\ e.off <= off + BufSize

\* The kernel reads dirents from the start of the answer; it cannot if that is not
\* where one starts.
Torn(b, off) == off < b.size /\ \A i \in DOMAIN b.ents : b.ents[i].at # off

Often(k) == IF k > 2 THEN 2 ELSE k      \* twice or more

op_opendir(r) ==
  /\ ~walk[r].open
  /\ walk' = [walk EXCEPT ![r] = [Walk0 EXCEPT !.open = TRUE, !.stay = Present]]
  /\ UNCHANGED dir

op_readdir(r) ==
  LET w == walk[r]
      b == Listing
      got == SelectSeq(b.ents, LAMBDA e : reply_buf_limited(e, w.off))
  IN /\ w.open
     /\ walk' = [walk EXCEPT ![r] =
          IF Torn(b, w.off) THEN [w EXCEPT !.open = FALSE, !.torn = TRUE]
          ELSE IF got = <<>> THEN [w EXCEPT !.open = FALSE]
          ELSE [w EXCEPT !.off = Last(got).off,
                         !.listed = [n \in Names |->
                            Often(@[n] + Cardinality({i \in DOMAIN got : got[i].name = n}))]]]
     /\ UNCHANGED dir

\* The directory cannot be read: EIO.
op_readdir_fails(r) ==
  /\ walk[r].open
  /\ walk' = [walk EXCEPT ![r].open = FALSE, ![r].ok = FALSE]
  /\ UNCHANGED dir
-----------------------------------------------------------------------------
\* A name is linked in some unused record, or unlinked; every reader's history is told.
Told(gone) ==
  [r \in Readers |->
     IF ~walk[r].open THEN walk[r]
     ELSE [walk[r] EXCEPT !.stay = @ \ gone, !.still = FALSE,
                          !.kept = @ /\ gone = {}]]

ext2fs_link(n, s) ==
  /\ n \notin Present /\ dir[s] = NoName
  /\ dir' = [dir EXCEPT ![s] = n]
  /\ walk' = Told({})

ext2fs_unlink(s) ==
  /\ dir[s] # NoName
  /\ dir' = [dir EXCEPT ![s] = NoName]
  /\ walk' = Told({dir[s]})

Next == \/ \E r \in Readers : op_opendir(r) \/ op_readdir(r) \/ op_readdir_fails(r)
        \/ \E s \in Slots : ext2fs_unlink(s) \/ \E n \in Names : ext2fs_link(n, s)

Spec == Init /\ [][Next]_vars
\* The kernel reads an open directory to its end.
LiveSpec == Spec /\ \A r \in Readers : WF_vars(op_readdir(r))
-----------------------------------------------------------------------------
(* Properties *)

Finished(r) == ~walk[r].open /\ walk[r].ok

\* Types, and the bound on the offset: no answer sends the kernel past the end of the
\* longest listing (dirbuf_add).
TypeOK ==
  /\ dir \in [Slots -> Names \cup {NoName}]
  /\ \A r \in Readers :
       /\ walk[r].off \in 0 .. FoldSet(LAMBDA n, t : t + Size[n], 0, Names)
       /\ walk[r].listed \in [Names -> 0 .. 2] /\ walk[r].stay \subseteq Names

\* A directory that nobody changes is listed name by name, each once,
\* wherever the ends of the buffers fall (op_readdir, reply_buf_limited).
UnchangedIsExact ==
  \A r \in Readers :
    walk[r].still /\ Finished(r) =>
      /\ ~walk[r].torn
      /\ \A n \in Names : walk[r].listed[n] = IF n \in walk[r].stay THEN 1 ELSE 0

\* When only new names come while it is read, a name that was there all along is
\* listed, if not always once: positions only move on (dirents of one size).
StableListed ==
  \A r \in Readers :
    walk[r].kept /\ Finished(r) =>
      ~walk[r].torn /\ \A n \in walk[r].stay : walk[r].listed[n] > 0

\* A listing ends, however often the directory changes under it.
ListingEnds == \A r \in Readers : walk[r].open ~> ~walk[r].open
=============================================================================
