------------------------------ MODULE MCTdbWalk ------------------------------
(***************************************************************************)
(* The hash chains of the trivial database and the walks over them         *)
(* (TdbTraverse) for TLC, in four instances: `part' says which.  The       *)
(* processes p1, p2 are interchangeable and so are the keys k1, k2; the    *)
(* instance with a liveness property has others, q1, q2 and j1, j2, that   *)
(* no symmetry permutes.                                                   *)
(***************************************************************************)
EXTENDS Integers, TLC

CONSTANTS p1, p2, q1, q2, k1, k2, k3, j1, j2, Absent

VARIABLES part, db, trav, walk, rlock, tlock, twice

chainVars == <<db, trav, walk, rlock, tlock, twice>>
vars == <<part, chainVars>>

(* Records of two lengths; a dead record stays in its chain for reuse.     *)
Reusing == INSTANCE TdbTraverse WITH
  Procs <- {p1, p2}, NChains <- 1, Keys <- {k1, k2}, KeyChain <- [k \in {k1, k2} |-> 0],
  MaxVal <- 2, NSlots <- 3, MaxDead <- 1, Depth <- 1, Walkers <- {}

(* A traversal inside the callback of another.                             *)
Nested == INSTANCE TdbTraverse WITH
  Procs <- {p1, p2}, NChains <- 1, Keys <- {k1, k2}, KeyChain <- [k \in {k1, k2} |-> 0],
  MaxVal <- 1, NSlots <- 2, MaxDead <- 0, Depth <- 2, Walkers <- {}

(* Two chains, and a process that uses firstkey and nextkey.               *)
Walking == INSTANCE TdbTraverse WITH
  Procs <- {q1, q2}, NChains <- 2, Keys <- {k1, k2, k3},
  KeyChain <- (k1 :> 0 @@ k2 :> 0 @@ k3 :> 1),
  MaxVal <- 1, NSlots <- 2, MaxDead <- 0, Depth <- 1, Walkers <- {q1}

(* Traversals that go on while others store and delete.                    *)
Ending == INSTANCE TdbTraverse WITH
  Procs <- {q1, q2}, NChains <- 1, Keys <- {j1, j2}, KeyChain <- [k \in {j1, j2} |-> 0],
  MaxVal <- 1, NSlots <- 3, MaxDead <- 0, Depth <- 1, Walkers <- {}

ASSUME WalkInstances ==
  Reusing!ChainsAssumption /\ Nested!ChainsAssumption /\ Walking!ChainsAssumption
  /\ Ending!ChainsAssumption

Init ==
  \/ part = "reusing" /\ Reusing!Init
  \/ part = "nested" /\ Nested!Init
  \/ part = "walking" /\ Walking!Init
  \/ part = "ending" /\ Ending!Init

ReuseStep == part = "reusing" /\ Reusing!Next /\ UNCHANGED part
NestedStep == part = "nested" /\ Nested!Next /\ UNCHANGED part
WalkStep == part = "walking" /\ Walking!Next /\ UNCHANGED part
EndingStep == part = "ending" /\ Ending!Next /\ UNCHANGED part

Next == ReuseStep \/ NestedStep \/ WalkStep \/ EndingStep

(* A traversal goes on: its callback returns and the loop calls            *)
(* tdb_next_lock (tdb_traverse_internal).                                  *)
GoesOn(p) == part = "ending" /\ Ending!tdb_next_lock(p) /\ UNCHANGED part
ComesToEnd(p) == part = "ending" /\ Ending!traverse_end(p) /\ UNCHANGED part
Spec == Init /\ [][Next]_vars
        /\ \A p \in {q1, q2} : WF_vars(GoesOn(p)) /\ WF_vars(ComesToEnd(p))

Symmetric == Permutations({p1, p2}) \cup Permutations({k1, k2})
----------------------------------------------------------------------------
(* Properties.                                                             *)

(* Dead records, their reuse and their cleaning are invisible to callers:  *)
(* the database is a map that changes one key at a time (tdb_store,        *)
(* tdb_append, tdb_delete; the map is KeyMap).                             *)
ImplementsKeyMap ==
  /\ part = "reusing" => Reusing!KM!Init
  /\ [][part = "reusing" => Reusing!KeyMapStep]_vars

(* A traversal that ran to its end has called back once for every record   *)
(* that was there all the time, the record it stands on is never freed     *)
(* under it, and every record stays in the chain of its key, whatever      *)
(* other processes, its own callbacks and inner traversals do meanwhile    *)
(* (tdb_next_lock, tdb_do_delete).                                         *)
TraversalSound ==
  /\ part = "reusing" => Reusing!TypeOK /\ Reusing!ChainsSound
  /\ part = "nested" => Nested!TypeOK /\ Nested!StandsInChain /\ Nested!VisitsAll
  /\ part = "walking" => Walking!NoDoubleFree /\ Walking!VisitsAll
  /\ part = "ending" => Ending!ChainsSound /\ Ending!StandsInChain /\ Ending!VisitsAll

(* A traversal comes to its end although another process goes on storing   *)
(* and deleting: new records go in front of their chain, behind it         *)
(* (tdb_traverse_internal, tdb_store).                                     *)
InTraversal(p) == part = "ending" /\ trav[p] # <<>>
TraverseEnds == \A p \in {q1, q2} : InTraversal(p) ~> ~InTraversal(p)
=============================================================================
