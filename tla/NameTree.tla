------------------------------ MODULE NameTree ------------------------------
(***************************************************************************)
(* What the requests promise about names, with none of the storage: a tree *)
(* of names over objects, in which every request either takes effect as a  *)
(* whole or is not seen at all.                                            *)
(***************************************************************************)
CONSTANTS Names, Objects, Root

VARIABLES
  tree,   \* the set of <<directory, name, object>>
  kind    \* the kind of each object that is the root or has a name

treeVars == <<tree, kind>>

KindSet == {"file", "symlink", "dir"}

Live(t) == {Root} \cup {e[3] : e \in t}

(* The kinds of the live objects, after i has become a k.                  *)
KindsAfter(t, i, k) == [o \in Live(t) |-> IF o = i THEN k ELSE kind[o]]

TreeInit ==
  /\ tree = {}
  /\ kind = [o \in {Root} |-> "dir"]

IsLiveDir(d) == d \in Live(tree) /\ kind[d] = "dir"

Unused(d, n) == \A o \in Objects : <<d, n, o>> \notin tree

Create(d, n, i, k) ==
  /\ IsLiveDir(d)
  /\ Unused(d, n)
  /\ i \notin Live(tree)
  /\ tree' = tree \cup {<<d, n, i>>}
  /\ kind' = KindsAfter(tree', i, k)

Link(d, n, i) ==
  /\ IsLiveDir(d)
  /\ Unused(d, n)
  /\ i \in Live(tree) /\ kind[i] # "dir"
  /\ tree' = tree \cup {<<d, n, i>>}
  /\ UNCHANGED kind

(* A directory can be removed, or clobbered, only when it is empty.        *)
Removable(i) == kind[i] = "dir" => \A e \in tree : e[1] # i

Remove(d, n, i) ==
  /\ <<d, n, i>> \in tree
  /\ Removable(i)
  /\ tree' = tree \ {<<d, n, i>>}
  /\ kind' = [o \in Live(tree') |-> kind[o]]

(* e is not i and not below it: some set that is closed under naming holds *)
(* i and not e.                                                            *)
Outside(e, i) ==
  \E S \in SUBSET Objects : /\ i \in S /\ e \notin S
                            /\ \A x \in tree : x[1] \in S => x[3] \in S

(* The object leaves its old name and takes the new one in one step, and   *)
(* with it goes what had the new name.                                     *)
Rename(d, n, e, m, i) ==
  /\ <<d, n, i>> \in tree
  /\ IsLiveDir(e) /\ Outside(e, i)
  /\ \A o \in Objects : <<e, m, o>> \in tree => o # i /\ Removable(o)
  /\ tree' = (tree \ ({<<d, n, i>>} \cup {<<e, m, o>> : o \in Objects}))
               \cup {<<e, m, i>>}
  /\ kind' = [o \in Live(tree') |-> kind[o]]

TreeNext ==
  \/ \E d, i \in Objects, n \in Names :
       \/ \E k \in KindSet : Create(d, n, i, k)
       \/ Link(d, n, i)
  \/ \E x \in tree :
       \/ Remove(x[1], x[2], x[3])
       \/ \E e \in Objects, m \in Names : Rename(x[1], x[2], e, m, x[3])

TreeSpec == TreeInit /\ [][TreeNext]_treeVars
=============================================================================
