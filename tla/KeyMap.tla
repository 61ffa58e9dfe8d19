------------------------------- MODULE KeyMap -------------------------------
(***************************************************************************)
(* What a tdb promises its callers: a map from keys to values that changes  *)
(* one key at a time.                                                       *)
(***************************************************************************)
CONSTANTS Keys, Vals, Absent

VARIABLE m

Init == m = [k \in Keys |-> Absent]

Put(k, v) == m' = [m EXCEPT ![k] = v]
\* A delete, or a store that removed the old record and found no space.
Remove(k) == m[k] # Absent /\ m' = [m EXCEPT ![k] = Absent]

Next == \E k \in Keys : Remove(k) \/ \E v \in Vals : Put(k, v)

Spec == Init /\ [][Next]_m
=============================================================================
