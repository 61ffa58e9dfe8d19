--------------------------- MODULE WriteBackStore ---------------------------
(***************************************************************************)
(* What a write-back cache in front of a device promises: a read returns   *)
(* what was written last, the device holds for each block either what it   *)
(* held before or what was written since, a flush brings it up to date, a   *)
(* crash falls back on what it holds.  Nothing is promised of a block that *)
(* has been freed and not written since.                                   *)
(***************************************************************************)
CONSTANTS Blocks, Data

VARIABLES
  cur,     \* what a read of a block returns
  held,    \* what the device holds
  freed    \* blocks whose contents have been given up

storeVars == <<cur, held, freed>>

StoreInit ==
  /\ cur \in [Blocks -> Data]
  /\ held = cur
  /\ freed = {}

(* Blocks may reach the device at any step, in any order.                  *)
Destage ==
  /\ held' \in [Blocks -> Data]
  /\ \A b \in Blocks \ freed' : held'[b] \in {held[b], cur[b], cur'[b]}

Same == \A b \in Blocks \ freed' : cur'[b] = cur[b]

(* The blocks of B are written; nothing else changes.                      *)
Put(B, v) ==
  /\ cur' \in [Blocks -> Data]
  /\ freed' = freed \ B
  /\ \A b \in Blocks \ freed' : cur'[b] = IF b \in B THEN v ELSE cur[b]
  /\ Destage

Settle ==
  /\ cur' \in [Blocks -> Data]
  /\ freed' = freed
  /\ Same
  /\ Destage

Free(b) ==
  /\ cur' \in [Blocks -> Data]
  /\ freed' = freed \cup {b}
  /\ Same
  /\ Destage

Crash ==
  /\ held' = held
  /\ cur' = held
  /\ freed' = freed

StoreNext ==
  \/ \E B \in SUBSET Blocks, v \in Data : Put(B, v)
  \/ Settle
  \/ \E b \in Blocks : Free(b)
  \/ Crash

StoreSpec == StoreInit /\ [][StoreNext]_storeVars
=============================================================================
