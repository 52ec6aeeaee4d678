--------------------------- MODULE MCHandleTable ----------------------------
(***************************************************************************)
(* Instance of HandleTable for TLC.  FirstHandle stands for handle IDs 0   *)
(* and 10, both in slab 0.  As in MCSizedHeap, lost increments lower a     *)
(* slab's estimate without limit; MaxDrift cuts the exploration.           *)
(***************************************************************************)
EXTENDS HandleTable, TLC

CONSTANT MaxDrift   \* how far num_local_free may fall below zero

Threads == Permutations(Thread)

FirstHandle == {<<0, 1>>}

BoundedDrift == \A s \in SlabIdx : nlocal[s] >= -MaxDrift
=============================================================================
