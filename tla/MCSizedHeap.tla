---------------------------- MODULE MCSizedHeap -----------------------------
(***************************************************************************)
(* Instance of SizedHeap for TLC.  A lost increment of num_remote_free     *)
(* (SwapClearHit, SwapClearMiss) lowers a page's estimate for good, so the *)
(* counters have no lower bound; MaxDrift cuts the exploration there.      *)
(***************************************************************************)
EXTENDS SizedHeap

CONSTANT MaxDrift   \* how far num_local_free may fall below zero

BoundedDrift == \A p \in Page : nlocal[p] >= -MaxDrift
=============================================================================
