------------------------------ MODULE MCSized -------------------------------
(***************************************************************************)
(* Instance for TLC of a sized page, and of the threads that look for one: *)
(* SizedPage and SizedHeap share no state, and which of them a behavior is *)
(* about is decided at its start.                                          *)
(***************************************************************************)
EXTENDS SizedPage

CONSTANTS
  Thread, Page,   \* of SizedHeap
  MaxDrift        \* how far num_local_free may fall below zero

VARIABLES
  part,           \* "page" or "heap"
  magazine, owner, blocks, freed, nlocal, nremote, extent, live, heapLock,
  passed, page, at, second, got, blk, seen

\* One block a page, so that every call may need another page.
Heap == INSTANCE SizedHeap WITH
  Capacity <- 1, Chunk <- 128,
  local <- blocks, remote <- freed, bump <- extent, pc <- at

heapVars == <<magazine, owner, blocks, freed, nlocal, nremote, extent, live,
              heapLock, passed, page, at, second, got, blk, seen>>

SizedInit ==
  /\ part \in {"page", "heap"}
  /\ Init /\ Heap!Init

SizedNext ==
  /\ UNCHANGED part
  /\ \/ part = "page" /\ Next /\ UNCHANGED heapVars
     \/ part = "heap" /\ Heap!Next /\ UNCHANGED vars

\* The fairness of both specifications, each for its own part.
SizedSpec ==
  /\ SizedInit
  /\ [][SizedNext]_<<part, vars, heapVars>>
  /\ WF_vars(part = "page" /\ (CompactStep \/ JumbleStep))
  /\ \A t \in Thread : WF_heapVars(part = "heap" /\ Heap!Proceed(t))

BoundedDrift == \A p \in Page : nlocal[p] >= -MaxDrift

\* The type invariant of SizedHeap.
HeapTypeOK == Heap!TypeOK

\* Every halloc and hfree returns (SizedHeap, ThreadCache.cpp alloc and its
\* retries).
CallsReturn == Heap!CallsReturn
=============================================================================
