-------------------------- MODULE ShardedFreeList ---------------------------
(***************************************************************************)
(* The linked lists of runtime/include/alaska/ShardedFreeList.hpp, pointer *)
(* by pointer.  A free block stores the link to the next one in its own    *)
(* first word; while the program holds the block that word is the          *)
(* program's, and may contain anything.  One thread owns the list; the     *)
(* others only push onto remote_free.                                      *)
(*                                                                         *)
(* The two counters are left to SizedHeap.  Memory is sequentially         *)
(* consistent here, which is stronger than the ACQUIRE order the two       *)
(* compare-and-swaps ask for.                                              *)
(***************************************************************************)
EXTENDS Naturals, FiniteSets, LinkedList

CONSTANTS
  Block,    \* the blocks
  Freer,    \* the threads that do not own the list
  Null      \* nullptr

ASSUME BlockAssumption == IsFiniteSet(Block) /\ Null \notin Block
ASSUME FreerAssumption == Null \notin Freer

Link == Block \cup {Null}

VARIABLES
  local_free,   \* head of the owner's list
  remote_free,  \* head of the others' list
  next,         \* block -> its first word
  held,         \* the blocks the program holds
  swapping,     \* the owner is between the load and the CAS of swap()
  pc,           \* freer -> "idle", "load" or "cas", where it is in free_remote
  block         \* freer -> the block it frees, or Null

heads == <<local_free, remote_free, next>>
vars  == <<heads, held, swapping, pc, block>>

TypeOK ==
  /\ local_free \in Link /\ remote_free \in Link
  /\ next \in [Block -> Link]
  /\ held \subseteq Block
  /\ swapping \in BOOLEAN
  /\ pc \in [Freer -> {"idle", "load", "cas"}]
  /\ block \in [Freer -> Link]

\* The program starts out holding every block; it fills the lists itself.
Init ==
  /\ local_free = Null /\ remote_free = Null
  /\ next \in [Block -> {Null}]
  /\ held = Block
  /\ swapping = FALSE
  /\ pc = [t \in Freer |-> "idle"]
  /\ block = [t \in Freer |-> Null]

-----------------------------------------------------------------------------
\* A compare-and-swap of the remote head succeeds when the head still is what
\* it was loaded as.  (Mutant: no comparison.)
PlainStore(expected) == TRUE
Unchanged(expected)  == remote_free = expected

(***************************************************************************)
(* The owner.                                                              *)
(***************************************************************************)

\* Mutant of Pop: nullptr is taken for a block.
PopUnchecked ==
  /\ ~swapping
  /\ held' = held \cup {local_free}
  /\ local_free' = IF local_free = Null THEN Null ELSE next[local_free]
  /\ UNCHANGED <<remote_free, next, swapping, pc, block>>

\* pop() on a list that is not empty.
Pop ==
  /\ ~swapping /\ local_free # Null
  /\ held' = held \cup {local_free}
  /\ local_free' = next[local_free]
  /\ UNCHANGED <<remote_free, next, swapping, pc, block>>

\* free_local(b).
FreeLocal ==
  /\ ~swapping
  /\ \E b \in held :
       /\ held' = held \ {b}
       /\ next' = [next EXCEPT ![b] = local_free]
       /\ local_free' = b
  /\ UNCHANGED <<remote_free, swapping, pc, block>>

\* swap(): returns at once unless the local list is empty; the loop body
\* stores the remote head in local_free, which doubles as the CAS's expected
\* value.
SwapLoad ==
  /\ ~swapping /\ local_free = Null
  /\ local_free' = remote_free
  /\ swapping' = TRUE
  /\ UNCHANGED <<remote_free, next, held, pc, block>>

SwapCas ==
  /\ swapping /\ Unchanged(local_free)
  /\ remote_free' = Null
  /\ swapping' = FALSE
  /\ UNCHANGED <<local_free, next, held, pc, block>>

\* A failed weak CAS, which may be spurious, writes the head it saw to
\* local_free; the loop body would then load it once more.
SwapRetry ==
  /\ swapping
  /\ local_free' = remote_free
  /\ UNCHANGED <<remote_free, next, held, swapping, pc, block>>

-----------------------------------------------------------------------------
(***************************************************************************)
(* The others: free_remote(b).                                             *)
(***************************************************************************)

BeginFreeRemote(t) ==
  /\ pc[t] = "idle"
  /\ \E b \in held :
       /\ held' = held \ {b}
       /\ block' = [block EXCEPT ![t] = b]
  /\ pc' = [pc EXCEPT ![t] = "load"]
  /\ UNCHANGED <<heads, swapping>>

\* block->next = *list, where the CAS will find its expected value.
PushLoad(t) ==
  /\ pc[t] = "load"
  /\ next' = [next EXCEPT ![block[t]] = remote_free]
  /\ pc' = [pc EXCEPT ![t] = "cas"]
  /\ UNCHANGED <<local_free, remote_free, held, swapping, block>>

PushCas(t) ==
  /\ pc[t] = "cas" /\ Unchanged(next[block[t]])
  /\ remote_free' = block[t]
  /\ block' = [block EXCEPT ![t] = Null]
  /\ pc' = [pc EXCEPT ![t] = "idle"]
  /\ UNCHANGED <<local_free, next, held, swapping>>

\* A failed weak CAS writes the head it saw to block->next and starts over.
PushRetry(t) ==
  /\ pc[t] = "cas"
  /\ next' = [next EXCEPT ![block[t]] = remote_free]
  /\ pc' = [pc EXCEPT ![t] = "load"]
  /\ UNCHANGED <<local_free, remote_free, held, swapping, block>>

-----------------------------------------------------------------------------
\* The program writes its own data over the first word of a block it holds.
Write ==
  \E b \in held, w \in Link :
    /\ next' = [next EXCEPT ![b] = w]
    /\ UNCHANGED <<local_free, remote_free, held, swapping, pc, block>>

Next ==
  \/ Pop \/ FreeLocal \/ SwapLoad \/ SwapCas \/ SwapRetry
  \/ \E t \in Freer :
       BeginFreeRemote(t) \/ PushLoad(t) \/ PushCas(t) \/ PushRetry(t)
  \/ Write

Spec == Init /\ [][Next]_vars

-----------------------------------------------------------------------------
(***************************************************************************)
(* Properties.                                                             *)
(***************************************************************************)

\* The blocks on the list that starts at h.
Chain(h) == List(next, Null, h)

\* While swap() is between its load and its CAS, local_free already points
\* into the remote list, which is not the owner's yet.
LocalChain == IF swapping THEN {} ELSE Chain(local_free)

\* The links of both lists run to nullptr: walking a list ends, and no block
\* is on a list twice.  A push that links a block in front of a stale head, or
\* a pop whose link the program has overwritten, breaks this.
ListsEnd ==
  \A h \in {local_free, remote_free} : Ends(next, Null, h)

\* The linked lists and their CAS loops implement the atomic free list that
\* SizedHeap is built from: nothing is popped that was not freed, and what a
\* push links in while swap() is taking the list is neither lost nor taken
\* twice.
Atomic == INSTANCE FreeListSpec WITH
  freeing <- {block[t] : t \in Freer} \ {Null},
  local   <- LocalChain,
  remote  <- Chain(remote_free)

ImplementsFreeList == Atomic!Spec
=============================================================================
