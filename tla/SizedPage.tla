----------------------------- MODULE SizedPage ------------------------------
(***************************************************************************)
(* One sized page (runtime/core/SizedPage.cpp, SizedPage.hpp) and the      *)
(* handles that point into it: a header per slot that names the slot's     *)
(* mapping, the free lists and the bump pointer of its SizedAllocator, and *)
(* the two-finger walks that move objects while the world is stopped.      *)
(*                                                                         *)
(* halloc, hfree and hrealloc run under the lock of a thread cache, which  *)
(* the barrier takes before it moves anything (Runtime.cpp:123-128), so a  *)
(* whole call is one action here, with the mapping update that ends it.    *)
(* The walks are one action per turn of their loop.  The counters of the   *)
(* free lists and the race on remote_free are SizedHeap's subject.         *)
(***************************************************************************)
EXTENDS Integers, FiniteSets

CONSTANTS
  Mapping,    \* the handle table entries that may point into this page
  None,       \* nullptr
  Capacity,   \* slots in the page
  Chunk       \* slots one call of extend() takes (128 in the code)

ASSUME MappingAssumption  == None \notin Mapping
ASSUME CapacityAssumption == Capacity \in Nat \ {0}
ASSUME ChunkAssumption    == Chunk \in Nat \ {0}

Slot == 0 .. Capacity - 1

ASSUME SlotAssumption == None \notin Slot

VARIABLES
  header,   \* slot -> the mapping its header names, or None: a free slot
  ptr,      \* mapping -> the slot it points to, or None
  mem,      \* slot -> the mapping whose object's bytes are in it, or None
  local,    \* slots on the local free list
  remote,   \* slots on the remote free list
  bump,     \* the bump pointer, as a slot number
  pinned,   \* the mappings the barrier has pinned
  pc,       \* "run", "compact" or "jumble"
  left, right,   \* the two fingers
  last      \* last_object: the rightmost pinned slot, or None

lists   == <<local, remote, bump>>
fingers == <<left, right, last>>
vars    == <<header, ptr, mem, lists, pinned, pc, fingers>>

TypeOK ==
  /\ header \in [Slot -> Mapping \cup {None}]
  /\ ptr    \in [Mapping -> Slot \cup {None}]
  /\ mem    \in [Slot -> Mapping \cup {None}]
  /\ local  \subseteq Slot
  /\ remote \subseteq Slot
  /\ bump   \in 0 .. Capacity
  /\ pinned \subseteq Mapping
  /\ pc     \in {"run", "compact", "jumble"}
  /\ left   \in Slot
  /\ right  \in Slot
  /\ last   \in Slot \cup {None}

\* set_size_class: headers zeroed, allocator configured.
Init ==
  /\ header = [s \in Slot |-> None]
  /\ ptr    = [m \in Mapping |-> None]
  /\ mem    = [s \in Slot |-> None]
  /\ local  = {} /\ remote = {} /\ bump = 0
  /\ pinned = {}
  /\ pc     = "run"
  /\ left   = 0 /\ right = Capacity - 1 /\ last = None

IsFree(s) == header[s] = None
Live      == {m \in Mapping : ptr[m] # None}

-----------------------------------------------------------------------------
(***************************************************************************)
(* The program's calls.                                                    *)
(***************************************************************************)

\* SizedAllocator::alloc takes slot s: from the local list, else from the
\* slots extend() adds to it, else from the remote list once it is swapped in.
\* The slots in released go onto the local list afterwards.
Take(s, released) ==
  \/ /\ s \in local
     /\ local' = (local \ {s}) \cup released
     /\ UNCHANGED <<remote, bump>>
  \/ LET end == IF bump + Chunk > Capacity THEN Capacity ELSE bump + Chunk
     IN  /\ local = {} /\ s \in bump .. end - 1
         /\ local' = ((bump .. end - 1) \ {s}) \cup released
         /\ bump' = end
         /\ UNCHANGED remote
  \/ /\ local = {} /\ bump = Capacity /\ s \in remote
     /\ local' = (remote \ {s}) \cup released
     /\ remote' = {}
     /\ UNCHANGED bump

\* halloc: SizedPage::alloc writes the header, halloc the mapping, and the
\* program its data.
Halloc(m) ==
  /\ pc = "run" /\ ptr[m] = None
  /\ \E s \in Slot :
       /\ Take(s, {})
       /\ header' = [header EXCEPT ![s] = m]
       /\ ptr'    = [ptr EXCEPT ![m] = s]
       /\ mem'    = [mem EXCEPT ![s] = m]
  /\ UNCHANGED <<pinned, pc, fingers>>

\* hfree by the page's owner (release_local) or by anyone else
\* (release_remote).
Hfree(m) ==
  /\ pc = "run" /\ ptr[m] # None
  /\ header' = [header EXCEPT ![ptr[m]] = None]
  /\ \/ local' = local \cup {ptr[m]} /\ UNCHANGED remote
     \/ remote' = remote \cup {ptr[m]} /\ UNCHANGED local
  /\ ptr' = [ptr EXCEPT ![m] = None]
  /\ UNCHANGED <<mem, bump, pinned, pc, fingers>>

\* hrealloc of a handle whose new size has the same size class: a second slot
\* is allocated and filled before the first is freed and the handle turned.
\* Only the owner allocates here, so the release is local.
Hrealloc(m) ==
  /\ pc = "run" /\ ptr[m] # None
  /\ \E s \in Slot :
       /\ Take(s, {ptr[m]})
       /\ header' = [header EXCEPT ![s] = m, ![ptr[m]] = None]
       /\ mem'    = [mem EXCEPT ![s] = mem[ptr[m]]]
       /\ ptr'    = [ptr EXCEPT ![m] = s]
  /\ UNCHANGED <<pinned, pc, fingers>>

-----------------------------------------------------------------------------
(***************************************************************************)
(* compact(), inside a barrier that has pinned some handles.               *)
(***************************************************************************)

\* The free lists are emptied first.  (Mutant: kept.)
KeepLists  == UNCHANGED <<local, remote>>
ResetLists == local' = {} /\ remote' = {}

\* live_objects is never updated, so the early return is never taken: the
\* lists are wiped and the fingers set.
StartCompact ==
  /\ pc = "run"
  /\ pc' = "compact"
  /\ pinned' \in SUBSET Live
  /\ ResetLists
  /\ left' = 0 /\ right' = Capacity - 1 /\ last' = None
  /\ UNCHANGED <<header, ptr, mem, bump>>

Compacting == pc = "compact" /\ right > left

\* Whether the barrier has pinned the object in a slot.  (Mutants: the test
\* left out, either way.)
NeverPinned(s)  == FALSE
AlwaysPinned(s) == TRUE
Pinned(s) == header[s] \in pinned

\* The right finger's step.  (Mutant: forgotten.)
RightStays == UNCHANGED right
RightMoves == right' = right - 1

\* The left finger passes an allocated slot.
SkipLive ==
  /\ Compacting /\ ~IsFree(left)
  /\ left' = left + 1
  /\ UNCHANGED <<header, ptr, mem, lists, pinned, pc, right, last>>

\* The local list once the slot under the right finger is known to be free.
\* (Mutant: gaps behind pinned objects are not listed.)
NoGaps == local
Gaps   == IF last # None THEN local \cup {right} ELSE local

\* The right finger passes a free slot; behind a pinned object it is a gap
\* the bump allocator will not reach, so it goes onto the local list.
SkipFree ==
  /\ Compacting /\ IsFree(left) /\ IsFree(right)
  /\ local' = Gaps
  /\ RightMoves
  /\ UNCHANGED <<header, ptr, mem, remote, bump, pinned, pc, left, last>>

\* The right finger passes a pinned object and remembers the first one.
SkipPinned ==
  /\ Compacting /\ IsFree(left) /\ ~IsFree(right)
  /\ Pinned(right)
  /\ last' = IF last = None THEN right ELSE last
  /\ RightMoves
  /\ UNCHANGED <<header, ptr, mem, lists, pinned, pc, left>>

\* Mutant of Move: the old header stays in place.
MoveLeavingHeader ==
  /\ Compacting /\ IsFree(left) /\ ~IsFree(right) /\ ~Pinned(right)
  /\ mem'    = [mem EXCEPT ![left] = mem[right], ![right] = None]
  /\ ptr'    = [ptr EXCEPT ![header[right]] = left]
  /\ header' = [header EXCEPT ![left] = header[right]]
  /\ UNCHANGED <<lists, pinned, pc, fingers>>

\* The object under the right finger moves under the left one; its old slot
\* is poisoned.
Move ==
  /\ Compacting /\ IsFree(left) /\ ~IsFree(right)
  /\ ~Pinned(right)
  /\ mem'    = [mem EXCEPT ![left] = mem[right], ![right] = None]
  /\ ptr'    = [ptr EXCEPT ![header[right]] = left]
  /\ header' = [header EXCEPT ![left] = header[right], ![right] = None]
  /\ UNCHANGED <<lists, pinned, pc, fingers>>

\* The fingers have met: the bump allocator starts right after last_object.
\* (Mutant: one further.)
BumpTooFar == (IF last = None THEN right ELSE last) + 2
BumpStart  == (IF last = None THEN right ELSE last) + 1

\* The barrier ends and the pins go with it.
EndCompact ==
  /\ pc = "compact" /\ ~(right > left)
  /\ bump' = BumpStart
  /\ pc' = "run"
  /\ pinned' = {}
  /\ UNCHANGED <<header, ptr, mem, local, remote, fingers>>

-----------------------------------------------------------------------------
(***************************************************************************)
(* jumble(): swap objects pairwise, for testing.                           *)
(***************************************************************************)

StartJumble ==
  /\ pc = "run"
  /\ pc' = "jumble"
  /\ pinned' \in SUBSET Live
  /\ left' = 0 /\ right' = Capacity - 1
  /\ UNCHANGED <<header, ptr, mem, lists, last>>

Jumbling == pc = "jumble" /\ right > left

Stuck(s) == IsFree(s) \/ Pinned(s)

JumbleRight ==
  /\ Jumbling /\ Stuck(right)
  /\ RightMoves
  /\ UNCHANGED <<header, ptr, mem, lists, pinned, pc, left, last>>

JumbleLeft ==
  /\ Jumbling /\ ~Stuck(right) /\ Stuck(left)
  /\ left' = left + 1
  /\ UNCHANGED <<header, ptr, mem, lists, pinned, pc, right, last>>

\* Both fingers move on: they may cross, which ends the loop.
JumbleSwap ==
  /\ Jumbling /\ ~Stuck(right) /\ ~Stuck(left)
  /\ mem'    = [mem EXCEPT ![left] = mem[right], ![right] = mem[left]]
  /\ ptr'    = [ptr EXCEPT ![header[right]] = left, ![header[left]] = right]
  /\ header' = [header EXCEPT ![left] = header[right],
                              ![right] = header[left]]
  /\ left'  = left + 1
  /\ right' = right - 1
  /\ UNCHANGED <<lists, pinned, pc, last>>

EndJumble ==
  /\ pc = "jumble" /\ ~(right > left)
  /\ pc' = "run"
  /\ pinned' = {}
  /\ UNCHANGED <<header, ptr, mem, lists, fingers>>

-----------------------------------------------------------------------------
CompactStep == SkipLive \/ SkipFree \/ SkipPinned \/ Move \/ EndCompact
JumbleStep  == JumbleRight \/ JumbleLeft \/ JumbleSwap \/ EndJumble

Next ==
  \/ \E m \in Mapping : Halloc(m) \/ Hfree(m) \/ Hrealloc(m)
  \/ StartCompact \/ CompactStep
  \/ StartJumble \/ JumbleStep

Spec == Init /\ [][Next]_vars

\* The walks are plain loops of the thread that stopped the world.
FairSpec == Spec /\ WF_vars(CompactStep \/ JumbleStep)

-----------------------------------------------------------------------------
(***************************************************************************)
(* Properties.                                                             *)
(***************************************************************************)

\* A handle and its object find each other, between any two turns of a walk:
\* the mapping points to the slot whose header names it, and that slot holds
\* its bytes.  (SizedPage.cpp:182-196 and 255-274 turn three pieces of state
\* one after the other.)
HandlesIntact ==
  /\ \A m \in Live : header[ptr[m]] = m /\ mem[ptr[m]] = m
  /\ \A s \in Slot : ~IsFree(s) => ptr[header[s]] = s

\* Nothing the allocator may hand out is in use: compact() rebuilds the local
\* list and the bump pointer from the headers while it moves objects about.
FreeIsFree ==
  pc = "run" =>
    /\ \A s \in Slot : s \in local \cup remote \/ s >= bump => IsFree(s)
    /\ \A s \in local \cup remote : s < bump
    /\ local \cap remote = {}

\* An object somebody may hold a raw pointer to does not move.
PinnedStay ==
  [][pc # "run" => \A m \in pinned : ptr'[m] = ptr[m]]_vars

\* Slots that are free, and that neither a list nor the bump pointer leads to.
Lost == {s \in Slot : IsFree(s) /\ s \notin local \cup remote /\ s < bump}

\* compact() gives up at most one slot of a page, and one call does not add
\* to what an earlier one gave up.
AtMostOneLost ==
  pc = "run" => \A s, t \in Lost : s = t

\* When the fingers have met, every object to the right of them is pinned:
\* the page is as dense as the pins allow (SizedPage.cpp:107-109).
Compacted ==
  pc = "compact" /\ right = left =>
    /\ \A s \in Slot : s < left => ~IsFree(s)
    /\ \A s \in Slot : s > right /\ ~IsFree(s) => header[s] \in pinned

\* The fingers meet: every turn moves one of them, or empties the slot under
\* the right one.
WalksEnd == pc # "run" ~> pc = "run"
=============================================================================
