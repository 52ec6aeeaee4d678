----------------------------- MODULE SizedHeap ------------------------------
(***************************************************************************)
(* The sized pages of one size class, as the thread caches share them      *)
(* (runtime/core/ThreadCache.cpp, Heap.cpp, SizedPage.cpp and              *)
(* SizedAllocator.hpp, ShardedFreeList.hpp, OwnedBy.hpp).                  *)
(*                                                                         *)
(* A page is owned by at most one thread cache.  Its owner allocates from  *)
(* it and frees into its local list without synchronisation; every other   *)
(* thread frees into its remote list with a compare-and-swap and then      *)
(* increments a counter.  When the owner runs dry it takes the remote list *)
(* over, and if that was empty too it gives the page back to the heap and  *)
(* looks for a page nobody owns whose counters say it has space.           *)
(*                                                                         *)
(* Every thread runs its operations one at a time (it holds the lock of    *)
(* its own thread cache), so an action below is either a step that only    *)
(* reads and writes what its thread owns, or one access to something       *)
(* shared: the remote list, its counter, or the heap's state under the     *)
(* heap lock.  The order of the blocks within a free list is left out: the *)
(* lists are sets.  Both CAS loops of the remote list are single steps     *)
(* here, taken when the CAS succeeds.                                      *)
(***************************************************************************)
EXTENDS Integers, FiniteSets

CONSTANTS
  Thread,    \* the threads, each with its thread cache
  Page,      \* the pages the page manager has room for
  None,      \* nullptr: no page, no owner, no block
  Capacity,  \* blocks per page
  Chunk      \* blocks one call of extend() takes (128 in the code)

ASSUME ThreadAssumption   == IsFiniteSet(Thread) /\ None \notin Thread
ASSUME PageAssumption     == None \notin Page
ASSUME CapacityAssumption == Capacity \in Nat \ {0}
ASSUME ChunkAssumption    == Chunk \in Nat \ {0}

Slot   == 1 .. Capacity
Block  == Page \X Slot
PageOf(b) == b[1]        \* HeapPageTable::get_unaligned

ASSUME BlockAssumption == None \notin Block

VARIABLES
  magazine,   \* the pages the heap has created for this size class
  owner,      \* page -> the thread whose thread cache owns it, or None
  local,      \* page -> the blocks on the local free list
  remote,     \* page -> the blocks on the remote free list
  nlocal,     \* page -> num_local_free
  nremote,    \* page -> num_remote_free
  bump,       \* page -> how many blocks the bump pointer has passed
  live,       \* the blocks the program holds
  heapLock,   \* Heap::lock, as a thread that scans the magazine holds it
  passed,     \* the pages its scan has passed over
  page,       \* thread -> size_classes[cls], the page it allocates from
  pc,         \* thread -> where it is in halloc or hfree
  second,     \* thread -> in the second page->alloc() of an allocation
  got,        \* thread -> the page get_sizedpage() returned
  blk,        \* thread -> the block a remote free is releasing
  seen        \* thread -> num_remote_free as swap() last read it

lists  == <<local, remote, nlocal, nremote, bump>>
thread == <<page, second, got, blk, seen>>
heap   == <<magazine, owner, heapLock, passed>>
vars   == <<heap, lists, live, thread, pc>>

PCs == {"idle", "alloc", "add", "clear", "newpage", "put", "check", "push",
        "count", "exhausted", "noSpace", "oom"}

TypeOK ==
  /\ magazine \subseteq Page
  /\ owner   \in [Page -> Thread \cup {None}]
  /\ local   \in [Page -> SUBSET Block]
  /\ remote  \in [Page -> SUBSET Block]
  /\ nlocal  \in [Page -> Int]
  /\ nremote \in [Page -> Nat]
  /\ bump    \in [Page -> 0 .. Capacity]
  /\ live    \subseteq Block
  /\ heapLock \in Thread \cup {None}
  /\ passed  \subseteq Page
  /\ page    \in [Thread -> Page \cup {None}]
  /\ pc      \in [Thread -> PCs]
  /\ second  \in [Thread -> BOOLEAN]
  /\ got     \in [Thread -> Page \cup {None}]
  /\ blk     \in [Thread -> Block \cup {None}]
  /\ seen    \in [Thread -> Nat]

Init ==
  /\ magazine = {}
  /\ owner   = [p \in Page |-> None]
  /\ local   = [p \in Page |-> {}]
  /\ remote  = [p \in Page |-> {}]
  /\ nlocal  = [p \in Page |-> 0]
  /\ nremote = [p \in Page |-> 0]
  /\ bump    = [p \in Page |-> 0]
  /\ live    = {}
  /\ heapLock = None
  /\ passed  = {}
  /\ page    = [t \in Thread |-> None]
  /\ pc      = [t \in Thread |-> "idle"]
  /\ second  = [t \in Thread |-> FALSE]
  /\ got     = [t \in Thread |-> None]
  /\ blk     = [t \in Thread |-> None]
  /\ seen    = [t \in Thread |-> 0]

-----------------------------------------------------------------------------
(***************************************************************************)
(* Helpers.                                                                *)
(***************************************************************************)

\* An ALASKA_ASSERT that fails aborts the process.
Halted  == {"exhausted", "noSpace", "oom"}
Running == \A t \in Thread : pc[t] \notin Halted

At(t, l) == Running /\ pc[t] = l

Goto(t, l) == pc' = [pc EXCEPT ![t] = l]

\* The blocks the bump pointer passes when it moves from position i to j.
Between(p, i, j) == {p} \X ((i + 1) .. j)

\* SizedAllocator::num_free, a signed estimate made of two counters.
NumFree(p) == nlocal[p] + nremote[p] + (Capacity - bump[p])

\* The test of find_or_alloc_page: available() is converted to size_t before
\* it is compared with the requirement of one block, so that a negative
\* estimate passes it.
LooksAvailable(p) == NumFree(p) # 0

\* A page find_or_alloc_page would pick.  (Mutant: whoever owns it.)
AdoptableOwned(p) == LooksAvailable(p)
Adoptable(p) == owner[p] = None /\ LooksAvailable(p)

\* Where the bump pointer stands after extend().  (Mutant: the page's end
\* ignored.)
ExtendPast(p) == bump[p] + Chunk
ExtendEnd(p) == IF bump[p] + Chunk > Capacity THEN Capacity ELSE bump[p] + Chunk

\* The program now holds b and the allocation is over.
Return(t, b) ==
  /\ live' = live \cup {b}
  /\ second' = [second EXCEPT ![t] = FALSE]
  /\ Goto(t, "idle")

-----------------------------------------------------------------------------
(***************************************************************************)
(* Allocation: ThreadCache::allocate_backing_data down to the free list.   *)
(***************************************************************************)

\* allocate_backing_data: the first allocation of a size class has no page.
HallocStart(t) ==
  /\ At(t, "idle")
  /\ Goto(t, IF page[t] = None THEN "newpage" ELSE "alloc")
  /\ UNCHANGED <<heap, lists, live, thread>>

\* SizedAllocator::alloc finds a block on the local list.
AllocPop(t) ==
  /\ At(t, "alloc")
  /\ \E b \in local[page[t]] :
       /\ local'  = [local  EXCEPT ![page[t]] = @ \ {b}]
       /\ nlocal' = [nlocal EXCEPT ![page[t]] = @ - 1]
       /\ Return(t, b)
  /\ UNCHANGED <<heap, remote, nremote, bump, page, got, blk, seen>>

\* alloc_slow: the bump allocator still has blocks; extend() threads up to
\* Chunk of them onto the local list and alloc() pops one of them.
AllocExtend(t) ==
  LET p   == page[t]
      end == ExtendEnd(p)
      new == Between(p, bump[p], end)
  IN  /\ At(t, "alloc")
      /\ local[p] = {} /\ bump[p] < Capacity
      /\ bump' = [bump EXCEPT ![p] = end]
      /\ \E b \in new :
           /\ local'  = [local EXCEPT ![p] = new \ {b}]
           /\ nlocal' = [nlocal EXCEPT ![p] = @ + (end - bump[p]) - 1]
           /\ Return(t, b)
      /\ UNCHANGED <<heap, remote, nremote, page, got, blk, seen>>

\* What swap()'s compare-and-swap does to the lists.  (Mutant: a load only.)
CopyRemote(p) ==
  /\ local' = [local EXCEPT ![p] = remote[p]]
  /\ UNCHANGED remote
TakeRemote(p) ==
  /\ local'  = [local  EXCEPT ![p] = remote[p]]
  /\ remote' = [remote EXCEPT ![p] = {}]

\* alloc_slow: nothing to extend with; swap() exchanges the remote list for
\* an empty one with a compare-and-swap.
SwapTake(t) ==
  LET p == page[t]
  IN  /\ At(t, "alloc")
      /\ local[p] = {} /\ bump[p] = Capacity
      /\ TakeRemote(p)
      /\ Goto(t, "add")
      /\ UNCHANGED <<heap, nlocal, nremote, bump, live, thread>>

\* swap(): num_local_free += num_remote_free.
SwapAdd(t) ==
  LET p == page[t]
  IN  /\ At(t, "add")
      /\ seen'   = [seen EXCEPT ![t] = nremote[p]]
      /\ nlocal' = [nlocal EXCEPT ![p] = @ + nremote[p]]
      /\ Goto(t, "clear")
      /\ UNCHANGED <<heap, local, remote, nremote, bump, live,
                     page, second, got, blk>>

\* swap(): atomic_set(num_remote_free, 0).  Whatever was added to the counter
\* since SwapAdd read it is forgotten.  (Mutant: not reset.)
KeepCount(p)  == UNCHANGED nremote
ClearCount(p) == nremote' = [nremote EXCEPT ![p] = 0]

\* What follows a page->alloc() that found nothing: the first time the thread
\* asks for another page, the second time it gives up ("OOM!").  (Mutant: it
\* tries the same page again.)
SamePageAgain(t) == "alloc"
AfterMiss(t)     == IF second[t] THEN "oom" ELSE "newpage"

\* alloc_slow then pops a block ...
SwapClearHit(t) ==
  LET p == page[t]
  IN  /\ At(t, "clear")
      /\ ClearCount(p)
      /\ \E b \in local[p] :
           /\ local'  = [local  EXCEPT ![p] = @ \ {b}]
           /\ nlocal' = [nlocal EXCEPT ![p] = @ - 1]
           /\ Return(t, b)
      /\ UNCHANGED <<heap, remote, bump, page, got, blk, seen>>

\* ... or finds none, and alloc() returns nullptr.
SwapClearMiss(t) ==
  LET p == page[t]
  IN  /\ At(t, "clear")
      /\ local[p] = {}
      /\ ClearCount(p)
      /\ second'  = [second EXCEPT ![t] = TRUE]
      /\ Goto(t, AfterMiss(t))
      /\ UNCHANGED <<heap, local, remote, nlocal, bump, live,
                     page, got, blk, seen>>

-----------------------------------------------------------------------------
(***************************************************************************)
(* A page changes hands: ThreadCache::new_sized_page.                      *)
(***************************************************************************)

\* Heap::get_sizedpage scans the magazine under the heap lock, which keeps the
\* owners still, but not the counters of the pages.
HasHeap(t) == At(t, "newpage") /\ heapLock \in {None, t}

SkipPage(t) ==
  /\ HasHeap(t)
  /\ \E p \in magazine \ passed :
       /\ ~Adoptable(p)
       /\ passed' = passed \cup {p}
  /\ heapLock' = t
  /\ UNCHANGED <<magazine, owner, lists, live, thread, pc>>

\* A page that nobody owns and that looks as if it had space becomes the
\* thread's.
FindPage(t) ==
  /\ HasHeap(t)
  /\ \E p \in magazine \ passed :
       /\ Adoptable(p)
       /\ owner' = [owner EXCEPT ![p] = t]
       /\ got'   = [got   EXCEPT ![t] = p]
  /\ heapLock' = None /\ passed' = {}
  /\ Goto(t, "put")
  /\ UNCHANGED <<magazine, lists, live, page, second, blk, seen>>

\* No such page: a fresh one is allocated and configured.
AllocPage(t) ==
  /\ HasHeap(t) /\ magazine \subseteq passed
  /\ \E p \in Page \ magazine :
       /\ magazine' = magazine \cup {p}
       /\ owner' = [owner EXCEPT ![p] = t]
       /\ got'   = [got   EXCEPT ![t] = p]
       /\ local'   = [local   EXCEPT ![p] = {}]
       /\ remote'  = [remote  EXCEPT ![p] = {}]
       /\ nlocal'  = [nlocal  EXCEPT ![p] = 0]
       /\ nremote' = [nremote EXCEPT ![p] = 0]
       /\ bump'    = [bump    EXCEPT ![p] = 0]
  /\ heapLock' = None /\ passed' = {}
  /\ Goto(t, "put")
  /\ UNCHANGED <<live, page, second, blk, seen>>

\* PageManager::alloc_page asserts that the heap's address range is not used
\* up.
HeapExhausted(t) ==
  /\ HasHeap(t) /\ magazine \subseteq passed
  /\ magazine = Page
  /\ Goto(t, "exhausted")
  /\ UNCHANGED <<heap, lists, live, thread>>

\* Heap::put_page returns the page the thread had, and the new one is
\* installed ...
PutPage(t) ==
  /\ At(t, "put") /\ heapLock = None
  /\ owner' = [p \in Page |-> IF p = page[t] THEN None ELSE owner[p]]
  /\ page'  = [page EXCEPT ![t] = got[t]]
  /\ got'   = [got  EXCEPT ![t] = None]
  /\ Goto(t, "check")
  /\ UNCHANGED <<magazine, heapLock, passed, lists, live, second, blk, seen>>

\* ... and its free count is asserted to be positive.
CheckPage(t) ==
  /\ At(t, "check")
  /\ Goto(t, IF NumFree(page[t]) > 0 THEN "alloc" ELSE "noSpace")
  /\ UNCHANGED <<heap, lists, live, thread>>

-----------------------------------------------------------------------------
(***************************************************************************)
(* Release: ThreadCache::free_allocation.  Any thread may free any block.  *)
(***************************************************************************)

\* The page is the thread's own: SizedPage::release_local.
FreeLocal(t) ==
  /\ At(t, "idle")
  /\ \E b \in live :
       /\ owner[PageOf(b)] = t
       /\ live'   = live \ {b}
       /\ local'  = [local  EXCEPT ![PageOf(b)] = @ \cup {b}]
       /\ nlocal' = [nlocal EXCEPT ![PageOf(b)] = @ + 1]
  /\ UNCHANGED <<heap, remote, nremote, bump, thread, pc>>

\* It is not: SizedPage::release_remote clears the header ...
FreeRemote(t) ==
  /\ At(t, "idle")
  /\ \E b \in live :
       /\ owner[PageOf(b)] # t
       /\ live' = live \ {b}
       /\ blk'  = [blk EXCEPT ![t] = b]
  /\ Goto(t, "push")
  /\ UNCHANGED <<heap, lists, page, second, got, seen>>

\* Mutant of Push: the list it found is dropped.
PushAlone(t) ==
  /\ At(t, "push")
  /\ remote' = [remote EXCEPT ![PageOf(blk[t])] = {blk[t]}]
  /\ Goto(t, "count")
  /\ UNCHANGED <<heap, local, nlocal, nremote, bump, live, thread>>

\* ... the block goes onto the remote list (the CAS of free_remote) ...
Push(t) ==
  /\ At(t, "push")
  /\ remote' = [remote EXCEPT ![PageOf(blk[t])] = @ \cup {blk[t]}]
  /\ Goto(t, "count")
  /\ UNCHANGED <<heap, local, nlocal, nremote, bump, live, thread>>

\* ... and only then is it counted.
Count(t) ==
  /\ At(t, "count")
  /\ nremote' = [nremote EXCEPT ![PageOf(blk[t])] = @ + 1]
  /\ blk' = [blk EXCEPT ![t] = None]
  /\ Goto(t, "idle")
  /\ UNCHANGED <<heap, local, remote, nlocal, bump, live,
                 page, second, got, seen>>

-----------------------------------------------------------------------------
\* What a thread does on its own once it has entered halloc or hfree.
Proceed(t) ==
  \/ AllocPop(t) \/ AllocExtend(t)
  \/ SwapTake(t) \/ SwapAdd(t) \/ SwapClearHit(t) \/ SwapClearMiss(t)
  \/ SkipPage(t) \/ FindPage(t) \/ AllocPage(t) \/ HeapExhausted(t)
  \/ PutPage(t) \/ CheckPage(t)
  \/ Push(t) \/ Count(t)

Next ==
  \E t \in Thread :
    \/ HallocStart(t) \/ FreeLocal(t) \/ FreeRemote(t)
    \/ Proceed(t)

Spec == Init /\ [][Next]_vars

-----------------------------------------------------------------------------
(***************************************************************************)
(* Properties.                                                             *)
(***************************************************************************)

\* The blocks of a page that no list holds and nobody has been given yet.
Untouched(p) == Between(p, bump[p], Capacity)

\* The block a remote free has taken from the program and not pushed yet.
InFlight == {blk[t] : t \in {u \in Thread : pc[u] = "push"}}

\* No block is in two places: held by the program, on a free list, in the
\* hands of a thread that is freeing it, or past the bump pointer.  A block
\* in two of them would be handed out twice.  (free_remote and swap race on
\* one list head, ShardedFreeList.hpp:80-120.)
NoBlockTwice ==
  /\ \A p \in Page :
       /\ local[p] \cap remote[p] = {}
       /\ (local[p] \cup remote[p]) \cap (live \cup InFlight) = {}
       /\ (local[p] \cup remote[p]) \subseteq {p} \X (1 .. bump[p])
  /\ live \cap InFlight = {}
  /\ \A b \in live \cup InFlight : b[2] <= bump[PageOf(b)]
  /\ \A t, u \in Thread :
       pc[t] = "push" /\ pc[u] = "push" /\ blk[t] = blk[u] => t = u

\* No block drops out of circulation, whatever the counters say: every block
\* of a page the heap has created is held, on a list, being freed, or still
\* to be handed out by the bump pointer.
NoBlockLost ==
  \A p \in magazine :
    {p} \X Slot \subseteq
      live \cup InFlight \cup local[p] \cup remote[p] \cup Untouched(p)

\* Two thread caches never allocate from one page, although new_sized_page
\* takes the new page and returns the old one in two separate critical
\* sections: the unsynchronised half of the free list has one user.
OneOwner ==
  \A t, u \in Thread :
    page[t] # None =>
      /\ owner[page[t]] = t
      /\ page[t] \in {page[u], got[u]} => t = u

\* The counters may lag behind the lists and may lose increments, but they
\* never promise a block that is not there, except while the owner is between
\* the two halves of swap()'s hand-over (ShardedFreeList.hpp:90-91).  Finding a
\* page and allocating from it without looking again rests on this.
FreeCountSound ==
  \A p \in magazine :
    (\A t \in Thread : page[t] = p => pc[t] # "clear") =>
      NumFree(p) <= Cardinality(local[p] \cup remote[p] \cup Untouched(p))

\* ThreadCache.cpp:44, ALASKA_ASSERT(ptr != nullptr, "OOM!"): an allocation
\* from the page new_sized_page() has just returned succeeds.
NoOOM == \A t \in Thread : pc[t] # "oom"

\* ThreadCache.cpp:85, ALASKA_ASSERT(heap->available() > 0, "New heap must
\* have space"): the page get_sizedpage() picked has space.
NewHeapHasSpace == \A t \in Thread : pc[t] # "noSpace"

\* The heap as the program sees it: popping, extending, freeing and pushing
\* move exactly one block between the program and the pool, and handing lists
\* and pages over moves none.  The pool is everything on a list, in flight
\* between hfree's two steps, or not yet touched.
Store == INSTANCE BlockStore WITH
  available <-
    InFlight \cup UNION {local[p] \cup remote[p] \cup Untouched(p) : p \in Page}
ImplementsBlockStore == Store!Spec

\* A thread inside the allocator is scheduled again; nothing obliges the
\* program to enter it.
FairSpec == Spec /\ \A t \in Thread : WF_vars(Proceed(t))

\* Every halloc and hfree returns, unless an assertion stops the process or the
\* thread never gets the heap lock (a mutex promises nobody his turn): the
\* search for a block cannot send a thread round the pages for ever.
CallsReturn ==
  \A t \in Thread :
    \/ []<>(pc[t] = "idle")
    \/ <>[]~Running
    \/ <>[](pc[t] \in {"newpage", "put"})
=============================================================================
