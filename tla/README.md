# Alaska: verification project

Alaska is a C++ runtime for handle-based memory. A compiler pass replaces
pointers by *handles*, which name entries of a handle table; the entry points
to the object. Because compiled code translates a handle each time it uses the
object, the runtime may move objects, as long as no thread holds a translated
(raw) pointer to the one it moves. This directory holds TLA+ models of the
runtime (`src/runtime`) and of what its compiler pass does to a function
(`src/compiler`), the TLC runs that check them and the proofs of their main
properties.

## 1. The system

| component | state it keeps | operations | used by |
|---|---|---|---|
| `ShardedFreeList` | a local and a remote list, threaded through the free blocks, and a counter for each | `pop`, `free_local` (owner only), `free_remote` (anyone, compare-and-swap), `swap`, `reset` | `SizedAllocator` |
| `SizedAllocator` | the free list, `bump_next`, `objects_end` | `alloc`, `alloc_slow`, `extend`, releases, resets | `SizedPage` |
| `SizedPage` | a header per slot (mapping, requested size) | `alloc`, `release_local`, `release_remote`, `compact`, `jumble` | thread caches, barrier callbacks |
| `Heap`, `Magazine`, `OwnedBy` | the pages of each size class, the owner of each page, the heap lock | `get_sizedpage`, `put_page`, `find_or_alloc_page` | thread caches |
| `PageManager`, `HeapPageTable` | a bump pointer and a list of free pages; a two-level table | `alloc_page`, `free_page`, `walk` | `Heap`, `hfree` |
| `ThreadCache` | one page per size class, a locality page, a handle slab, a lock | `halloc`, `hfree`, `hrealloc`, `localize` | the program |
| `HandleTable`, slabs | slabs of mappings, owners, free lists | `new_slab`, `get`, `put`, `alloc`, `release` | thread caches |
| `Mapping` | pointer, pinned bit, invalid bit in one word | `get_pointer`, `set_pointer`, `set_pinned` | everybody |
| `LocalityPage`, `Localizer` | a stack of metadata, one entry per object; a list of hotness buffers | `alloc`, `release`, `compact`, `localize` | thread caches |
| `HugeObjectAllocator` | a list of mapped regions | `allocate`, `free` | thread caches |
| barrier (`rt/barrier.cpp`, `Runtime::with_barrier`) | join status of each thread, `the_barrier`, patched polls, pin bits | `with_barrier`, `begin`, `end`, the signal handler | anything that moves objects |
| `ThreadRegistry` | the threads that may hold translations | `join`, `leave` | `pthread_create` wrapper |
| internal allocator (`liballoc.c`) | majors (mapped regions) of minors (pieces), the best bet | `malloc`, `free` | slabs, tables, vectors |
| size classes | tables made at build time | `size_to_class` | thread caches |
| HTLB simulator (`sim/`, `rt/sim.cpp`) | two levels of a simulated handle TLB; `dump_buf` and its background thread | `access`, `invalidate`, `get_handles` | localisation experiments |
| compiler (`src/compiler`) | per function: pointer flow graph, translations, polls, pin set | translates uses, bounds the life of translations, places polls, fills the pin set | compiled programs |

How they interact. `halloc` locks the thread cache, takes a mapping from the
slab and a block from the thread's page, whose header then names the mapping.
`hfree` finds the page by address; if the thread cache owns it the block goes
onto the local list, and else onto the remote list. A page that runs dry goes
back to the heap and another is adopted by its estimate of free blocks.
`with_barrier` takes every thread cache's lock and the registry's, patches the
poll points of compiled code so that they trap, signals every thread, waits for
all at a `pthread_barrier_t`, calls back (to compact pages, say), and lets them
go. What a frame holds translated the barrier learns from the frame's pin set, which
the compiler has made it fill; that a thread gets to a poll at all is the compiler's
work too. The simulated TLB names handles that are used together, and `localize` moves their objects next
to each other, from sized pages to a locality page.

### What is hard

*Concurrency*: the remote list and its counter are shared without a lock; a page
changes owners in two critical sections; the rate limit of `with_barrier` is read
and written without a lock; unpinning happens after the barrier; frees race on the
metadata of a locality page, which has no lock of its own.
*Ordering*: a block is pushed before it is counted; signals may arrive twice, late,
or while ignored. *Failure*: a thread that cannot stop at a described point aborts
the round; signalling gives up after 1000 passes. *Sequences*: compaction rebuilds
the free list from headers, again and again, around pinned objects; `hrealloc` and `localize` move an
object in several steps whose order differs from case to case. *Staleness*: a translation that is used
after a barrier has moved its object; hot handles that have been freed and given out again. *Boundaries*:
pages that run out, estimates that go negative, fingers that meet or cross, size classes
computed with a bit scan that overflows its byte.
`PROJECT.json` lists every hazard at its line, with the properties that cover it
or the reason none does.

### What makes each component correct

| component | correctness |
|---|---|
| free list | the linked lists implement atomic list operations; no list is cyclic or runs into a live object |
| pages and ownership | no block in two places, none lost, one owner per page, counters never promise too much, the second try succeeds; the whole is one pool of blocks |
| sized page | handle, header and bytes agree; free means free; pinned objects stay; compaction is complete and loses at most one slot |
| barrier | the world is stopped while objects move; nobody is inside the allocator; what is held where the runtime can find it does not move; left-over signals join no later round; a round ends |
| handle table | one thread cache per slab; no mapping backs two handles; a slab just returned has a mapping; the whole is one pool of handles without the disallowed IDs |
| objects | an object's bytes survive every move; every block, region and page has one owner or none; no region is left mapped without an owner |
| locality page | entries and objects tile the page; `find_md` finds the object's own entry; compaction gets somewhere and ends |
| compiler | what compiled code uses is where the object is, whichever barriers it meets; no thread runs for ever without a poll |
| HTLB simulator | a handle is in one line per level at most, and in none from before it was invalidated; the localizer reads the last dump |
| internal allocator | pieces of memory are apart, inside their region and accounted for; a region is mapped only when none has room |
| size classes, page table | the smallest class that is large enough; an address finds the page it was entered under |

## 2. Modules

| module | models | proved in |
|---|---|---|
| `BlockStore` | what a heap of equal blocks, or a table of handles, promises: a pool that they move out of and back into | |
| `SizedHeap` | the sized pages of one size class, shared by the thread caches; implements `BlockStore` | `SizedHeapProofs` |
| `HandleTable` | slabs, their owners and free lists, the vector that finds them, `new_mapping` and `put`; implements `BlockStore` | `HandleTableProofs` |
| `FreeListSpec` | the free list operations as atomic steps on sets of blocks | |
| `LinkedList` | lists whose links are in their blocks | lemmas in `DataLemmas` |
| `ShardedFreeList` | the two linked lists and their compare-and-swap loops, word by word; implements `FreeListSpec` | `PartsProofs` |
| `SizedPage` | one page, its headers and the handles that point into it; `compact` and `jumble` turn by turn | `SizedPageProofs` |
| `Barrier` | `with_barrier`, `begin`, `end`, the signal handler and the registry | `BarrierProofs` |
| `LocalityPage` | the metadata of a locality page, as operators: `find_md`, a pass of `compact`, pruning | lemmas in `ObjectsProofs` |
| `Objects` | `halloc`, `hrealloc`, `hfree`, `localize` and both compactions, over sized blocks, locality pages and regions | `ObjectsProofs` |
| `Translation` | what the compiler does to a function | lemmas in `CompilerProofs` |
| `CompiledCode` | a thread in a compiled function while barriers move objects | `CompilerProofs` |
| `HTLB` | the simulated handle TLB | `PartsProofs` |
| `HotnessDump` | how its handles get to the localizer | `PartsProofs` |
| `LibAlloc` | the internal allocator | `PartsProofs` |
| `HeapTables` | size classes, page manager, page table | `PartsProofs` |
| `MC*` | instances for TLC; `MCParts` has one behavior for each part that shares no state with the others, `MCSized` one for `SizedPage` and one for the liveness of `SizedHeap` | |

The three views of a page divide the work. `ShardedFreeList` has the pointers
and the retry loops but no counters; `SizedHeap` has the counters, several pages
and ownership, with the loops as single steps, which `ShardedFreeList` justifies
by refinement; `SizedPage` has headers, handles and movement, with whole calls as
single steps, which the thread caches' locks justify: `with_barrier` holds
them all before anything moves, and `HeapQuiescent` checks that this works.

**SizedHeap.** A variable per field: `magazine`, `owner`, `local`/`remote` (lists
as sets: their order is nowhere relied on), `nlocal`/`nremote`
(`num_local_free`, `num_remote_free`), `bump`, and per thread the page of its
cache, its program counter and the locals that live across a shared access.
Each action is one access to something shared, with what the thread does to its
own state before the next. `HallocStart`, `AllocPop`, `AllocExtend`,
`SwapTake`, `SwapAdd`, `SwapClearHit/Miss` are `allocate_backing_data` down to
`swap()`, whose counter hand-over is split at each access; `SkipPage`,
`FindPage`, `AllocPage`, `HeapExhausted`, `PutPage`, `CheckPage` are
`new_sized_page`, whose scan looks at one page at a time because counters change
under it; `FreeLocal`, `FreeRemote`, `Push`, `Count` are `free_allocation`.
A failed `ALASKA_ASSERT` halts every thread.

**HandleTable.** `nslabs`, `capacity`, and for the vector `m_slabs` how often its
buffer was replaced (`buffer`) and what it has room for (`room`, by the growth rule of
`ck/vec.h`); per slab the fields of its allocator; per thread the slab of its cache
and the locals that live across a shared access, reset when dead. `NewMapping`,
`AllocPop`, `AllocExtend`, `SwapTake`, `SwapAdd`, `SwapClearHit/Miss` are
`ThreadCache::new_mapping` down to `swap()`; handle IDs 0 and 10 (`Reserved`) are popped and dropped,
as in the code. `SkipSlab`, `TakeSlab`, `EndScan` are the loop of `new_slab` under the table
lock, `FreshSlab` and `GrowFails` are `fresh_slab` in the critical section after it,
`InstallSlab` gives the old slab up without a lock. `Put` takes no lock: it loads the vector's buffer, and `FindLocal`,
`FindRemote` look the slab up in it. If the vector has moved in the meantime the old buffer is
free memory: it may still hold the pointer, or something else (`FindWild`, after which nothing
more can be said). A second failed `alloc()` makes `new_mapping` use a null mapping (`null`).

**ShardedFreeList.** `next` is the link word of every block, which belongs to the
program once the block is handed out (`Write`). `SwapLoad`/`SwapCas`/`SwapRetry` and
`PushLoad`/`PushCas`/`PushRetry` are the two loops; the compare-and-swap is weak, so it may
fail for no reason. On failure it stores what it read into the expected value,
which in `swap` is `local_free` itself. `LinkedList` says what the list from a head is: the least set
that has the head and, with a block, the one it links to; `Ends` says that no block of it is behind itself.

**SizedPage.** `header`, `ptr` (the mapping's pointer), `mem` (whose bytes are in a
slot), `local`, `remote`, `bump`, the pinned mappings and the two fingers. `Take` is
`SizedAllocator::alloc`; `Halloc`, `Hfree`, `Hrealloc` are the thread cache's
calls; one action per turn of each loop of `compact` and `jumble`. The barrier
that surrounds a walk chooses what is pinned.

**Barrier.** One action per access another thread can see. A thread runs managed code
(where it translates handles), stands at a poll, or is in a library or in the allocator
(holding its own cache's lock); the handler interrupts it anywhere and remembers where
(`ret`). `mapped` has the threads whose frame waits in a call that a poll comes right after: the
return address of such a call is the address of the poll, and the only one `pin_map` knows. Which calls these are is
left open: `CallOut` may make either kind. A thread that returns from one is at the poll. Signals are external: one pending SIGUSR2 per thread, held back in
the handler, discarded when the disposition is SIG_IGN. `Settings` are the programs a run is about:
who calls `with_barrier`, who exits and is created again, whether signals are prompt, and how often
`begin` passes over the threads.

**LocalityPage, Objects.** A locality page is a record of its entries, `data_bump_next` and
`bytes_freed`, in units of 16 bytes (the size of an entry). An entry knows its object by the mapping,
or, once it is free, by the address: both share a word, which is why a half-done free matters.
`Objects` puts it together: what the program holds (`addr`), where each mapping points (`ptr`), and
whose byte is in each unit of each block, page and region. `Halloc`, `Hfree`, `Localize`, the four
cases of `hrealloc` and the two compactions are actions, run under the lock of the caller's thread cache or
inside a barrier. That lock does not protect the locality page of another thread cache, so a free
there is one action per access (`FindEntry`, `PutAddress`, `ClearFlag`, `Finish`). When code reads a
half-written entry, or prunes past the end of a page on which everything is free, it uses whatever is
there: `wild`, after which the properties say nothing.

**Translation, CompiledCode.** A function is a record: its blocks, their successors and the pointers
it is given. `Translation` computes what the passes do to it: where a pointer is translated (per
root of the flow graph, hoisted out of loops), where the translation is released (the liveness
analysis), which loops get a poll, and which cell of the pin set holds which handle (the colouring).
Dominance and natural loops are LLVM's, and external. `CompiledCode` runs a thread through the result;
at a statepoint a barrier may move every object whose handle is in no cell. Its pointers then are
`stale`, and the code must not use them.

**HTLB, HotnessDump.** `HTLB` has both levels with the exclusive policy, way by way, with a clock that a line
does not have before its first use (`Unwritten`), and the window between an `hfree`'s `invalidate` and its `put`. A dump gives each line its word; their order in
the buffer, which nothing relies on, is left out.
`HotnessDump` is the condition variable, the mutex and the buffer between the thread that dumps and the
background thread, word by word where the localizer's list of buffers goes through the buffer itself.

**LibAlloc, HeapTables.** `LibAlloc` is `malloc` and `free` of `liballoc.c`, a call at a time
under its mutex: the search for room in a major, between its minors, from the best bet on and
once more from the start; regions that are unmapped when they empty. `HeapTables` computes size classes with the
code's widths (a byte that loses 256, a shift taken modulo 64), and has the page manager's list and
the two-level table.

Definitions whose comment says *Mutant* are plausible slips of the code (a
dropped guard, a missing reset, a test left out). No specification uses them;
`PROJECT.json` names the definition each one replaces and the property that then fails.

## 3. Runs

| run | instance | asks |
|---|---|---|
| `heap` | 2 threads, 2 pages of 2 blocks, extended one at a time | `OneOwner`, `NoOOM`, `NoBlockTwice`, `NoBlockLost`, `FreeCountSound`, refinement of `BlockStore` |
| `heap_space` | 2 threads, 2 pages of 1 block, expected to fail | `NewHeapHasSpace` |
| `handles` | 2 threads, slabs of 1 mapping, at most 4 slabs, table and vector start with room for 1 | `TypeOK`, `OneSlabEach`, `NoHandleTwice`, `NewSlabHasMapping`, refinement of `BlockStore` |
| `sized` | a page of 4 slots, 3 handles, extended two at a time; 2 threads and 2 pages of 1 block. Fair | `TypeOK`, `HandlesIntact`, `FreeIsFree`, `AtMostOneLost`, `Compacted`, `PinnedStay`, `WalksEnd` of the page; `HeapTypeOK`, `CallsReturn` of the heap |
| `barrier` | 3 threads: one caller and one that exits and returns, 3 passes; two callers, 1 pass | `TypeOK`, `WorldStopped`, `HeapQuiescent`, `MovedNotHeld`, `RoundsSeparate`, `NotKilled` |
| `barrier_ends` | 3 threads: one caller and one that exits and returns, 3 passes, prompt signals. Fair | `RoundEnds` |
| `barrier_calls` | 2 threads, one caller, 2 passes, expected to fail | `BeginMarksPins` |
| `objects` | 2 threads, one of which runs callbacks, 2 objects, blocks, locality pages and regions | `MovesKeepObjects`, `OneOwnerEach`, `LocalPagesSound`, `CompactionWorks` |
| `objects_lost` | the instance of `objects`, expected to fail | `NoRegionLost` |
| `parts` | the compiled functions, the linked lists, the simulated TLB and its dumps, the internal allocator, size classes and page table | `UsesFresh`, `EveryCyclePolls`, `ListsEnd`, `HTLBSound`, `InternalMemorySound`, `HeapTablesSound`, `DumpsHandled`, `MapsWhenFull`, refinement of `FreeListSpec` |
| `code_switch` | functions with a switch, expected to fail | `UsesFresh` |
| `code_endless` | functions with a loop that has no exit, expected to fail | `UsesFresh` |

Bounds and why they are enough.

* *Heap.* Two threads make every race on one list head and one counter: owner
  against remote freer, before and after a hand-over. Two pages make hand-over,
  re-adoption and exhaustion happen. `Chunk` is 1 in `heap` (several extensions per
  page) and 128, the code's value, in `sized` and `heap_space`. The proofs cover more threads, pages and blocks.
  Each lost increment lowers a counter for good, so counters have no lower
  bound: `MaxDrift` (a state constraint of `MCSizedHeap` and `MCSized`) cuts exploration once
  `num_local_free` is one further below zero. For `CallsReturn` it removes only behaviours
  with more than that many lost increments.
* *Handles.* One mapping per slab makes every second allocation look for a slab, so
  that slabs are given up, scanned, adopted and made all the time; with four slabs the table
  grows twice (1, 2, 4). `VecPadding` is 0 rather than 4, so that the vector moves
  with nearly every slab. One mapping is disallowed. Threads are symmetric;
  `BoundedDrift` bounds the counters as above.
* *Linked lists* (`parts`). 4 blocks, the owner and 2 freers: a freer's stale `next`, with its head taken, reused and pushed again
  in the meantime, takes two freers and a block to spare. Proved for all numbers.
* *Page* (`sized`). `AtMostOneLost` is one rather than none because `compact()` puts the bump pointer after `right` even if that slot is
  free (`SizedPage.cpp:209`; the comment at lines 110-112 has expansion begin "at the end of the allocated objects"). Four slots suffice for a pinned object with a gap on either side and a
  move; `Chunk` 2 leaves the bump pointer in the middle. Proved for all sizes.
* *Barrier.* The passes (`MaxRetries`) are 1000 in the code; 3 distinguish first, middle and last pass,
  and with two callers the rounds that follow each other matter, not the passes.
  One handle is enough, since pins of different handles do not interact, and all threads may hold it. `RoundEnds` is about a caller,
  its participants and their signals, not about what they hold: `barrier_ends` has no handles. Proved for all
  numbers of threads, callers and passes, but for `RoundEnds`.
* *Objects.* A page of 8 units holds two objects and their entries with holes between and behind them; sizes 1
  and 2 share the one size class, size 3 is huge, so that every case of `hrealloc` and every change of
  kind happens. `Rooms`: two locality pages and no region (a page is left and
  compacted), or one page and both regions. `MaxDrift` 1 lets one update of `bytes_freed` be lost.
  `Mover` is one thread: a barrier is exclusive. Objects and pages are symmetric.
* *Compiled functions* (`parts`). Three families, 1,062 functions: a diamond, a loop, and a loop in a loop, with
  all combinations of a few bodies in their blocks (uses, derived pointers, loads of pointers, calls, library
  calls). The pointer comes from the caller, or from a block. That is where the passes
  have cases: hoisting, release at the end of a loop or on an edge, two translations alive in
  one block. `code_switch` has a family for switches, `code_endless` one for a loop that is never left. Proved for all
  functions that have neither (`ReturnAssumption` in `MCParts` checks that the families of `parts` are such functions).
* *HTLB* (`parts`). A first level of two sets of one line, a second of one set of two; three handles, three
  accesses, and clocks that are 0 or later than all others before they are written. Proved for all numbers.
* *Internal allocator* (`parts`). Three regions, a request that leaves room beside it and one that
  fills a region, sizes that need padding.
* *Size classes* (`parts`). Every bound of a class, and one to either side of it, up to the threshold for huge objects.
  `LevelSize` 2 makes a table of 2 by 2 pages of 3 bytes. Proved for tables of all sizes and for every request up
  to the threshold.
* *Dumps* (`parts`). Two threads that dump, four dumps: the buffer is in the list, taken from it and written again in
  between. Proved for all numbers.

Assumptions of `Barrier`: `Tick` lets 250 ms pass only
when every thread has left the last round (in the code this is a matter of time, not of
locks; the setting with two callers has rounds that follow each other at once all the same, since the
unlocked rate limit does nothing for the second caller);
`Prompt` says that a signal is delivered within the millisecond between two passes,
and is assumed for `RoundEnds` only. A thread's translations are in one frame. Thread caches
exist from the start; `barrier_lock` is left out since `tcs_lock` is held around it.

All models are sequentially consistent. Deadlock checking is off: the program may stop
calling, and a failed assertion stops the process.

`Objects` assumes what other modules check: that a mapping or a block handed out is nobody else's
(`HandleTable`, `SizedHeap`), and that a barrier finds no call half done (`HeapQuiescent`: a free on a
locality page of another cache runs under its own cache's lock, and the barrier has them all). The program frees or resizes an object once, and in
one thread at a time. `CompiledCode` assumes of the barrier that a round pins what
is in the pin set of the thread's frame, at each of its statepoints. For polls that is what `Barrier` checks. For calls
the runtime does not do it (finding 4): compiled code is taken by itself, as correct as it would be under a runtime that reads
the records the compiler writes.

## 4. Fairness

*Heap*: weak fairness for a thread inside the allocator (`Proceed`): it is running code.
None for entering it, and none for the heap lock, which is why `CallsReturn`
excepts a thread that waits at the lock for ever.
*Page*: weak fairness for the turns of a walk, which are a plain loop.
*Barrier*: weak fairness for each thread's runtime steps, for a patched poll
trapping, and for the delivery of a pending signal; none for the program, which may
stay in a call or in a loop for ever, and none for locks: `RoundEnds` begins when the caller has them.
`parts` and `objects` have no fairness: that compaction ends is the step property `CompactionWorks`
(each further pass has moved an object towards the start of the page and none away from it), and that
a thread meets a poll is a property of the functions' graphs (`EveryCyclePolls`).

## 5. Proofs

All theorems hold for any number of threads, pages, blocks, slots and handles, from
the assumptions the modules name: counts are positive, `None` is none of the
values it stands apart from, and the set of threads is finite.

**`SizedHeapProofs`.** `TypeOK` is not inductive: `local[page[t]]` makes sense only
while the thread has a page. `IInv` adds `Control`: the program counter tells which of `page`, `got`, `blk` a
thread has (`PcOK`), those pages are its own (`PagesOK`), and a page that does not
exist yet has given nothing out (`FreshOK`). It gives `TypeCorrect` and `OwnerUnique`. On top
of it `NoBlockTwice`, and then `NoBlockLost`, are inductive (`NeverTwice`,
`NeverLost`). Together they say that the available blocks are exactly those not
held (`AvailableIsRest`), so that a step refines `BlockStore` if it changes `live` by one
block or not at all (`Refinement`).

A third part is about the counters. `FreeCountSound` is about the sum of both counters, which says
nothing while `swap()` is between its two lines. `Balanced` adds the two corrections:
it takes off what the owner has added and not yet cleared (`Owed`), and adds the blocks pushed but
not yet counted (`Counting`). With `seen <= num_remote_free` it is
inductive, one lemma per kind of step, and gives `CountsSound`. `Retrying` carries what the
check in `new_sized_page` found to the second `page->alloc()`: nobody but the owner takes blocks
away in between. This gives `SecondTrySucceeds`.

**`HandleTableProofs`.** The invariant is that of `SizedHeapProofs` in shape (`PcOK`, `SlabsOK`,
`FreshOK`) with the capacity never 0, which `Growth` needs: a table or vector that is full grows by at
least one slab. It gives `TypeCorrect` and `SlabsUnshared`; `NoHandleTwice` is inductive on top
(`HandlesNeverTwice`). `Kept` says that a mapping that is not disallowed is always live, being put, on its
slab's lists or past the bump pointer, and that no disallowed one is live; with it every step
refines `BlockStore` (`Refinement`). `NewSlabWorks` is the argument of `SecondTrySucceeds` for slabs: what a thread has
found stays, since only the owner of a slab takes mappings from it.

**`SizedPageProofs`.** Outside `compact` the lists satisfy `ListsOK`; inside it `WalkOK` is the loop
invariant of the two fingers: everything to the left is full, what is allocated to the
right is pinned, and the gaps before `last_object` are on the list. One lemma per
action; `HandlesStayIntact`, `FreeStaysFree`, `OneLostAtMost`, `CompactionCompletes` and
`PinnedStayPut` follow.

**`BarrierProofs`.** The invariant `IInv` follows a round through its phases, which the caller's
program counter tells: `Gathering` (each registered thread has joined or is still expected to), `AllStopped`,
`AllGone`. `LocksOK` says what locks the caller has by then, `InterruptOK` where the handler may have
interrupted a thread, `PendingOK` that a pending signal is of this round or will be discarded,
`PatchedOK` when polls trap. That nobody leaves the pthread barrier early is counting: as many have
arrived as are registered, hence all have (`AllArrived`; `Joins` and `Leaves` are the two waits). It gives `WorldStopped`,
`HeapQuiescent` and `RoundsSeparate` for any number of callers.

A second invariant, `MInv`, is about what is pinned. A join status tells where the thread was (`ReasonOK`), `begin` succeeds only
if all joined for a good reason (`SuccessOK`), and nobody joins before the polls are patched (`TrapOK`). `PinnedOK` cannot be that
what a waiting thread holds is pinned: a pin is one bit, and with two callers a participant of one round may clear it after
another thread has set it for the next. It is that what a waiting thread holds is pinned or held, in a frame the runtime finds, by a
thread that does not wait. That one is at a poll, which is patched, or in a call it returns from to a patched poll, so it cannot let go of the handle before it has
joined too, and then it pins it; and `begin` returns success only when everybody waits (`AllPinned`). From it follow, with any number of callers, `MovedNotHeld` and
`FoundPinsMarked` (`PinsMarkedCorrect`), which is the promise of `BarrierManager.hpp:17-18` for all threads but those in a call no poll
follows; `barrier_calls` shows that for these it is broken. `MovedNotHeld` leaves out the same threads.
For a single caller the stragglers of one round are gone before the next (`LateOK`); hence `NotKilled`.

**`DataLemmas`** has what several of the proofs need: a set of numbers has a least element, which stands in for
induction, a bounded one a greatest, a function defined by recursion on the numbers exists and is the only one
(`Recursion`, `RecursionOnce`), sequences that get or lose an element, and linked lists.

**`PartsProofs`.** Of `HeapTables`: a page number has two digits in base `LevelSize`, which tell pages apart
(`IndicesTellPagesApart`); hence a page in use keeps its entry whatever is entered for others (`SetSets`), and
a lookup of any byte of it finds it. The free list is what has been handed out and given back, as a list that ends (`FreePagesOK`). The size
classes are arithmetic: the highest bit of a number of words is looked for in a table of the powers of two up
to the threshold (`Powers`), and each quarter of a power has its class (`ClassesOf`). Both give `TablesCorrect`. Of `HTLB` and `HotnessDump`: `LevelOK` says of a level that a valid line is in the set of its handle, where no other line has the handle, and has been used
since the handle was removed last; `HTLBInv` says it of both levels, with the clock ahead of every removal. That a lookup and
an insertion find the line they should is `FirstHeld` and `OldestIn`. It gives `HTLBCorrect`. `DumpInv` says who has
`dump_mutex` (`MutexOK`) and what the two words that the list of buffers goes through can be (`LinksOK`): what
the localizer stores as a link in `dump_buf` is what it has read there, with nobody in between. It gives `DumpsHandledCorrect`.

Of `ShardedFreeList`: a list is a least set, so that what a write to a link does to it can be
proved without an induction: a list is its head and the list behind (`ListStep`), links of other blocks do
not matter to it (`ListKept`), pushing and popping keep it ending. The invariant says where every block is: with one freer, with the program,
or on one of two lists that end and have no block in common (`FreersOK`, `ChainsOK`); and that the head `swap()`
has loaded is still on the remote list (`SwapOK`). That is enough for a
stale `next` to do no harm: the compare-and-swap succeeds only if the head is the one it was loaded from. It gives `ListsAlwaysEnd`,
and that every step is one of `FreeListSpec` or invisible there (`Refinement`).

Of `LibAlloc`: `InOrder` says that the minors of a major lie one behind the other, each as large as its request padded,
and `Summed` that a function from the number of a minor to what it and those before it take, header included,
ends in `usage`. `LibInv` says both of every major, and that the best bet is one. `malloc` keeps them because it puts a minor in a
gap (`OrderAfterInsert`, `SumAfterInsert`), `free` because it takes one out, a new region because it is large enough for
the request (`NewMajorFits`, a division rounded up); the walk looks at majors only, and at all of them (`PathIs`). It gives
`InternalMemoryCorrect`: the pointer, moved up to its alignment, is still inside its minor (`PointerInside`). For `MapsOnlyWhenFull`, `malloc` skips
majors by their `usage`, not their gaps: that a gap of n bytes means n free bytes (`GapIsFree`) is why it misses none.

**`ObjectsProofs`.** The outcome `wild` ends what can be said, so the invariant `IInv` is `Sane` unless that has come
about, and `Always`, the little that `CompactionWorks` needs even then. `Sane` says where things are. `BlocksOK`: a block in use has the header
of the object that points to it, or of one that is being moved there by an `hrealloc` that has yet to release the old place (`Awaited`). `RegionsOK`: huge objects
have regions of their own. `OwnersOK`: a locality page is filled by one thread cache at most.
`JobsOK`: what a release on a locality page has found stays true while other threads change the page between its steps; an object
has one such release at most, and no two write the same entry. `PhaseOK`: a barrier finds no call half done. `PagesOK` is about pages: entries
lie `EndToEnd` from the start to the bump pointer; an entry that names an object is in use and lies where the object's mapping points (`Named`); one that is in use
and names none is being released (`Fading`, so that in a barrier pages are `Quiet`); an object in the page is listed there until its release writes the
address over its name (`Leaving`); and `bytes_freed` is at most what the nameless entries take. `OneOwnerEach` is read off `Sane` (`OwnersCorrect`); it does not say that a
region has an owner, which `objects_lost` shows to be false.

`find_md` guesses an entry and walks from there towards the address. The guess is an entry of the page, since every entry is at least one unit long, and
starts grow from entry to entry, so that the first entry at or past the address, or the last at or before it, is the one that has it (`FindMdFinds`). With
the invariant on `bytes_freed` and on owners this is `LocalPagesCorrect`. A pass of `compact` is a function that is defined by recursion on the
entries; `Sound` is its loop invariant, kept by each turn (`TurnSound`): entries stay end to end, objects come nearer to the start or stay (`Nearer`), and
stay if pinned, their bytes come with them (`Carried`), and if nothing has moved there is nothing to swap up to here. Pruning takes away only holes at the end (`PruneIs`).
Hence a pass that moved something has made progress, and one that moved nothing leaves what `LocalCompacted` wants: `CompactionCorrect`.

A second invariant, `Stored`, is about bytes. A block or a region holds exactly the object that points to it and its size, and an
unused one nothing (`InMem`); an object in a locality page that is not being freed has an entry with its size, and its bytes lie there (`InPages`).
What makes it inductive is that whatever a call writes is its own: `MemStored` and `PagesStored` say what a call on one object leaves
alone, and `Shifts` what a compaction does to the addresses of the objects in a page, so that together with `Carried` each object still
points at its bytes. A move copies the smaller of two sizes, and the place it copies to has room for it (`RoomFor`). It gives `ObjectsKept`.

Assumed are `SizesAssumption` (sizes are positive, each small size fits a class, an object that `localize` may move fits a page), `MoverAssumption`
(threads that run callbacks are threads), `ApartAssumption` (`None` is nothing else, and no two kinds of memory share an address)
and `LargestAssumption` (there is a largest size, as a request is a `size_t`).

**`CompilerProofs`.** Everything the compiler computes about a graph is a `Closure`: a recursion that collects what can be reached.
The first part shows that, in a finite graph, this recursion has a solution and only one, the least closed set
(`ClosureIs`). "x is in it" then means "x is in every closed set that has the start", which needs no induction. From this come
the facts about dominance (`DomTrans`, `DomChain`, `DomPreds`) and natural loops: the header dominates a loop (`LoopDom`), and of two loops with a
common block one contains the other (`LoopNest`), hence there is an outermost one (`OutermostIn`).

`LaidIs` says what the instrumented function's blocks and edges are. `CyclesPoll` is the argument for `PollsOnEveryCycle`: a cycle without
a poll uses no edge from a latch to its header, and what remains of the original graph has no cycle (`Reducible`). Switches do not matter to it, nor loops without an exit.

`FreshCorrect` is about how three analyses agree. *The forest* (`Forested`): each use comes at or after the birth of its translation, which
comes after the pointer's definition, sharing and hoisting included (`LeaderIs`, `HoistIs`). *Its liveness* (`Lively`): between birth and last use a
translation is alive at every point, at no point its birth does not dominate, and never released there (`ReleasedIs`). *The code of a
block* is described by rows, one per instruction, that say which original instruction it stands for (`Rows`, `RowsExist`, `KindIs`). `Wants` says of a
position that l is used from there on before it is made again, in this block or after it; `Needed` says it of a position in the whole function.
What PinTracking finds must cover this: a block in which a translation is needed is one of its `liveBlocks` (`NeededLive`). Here it matters that the second analysis starts from releases: from each block control may get to a block that returns, where nothing is
alive any more, so on the way there is a release, and the analysis walks back from it (`OutLive`, `DeathLive`). Hence what is needed
across a statepoint is tracked (`TrackedAt`), and two translations that are needed at one place are alive in one block and have different cells
(`ColoursAre`, `CellLeft`). The invariant `CodeInv` then is: a translation that is still needed is good, and its handle is in its cell if it
has one (`Kept`); what a step leaves needed was needed before, or is made by the step (`NeededFrom`, `NeededBack`).

Assumed is `FunctionAssumption`: functions are well-formed (`Wellformed`), every pointer has one definition that dominates its uses (`SSA`), as in
LLVM, and every cycle is a natural loop (`Reducible`, which only `PollsOnEveryCycle` needs: PlaceSafepoints looks at natural loops). `FreshCorrect` has two more
hypotheses, no switch and a return from every block (`Returns`). Both are necessary for the code as it is: the runs `code_switch` and
`code_endless` are the counterexamples without them.

**Model-checked only**: the liveness properties (`CallsReturn`, `WalksEnd`, `RoundEnds`; liveness under fairness is
out of the prover's reach). Every other property of a passing run is stated by a theorem. `NotKilled` says nothing where there are two
callers, in a run or in the proof: TLC finds the process killed on the second setting of `barrier` (a poll of the second round traps while a straggler of the
first ignores SIGILL), which is a hazard in `PROJECT.json` and against no statement of the repository.
Proofs by induction over data go by a least element or a least set, since the prover cannot apply the library's induction rules.

## 6. Findings

1. *A negative estimate passes for space* (`heap_space`). `find_or_alloc_page`
   compares `available()` as `size_t` (`Heap.hpp:197`). The estimate
   is negative when a block has been popped before its push was counted, or for good after
   `swap()` has overwritten an increment. The page is adopted and the assertion "New heap must have
   space" (`ThreadCache.cpp:85`) aborts.
2. *What a loop without an exit uses is not pinned* (`code_endless`). `extractTranslations` starts its analysis from the releases
   (`Translations.cpp:210`). A pointer that is translated before such a loop and used in it is released nowhere, so that its translation is
   alive in no block of the loop: it gets no cell of the pin set, and the loop uses it after a poll at which its object has moved. The
   comment (lines 192-193) promises a liveness analysis.
3. *A huge object that is resized leaves its region behind* (`objects_lost`). The case of `hrealloc` from a huge object to a huge object
   allocates, copies and returns (`ThreadCache.cpp:172-176`); the comment on it says "we need to free the original huge object".
   Nothing refers to the old region any more.
4. *Frames stopped at a call are not pinned* (`barrier_calls`). `parse_stack_map` keeps
   `PATC` records only (`barrier.cpp:666`), and only polls have them. A call's return address is found only if a poll
   follows at once, and polls are placed on back edges.
5. *What the default block of a switch uses is released too early* (`code_switch`). The liveness analysis takes the successors of a
   switch from `cases()`, and the default destination is none of them (`TranslationForest.cpp:370`), contrary to the comment of
   the other terminators ("get all successor basic blocks", line 384). A translation that only the default block uses is in no
   cell when a call before the switch polls, and is used after its object has moved.

## 7. Not modelled

Most of the repository is not the system's own logic. Of its roughly 40,000 lines about 6,000 are a vendored
conversion of floating-point numbers (`stub/dtoa.c`), some 11,000 NOELLE's analyses and a graph library
(`PDGAnalysis*.cpp`, `DGBase.hpp`, `graph_lite.h`), some 4,000 vendored containers (`ck/`); more are benchmarks
and passes that rewrite one IR instruction into another. The models are about the part with states and orders
that can go wrong.

* *Vendored*: the stub's number formatting and `printf`, `ck` containers (but the growth of `ck::vec`, which
  `HandleTable` needs), NOELLE's analyses.
* *Compiler*: replacement of allocation calls, normalisation, the optimistic type analysis, invokes, indirect
  calls, and PHIs and selects as roots that are translated apart. Calls of variadic functions that return something get
  no statepoint, which the source has as a TODO; it is listed as a hazard.
* *Runtime*: `yukon` (glue to one processor), `ShuffleAllocator` and `ObjectAllocator` (experiments nothing uses), ordinary TLBs and
  statistics of the simulator, `realloc` and `calloc` of the internal allocator, the `malloc`-backed
  strategy for huge objects, `hcalloc`, destructors. Two things are in no model: the layout of bits in a mapping word, and
  what a lost update of the pin bit leaves in it. The handler's own allocations, and threads that vanish without
  `leave()`, are hazards without a property, for the reasons given with them.
* *Memory model*: everything is sequentially consistent. `free_remote` publishes with `__ATOMIC_ACQUIRE`, and two threads
  may create the same second-level page table; both are listed as hazards.
* *I/O*: logging, dumps of state, configuration, benchmarks, plots, build.

Three outcomes end a behavior because they are undefined in the code and no comment or test denies them: `put` reads the
vector of slabs while `fresh_slab` may be moving it (`FindWild` in `HandleTable`), `find_md` meets a half-written entry, and
`compact` of a locality page prunes past its end (`wild` in `Objects`). They are hazards, at their lines.

What could come next: `Barrier` composed with `Objects` in one state space, which is now a composition on paper, through `HeapQuiescent` and `MovedNotHeld`.
