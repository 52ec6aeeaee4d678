------------------------------ MODULE Objects -------------------------------
(***************************************************************************)
(* Objects from halloc to hfree, wherever they live                        *)
(* (runtime/core/ThreadCache.cpp, Localizer.cpp, HugeObjectAllocator.cpp,  *)
(* Heap.cpp, rt/halloc.cpp): in a block of a sized page, in a locality     *)
(* page, or in a region of their own.  The first two are reached through a *)
(* handle, a huge object by its address.                                   *)
(*                                                                         *)
(* hrealloc moves objects between the three kinds of memory; inside a      *)
(* barrier localize() moves them from sized pages to the locality page of  *)
(* the thread cache that runs it, and both kinds of pages are compacted.   *)
(*                                                                         *)
(* An object that has a handle always has the same one here: which mapping *)
(* new_mapping() takes is HandleTable's subject.                           *)
(*                                                                         *)
(* A call runs under the lock of the caller's own thread cache, which      *)
(* protects neither the sized pages' remote lists (SizedHeap's subject)    *)
(* nor locality pages: freeing an object in one is the only call that      *)
(* other threads see in pieces, and one action per access here.            *)
(***************************************************************************)
EXTENDS LocalityPage

CONSTANTS
  Thread,      \* threads, each with a thread cache
  Mover,       \* those of them that run callbacks in a barrier
  Obj,         \* objects, and the entries of the handle table they get
  SmallSize,   \* sizes served from sized pages, in units
  HugeSize,    \* sizes that make an object huge (huge_object_thresh)
  Class,       \* the object sizes of the size classes
  MaxLocal,    \* localize() leaves larger objects alone (512 bytes)
  PerClass,    \* bound: blocks of each size class
  LPage,       \* locality pages
  Region,      \* regions mmap() gives
  Rooms,       \* bound: the pages and regions there is room for, as pairs of
               \* sets: a run has one of them
  MaxDrift     \* bound: what bytes_freed may lose to races, all pages together

ASSUME SizesAssumption ==
  /\ SmallSize \cup HugeSize \cup Class \subseteq Nat \ {0}
  /\ \A s \in SmallSize : \E c \in Class : s <= c
  /\ MaxLocal \in Nat /\ MaxLocal + 2 < PageUnits
  /\ Rooms \subseteq (SUBSET LPage) \X (SUBSET Region)

Block == Class \X (1 .. PerClass)

\* Where a mapping can point, a block's header, and the release of an object in
\* a locality page: which object, where it was, what the mapping turns to, how
\* far the call has got, and what it has found and read so far.
Place  == Block \cup (LPage \X Nat)
Header == [who : Obj, size : Nat \ {0}]
Job    == [h : Obj, page : LPage, dst : Block \cup {None},
           step : {"find", "count", "flag", "finish"}, md : Nat, seen : Int]

ASSUME MoverAssumption == Mover \subseteq Thread

\* None is nothing else, and no two kinds of memory share an address.
ASSUME ApartAssumption ==
  /\ None \notin Nat \cup Obj \cup Thread \cup LPage \cup Region
  /\ None \notin Place \cup Header \cup Job \cup {"handle", "new", "never"}
  /\ "handle" \notin Region /\ {"new", "never"} \cap Thread = {}
  /\ Class \cap LPage = {} /\ \A r \in Region : r \notin Place

\* There is a largest size of a class or a huge object: a request is a size_t.
ASSUME LargestAssumption ==
  \E m \in Class \cup HugeSize : \A s \in Class \cup HugeSize : s <= m

Unit  == 0 .. Max(Class \cup HugeSize) - 1

VARIABLES
  addr,     \* object -> what the program holds: "handle", a region or None
  size,     \* object -> the size the program asked for
  ptr,      \* handle -> where its mapping points: a block or <<page, offset>>
  header,   \* block -> its header: a mapping and its size, or None
  mem,      \* block or region -> unit -> whose byte it holds, or None
  huge,     \* region -> allocation_size, 0 if it is not on the list of huge
            \* objects, -1 if mmap() does not give it
  lp,       \* locality page -> its metadata
  lmem,     \* locality page -> unit -> whose byte it holds, or None
  lowner,   \* locality page -> its owner, None (nobody), "new" (no page yet)
            \* or "never"
  tcpage,   \* thread -> locality_page of its thread cache
  job,      \* thread -> the release on a locality page it is in, or None
  barrier,  \* the thread whose callback runs in a barrier, or None
  pinned,   \* the handles the barrier has pinned
  phase,    \* what the callback is at
  todo,     \* the locality pages compact_locality_pages is not done with
  wild      \* memory outside the page, or a half-written entry, has been used

objs  == <<addr, size>>
store == <<ptr, header, mem, huge>>
local == <<lp, lmem, lowner, tcpage>>
stop  == <<barrier, pinned, phase, todo>>
vars  == <<objs, store, local, job, stop, wild>>

Blank == [u \in Unit |-> None]

Init ==
  /\ addr   = [o \in Obj |-> None]
  /\ size   = [o \in Obj |-> 0]
  /\ ptr    = [h \in Obj |-> None]
  /\ header = [b \in Block |-> None]
  /\ mem    = [x \in Block \cup Region |-> Blank]
  /\ lp     = [p \in LPage |-> EmptyPage]
  /\ lmem   = [p \in LPage |-> [u \in 0 .. PageUnits - 1 |-> None]]
  /\ \E room \in Rooms :
       /\ lowner = [p \in LPage |-> IF p \in room[1] THEN "new" ELSE "never"]
       /\ huge   = [r \in Region |-> IF r \in room[2] THEN 0 ELSE -1]
  /\ tcpage = [t \in Thread |-> None]
  /\ job    = [t \in Thread |-> None]
  /\ barrier = None /\ pinned = {} /\ phase = "run"
  /\ todo   = {}
  /\ wild   = FALSE

-----------------------------------------------------------------------------
(***************************************************************************)
(* Where things are.                                                       *)
(***************************************************************************)
InUse(h)   == ptr[h] # None
InBlock(h) == ptr[h] \in Block
InLocal(h) == InUse(h) /\ ~InBlock(h)

\* The addresses of the mappings, as page p sees them.
At(p) == [h \in Obj |-> IF InLocal(h) /\ ptr[h][1] = p THEN ptr[h][2]
                           ELSE None]

\* size_of: a block's header knows how much of the block is not used.
BlockSize(b) == header[b].size

SizeOf(h) ==
  IF InBlock(h) THEN BlockSize(ptr[h])
  ELSE LET pg == lp[ptr[h][1]]
       IN  pg.mds[FindMd(pg, At(ptr[h][1]), ptr[h][2])].size

\* The byte at distance u from where l points.
Byte(l, u) == IF l \in Block \cup Region THEN mem[l][u]
              ELSE lmem[l[1]][l[2] + u]

\* size_to_class.
ClassOf(s) == Min({c \in Class : s <= c})

\* A block or a region for a new object.  Which of those that are
\* free does not matter here.
FreeBlocks(c) == {b \in Block : b[1] = c /\ header[b] = None}
FreeRegions   == {r \in Region : huge[r] = 0}
One(S)        == CHOOSE x \in S : TRUE

\* A call starts when its thread is in no other one and no barrier holds the
\* locks of the thread caches.  The program does not free, or resize again, an
\* object that another thread is resizing.
Ready(t, o) ==
  /\ ~wild /\ barrier = None /\ job[t] = None
  /\ \A u \in Thread : job[u] # None => job[u].h # o
HasHandle(o) == addr[o] = "handle"
IsHuge(o)    == addr[o] \in Region

-----------------------------------------------------------------------------
(***************************************************************************)
(* halloc and hrealloc.                                                    *)
(***************************************************************************)

\* halloc of a size below the threshold: a mapping and a block.
HallocSmall(t, o) ==
  /\ Ready(t, o) /\ addr[o] = None
  /\ \E s \in SmallSize :
       /\ FreeBlocks(ClassOf(s)) # {}
       /\ LET b == One(FreeBlocks(ClassOf(s)))
          IN  /\ header' = [header EXCEPT ![b] = [who |-> o, size |-> s]]
              /\ ptr'    = [ptr EXCEPT ![o] = b]
              /\ addr'   = [addr EXCEPT ![o] = "handle"]
              /\ mem'    = [mem EXCEPT ![b] =
                              [u \in Unit |-> IF u < s THEN o ELSE None]]
       /\ size'  = [size EXCEPT ![o] = s]
  /\ UNCHANGED <<huge, local, job, stop, wild>>

\* halloc of a huge object.
HallocHuge(t, o) ==
  /\ Ready(t, o) /\ addr[o] = None /\ FreeRegions # {}
  /\ \E s \in HugeSize :
       LET r == One(FreeRegions)
       IN  /\ huge'  = [huge EXCEPT ![r] = s]
           /\ addr'  = [addr EXCEPT ![o] = r]
           /\ mem'   = [mem EXCEPT ![r] =
                          [u \in Unit |-> IF u < s THEN o ELSE None]]
           /\ size'  = [size EXCEPT ![o] = s]
      /\ UNCHANGED <<ptr, header, local, job, stop, wild>>

\* What hrealloc copies.  (Mutant: everything the old object holds.)
CopyAll(old, new)  == old
CopySize(old, new) == IF old > new THEN new ELSE old

Resized(o, new) == size' = [size EXCEPT ![o] = new]

\* What memory holds once object o, of size new, has got n units from l and the
\* program has written the rest.
CopyOf(o, l, n, new) ==
  [u \in Unit |-> IF u < n THEN Byte(l, u) ELSE IF u < new THEN o ELSE None]

\* The release of h's memory that ends hfree and hrealloc of a handle: at once
\* for a block, and the beginning of a job for an object in a locality page.
\* The mapping gets its new value, dst, when it is over.
Release(t, h, dst) ==
  IF InBlock(h)
  THEN /\ ptr' = [ptr EXCEPT ![h] = dst]
       /\ UNCHANGED job
  ELSE /\ job' = [job EXCEPT ![t] = [h |-> h, page |-> ptr[h][1], dst |-> dst,
                                     step |-> "find", md |-> 0, seen |-> 0]]
       /\ UNCHANGED ptr

\* The headers after that.  (Mutant: the old block stays allocated.)
KeptFull(h, hdr) == hdr
Emptied(h, hdr) == IF InBlock(h) THEN [hdr EXCEPT ![ptr[h]] = None] ELSE hdr

\* Memory that a call frees holds nothing anyone may rely on.
Forget(h, m) == IF InBlock(h) THEN [m EXCEPT ![ptr[h]] = Blank] ELSE m
ForgetLocal(h) ==
  lmem' = IF InBlock(h) THEN lmem
          ELSE [lmem EXCEPT ![ptr[h][1]] =
                  [u \in DOMAIN @ |->
                     IF u - ptr[h][2] \in 0 .. SizeOf(h) - 1 THEN None ELSE @[u]]]

\* hrealloc, case 1: a handle becomes a huge object.
HandleToHuge(t, o) ==
  /\ Ready(t, o) /\ HasHandle(o) /\ FreeRegions # {}
  /\ \E s \in HugeSize :
       LET r == One(FreeRegions)
           n == CopySize(SizeOf(o), s)
       IN  /\ huge'   = [huge EXCEPT ![r] = s]
           /\ mem'    = Forget(o, [mem EXCEPT ![r] = CopyOf(o, ptr[o], n, s)])
           /\ header' = Emptied(o, header)
           /\ Release(t, o, None)
           /\ addr'   = [addr EXCEPT ![o] = r]
           /\ Resized(o, s)
  /\ ForgetLocal(o)
  /\ UNCHANGED <<lp, lowner, tcpage, stop, wild>>

\* Case 2: a huge object gets a new region.  The old one is not freed.
HugeToHuge(t, o) ==
  /\ Ready(t, o) /\ IsHuge(o) /\ FreeRegions # {}
  /\ \E s \in HugeSize :
       LET r == One(FreeRegions)
           n == CopySize(huge[addr[o]], s)
       IN  /\ huge' = [huge EXCEPT ![r] = s]
           /\ mem'  = [mem EXCEPT ![r] = CopyOf(o, addr[o], n, s), ![addr[o]] = Blank]
           /\ addr' = [addr EXCEPT ![o] = r]
           /\ Resized(o, s)
  /\ UNCHANGED <<ptr, header, local, job, stop, wild>>

\* Case 3: a handle keeps its mapping and gets a new block.
HandleToHandle(t, o) ==
  /\ Ready(t, o) /\ HasHandle(o)
  /\ \E s \in SmallSize :
       /\ FreeBlocks(ClassOf(s)) # {}
       /\ LET b == One(FreeBlocks(ClassOf(s)))
              n == CopySize(SizeOf(o), s)
          IN  /\ mem'    = Forget(o, [mem EXCEPT ![b] = CopyOf(o, ptr[o], n, s)])
              /\ header' = Emptied(o, [header EXCEPT ![b] =
                                         [who |-> o, size |-> s]])
              /\ Release(t, o, b)
       /\ Resized(o, s)
  /\ ForgetLocal(o)
  /\ UNCHANGED <<addr, huge, lp, lowner, tcpage, stop, wild>>

\* Case 4: a huge object becomes a handle.
HugeToHandle(t, o) ==
  /\ Ready(t, o) /\ IsHuge(o)
  /\ \E s \in SmallSize :
       /\ FreeBlocks(ClassOf(s)) # {}
       /\ LET b == One(FreeBlocks(ClassOf(s)))
              n == CopySize(huge[addr[o]], s)
          IN  /\ mem'    = [mem EXCEPT ![b] = CopyOf(o, addr[o], n, s),
                                       ![addr[o]] = Blank]
              /\ header' = [header EXCEPT ![b] = [who |-> o, size |-> s]]
              /\ ptr'    = [ptr EXCEPT ![o] = b]
              /\ huge'   = [huge EXCEPT ![addr[o]] = 0]
              /\ addr'   = [addr EXCEPT ![o] = "handle"]
       /\ Resized(o, s)
  /\ UNCHANGED <<local, job, stop, wild>>

-----------------------------------------------------------------------------
(***************************************************************************)
(* hfree, and hrealloc to size 0.                                          *)
(***************************************************************************)
Dropped(o) ==
  /\ addr'  = [addr EXCEPT ![o] = None]
  /\ size'  = [size EXCEPT ![o] = 0]

HfreeHuge(t, o) ==
  /\ Ready(t, o) /\ IsHuge(o)
  /\ huge' = [huge EXCEPT ![addr[o]] = 0]
  /\ mem'  = [mem EXCEPT ![addr[o]] = Blank]
  /\ Dropped(o)
  /\ UNCHANGED <<ptr, header, local, job, stop, wild>>

Hfree(t, o) ==
  /\ Ready(t, o) /\ HasHandle(o)
  /\ mem'    = Forget(o, mem)
  /\ header' = Emptied(o, header)
  /\ Release(t, o, None)
  /\ Dropped(o)
  /\ ForgetLocal(o)
  /\ UNCHANGED <<huge, lp, lowner, tcpage, stop, wild>>

-----------------------------------------------------------------------------
(***************************************************************************)
(* LocalityPage::release_local, which release_remote is too: without a     *)
(* lock, whoever calls.                                                    *)
(***************************************************************************)
AtStep(t, step) == ~wild /\ job[t] # None /\ job[t].step = step

\* The entries of page p that threads other than t are writing, or whose
\* mapping they are about to change: a reader that has seen the flag still set
\* takes the address in them for a mapping, or finds in the mapping something
\* else than an address.
HalfWritten(t, p) ==
  {job[u].md : u \in {v \in Thread \ {t} : /\ job[v] # None
                                          /\ job[v].page = p
                                          /\ job[v].step \in {"flag", "finish"}}}

\* What the lost updates of bytes_freed have come to.
Holes(p) == Taken(lp[p].mds, {i \in DOMAIN lp[p].mds : ~lp[p].mds[i].allocated})
Drift    == MapThenSumSet(LAMBDA p : Holes(p) - lp[p].freed, LPage)

\* find_md, and the read of bytes_freed that follows it.
FindEntry(t) ==
  /\ AtStep(t, "find")
  /\ LET j == job[t]
         p == j.page
         a == ptr[j.h][2]
         i == FindMd(lp[p], At(p), a)
     IN  \/ /\ i # 0
            /\ Drift >= MaxDrift =>
                 \A u \in Thread \ {t} : ~(AtStep(u, "count") /\ job[u].page = p)
            /\ job' = [job EXCEPT ![t].md = i, ![t].step = "count",
                                  ![t].seen = lp[p].freed]
            /\ UNCHANGED wild
         \/ /\ i = 0 \/ Probed(lp[p], a, i) \cap HalfWritten(t, p) # {}
            /\ wild' = TRUE
            /\ UNCHANGED job
  /\ UNCHANGED <<objs, store, local, stop>>

\* size_of, for hrealloc and alaska_usable_size, looks through the same entries.
ReadSize(t, o) ==
  /\ Ready(t, o) /\ HasHandle(o) /\ InLocal(o)
  /\ LET p == ptr[o][1]
         i == FindMd(lp[p], At(p), ptr[o][2])
     IN  i = 0 \/ Probed(lp[p], ptr[o][2], i) \cap HalfWritten(t, p) # {}
  /\ wild' = TRUE
  /\ UNCHANGED <<objs, store, local, job, stop>>

\* The rest of bytes_freed += md->size; then md->mapping = nullptr and
\* md->data_raw = ptr, which are the same word.
PutAddress(t) ==
  /\ AtStep(t, "count")
  /\ LET j == job[t]
         a == ptr[j.h][2]
     IN  lp' = [lp EXCEPT ![j.page].freed = j.seen + lp[j.page].mds[j.md].size,
                          ![j.page].mds[j.md].who = None,
                          ![j.page].mds[j.md].raw = a]
  /\ job' = [job EXCEPT ![t].step = "flag"]
  /\ UNCHANGED <<objs, store, lmem, lowner, tcpage, stop, wild>>

ClearFlag(t) ==
  /\ AtStep(t, "flag")
  /\ lp' = [lp EXCEPT ![job[t].page].mds[job[t].md].allocated = FALSE]
  /\ job' = [job EXCEPT ![t].step = "finish"]
  /\ UNCHANGED <<objs, store, lmem, lowner, tcpage, stop, wild>>

\* Back in hfree or hrealloc: the mapping is reset, or turned to the new block.
Finish(t) ==
  /\ AtStep(t, "finish")
  /\ ptr' = [ptr EXCEPT ![job[t].h] = job[t].dst]
  /\ job' = [job EXCEPT ![t] = None]
  /\ UNCHANGED <<objs, header, mem, huge, local, stop, wild>>

-----------------------------------------------------------------------------
(***************************************************************************)
(* Callbacks in a barrier: feed_hotness_buffer (move objects, compact      *)
(* everything) and localize_structure (move objects).                      *)
(***************************************************************************)

\* with_barrier has every thread cache's lock; begin() pins what is in use.
BeginBarrier(t) ==
  /\ ~wild /\ barrier = None /\ \A u \in Thread : job[u] = None
  /\ \E P \in SUBSET {h \in Obj : InUse(h)} : pinned' = P
  /\ barrier' = t /\ phase' = "move"
  /\ UNCHANGED <<objs, store, local, job, todo, wild>>

\* Pages find_or_alloc_page may return, and what it returns: a page nobody
\* owns with room enough, else a new one.
Suitable(req) == {p \in LPage : lowner[p] = None /\ Available(lp[p]) >= req}
Fresh         == {p \in LPage : lowner[p] = "new"}

\* localize keeps a page that has room for two such objects.
Roomy(p, s)     == Available(lp[p]) >= 2 * s

\* localize: the handles the callback comes across are any handles at all.  It
\* passes over pinned ones, over large objects and those in a locality page,
\* and over mappings that have been freed since they were noted: what such a
\* mapping holds is the address of another mapping, for which there is no
\* page.
Localizable(h) == InBlock(h) /\ h \notin pinned /\ SizeOf(h) <= MaxLocal

\* The object goes to page p, which is the thread cache's from now on.
MoveTo(p, h) ==
  LET b == ptr[h]
      s == SizeOf(h)
      a == lp[p].bump
  IN  /\ lp'     = [lp EXCEPT ![p] = Push(@, h, s)]
      /\ lmem'   = [lmem EXCEPT ![p] =
                      [u \in DOMAIN @ |-> IF u \in a .. a + s - 1
                                          THEN Byte(b, u - a) ELSE @[u]]]
      /\ mem'    = [mem EXCEPT ![b] = Blank]     \* 0xFA
      /\ ptr'    = [ptr EXCEPT ![h] = <<p, a>>]
      /\ header' = [header EXCEPT ![b] = None]

Localize(h) ==
  LET t == barrier
      p == tcpage[t]
  IN  /\ phase = "move" /\ Localizable(h)
      /\ IF p # None /\ Roomy(p, SizeOf(h))
         THEN MoveTo(p, h) /\ UNCHANGED <<lowner, tcpage>>
         ELSE \E q \in IF Suitable(SizeOf(h) + 2) # {} THEN Suitable(SizeOf(h) + 2)
                       ELSE Fresh :
                /\ MoveTo(q, h)
                /\ tcpage' = [tcpage EXCEPT ![t] = q]
                /\ lowner' = [r \in LPage |-> IF r = q THEN t
                                              ELSE IF r = p THEN None
                                              ELSE lowner[r]]
      /\ UNCHANGED <<objs, huge, job, stop, wild>>

\* compact_locality_pages looks at each page once; here all are looked at first.
StartCompaction ==
  /\ phase = "move" /\ ~wild
  /\ phase' = "compact"
  /\ todo' = {p \in LPage : WorthCompacting(lp[p])}
  /\ UNCHANGED <<objs, store, local, job, barrier, pinned, wild>>

\* One call of compact() on p: a pass, and pruning.  It is called until it moves
\* nothing.  When no entry is left allocated the pruning runs past the end of
\* the page.
CompactLocal(p) ==
  /\ phase = "compact" /\ ~wild /\ p \in todo
  /\ LET acc == CompactPass(lp[p], At(p), lmem[p], pinned)
     IN  /\ lp'   = [lp EXCEPT ![p] = Prune([@ EXCEPT !.mds = acc.mds], acc.at)]
         /\ lmem' = [lmem EXCEPT ![p] = acc.mem]
         /\ ptr'  = [h \in Obj |-> IF acc.at[h] # None THEN <<p, acc.at[h]>>
                                   ELSE ptr[h]]
         /\ todo' = IF acc.moved # 0 THEN todo ELSE todo \ {p}
         /\ wild' = (Kept(acc.mds) = 0)
  /\ UNCHANGED <<objs, header, mem, huge, lowner, tcpage, job, barrier,
                 pinned, phase>>

\* compact_sizedpages moves objects that are not pinned to lower free blocks of
\* their page; SizedPage has the details.
CompactSized(h) ==
  /\ phase = "compact" /\ todo = {} /\ ~wild /\ InBlock(h) /\ h \notin pinned
  /\ \E b \in FreeBlocks(ptr[h][1]) :
       /\ b[2] < ptr[h][2]
       /\ mem'    = [mem EXCEPT ![b] = mem[ptr[h]], ![ptr[h]] = Blank]  \* 0xF0
       /\ header' = [header EXCEPT ![b] = header[ptr[h]], ![ptr[h]] = None]
       /\ ptr'    = [ptr EXCEPT ![h] = b]
  /\ UNCHANGED <<objs, huge, local, job, stop, wild>>

\* The pins are taken back and the locks released.
EndBarrier ==
  /\ phase # "run" /\ todo = {} /\ ~wild
  /\ barrier' = None /\ pinned' = {} /\ phase' = "run"
  /\ UNCHANGED <<objs, store, local, job, todo, wild>>

-----------------------------------------------------------------------------
Next ==
  \/ \E t \in Thread, o \in Obj :
       \/ HallocSmall(t, o) \/ HallocHuge(t, o)
       \/ HandleToHuge(t, o) \/ HugeToHuge(t, o)
       \/ HandleToHandle(t, o) \/ HugeToHandle(t, o)
       \/ Hfree(t, o) \/ HfreeHuge(t, o) \/ ReadSize(t, o)
  \/ \E t \in Thread :
       \/ FindEntry(t) \/ PutAddress(t) \/ ClearFlag(t) \/ Finish(t)
  \/ \E t \in Mover : BeginBarrier(t)
  \/ \E h \in Obj : Localize(h) \/ CompactSized(h)
  \/ \E p \in LPage : CompactLocal(p)
  \/ StartCompaction \/ EndBarrier

Spec == Init /\ [][Next]_vars

-----------------------------------------------------------------------------
(***************************************************************************)
(* Properties.  None of them says anything once wild is set: memory that   *)
(* is not the page's has been used and everything is possible.             *)
(***************************************************************************)

\* A call has yet to return.
Busy(o) == \E t \in Thread : job[t] # None /\ job[t].h = o

\* The first byte of what the program holds.
Where(o) == IF HasHandle(o) THEN ptr[o] ELSE addr[o]

\* Whatever hrealloc, localize() and both compactions do with an object, the
\* program finds in it what it has written.
ContentsKept ==
  \A o \in Obj : addr[o] # None /\ ~Busy(o) =>
    \A u \in 0 .. size[o] - 1 : Byte(Where(o), u) = o

\* The runtime's idea of an object's size, which decides how much is copied
\* when it moves, is what the program asked for.
SizesAgree ==
  \A o \in Obj :
    /\ HasHandle(o) /\ ~Busy(o) => SizeOf(o) = size[o]
    /\ IsHuge(o) => huge[addr[o]] = size[o]

\* Nothing is written past the end of a block or of a region.
CopiesFit ==
  /\ \A b \in Block  : \A u \in Unit : u >= b[1]     => mem[b][u] = None
  /\ \A r \in Region : \A u \in Unit : u >= huge[r]  => mem[r][u] = None

\* An object survives every move between the three kinds of memory
\* (ThreadCache.cpp hrealloc and localize, LocalityPage.cpp compact): its
\* contents, its size, and what lies next to it.
MovesKeepObjects == wild \/ (ContentsKept /\ SizesAgree /\ CopiesFit)

\* No two objects share a block, a region or a place in a page, what an object
\* has is allocated, and no handle or block is left without an object
\* (ThreadCache.cpp hrealloc, hfree and localize, HugeObjectAllocator.cpp).
OneOwnerEach ==
  wild \/
    /\ \A o, q \in Obj : Where(o) # None /\ Where(o) = Where(q) => o = q
    /\ \A o \in Obj : IsHuge(o) => huge[addr[o]] > 0
    /\ \A h \in Obj : InUse(h) => HasHandle(h) \/ Busy(h)
    /\ \A b \in Block : header[b] # None =>
         \/ ptr[header[b].who] = b
         \/ \E t \in Thread : /\ job[t] # None
                             /\ job[t].h = header[b].who /\ job[t].dst = b

\* ThreadCache.cpp:173, of hrealloc from one huge object to another: "we need to
\* free the original huge object and return a new huge object".  No region is
\* left without an object.
NoRegionLost ==
  wild \/ \A r \in Region : huge[r] > 0 => \E o \in Obj : addr[o] = r

\* The objects and holes of a locality page lie end to end from its start to
\* the bump pointer, in the order of their entries, and the entries that are
\* allocated are those of the handles that point into the page.
Tiled(p) ==
  LET mds == lp[p].mds
      at  == At(p)
  IN  /\ \A i \in DOMAIN mds :
           GetData(mds[i], at) + mds[i].size =
             IF i = Len(mds) THEN lp[p].bump ELSE GetData(mds[i + 1], at)
      /\ mds = <<>> \/ GetData(mds[1], at) = 0
      /\ lp[p].bump + Len(mds) <= PageUnits
      /\ \A h \in Obj :
           InLocal(h) /\ ptr[h][1] = p =>
             \/ Cardinality({i \in DOMAIN mds : mds[i].who = h}) = 1
             \/ \E t \in Thread : /\ job[t] # None /\ job[t].h = h
                                 /\ job[t].step \in {"flag", "finish"}

\* find_md's guess always leads to the object's own entry.
FindsOwn ==
  \A h \in Obj : InLocal(h) =>
    LET pg == lp[ptr[h][1]]
        i  == FindMd(pg, At(ptr[h][1]), ptr[h][2])
    IN  i # 0 /\ GetData(pg.mds[i], At(ptr[h][1])) = ptr[h][2]

\* bytes_freed never runs ahead of the entries that have an address instead of
\* a mapping, which are holes or about to become one, and lags behind them only by
\* updates that were lost between two threads: a page is compacted too late at
\* worst.
Released(p) == {i \in DOMAIN lp[p].mds : lp[p].mds[i].who = None}
FreedNotAhead(p) == lp[p].freed <= Taken(lp[p].mds, Released(p))

\* A thread cache fills no locality page but its own, and no two share one.
LocalOwners ==
  /\ \A t \in Thread : tcpage[t] # None => lowner[tcpage[t]] = t
  /\ \A p \in LPage : lowner[p] \in Thread => tcpage[lowner[p]] = p

\* What find_md, compact() and localize() take for granted of a locality page,
\* whatever frees race with each other on it (LocalityPage.cpp).
LocalPagesSound ==
  wild \/ /\ \A p \in LPage : Tiled(p) /\ FreedNotAhead(p)
          /\ FindsOwn
          /\ LocalOwners

\* When compact_locality_pages is done with a page it has compacted, no hole has
\* an object behind it that could be moved, and the last entry is an object.
Settled(mds) ==
  \A i \in 1 .. Len(mds) - 1 : ~CanSwap(mds[i], mds[i + 1], pinned)
LocalCompacted(p) == Settled(lp'[p].mds) /\ Kept(lp'[p].mds) = Len(lp'[p].mds)

\* Every pass after which compact() is called again has brought some object
\* nearer to the start of the page and taken none away from it, so the loop
\* ends.
Moves(p)     == {h \in Obj : InLocal(h) /\ ptr[h][1] = p /\ ptr'[h] # ptr[h]}
Progress(p)  == Moves(p) # {} /\ \A h \in Moves(p) : ptr'[h][2] < ptr[h][2]

\* What compact_locality_pages does to a page: passes with progress until
\* nothing is left to move, and no object moves that the barrier has pinned.
CompactionWorks ==
  [][/\ \A h \in pinned : ptr'[h] = ptr[h]
     /\ \A p \in todo :
          \/ wild' \/ lp'[p] = lp[p]
          \/ IF p \in todo' THEN Progress(p) ELSE LocalCompacted(p)]_vars
=============================================================================
