---------------------------- MODULE HandleTable -----------------------------
(***************************************************************************)
(* The handle table: slabs of mappings, the vector that finds them and the *)
(* thread caches that allocate from them (runtime/core/HandleTable.cpp,    *)
(* ThreadCache::new_mapping, ck/vec.h).                                    *)
(*                                                                         *)
(* A slab is a slice of the table with a SizedAllocator over its mappings. *)
(* A thread cache allocates mappings from its slab; when that is used up   *)
(* it scans the table, under the table lock, for a slab nobody owns that   *)
(* seems to have a free mapping, and makes a fresh one if there is none,   *)
(* under the lock a second time.  put(), which any thread calls for any    *)
(* mapping, takes no lock: it looks the slab up in the vector.             *)
(*                                                                         *)
(* An action is one access to something shared, with what its thread does  *)
(* on its own before the next.  Free lists are sets, their CAS loops steps *)
(* (ShardedFreeList refines this).  Locals that are dead are reset.        *)
(***************************************************************************)
EXTENDS Integers, FiniteSets

CONSTANTS
  Thread,           \* the threads, each with its thread cache
  None,             \* nullptr
  SlabCapacity,     \* mappings per slab (512 in the code)
  Chunk,            \* mappings one call of extend() takes (128)
  Reserved,         \* the mappings with handle IDs 0 and 10
  InitialCapacity,  \* slabs the table has room for at first (16)
  GrowthFactor,     \* (2)
  VecPadding,       \* spare elements of a vector that has grown (4)
  MaxSlabs          \* bound: slabs that are ever made

SlabIdx == 0 .. (MaxSlabs - 1)
Handle  == SlabIdx \X (1 .. SlabCapacity)

ASSUME ThreadAssumption == IsFiniteSet(Thread) /\ None \notin Thread
ASSUME SizeAssumption ==
  /\ SlabCapacity \in Nat \ {0} /\ Chunk \in Nat \ {0} /\ MaxSlabs \in Nat
  /\ InitialCapacity \in Nat \ {0} /\ GrowthFactor \in Nat \ {0, 1}
  /\ VecPadding \in Nat
ASSUME NoneAssumption == None \notin SlabIdx /\ None \notin Handle
ASSUME ReservedAssumption == Reserved \subseteq Handle

VARIABLES
  nslabs,     \* m_slabs.size()
  capacity,   \* m_capacity
  buffer,     \* how often the buffer of m_slabs has been replaced
  room,       \* how many elements it has room for
  tableLock,  \* HandleTable::lock, as a thread that scans the slabs holds it
  scan,       \* the slab its loop looks at
  owner,      \* slab -> the thread cache that owns it, or None
  local,      \* slab -> the mappings on the local free list
  remote,     \* slab -> the mappings on the remote free list
  nlocal,     \* slab -> num_local_free
  nremote,    \* slab -> num_remote_free
  bump,       \* slab -> how many mappings the bump pointer has passed
  live,       \* the mappings that back a handle of the program
  slab,       \* thread -> handle_slab
  pc,         \* thread -> where it is in new_mapping or put
  second,     \* thread -> in the second alloc() of new_mapping
  got,        \* thread -> what new_slab() returned
  putting,    \* thread -> the mapping put() is releasing
  found,      \* thread -> the buffer of m_slabs, as put() loaded it
  seen        \* thread -> num_remote_free, as swap() read it

vector == <<nslabs, capacity, buffer, room>>
table  == <<vector, tableLock, scan, owner>>
lists  == <<local, remote, nlocal, nremote, bump>>
locals == <<second, got, putting, found, seen>>
vars   == <<table, lists, live, slab, pc, locals>>

PCs == {"idle", "alloc", "add", "clear", "newslab", "fresh", "install",
        "find", "push", "count", "nogrow", "wild", "null"}

TypeOK ==
  /\ nslabs    \in 0 .. MaxSlabs
  /\ capacity  \in Nat /\ nslabs <= capacity
  /\ buffer    \in Nat
  /\ room      \in Nat /\ nslabs <= room
  /\ tableLock \in Thread \cup {None}
  /\ scan      \in 0 .. nslabs
  /\ owner     \in [SlabIdx -> Thread \cup {None}]
  /\ local     \in [SlabIdx -> SUBSET Handle]
  /\ remote    \in [SlabIdx -> SUBSET Handle]
  /\ nlocal    \in [SlabIdx -> Int]
  /\ nremote   \in [SlabIdx -> Nat]
  /\ bump      \in [SlabIdx -> 0 .. SlabCapacity]
  /\ live      \subseteq Handle
  /\ slab      \in [Thread -> SlabIdx \cup {None}]
  /\ pc        \in [Thread -> PCs]
  /\ second    \in [Thread -> BOOLEAN]
  /\ got       \in [Thread -> SlabIdx \cup {None}]
  /\ putting   \in [Thread -> Handle \cup {None}]
  /\ found     \in [Thread -> Nat]
  /\ seen      \in [Thread -> Nat]

Init ==
  /\ nslabs = 0 /\ capacity = InitialCapacity
  /\ buffer = 0 /\ room = 0
  /\ tableLock = None /\ scan = 0
  /\ owner   = [s \in SlabIdx |-> None]
  /\ local   = [s \in SlabIdx |-> {}]
  /\ remote  = [s \in SlabIdx |-> {}]
  /\ nlocal  = [s \in SlabIdx |-> 0]
  /\ nremote = [s \in SlabIdx |-> 0]
  /\ bump    = [s \in SlabIdx |-> 0]
  /\ live = {}
  /\ slab    = [t \in Thread |-> None]
  /\ pc      = [t \in Thread |-> "idle"]
  /\ second  = [t \in Thread |-> FALSE]
  /\ got     = [t \in Thread |-> None]
  /\ putting = [t \in Thread |-> None]
  /\ found   = [t \in Thread |-> 0]
  /\ seen    = [t \in Thread |-> 0]

-----------------------------------------------------------------------------
(***************************************************************************)
(* Helpers.                                                                *)
(***************************************************************************)

\* A failed assertion, or undefined behaviour, ends what can be said.
Halted  == {"nogrow", "wild", "null"}
Running == \A t \in Thread : pc[t] \notin Halted

At(t, l)   == Running /\ pc[t] = l
Goto(t, l) == pc' = [pc EXCEPT ![t] = l]

\* mapping_slab_idx
SlabOf(m) == m[1]

\* The mappings of slab s that its bump pointer passes from i to j.
Between(s, i, j) == {s} \X ((i + 1) .. j)

\* SizedAllocator::num_free, an estimate.
NumFree(s) == nlocal[s] + nremote[s] + (SlabCapacity - bump[s])

\* The test of new_slab's loop.  (Mutant: whoever owns it.)
UsableOwned(s) == NumFree(s) > 0
Usable(s)      == owner[s] = None /\ NumFree(s) > 0

\* The handle IDs new_mapping does not hand out.  (Mutant: none.)
AnyHandle(m)  == FALSE
Disallowed(m) == m \in Reserved

\* new_mapping pops a mapping from the thread's slab, whose local list is
\* `free' and whose num_local_free is n: it returns it, or forgets it and
\* starts over.
Pop(t, free, n) ==
  \E m \in free :
    /\ local'  = [local  EXCEPT ![slab[t]] = free \ {m}]
    /\ nlocal' = [nlocal EXCEPT ![slab[t]] = n - 1]
    /\ live'   = IF Disallowed(m) THEN live ELSE live \cup {m}
    /\ second' = [second EXCEPT ![t] = FALSE]
    /\ Goto(t, IF Disallowed(m) THEN "alloc" ELSE "idle")
    /\ UNCHANGED <<table, remote, slab, got, putting, found>>

-----------------------------------------------------------------------------
(***************************************************************************)
(* Allocation: ThreadCache::new_mapping.                                   *)
(***************************************************************************)

\* A call of halloc that needs a mapping.  The constructor of the thread cache,
\* which runs at the thread's first call, takes a slab.
NewMapping(t) ==
  /\ At(t, "idle")
  /\ Goto(t, IF slab[t] = None THEN "newslab" ELSE "alloc")
  /\ UNCHANGED <<table, lists, live, slab, locals>>

\* The slab has a mapping on its local list.
AllocPop(t) ==
  /\ At(t, "alloc")
  /\ Pop(t, local[slab[t]], nlocal[slab[t]])
  /\ UNCHANGED <<nremote, bump, seen>>

\* Where the bump pointer stands after extend().
ExtendEnd(s) ==
  IF bump[s] + Chunk > SlabCapacity THEN SlabCapacity ELSE bump[s] + Chunk

\* It has none, but the bump pointer is not at its end: alloc_slow extends.
AllocExtend(t) ==
  LET s   == slab[t]
      end == ExtendEnd(s)
  IN  /\ At(t, "alloc")
      /\ local[s] = {} /\ bump[s] < SlabCapacity
      /\ bump' = [bump EXCEPT ![s] = end]
      /\ Pop(t, Between(s, bump[s], end), nlocal[s] + (end - bump[s]))
      /\ UNCHANGED <<nremote, seen>>

\* What swap()'s compare-and-swap does to the lists.  (Mutant: a load only.)
CopyRemote(s) ==
  /\ local' = [local EXCEPT ![s] = remote[s]]
  /\ UNCHANGED remote
TakeRemote(s) ==
  /\ local'  = [local  EXCEPT ![s] = remote[s]]
  /\ remote' = [remote EXCEPT ![s] = {}]

SwapTake(t) ==
  /\ At(t, "alloc")
  /\ local[slab[t]] = {} /\ bump[slab[t]] = SlabCapacity
  /\ TakeRemote(slab[t])
  /\ Goto(t, "add")
  /\ UNCHANGED <<table, nlocal, nremote, bump, live, slab, locals>>

\* swap(): num_local_free += num_remote_free.
SwapAdd(t) ==
  /\ At(t, "add")
  /\ nlocal' = [nlocal EXCEPT ![slab[t]] = @ + nremote[slab[t]]]
  /\ seen'   = [seen EXCEPT ![t] = nremote[slab[t]]]
  /\ Goto(t, "clear")
  /\ UNCHANGED <<table, local, remote, nremote, bump, live, slab,
                 second, got, putting, found>>

\* swap(): atomic_set(num_remote_free, 0).  (Mutant: not reset.)
KeepCount(s)  == UNCHANGED nremote
ClearCount(s) == nremote' = [nremote EXCEPT ![s] = 0]

SwapClearHit(t) ==
  /\ At(t, "clear")
  /\ ClearCount(slab[t])
  /\ Pop(t, local[slab[t]], nlocal[slab[t]])
  /\ seen' = [seen EXCEPT ![t] = 0]
  /\ UNCHANGED bump

\* alloc() returns nullptr: the first time the thread asks the table for
\* another slab; the second time new_mapping goes on with a null mapping.
SwapClearMiss(t) ==
  /\ At(t, "clear") /\ local[slab[t]] = {}
  /\ ClearCount(slab[t])
  /\ Goto(t, IF second[t] THEN "null" ELSE "newslab")
  /\ second' = [second EXCEPT ![t] = TRUE]
  /\ seen'   = [seen EXCEPT ![t] = 0]
  /\ UNCHANGED <<table, local, remote, nlocal, bump, live, slab,
                 got, putting, found>>

-----------------------------------------------------------------------------
(***************************************************************************)
(* A thread cache gets a slab: HandleTable::new_slab and fresh_slab.       *)
(***************************************************************************)

\* new_slab's loop.  The lock keeps the vector still and lets nobody take a
\* slab, but owners give slabs up and counters change under it.
Scans(t) == At(t, "newslab") /\ tableLock \in {None, t}

SkipSlab(t) ==
  /\ Scans(t) /\ scan < nslabs /\ ~Usable(scan)
  /\ scan' = scan + 1 /\ tableLock' = t
  /\ UNCHANGED <<vector, owner, lists, live, slab, pc, locals>>

TakeSlab(t) ==
  /\ Scans(t) /\ scan < nslabs /\ Usable(scan)
  /\ owner' = [owner EXCEPT ![scan] = t]
  /\ got'   = [got EXCEPT ![t] = scan]
  /\ scan' = 0 /\ tableLock' = None
  /\ Goto(t, "install")
  /\ UNCHANGED <<vector, lists, live, slab, second, putting, found, seen>>

\* No slab will do; the lock is released before fresh_slab takes it again.
EndScan(t) ==
  /\ Scans(t) /\ scan = nslabs
  /\ scan' = 0 /\ tableLock' = None
  /\ Goto(t, "fresh")
  /\ UNCHANGED <<vector, owner, lists, live, slab, locals>>

\* HandleTable::grow, when the table is full.  (Mutant: one slab too late.)
LateCapacity == IF nslabs > capacity THEN capacity * GrowthFactor ELSE capacity
NewCapacity ==
  IF nslabs >= capacity THEN capacity * GrowthFactor ELSE capacity

\* vec::grow_capacity: a vector without room for n elements moves to a new
\* buffer and frees the one it had.
GrowVec(n) ==
  IF room >= n
    THEN UNCHANGED <<buffer, room>>
    ELSE buffer' = buffer + 1 /\ room' = n + n \div 4 + VecPadding

FreshSlab(t) ==
  /\ At(t, "fresh") /\ tableLock = None
  /\ nslabs < MaxSlabs
  /\ capacity' = NewCapacity
  /\ GrowVec(nslabs + 1)
  /\ nslabs'  = nslabs + 1
  /\ owner'   = [owner   EXCEPT ![nslabs] = t]
  /\ local'   = [local   EXCEPT ![nslabs] = {}]
  /\ remote'  = [remote  EXCEPT ![nslabs] = {}]
  /\ nlocal'  = [nlocal  EXCEPT ![nslabs] = 0]
  /\ nremote' = [nremote EXCEPT ![nslabs] = 0]
  /\ bump'    = [bump    EXCEPT ![nslabs] = 0]
  /\ got'     = [got     EXCEPT ![t] = nslabs]
  /\ Goto(t, "install")
  /\ UNCHANGED <<tableLock, scan, live, slab, second, putting, found, seen>>

\* grow(): mremap may not extend the table in place, and that is asserted.
GrowFails(t) ==
  /\ At(t, "fresh") /\ tableLock = None
  /\ nslabs >= capacity
  /\ Goto(t, "nogrow")
  /\ UNCHANGED <<table, lists, live, slab, locals>>

\* new_mapping gives the old slab up and goes on with the new one; the
\* constructor has no old one.
InstallSlab(t) ==
  /\ At(t, "install")
  /\ owner' = [s \in SlabIdx |-> IF s = slab[t] THEN None ELSE owner[s]]
  /\ slab'  = [slab EXCEPT ![t] = got[t]]
  /\ got'   = [got  EXCEPT ![t] = None]
  /\ Goto(t, "alloc")
  /\ UNCHANGED <<vector, tableLock, scan, lists, live,
                 second, putting, found, seen>>

-----------------------------------------------------------------------------
(***************************************************************************)
(* Release: HandleTable::put, for any mapping by any thread.               *)
(***************************************************************************)

\* put() checks the index against the vector's size and loads its buffer; both
\* without the lock.
Put(t) ==
  /\ At(t, "idle")
  /\ \E m \in live :
       /\ SlabOf(m) < nslabs
       /\ live'    = live \ {m}
       /\ putting' = [putting EXCEPT ![t] = m]
  /\ found' = [found EXCEPT ![t] = buffer]
  /\ Goto(t, "find")
  /\ UNCHANGED <<table, lists, slab, second, got, seen>>

\* It finds the slab there: in the vector's buffer, or in one that has been
\* freed and not used again.  Its owner puts the mapping on the local list ...
FindLocal(t) ==
  LET m == putting[t]
  IN  /\ At(t, "find") /\ owner[SlabOf(m)] = t
      /\ local'   = [local  EXCEPT ![SlabOf(m)] = @ \cup {m}]
      /\ nlocal'  = [nlocal EXCEPT ![SlabOf(m)] = @ + 1]
      /\ putting' = [putting EXCEPT ![t] = None]
      /\ found'   = [found EXCEPT ![t] = 0]
      /\ Goto(t, "idle")
      /\ UNCHANGED <<table, remote, nremote, bump, live, slab,
                     second, got, seen>>

\* ... and others on the remote list.
FindRemote(t) ==
  /\ At(t, "find") /\ owner[SlabOf(putting[t])] # t
  /\ found' = [found EXCEPT ![t] = 0]
  /\ Goto(t, "push")
  /\ UNCHANGED <<table, lists, live, slab, second, got, putting, seen>>

\* The buffer has been freed and holds something else by now: put() goes on
\* with a slab that is none.
FindWild(t) ==
  /\ At(t, "find") /\ found[t] # buffer
  /\ Goto(t, "wild")
  /\ UNCHANGED <<table, lists, live, slab, locals>>

\* free_remote's compare-and-swap ...
Push(t) ==
  /\ At(t, "push")
  /\ remote' = [remote EXCEPT ![SlabOf(putting[t])] = @ \cup {putting[t]}]
  /\ Goto(t, "count")
  /\ UNCHANGED <<table, local, nlocal, nremote, bump, live, slab, locals>>

\* ... and its atomic_inc(num_remote_free, 1).
Count(t) ==
  /\ At(t, "count")
  /\ nremote' = [nremote EXCEPT ![SlabOf(putting[t])] = @ + 1]
  /\ putting' = [putting EXCEPT ![t] = None]
  /\ Goto(t, "idle")
  /\ UNCHANGED <<table, local, remote, nlocal, bump, live, slab,
                 second, got, found, seen>>

-----------------------------------------------------------------------------
Next ==
  \E t \in Thread :
    \/ NewMapping(t) \/ AllocPop(t) \/ AllocExtend(t)
    \/ SwapTake(t) \/ SwapAdd(t) \/ SwapClearHit(t) \/ SwapClearMiss(t)
    \/ SkipSlab(t) \/ TakeSlab(t) \/ EndScan(t)
    \/ FreshSlab(t) \/ GrowFails(t) \/ InstallSlab(t)
    \/ Put(t) \/ FindLocal(t) \/ FindRemote(t) \/ FindWild(t)
    \/ Push(t) \/ Count(t)

Spec == Init /\ [][Next]_vars

-----------------------------------------------------------------------------
(***************************************************************************)
(* Properties.                                                             *)
(***************************************************************************)

\* Thread t is putting a mapping back and has not pushed it yet.
Putting(t) == pc[t] \in {"find", "push", "wild"}
InFlight   == {putting[t] : t \in {u \in Thread : Putting(u)}}

\* The mappings of a slab that no one has been given, whether or not it has
\* been made.
Untouched(s) == Between(s, bump[s], SlabCapacity)

\* "No two threads will allocate from the same slab at the same time"
\* (HandleTable.hpp:39-41), although new_slab hands a slab over under one
\* lock, new_mapping gives one up under none, and fresh_slab follows an
\* unsuccessful scan in a critical section of its own.
OneSlabEach ==
  \A t, u \in Thread :
    slab[t] # None =>
      /\ owner[slab[t]] = t
      /\ slab[t] \in {slab[u], got[u]} => t = u

\* A mapping that backs a handle is on no free list, and no mapping is on two:
\* two objects never share a handle.
NoHandleTwice ==
  /\ \A s \in SlabIdx :
       /\ local[s] \cap remote[s] = {}
       /\ (local[s] \cup remote[s]) \cap (live \cup InFlight) = {}
       /\ (local[s] \cup remote[s]) \subseteq {s} \X (1 .. bump[s])
  /\ live \cap InFlight = {}
  /\ \A m \in live \cup InFlight : m[2] <= bump[SlabOf(m)]
  /\ \A t, u \in Thread :
       Putting(t) /\ Putting(u) /\ putting[t] = putting[u] => t = u

\* "This BETTER work!" (ThreadCache.cpp:234): a slab that new_slab has just
\* returned has a mapping, whatever its counters have been through.
NewSlabHasMapping == \A t \in Thread : pc[t] # "null"

\* The table as halloc sees it: every mapping but the disallowed ones is either
\* live or available, popping and putting move exactly one, and neither the
\* disallowed IDs nor slabs that change hands nor a growing table lose one.
Available ==
  (InFlight \cup
    UNION {local[s] \cup remote[s] \cup Untouched(s) : s \in SlabIdx})
  \ Reserved
Store == INSTANCE BlockStore WITH
  Block <- Handle \ Reserved, available <- Available
ImplementsBlockStore == Store!Spec
=============================================================================
