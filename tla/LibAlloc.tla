------------------------------ MODULE LibAlloc ------------------------------
(***************************************************************************)
(* The allocator of the runtime's own objects: slabs, pages' metadata,     *)
(* page tables, vectors (runtime/core/liballoc.c, "internal_malloc").      *)
(*                                                                         *)
(* Majors are regions from mmap(), in a list; in each lie minors, in the   *)
(* order of their addresses: a header and the memory behind it.  A minor   *)
(* is a record of the offset of its header, the bytes behind it and the    *)
(* bytes asked for.                                                        *)
(*                                                                         *)
(* Every call runs under liballoc_mutex.  realloc, which nothing calls,    *)
(* and the totals that only liballoc_dump prints are left out.             *)
(***************************************************************************)
EXTENDS Integers, Sequences, FiniteSets, FiniteSetsExt, SequencesExt

CONSTANTS
  Region,       \* what mmap() returns
  NoRegion,     \* NULL
  Request,      \* sizes asked for
  MajorHeader,  \* sizeof(struct liballoc_major)
  MinorHeader,  \* sizeof(struct liballoc_minor)
  Alignment,    \* ALIGNMENT
  Info,         \* ALIGN_INFO
  PageSize,     \* l_pageSize
  PageCount     \* l_pageCount

ASSUME LibAllocAssumption ==
  /\ Request \subseteq Nat \ {0}
  /\ {MajorHeader, MinorHeader, Alignment, Info, PageSize, PageCount}
       \subseteq Nat \ {0}
  /\ NoRegion \notin Region

VARIABLES
  majors,   \* the list that starts at l_memRoot
  bytes,    \* region -> size of the major
  usage,    \* region -> its usage
  minors,   \* region -> its minors
  bestBet   \* l_bestBet

libVars == <<majors, bytes, usage, minors, bestBet>>

LibInit ==
  /\ majors = <<>> /\ bestBet = NoRegion
  /\ bytes  = [r \in Region |-> 0]
  /\ usage  = [r \in Region |-> 0]
  /\ minors = [r \in Region |-> <<>>]

-----------------------------------------------------------------------------
\* A minor of n bytes takes this much of its major.
WithHeader(n) == n + MinorHeader

\* The free space behind the minor number i, or in front of the first.
GapStart(r, i) == IF i = 0 THEN MajorHeader
                  ELSE minors[r][i].at + WithHeader(minors[r][i].size)
GapEnd(r, i)   == IF i = Len(minors[r]) THEN bytes[r] ELSE minors[r][i + 1].at
\* The gaps of r that a minor of n bytes fits.
Gaps(r, n)     == {i \in 0 .. Len(minors[r]) :
                     GapEnd(r, i) - GapStart(r, i) >= WithHeader(n)}

FreeBytes(r)  == bytes[r] - usage[r]
Roomy(r, n)   == FreeBytes(r) >= WithHeader(n)

\* The majors malloc looks at until one has room: from the best bet on if that
\* one is good enough, and if that leads nowhere all of them.  (Mutant: it does
\* not start again.)
FromBest(n) == bestBet # NoRegion /\ FreeBytes(bestBet) > WithHeader(n)
PlaceOf(r)  == CHOOSE k \in DOMAIN majors : majors[k] = r
OnePass(n)  == IF FromBest(n) THEN SubSeq(majors, PlaceOf(bestBet), Len(majors))
               ELSE majors
Visited(n)  == IF FromBest(n) THEN SubSeq(majors, PlaceOf(bestBet), Len(majors)) \o majors
               ELSE majors

\* On the way a major with more free space than any before becomes the best: in
\* the end the first of those that have the most.
Better(seen) ==
  LET free == IF bestBet = NoRegion THEN 0 ELSE FreeBytes(bestBet)
      best == {k \in DOMAIN seen :
                 /\ seen[k].free > free
                 /\ \A j \in DOMAIN seen : seen[j].free <= seen[k].free}
  IN  IF best = {} THEN bestBet ELSE seen[Min(best)].r
Seen(rs) == [i \in DOMAIN rs |-> [r |-> rs[i], free |-> FreeBytes(rs[i])]]

\* allocate_new_page.
NewBytes(n) ==
  LET st    == n + MajorHeader + MinorHeader
      pages == (st + PageSize - 1) \div PageSize
  IN  Max({pages, PageCount}) * PageSize

\* Room to align the pointer is part of every size.  (Mutant: it is not.)
NotPadded(req) == req + Info
Padded(req) == req + Alignment + Info
Minor(at, req) == [at |-> at, size |-> Padded(req), req |-> req]

\* CASE 2, 3 and 4: the first gap of r that is large enough.
MallocIn(r, req, visited) ==
  LET n == Padded(req)
      i == Min(Gaps(r, n))
  IN  /\ minors'  = [minors EXCEPT ![r] = InsertAt(@, i + 1, Minor(GapStart(r, i), req))]
      /\ usage'   = [usage EXCEPT ![r] = @ + WithHeader(n)]
      /\ bestBet' = Better(Seen(visited))
      /\ UNCHANGED <<majors, bytes>>

Malloc(req) ==
  LET n    == Padded(req)
      path == Visited(n)
      fit  == {k \in DOMAIN path : Roomy(path[k], n) /\ Gaps(path[k], n) # {}}
  IN  /\ fit # {}
      /\ MallocIn(path[Min(fit)], req, SubSeq(path, 1, Min(fit)))

\* A new major, at the end of the list.  It is looked at like the others, unless
\* it comes after a major that had too few bytes, free or not (CASE 1).
MallocMap(req) ==
  LET n    == Padded(req)
      path == Visited(n)
      size == NewBytes(n)
  IN  /\ \A k \in DOMAIN path : ~Roomy(path[k], n) \/ Gaps(path[k], n) = {}
      /\ \E r \in Region \ ToSet(majors) :
           /\ majors'  = Append(majors, r)
           /\ bytes'   = [bytes EXCEPT ![r] = size]
           /\ minors'  = [minors EXCEPT ![r] = <<Minor(MajorHeader, req)>>]
           /\ usage'   = [usage EXCEPT ![r] = MajorHeader + WithHeader(n)]
           /\ bestBet' = Better(Seen(path) \o
                IF path # <<>> /\ ~Roomy(Last(path), n) THEN <<>>
                ELSE <<[r |-> r, free |-> size - MajorHeader]>>)

\* free() of the i-th minor of r.  A major without minors is unmapped, and is
\* nobody's best bet any more.  (Mutant: it remains the best bet.)
KeepBet(r) == bestBet
BetWithout(r) == IF bestBet = r THEN NoRegion ELSE bestBet
Free(r, i) ==
  /\ usage' = [usage EXCEPT ![r] = @ - WithHeader(minors[r][i].size)]
  /\ minors' = [minors EXCEPT ![r] = RemoveAt(@, i)]
  /\ IF minors'[r] = <<>>
     THEN /\ majors'  = RemoveAt(majors, PlaceOf(r))
          /\ bestBet' = BetWithout(r)
          /\ bytes'   = [bytes EXCEPT ![r] = 0]
     ELSE /\ bestBet' = IF bestBet # NoRegion
                           /\ bytes[r] - usage'[r] > bytes[bestBet] - usage'[bestBet]
                        THEN r ELSE bestBet
          /\ UNCHANGED <<majors, bytes>>

LibNext ==
  \/ \E req \in Request : Malloc(req) \/ MallocMap(req)
  \/ \E r \in Region : \E i \in DOMAIN minors[r] : Free(r, i)

LibSpec == LibInit /\ [][LibNext]_libVars

-----------------------------------------------------------------------------
(***************************************************************************)
(* Properties.                                                             *)
(***************************************************************************)

\* ALIGN: where the caller's memory begins.  The bytes just before it say how
\* far it has been shifted, and are read by free().
Pointer(m) ==
  LET p == m.at + MinorHeader + Info
  IN  p + ((Alignment - (p % Alignment)) % Alignment)

\* Headers, the notes of ALIGN and the callers' memory all lie in the region
\* and apart from each other.
Apart(r) ==
  LET ms == minors[r]
  IN  /\ \A i \in DOMAIN ms :
           /\ ms[i].at >= MajorHeader
           /\ Pointer(ms[i]) - Info >= ms[i].at + MinorHeader
           /\ Pointer(ms[i]) + ms[i].req <= bytes[r]
      /\ \A i, j \in DOMAIN ms : i < j => Pointer(ms[i]) + ms[i].req <= ms[j].at

\* usage is what the major's headers and minors take, by which malloc decides
\* whether to look at it; and no major is mapped that has no minor.
UsageExact(r) ==
  LET Sum[i \in 0 .. Len(minors[r])] ==
        IF i = 0 THEN MajorHeader ELSE Sum[i - 1] + MinorHeader + minors[r][i].size
  IN  minors[r] # <<>> /\ usage[r] = Sum[Len(minors[r])]

\* No two of the runtime's own objects share memory, and no header is
\* overwritten; the shortcut malloc takes never leads to unmapped memory
\* (liballoc.c).
InternalMemorySound ==
  /\ IsInjective(majors)
  /\ \A r \in Region : IF r \in ToSet(majors) THEN Apart(r) /\ UsageExact(r)
                       ELSE minors[r] = <<>>
  /\ bestBet \in ToSet(majors) \cup {NoRegion}

\* More memory is mapped only when no major has a gap for the request, whichever
\* major the walk began with.
MapsWhenFull ==
  [][Len(majors') > Len(majors) =>
       \A r \in ToSet(majors) : Gaps(r, minors'[Last(majors')][1].size) = {}]_libVars
=============================================================================
