---------------------------- MODULE LocalityPage ----------------------------
(***************************************************************************)
(* The locality page (runtime/core/LocalityPage.cpp, LocalityPage.hpp): a  *)
(* bump allocator for objects of any size.  The objects fill the page from *)
(* its start; one metadata entry per object fills it from its end.  An     *)
(* entry knows its object by the mapping while it is allocated and by the  *)
(* address once it is freed: both share one word.                          *)
(*                                                                         *)
(* A page is a record: mds (the entries, oldest first), bump               *)
(* (data_bump_next) and freed (bytes_freed).  Everything is measured in    *)
(* units of 16 bytes, the heap's alignment and the size of an entry;       *)
(* addresses count from the page's start.  The operators below take the    *)
(* addresses of the mappings from a function at; Objects puts them to use. *)
(***************************************************************************)
EXTENDS Integers, Sequences, FiniteSets, FiniteSetsExt, SequencesExt

CONSTANTS
  None,        \* nullptr
  PageUnits    \* the page's size

ASSUME PageUnitsAssumption == PageUnits \in Nat \ {0, 1}

EmptyPage == [mds |-> <<>>, bump |-> 0, freed |-> 0]

\* Metadata::get_data.
GetData(md, at) == IF md.who # None THEN at[md.who] ELSE md.raw

\* get_free_space counts what is left between the objects and the entries;
\* available keeps room for one more entry.
FreeSpace(pg) == PageUnits - Len(pg.mds) - pg.bump
Available(pg) == FreeSpace(pg) - 1

\* alloc, for a caller that made sure there is room.
Push(pg, m, size) ==
  [pg EXCEPT !.mds  = Append(@, [who |-> m, raw |-> None, allocated |-> TRUE,
                                 size |-> size]),
             !.bump = @ + size]

-----------------------------------------------------------------------------
(***************************************************************************)
(* find_md: the entry of the object at address a, from a guess based on    *)
(* the average size of the objects.                                        *)
(***************************************************************************)

Guess(pg, a) ==
  LET n == Len(pg.mds)
      g == 1 + a \div (pg.bump \div n)
  IN  IF g > n THEN n ELSE g

\* The walk goes right past every entry that lies before a, else left past
\* every entry that lies behind it.
FindMd(pg, at, a) ==
  LET n     == Len(pg.mds)
      g     == Guess(pg, a)
      Data(i) == GetData(pg.mds[i], at)
      right == {i \in g .. n : Data(i) >= a}
      left  == {i \in 1 .. g : Data(i) <= a}
  IN  IF a > pg.bump THEN 0
      ELSE IF Data(g) < a THEN (IF right = {} THEN 0 ELSE Min(right))
      ELSE IF left = {} THEN 0 ELSE Max(left)

\* The entries the walk looks at when it ends at entry i.
Probed(pg, a, i) == LET g == Guess(pg, a) IN (g .. i) \cup (i .. g)

-----------------------------------------------------------------------------
(***************************************************************************)
(* compact().                                                              *)
(***************************************************************************)

\* memmove of n units; what is left of them is of no interest any more.
MemMove(mem, dst, src, n) ==
  [u \in DOMAIN mem |->
     IF u \in dst .. dst + n - 1 THEN mem[u - dst + src]
     ELSE IF u \in src .. src + n - 1 THEN None ELSE mem[u]]

\* A hole with a movable object behind it.  (Mutant: pins do not count.)
SwapAny(l, r, pinned) == ~l.allocated /\ r.allocated
CanSwap(l, r, pinned) == ~l.allocated /\ r.allocated /\ r.who \notin pinned

\* What stays behind has the size of the hole.  (Mutant: the size of the
\* object.)
MovedHoleSize(l, r) == r.size
HoleSize(l, r)     == l.size

\* One turn of the loop: entry i + 1 moves into the hole of entry i, and the
\* hole behind it.
Turn(acc, i, pinned) ==
  LET l   == acc.mds[i]
      r   == acc.mds[i + 1]
      dst == GetData(l, acc.at)
      src == GetData(r, acc.at)
  IN  IF ~CanSwap(l, r, pinned) THEN acc
      ELSE [mds   |-> [acc.mds EXCEPT
                         ![i]     = r,
                         ![i + 1] = [who |-> None, raw |-> dst + r.size,
                                     allocated |-> FALSE,
                                     size |-> HoleSize(l, r)]],
            at    |-> [acc.at EXCEPT ![r.who] = dst],
            mem   |-> MemMove(acc.mem, dst, src, r.size),
            moved |-> acc.moved + 1]

\* The pass over all entries.
CompactPass(pg, at, mem, pinned) ==
  LET last == IF pg.mds = <<>> THEN 0 ELSE Len(pg.mds) - 1
      After[i \in 0 .. last] ==
        IF i = 0 THEN [mds |-> pg.mds, at |-> at, mem |-> mem, moved |-> 0]
        ELSE Turn(After[i - 1], i, pinned)
  IN  After[last]

\* What the entries in S take.
Taken(mds, S) ==
  LET Sum[i \in 0 .. Len(mds)] ==
        IF i = 0 THEN 0 ELSE Sum[i - 1] + (IF i \in S THEN mds[i].size ELSE 0)
  IN  Sum[Len(mds)]

\* How many entries are left when the holes at the end are pruned.  If it is 0
\* the loop does not end there: it goes on past the end of the page.
Kept(mds) == Max({0} \cup {i \in DOMAIN mds : mds[i].allocated})

Prune(pg, at) ==
  LET k    == Kept(pg.mds)
      size == Taken(pg.mds, k + 1 .. Len(pg.mds))
  IN  [mds   |-> SubSeq(pg.mds, 1, k),
       bump  |-> IF k \in 1 .. Len(pg.mds) - 1
                 THEN GetData(pg.mds[k], at) + pg.mds[k].size ELSE pg.bump,
       freed |-> pg.freed - size]

\* Heap::compact_locality_pages leaves a page alone unless more than a fifth of
\* it is holes.  (bytes_freed is unsigned: once it has passed zero the page
\* looks full.)
WorthCompacting(pg) ==
  pg.freed >= 0 /\ 10 * (pg.bump - pg.freed) < 8 * pg.bump
=============================================================================
