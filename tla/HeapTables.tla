----------------------------- MODULE HeapTables -----------------------------
(***************************************************************************)
(* How the heap finds things: the size class of a request                  *)
(* (runtime/core/SizeClass.cpp), the page for a HeapPage to manage         *)
(* (PageManager in core/Heap.cpp) and the HeapPage that manages an address *)
(* (HeapPageTable).                                                        *)
(*                                                                         *)
(* Pages go by their number in the heap; a free page stores the link to    *)
(* the next one in itself.  All operations but the lookup run under locks. *)
(***************************************************************************)
EXTENDS Integers, FiniteSets, FiniteSetsExt, LinkedList

CONSTANTS
  LevelSize,   \* the entries of a table, 1 << bits_per_pt_level
  PageBytes,   \* page_size
  NoPage,      \* nullptr
  Asked        \* the sizes the size classes are asked for, in bytes

\* What is not below huge_object_thresh is not for a size class.
MaxRequest == 65534

NumPages  == LevelSize * LevelSize   \* heap_size / page_size
Page      == 0 .. NumPages - 1
PageTable == [0 .. LevelSize - 1 -> Page \cup {NoPage}]

ASSUME TablesAssumption ==
  /\ LevelSize \in Nat \ {0} /\ PageBytes \in Nat \ {0}
  /\ NoPage \notin Nat \cup PageTable
  /\ Asked \subseteq 0 .. MaxRequest

VARIABLES
  bump,        \* the next page nobody has had
  free_list,   \* head of the list of free pages
  link,        \* page -> FreePage::link
  root,        \* the root table: index -> second-level table, or NoPage
  inUse,       \* the pages that are handed out
  request      \* a request for memory

tableVars == <<bump, free_list, link, root, inUse, request>>

TableInit ==
  /\ bump = 0 /\ free_list = NoPage /\ link = [p \in Page |-> NoPage]
  /\ root = [i \in 0 .. LevelSize - 1 |-> NoPage]
  /\ inUse = {} /\ request = 0

-----------------------------------------------------------------------------
(***************************************************************************)
(* HeapPageTable.                                                          *)
(***************************************************************************)

\* walk: the indices into the two tables.  (Mutant: the second one is of the
\* low bits too.)
LowTwice(page)   == <<page % LevelSize, page % LevelSize>>
Indices(page) == <<page % LevelSize, (page \div LevelSize) % LevelSize>>

\* The bound lets one page more than the heap has pass.
InBound(page) == page <= NumPages

\* walk creates the second-level table of the page if there is none.
Walked(page) ==
  LET i == Indices(page)[1]
  IN  IF root[i] # NoPage THEN root
      ELSE [root EXCEPT ![i] = [j \in 0 .. LevelSize - 1 |-> NoPage]]
Set(page, hp) == [Walked(page) EXCEPT ![Indices(page)[1]][Indices(page)[2]] = hp]

\* get and get_unaligned.
GetPage(page)      == IF InBound(page) THEN Walked(page)[Indices(page)[1]][Indices(page)[2]]
                      ELSE NoPage
GetUnaligned(addr) == GetPage(addr \div PageBytes)

-----------------------------------------------------------------------------
(***************************************************************************)
(* PageManager; find_or_alloc_page enters a new page into the table.  The  *)
(* HeapPage of a page goes by the page.                                    *)
(***************************************************************************)
AllocFree ==
  /\ free_list # NoPage
  /\ free_list' = link[free_list]
  /\ root' = Set(free_list, free_list)
  /\ inUse' = inUse \cup {free_list}
  /\ UNCHANGED <<bump, link, request>>

AllocBump ==
  /\ free_list = NoPage /\ bump < NumPages       \* else the program stops
  /\ bump' = bump + 1
  /\ root' = Set(bump, bump)
  /\ inUse' = inUse \cup {bump}
  /\ UNCHANGED <<free_list, link, request>>

\* free_page does not touch the page table.
FreePage(p) ==
  /\ p \in inUse
  /\ link' = [link EXCEPT ![p] = free_list]
  /\ free_list' = p
  /\ inUse' = inUse \ {p}
  /\ UNCHANGED <<bump, root, request>>

\* A lookup leaves a second-level table behind.
Lookup(page) ==
  /\ InBound(page)
  /\ root' = Walked(page)
  /\ UNCHANGED <<bump, free_list, link, inUse, request>>

Ask ==
  /\ request' \in Asked
  /\ UNCHANGED <<bump, free_list, link, root, inUse>>

PagesNext ==
  \/ AllocFree \/ AllocBump
  \/ \E p \in Page : FreePage(p)
  \/ \E p \in Page \cup {NumPages} : Lookup(p)
TableNext == PagesNext \/ Ask

TableSpec == TableInit /\ [][TableNext]_tableVars

-----------------------------------------------------------------------------
(***************************************************************************)
(* Size classes.                                                           *)
(***************************************************************************)

\* cls_sizes, in words of 16 bytes: one by one to 8, then in quarters of powers
\* of two.  (The table in the code is written out.)
ClassWords(cls) ==
  IF cls < 8 THEN cls + 1 ELSE (5 + (cls % 4)) * 2 ^ (cls \div 4 - 1)
NumClasses == 72

\* mi_bsr is 64 too large, since MI_INTPTR_BITS is 128: b << 2 loses that in
\* cls, a byte, and the machine shifts by b - 2 modulo 64.
Bsr(x) == 64 + CHOOSE b \in 0 .. 30 : 2 ^ b <= x /\ x \div 2 ^ b < 2
ClassByte(w) ==
  LET b == Bsr(w)
  IN  ((4 * b) + ((w \div (2 ^ ((b - 2) % 64))) % 4) - 4) % 256
SizeToClass(sz) ==
  LET wsize == Max({1, (sz + 15) \div 16})
  IN  IF wsize < 8 THEN wsize - 1 ELSE ClassByte(wsize - 1)

-----------------------------------------------------------------------------
(***************************************************************************)
(* Properties.                                                             *)
(***************************************************************************)

\* A request gets the smallest size class it fits.
ClassFits ==
  LET cls == SizeToClass(request)
  IN  /\ cls \in 0 .. NumClasses - 1 /\ 16 * ClassWords(cls) >= request
      /\ cls > 0 => 16 * ClassWords(cls - 1) < request

\* The free list holds every page that has been handed out and given back, and
\* it ends.
FreeChain == List(link, NoPage, free_list)
FreeListSound == FreeChain = (0 .. bump - 1) \ inUse /\ Ends(link, NoPage, free_list)

\* A page in use is found by every address in it, whatever pages have been used,
\* given back and looked up before (HeapPageTable), no page is handed out twice
\* (PageManager), and size classes are tight (SizeClass.cpp).
HeapTablesSound ==
  /\ ClassFits
  /\ FreeListSound
  /\ \A p \in inUse : \A a \in 0 .. PageBytes - 1 :
       GetUnaligned(p * PageBytes + a) = p
=============================================================================
