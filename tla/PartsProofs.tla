----------------------------- MODULE PartsProofs -----------------------------
(***************************************************************************)
(* Proofs about the parts of the system that share no state: HeapTables,   *)
(* for tables of any size and pages of any number of bytes; the simulated  *)
(* handle TLB, for any number of handles, sets and ways; its dumps, for    *)
(* any number of threads and dumps; ShardedFreeList, for any number of     *)
(* blocks and freers; and LibAlloc, for any sizes of requests, headers,    *)
(* alignment and pages and any number of regions.                          *)
(***************************************************************************)
EXTENDS HeapTables, HTLB, HotnessDump, ShardedFreeList, LibAlloc, DataLemmas,
        FiniteSetTheorems

-----------------------------------------------------------------------------
(***************************************************************************)
(* A page number is two digits, and the indices are the digits.            *)
(***************************************************************************)

LEMMA Number ==
  ASSUME NEW n \in Nat \ {0}, NEW p \in Nat, NEW d \in 0 .. n - 1
  PROVE  (p * n + d) \div n = p
BY SMT

LEMMA LastDigit ==
  ASSUME NEW n \in Nat \ {0}, NEW p \in 0 .. n * n - 1
  PROVE  (p \div n) % n = p \div n
<1> DEFINE d == p \div n
<1>1. n * n \in Nat /\ p \in Nat /\ p < n * n
  BY SMT
<1>2. d \in Nat /\ p >= n * d
  BY <1>1, Digit
<1> HIDE DEF d
<1>3. ASSUME d >= n PROVE FALSE
  <2>1. n * d >= n * n
    BY <1>2, <1>3, SMT
  <2>2. n * d \in Nat
    BY <1>2, SMT
  <2> QED BY <1>1, <1>2, <2>1, <2>2
<1>4. d \in 0 .. n - 1
  BY <1>2, <1>3
<1>5. d % n = d
  BY <1>4, SMT
<1> QED BY <1>5 DEF d

LEMMA TwoDigits ==
  ASSUME NEW n \in Nat \ {0}, NEW p \in 0 .. n * n - 1, NEW q \in 0 .. n * n - 1,
         p % n = q % n, (p \div n) % n = (q \div n) % n
  PROVE  p = q
<1>1. p \div n = q \div n
  BY LastDigit
<1>2. p \in Nat /\ q \in Nat
  BY SMT
<1>3. p = n * (p \div n) + (p % n)
  BY <1>2, Digit
<1>4. q = n * (q \div n) + (q % n)
  BY <1>2, Digit
<1> QED BY <1>1, <1>3, <1>4, Zenon

LEMMA IndicesType ==
  ASSUME NEW p \in Nat
  PROVE  Indices(p)[1] \in 0 .. LevelSize - 1 /\ Indices(p)[2] \in 0 .. LevelSize - 1
<1>1. LevelSize \in Nat \ {0}
  BY TablesAssumption
<1>2. p % LevelSize \in 0 .. LevelSize - 1 /\ p \div LevelSize \in Nat
  BY <1>1, Digit
<1>3. (p \div LevelSize) % LevelSize \in 0 .. LevelSize - 1
  BY <1>1, <1>2, Digit
<1> QED BY <1>2, <1>3 DEF Indices

LEMMA IndicesTellPagesApart ==
  ASSUME NEW p \in Page, NEW q \in Page, Indices(p) = Indices(q)
  PROVE  p = q
<1>1. p % LevelSize = q % LevelSize
      /\ (p \div LevelSize) % LevelSize = (q \div LevelSize) % LevelSize
  BY DEF Indices
<1>2. /\ LevelSize \in Nat \ {0}
      /\ p \in 0 .. LevelSize * LevelSize - 1 /\ q \in 0 .. LevelSize * LevelSize - 1
  BY TablesAssumption DEF Page, NumPages
<1> QED BY <1>1, <1>2, TwoDigits, Zenon

-----------------------------------------------------------------------------
(***************************************************************************)
(* The inductive invariant: a page in use has its entry, which nothing but *)
(* another owner of the page would write, and the pages that have been     *)
(* handed out are in use or on the free list.                              *)
(***************************************************************************)
EntryIs(p, hp) ==
  root[Indices(p)[1]] # NoPage /\ root[Indices(p)[1]][Indices(p)[2]] = hp

TablesOK ==
  /\ root \in [0 .. LevelSize - 1 -> PageTable \cup {NoPage}]
  /\ inUse \subseteq 0 .. bump - 1
  /\ \A p \in inUse : EntryIs(p, p)

FreePagesOK ==
  /\ bump \in 0 .. NumPages
  /\ free_list \in Page \cup {NoPage}
  /\ link \in [Page -> Page \cup {NoPage}]
  /\ FreeListSound

TableInv == TablesOK /\ FreePagesOK /\ request \in Asked \cup {0}

LEMMA NumPagesType == NumPages \in Nat \ {0} /\ NoPage \notin Page /\ Page \subseteq Nat
<1>1. LevelSize * LevelSize \in Nat \ {0}
  BY TablesAssumption, SMT
<1> QED BY <1>1, TablesAssumption DEF NumPages, Page

\* walk changes no entry.
LEMMA WalkedKeeps ==
  ASSUME TablesOK, NEW q \in Nat
  PROVE  /\ Walked(q) \in [0 .. LevelSize - 1 -> PageTable \cup {NoPage}]
         /\ Walked(q)[Indices(q)[1]] \in PageTable
         /\ \A i \in 0 .. LevelSize - 1 :
              root[i] # NoPage => Walked(q)[i] = root[i]
<1> DEFINE i == Indices(q)[1]
           t == [j \in 0 .. LevelSize - 1 |-> NoPage]
<1>1. i \in 0 .. LevelSize - 1
  BY IndicesType
<1>2. t \in PageTable
  BY DEF PageTable
<1>3. root \in [0 .. LevelSize - 1 -> PageTable \cup {NoPage}]
  BY DEF TablesOK
<1>4. Walked(q) = IF root[i] # NoPage THEN root ELSE [root EXCEPT ![i] = t]
  BY DEF Walked
<1> HIDE DEF i, t
<1>5. CASE root[i] # NoPage
  BY <1>1, <1>3, <1>4, <1>5 DEF i
<1>6. CASE root[i] = NoPage
  BY <1>1, <1>2, <1>3, <1>4, <1>6 DEF i
<1> QED BY <1>5, <1>6

\* Entering a page changes no other page's entry.
LEMMA SetSets ==
  ASSUME TablesOK, NEW q \in Page, inUse \subseteq Page, root' = Set(q, q)
  PROVE  /\ root' \in [0 .. LevelSize - 1 -> PageTable \cup {NoPage}]
         /\ \A p \in inUse \cup {q} : EntryIs(p, p)'
<1>1. q \in Nat
  BY NumPagesType
<1> DEFINE i == Indices(q)[1]
           j == Indices(q)[2]
           w == Walked(q)
<1>2. /\ w \in [0 .. LevelSize - 1 -> PageTable \cup {NoPage}]
      /\ w[i] \in PageTable
      /\ \A k \in 0 .. LevelSize - 1 : root[k] # NoPage => w[k] = root[k]
  BY <1>1, WalkedKeeps
<1>3. i \in 0 .. LevelSize - 1 /\ j \in 0 .. LevelSize - 1
  BY <1>1, IndicesType
<1>4. root' = [w EXCEPT ![i] = [w[i] EXCEPT ![j] = q]]
  BY <1>2, <1>3 DEF Set
<1>5. ASSUME NEW p \in inUse, p # q
      PROVE  Indices(p)[1] # i \/ Indices(p)[2] # j
  <2>1. p \in Page
    BY <1>5
  <2>2. Indices(p) # Indices(q)
    BY <1>5, <2>1, IndicesTellPagesApart
  <2> QED BY <2>2 DEF Indices
<1>6. \A p \in inUse : Indices(p)[1] \in 0 .. LevelSize - 1 /\ Indices(p)[2] \in 0 .. LevelSize - 1
  BY IndicesType, NumPagesType
<1>7. NoPage \notin PageTable
  BY TablesAssumption
<1> HIDE DEF i, j, w
<1>8. [w[i] EXCEPT ![j] = q] \in PageTable
  BY <1>2, <1>3 DEF PageTable
<1>9. root' \in [0 .. LevelSize - 1 -> PageTable \cup {NoPage}]
  BY <1>2, <1>3, <1>4, <1>8
<1>10. EntryIs(q, q)'
  <2>1. root'[i] = [w[i] EXCEPT ![j] = q] /\ root'[i][j] = q
    BY <1>2, <1>3, <1>4 DEF PageTable
  <2>2. root'[i] # NoPage
    BY <1>7, <1>8, <2>1
  <2> QED BY <2>1, <2>2, Zenon DEF EntryIs, i, j
<1>11. ASSUME NEW p \in inUse, p # q PROVE EntryIs(p, p)'
  <2> DEFINE k == Indices(p)[1]
             l == Indices(p)[2]
  <2>1. root[k] # NoPage /\ root[k][l] = p
    BY DEF TablesOK, EntryIs
  <2>2. k \in 0 .. LevelSize - 1 /\ l \in 0 .. LevelSize - 1
    BY <1>6
  <2>3. w[k] = root[k]
    BY <1>2, <2>1, <2>2
  <2>4. k # i \/ l # j
    BY <1>5, <1>11
  <2> HIDE DEF k, l
  <2>5. root'[k] # NoPage /\ root'[k][l] = p
    <3>1. CASE k # i
      BY <1>2, <1>4, <2>1, <2>2, <2>3, <3>1
    <3>2. CASE k = i
      <4>1. root'[k] = [w[i] EXCEPT ![j] = q]
        BY <1>2, <1>3, <1>4, <3>2
      <4>2. w[i][l] = p
        BY <2>1, <2>3, <3>2
      <4> QED BY <1>2, <1>7, <1>8, <2>2, <2>4, <3>2, <4>1, <4>2 DEF PageTable
    <3> QED BY <3>1, <3>2
  <2> QED BY <2>5 DEF EntryIs, k, l
<1> QED BY <1>9, <1>10, <1>11

LEMMA PagesLink ==
  ASSUME FreePagesOK
  PROVE  Links(link, NoPage) /\ DOMAIN link = Page /\ free_list \in DOMAIN link \cup {NoPage}
BY NumPagesType DEF FreePagesOK, Links

LEMMA AllocFreeStep == ASSUME TableInv, AllocFree PROVE TableInv'
<1>1. free_list \in Page /\ Links(link, NoPage) /\ DOMAIN link = Page
  BY PagesLink DEF AllocFree, TableInv, FreePagesOK
<1>2. /\ List(link, NoPage, link[free_list]) = FreeChain \ {free_list}
      /\ free_list \in FreeChain /\ Ends(link, NoPage, link[free_list])
  BY <1>1, EndsPop DEF TableInv, FreePagesOK, FreeListSound, FreeChain
<1>3. /\ free_list' = link[free_list] /\ root' = Set(free_list, free_list)
      /\ inUse' = inUse \cup {free_list} /\ UNCHANGED <<bump, link, request>>
  BY DEF AllocFree
<1>4. bump \in 0 .. NumPages /\ inUse \subseteq 0 .. bump - 1
      /\ FreeChain = (0 .. bump - 1) \ inUse
  BY DEF TableInv, FreePagesOK, FreeListSound, TablesOK
<1>5. FreePagesOK'
  <2>1. FreeChain' = FreeChain \ {free_list}
    BY <1>2, <1>3 DEF FreeChain
  <2>2. FreeChain' = (0 .. bump' - 1) \ inUse'
    BY <1>3, <1>4, <2>1
  <2>3. FreeListSound'
    BY <1>2, <1>3, <2>2 DEF FreeListSound
  <2> QED BY <1>1, <1>3, <2>3 DEF TableInv, FreePagesOK
<1>6. inUse \subseteq Page
  BY <1>4, NumPagesType DEF Page
<1>7. TablesOK'
  BY <1>1, <1>2, <1>3, <1>4, <1>6, SetSets DEF TableInv, TablesOK
<1> QED BY <1>3, <1>5, <1>7 DEF TableInv

LEMMA AllocBumpStep == ASSUME TableInv, AllocBump PROVE TableInv'
<1>1. /\ free_list = NoPage /\ bump < NumPages
      /\ bump' = bump + 1 /\ root' = Set(bump, bump)
      /\ inUse' = inUse \cup {bump} /\ UNCHANGED <<free_list, link, request>>
  BY DEF AllocBump
<1>2. bump \in 0 .. NumPages /\ inUse \subseteq 0 .. bump - 1
      /\ FreeChain = (0 .. bump - 1) \ inUse
  BY DEF TableInv, FreePagesOK, FreeListSound, TablesOK
<1>3. FreeChain = {} /\ FreeChain' = {}
  BY <1>1, ListOfNull DEF FreeChain
<1>4. bump \in Page /\ inUse \subseteq Page
  BY <1>1, <1>2, NumPagesType DEF Page
<1>5. inUse' \subseteq 0 .. bump' - 1 /\ (0 .. bump' - 1) \ inUse' = {}
  BY <1>1, <1>2, <1>3
<1>6. FreePagesOK'
  <2>1. Ends(link', NoPage, free_list')
    BY <1>3 DEF FreeChain, Ends
  <2> QED BY <1>1, <1>2, <1>3, <1>5, <2>1, NumPagesType
          DEF TableInv, FreePagesOK, FreeListSound
<1>7. TablesOK'
  BY <1>1, <1>4, <1>5, SetSets DEF TableInv, TablesOK
<1> QED BY <1>1, <1>6, <1>7 DEF TableInv

LEMMA FreePageStep == ASSUME TableInv, NEW p \in Page, FreePage(p) PROVE TableInv'
<1>1. /\ p \in inUse /\ link' = [link EXCEPT ![p] = free_list] /\ free_list' = p
      /\ inUse' = inUse \ {p} /\ UNCHANGED <<bump, root, request>>
  BY DEF FreePage
<1>2. /\ Links(link, NoPage) /\ DOMAIN link = Page
      /\ free_list \in DOMAIN link \cup {NoPage}
      /\ link \in [Page -> Page \cup {NoPage}]
      /\ Ends(link, NoPage, free_list)
  BY PagesLink DEF TableInv, FreePagesOK, FreeListSound
<1>3. bump \in 0 .. NumPages /\ inUse \subseteq 0 .. bump - 1
      /\ FreeChain = (0 .. bump - 1) \ inUse
  BY DEF TableInv, FreePagesOK, FreeListSound, TablesOK
<1>4. p \notin FreeChain
  BY <1>1, <1>3
<1>5. List(link', NoPage, free_list) = FreeChain /\ Ends(link', NoPage, free_list)
  <2> DEFINE g == [link EXCEPT ![p] = free_list]
  <2>1. List(g, NoPage, free_list) = List(link, NoPage, free_list)
        /\ Ends(g, NoPage, free_list)
    BY <1>2, <1>4, EndsWritten DEF FreeChain
  <2> QED BY <1>1, <2>1 DEF FreeChain
<1>6. link' \in [Page -> Page \cup {NoPage}] /\ link'[p] = free_list
  BY <1>1, <1>2
<1>7. Links(link', NoPage) /\ DOMAIN link' = Page
  BY <1>6, NumPagesType DEF Links
<1>8. FreeChain' = {p} \cup FreeChain /\ Ends(link', NoPage, p)
  <2>1. List(link', NoPage, p) = {p} \cup List(link', NoPage, free_list)
        /\ Ends(link', NoPage, p)
    BY <1>2, <1>4, <1>5, <1>6, <1>7, EndsPush
  <2> QED BY <1>1, <1>5, <2>1 DEF FreeChain
<1>9. FreePagesOK'
  <2>1. FreeChain' = (0 .. bump' - 1) \ inUse'
    BY <1>1, <1>3, <1>8
  <2> QED BY <1>1, <1>3, <1>6, <1>8, <2>1 DEF FreePagesOK, FreeListSound
<1>10. TablesOK'
  BY <1>1 DEF TableInv, TablesOK, EntryIs
<1> QED BY <1>1, <1>9, <1>10 DEF TableInv

LEMMA LookupStep == ASSUME TableInv, NEW q \in Nat, Lookup(q) PROVE TableInv'
<1>1. root' = Walked(q) /\ UNCHANGED <<bump, free_list, link, inUse, request>>
  BY DEF Lookup
<1>2. /\ root' \in [0 .. LevelSize - 1 -> PageTable \cup {NoPage}]
      /\ \A i \in 0 .. LevelSize - 1 : root[i] # NoPage => root'[i] = root[i]
  BY <1>1, WalkedKeeps DEF TableInv
<1>3. \A p \in inUse : Indices(p)[1] \in 0 .. LevelSize - 1
  BY IndicesType DEF TableInv, TablesOK, FreePagesOK
<1>4. TablesOK'
  BY <1>1, <1>2, <1>3 DEF TableInv, TablesOK, EntryIs
<1> QED BY <1>1, <1>4 DEF TableInv, FreePagesOK, FreeListSound, FreeChain

-----------------------------------------------------------------------------
(***************************************************************************)
(* The size classes.  Requests are up to a bound, and so are the powers of *)
(* two they are compared with: a table of them stands in for an induction. *)
(***************************************************************************)
Powers(b) ==
  /\ (b = 0 => 2^b = 2^0) /\ (b = 1 => 2^b = 2^1) /\ (b = 2 => 2^b = 2^2)
  /\ (b = 3 => 2^b = 2^3) /\ (b = 4 => 2^b = 2^4) /\ (b = 5 => 2^b = 2^5)
  /\ (b = 6 => 2^b = 2^6) /\ (b = 7 => 2^b = 2^7) /\ (b = 8 => 2^b = 2^8)
  /\ (b = 9 => 2^b = 2^9) /\ (b = 10 => 2^b = 2^10) /\ (b = 11 => 2^b = 2^11)
  /\ (b = 12 => 2^b = 2^12) /\ (b = 13 => 2^b = 2^13) /\ (b = 14 => 2^b = 2^14)
  /\ (b = 15 => 2^b = 2^15) /\ (b = 16 => 2^b = 2^16) /\ (b = 17 => 2^b = 2^17)
  /\ (b = 18 => 2^b = 2^18) /\ (b = 19 => 2^b = 2^19) /\ (b = 20 => 2^b = 2^20)
  /\ (b = 21 => 2^b = 2^21) /\ (b = 22 => 2^b = 2^22) /\ (b = 23 => 2^b = 2^23)
  /\ (b = 24 => 2^b = 2^24) /\ (b = 25 => 2^b = 2^25) /\ (b = 26 => 2^b = 2^26)
  /\ (b = 27 => 2^b = 2^27) /\ (b = 28 => 2^b = 2^28) /\ (b = 29 => 2^b = 2^29)
  /\ (b = 30 => 2^b = 2^30)

LEMMA PowersHold == ASSUME NEW b PROVE Powers(b)
BY Zenon DEF Powers


\* The words of a request from the eighth one on, less one, and what the powers
\* of two are to them.
LargeWord == 7 .. 4095
Low(x)    == x \in {1, 2}
Middle(x) == x \in 4 .. 2048
High(x)   == x \in Nat /\ x >= 4096

\* What 2^c can be.
LEMMA PowersSmall ==
  ASSUME NEW c \in 0 .. 30
  PROVE  /\ c \in 0 .. 1 => Low(2^c)
         /\ c \in 2 .. 11 => Middle(2^c)
         /\ c \in 12 .. 30 => High(2^c)
<1>1. Powers(c)
  BY PowersHold, Zenon
<1>2. c \in 0 .. 1 => Low(2^c)
  BY <1>1, SMT DEF Powers, Low
<1>3. c \in 2 .. 11 => Middle(2^c)
  BY <1>1, SMT DEF Powers, Middle
<1>4. c \in 12 .. 30 => High(2^c)
  BY <1>1, SMT DEF Powers, High
<1> QED BY <1>2, <1>3, <1>4, Zenon

LEMMA NotLow ==
  ASSUME NEW w \in LargeWord, NEW p, Low(p) PROVE ~(w \div p < 2)
<1>1. w \div 1 >= 2 /\ w \div 2 >= 2
  BY SMT DEF LargeWord
<1> QED BY <1>1, SMT DEF LargeWord, Low

LEMMA NotHigh ==
  ASSUME NEW w \in LargeWord, NEW p, High(p) PROVE ~(p <= w)
BY SMT DEF LargeWord, High

LEMMA InMiddle ==
  ASSUME NEW w \in LargeWord, NEW p, Middle(p), w \div p < 2 PROVE w < 2 * p
BY SMT DEF LargeWord, Middle

LEMMA HasHighestBit ==
  ASSUME NEW w \in LargeWord PROVE \E b \in 0 .. 30 : 2^b <= w /\ w \div 2^b < 2
BY SMT DEF LargeWord

\* The highest bit that is set, with what Bsr adds to it.
LEMMA BsrFinds ==
  ASSUME NEW w \in LargeWord
  PROVE  \E b \in 2 .. 11 : Bsr(w) = 64 + b /\ 2^b <= w /\ w < 2 * 2^b
<1> DEFINE P(b) == 2^b <= w /\ w \div 2^b < 2
           c == CHOOSE b \in 0 .. 30 : P(b)
<1>1. c \in 0 .. 30 /\ P(c)
  <2>1. \E b \in 0 .. 30 : P(b)
    BY HasHighestBit, Zenon
  <2> HIDE DEF P
  <2> QED BY <2>1, Zenon
<1>2. Bsr(w) = 64 + c
  BY DEF Bsr
<1> HIDE DEF c
<1>3. c \in 2 .. 11
  <2>1. c \notin 0 .. 1 /\ c \notin 12 .. 30
    BY <1>1, PowersSmall, NotLow, NotHigh, Zenon
  <2>2. c \in 0 .. 30
    BY <1>1, Zenon
  <2> QED BY <2>1, <2>2, SMT
<1>4. w < 2 * 2^c
  BY <1>1, <1>3, PowersSmall, InMiddle, Zenon
<1> QED BY <1>1, <1>2, <1>3, <1>4, Zenon

QuarterWords == 1 .. 512

LEMMA Quarters ==
  ASSUME NEW k \in 2 .. 11
  PROVE  /\ 2^(k - 2) \in QuarterWords /\ 2^k = 4 * 2^(k - 2)
         /\ k = 2 => 2^(k - 2) = 1
         /\ k > 3 => 2^(k - 3) \in Nat /\ 2^(k - 2) = 2 * 2^(k - 3)
<1>1. Powers(k) /\ Powers(k - 2) /\ Powers(k - 3)
  BY PowersHold
<1> QED BY <1>1, SMT DEF Powers, QuarterWords

\* The quarter of its power of two that w is in.
LEMMA Quarter ==
  ASSUME NEW t \in QuarterWords, NEW w \in LargeWord, 4 * t <= w, w < 2 * (4 * t)
  PROVE  /\ w \div t \in 4 .. 7
         /\ (w \div t) * t <= w /\ w < (w \div t + 1) * t
         /\ (w \div t) * t \in Nat /\ (w \div t + 1) * t \in Nat
<1>1. t \in Nat \ {0} /\ w \in Nat
  BY SMT DEF QuarterWords, LargeWord
<1>2. /\ w \div t \in Nat
      /\ w = t * (w \div t) + (w % t) /\ w % t \in 0 .. t - 1
  BY <1>1, Digit, Zenon
<1>3. PICK q \in Nat, r \in 0 .. t - 1 : q = w \div t /\ w = t * q + r
  BY <1>2, Zenon
<1>4. q \in 4 .. 7
  BY <1>1, <1>3, SMT
<1>5. q * t <= w /\ w < (q + 1) * t /\ q * t \in Nat /\ (q + 1) * t \in Nat
  BY <1>1, <1>3, <1>4, SMT
<1> QED BY <1>3, <1>4, <1>5, Zenon

LEMMA ClassFrom8 ==
  ASSUME NEW cls, ~(cls < 8), NEW r, cls % 4 = r, NEW e, cls \div 4 - 1 = e
  PROVE  ClassWords(cls) = (5 + r) * 2^e
BY Zenon DEF ClassWords

\* The classes of the four quarters of the words from 2^k, given 2^(k - 2).
LEMMA ClassesOf ==
  ASSUME NEW k \in 2 .. 11, NEW q \in 4 .. 7, k = 2 => q = 7
  PROVE  /\ ClassWords(4 * (k - 1) + q - 4) = (q + 1) * 2^(k - 2)
         /\ ClassWords(4 * (k - 1) + q - 5) = q * 2^(k - 2)
<1> DEFINE cls == 4 * (k - 1) + q - 4
           prev == 4 * (k - 1) + q - 5
<1>0. CASE k = 2
  <2>1. cls = 7 /\ prev = 6 /\ q = 7 /\ 2^(k - 2) = 1
    BY <1>0, Quarters
  <2>2. ClassWords(7) = 8 /\ ClassWords(6) = 7
    BY DEF ClassWords
  <2> HIDE DEF cls, prev
  <2>3. ClassWords(cls) = (q + 1) * 2^(k - 2) /\ ClassWords(prev) = q * 2^(k - 2)
    BY <2>1, <2>2
  <2> QED BY <2>3, Zenon DEF cls, prev
<1>1. ASSUME k > 2 PROVE ClassWords(cls) = (q + 1) * 2^(k - 2)
  <2>1. ~(cls < 8) /\ cls % 4 = q - 4 /\ cls \div 4 - 1 = k - 2
    BY <1>1, SMT
  <2>2. 5 + (q - 4) = q + 1
    BY SMT
  <2> HIDE DEF cls
  <2> QED BY <2>1, <2>2, ClassFrom8, Zenon
<1>2. CASE k > 2 /\ q > 4
  <2>1. ~(prev < 8) /\ prev % 4 = q - 5 /\ prev \div 4 - 1 = k - 2
    BY <1>2, SMT
  <2>2. 5 + (q - 5) = q
    BY SMT
  <2> HIDE DEF prev
  <2>3. ClassWords(prev) = q * 2^(k - 2)
    BY <2>1, <2>2, ClassFrom8, Zenon
  <2> QED BY <1>1, <1>2, <2>3, Zenon DEF prev
<1>3. CASE q = 4 /\ k > 3
  <2>1. ~(prev < 8) /\ prev % 4 = 3 /\ prev \div 4 - 1 = k - 3
    BY <1>3, SMT
  <2> HIDE DEF prev
  <2>2. ClassWords(prev) = (5 + 3) * 2^(k - 3)
    BY <2>1, ClassFrom8, Zenon
  <2>3. 2^(k - 3) \in Nat /\ 2^(k - 2) = 2 * 2^(k - 3)
    BY <1>3, Quarters, Zenon
  <2>4. (5 + 3) * 2^(k - 3) = 4 * (2 * 2^(k - 3)) /\ k > 2
    BY <1>3, <2>3, SMT
  <2> QED BY <1>1, <1>3, <2>2, <2>3, <2>4, Zenon DEF prev
<1>4. CASE q = 4 /\ k = 3
  <2>1. prev = 7 /\ 2^(k - 2) = 2^1
    BY <1>4
  <2>2. ClassWords(7) = 8
    BY DEF ClassWords
  <2>3. q * 2^1 = 8
    BY <1>4
  <2>4. k > 2
    BY <1>4
  <2> QED BY <1>1, <2>1, <2>2, <2>3, <2>4, Zenon
<1>5. k = 2 \/ (k > 2 /\ q > 4) \/ (q = 4 /\ k > 3) \/ (q = 4 /\ k = 3)
  BY SMT
<1> QED BY <1>0, <1>2, <1>3, <1>4, <1>5, Zenon

LEMMA ClassByteIs ==
  ASSUME NEW w, NEW k \in 2 .. 11, Bsr(w) = 64 + k,
         NEW q \in 4 .. 7, q = w \div 2^(k - 2)
  PROVE  ClassByte(w) = 4 * (k - 1) + q - 4
<1>1. (Bsr(w) - 2) % 64 = k - 2
  BY SMT
<1>2. ClassByte(w) = ((4 * Bsr(w)) + (q % 4) - 4) % 256
  BY <1>1 DEF ClassByte
<1>3. ((4 * (64 + k)) + (q % 4) - 4) % 256 = 4 * (k - 1) + q - 4
  BY SMT
<1> QED BY <1>2, <1>3

LEMMA LargeClass ==
  ASSUME NEW w \in LargeWord
  PROVE  \E cls \in 7 .. NumClasses - 1 :
           /\ cls = ClassByte(w)
           /\ ClassWords(cls) \in Nat /\ w < ClassWords(cls)
           /\ ClassWords(cls - 1) \in Nat /\ ClassWords(cls - 1) <= w
<1>1. PICK k \in 2 .. 11 : Bsr(w) = 64 + k /\ 2^k <= w /\ w < 2 * 2^k
  BY BsrFinds, Zenon
<1>2. PICK t : t = 2^(k - 2)
  OBVIOUS
<1>3. t \in QuarterWords /\ 4 * t <= w /\ w < 2 * (4 * t)
  BY <1>1, <1>2, Quarters, Zenon
<1>4. PICK q \in 4 .. 7 : /\ q = w \div t /\ q * t <= w /\ w < (q + 1) * t
                         /\ q * t \in Nat /\ (q + 1) * t \in Nat
  BY <1>3, Quarter, Zenon
<1>9. k = 2 => q = 7
  <2>1. k = 2 => t = 1
    BY <1>2, Quarters, Zenon
  <2>2. ASSUME t = 1 PROVE q = 7
    <3>1. w \in Nat /\ 7 <= w /\ w < 8
      BY <1>3, <2>2, SMT DEF LargeWord
    <3>2. q = w \div 1
      BY <1>4, <2>2
    <3> QED BY <3>1, <3>2, SMT
  <2> QED BY <2>1, <2>2
<1>5. PICK cls : cls = 4 * (k - 1) + q - 4
  OBVIOUS
<1>6. cls = ClassByte(w)
  BY <1>1, <1>2, <1>4, <1>5, ClassByteIs, Zenon
<1>7. cls \in 7 .. NumClasses - 1 /\ cls - 1 = 4 * (k - 1) + q - 5
  BY <1>5, <1>9, SMTT(30) DEF NumClasses
<1>8. ClassWords(cls) = (q + 1) * t /\ ClassWords(cls - 1) = q * t
  BY <1>2, <1>4, <1>5, <1>7, <1>9, ClassesOf, Zenon
<1> QED BY <1>4, <1>6, <1>7, <1>8, Zenon
LEMMA MaxOf1 ==
  ASSUME NEW n \in Nat PROVE Max({1, n}) = IF n < 1 THEN 1 ELSE n
<1> DEFINE m == IF n < 1 THEN 1 ELSE n
<1>1. m \in {1, n} /\ \A x \in {1, n} : m >= x
  OBVIOUS
<1>2. \A x \in {1, n} : (\A y \in {1, n} : x >= y) => x = m
  BY SMT
<1> HIDE DEF m
<1>3. Max({1, n}) \in {1, n} /\ \A y \in {1, n} : Max({1, n}) >= y
  BY <1>1, Zenon DEF Max
<1>4. Max({1, n}) = m
  BY <1>2, <1>3, Zenon
<1> QED BY <1>4 DEF m


AnyRequest == 0 .. MaxRequest

LEMMA RequestRange ==
  ASSUME NEW sz \in AnyRequest PROVE sz \in Nat /\ sz <= 65534
<1>1. MaxRequest = 65534
  BY DEF MaxRequest
<1> QED BY <1>1, SMT DEF AnyRequest

\* The words of a request, less one.
LEMMA WordsOf ==
  ASSUME NEW sz \in AnyRequest
  PROVE  \E w \in Nat :
           /\ Max({1, (sz + 15) \div 16}) = w + 1 /\ (w < 7 \/ w \in LargeWord)
           /\ sz <= 16 * (w + 1) /\ (w > 0 => 16 * w < sz)
<1>0. sz \in Nat /\ sz <= 65534
  BY RequestRange
<1>1. PICK n \in Nat : n = (sz + 15) \div 16
  BY <1>0, SMT
<1>2. n <= 4096 /\ sz <= 16 * n /\ (n > 0 => 16 * (n - 1) < sz)
  BY <1>0, <1>1, SMT
<1>3. Max({1, n}) = IF n < 1 THEN 1 ELSE n
  BY MaxOf1, Zenon
<1> DEFINE w == IF n < 1 THEN 0 ELSE n - 1
<1>4. w \in Nat /\ w + 1 = (IF n < 1 THEN 1 ELSE n)
  BY SMT
<1>5. w < 7 \/ w \in LargeWord
  BY <1>2, SMT DEF LargeWord
<1>6. sz <= 16 * (w + 1) /\ (w > 0 => 16 * w < sz)
  BY <1>0, <1>2, SMT
<1> HIDE DEF w
<1> QED BY <1>1, <1>3, <1>4, <1>5, <1>6, Zenon

Fits(cls, sz) ==
  /\ cls \in 0 .. NumClasses - 1 /\ 16 * ClassWords(cls) >= sz
  /\ cls > 0 => 16 * ClassWords(cls - 1) < sz

\* size_to_class gives every request the smallest class it fits.
LEMMA ClassesFit == ASSUME NEW sz \in AnyRequest PROVE Fits(SizeToClass(sz), sz)
<1>1. PICK w \in Nat :
        /\ Max({1, (sz + 15) \div 16}) = w + 1 /\ (w < 7 \/ w \in LargeWord)
        /\ sz <= 16 * (w + 1) /\ (w > 0 => 16 * w < sz)
  BY WordsOf, Zenon
<1>2. w + 1 - 1 = w
  OBVIOUS
<1>3. CASE w < 7
  <2>1. SizeToClass(sz) = w
    BY <1>1, <1>2, <1>3 DEF SizeToClass
  <2>2. ClassWords(w) = w + 1 /\ ClassWords(w - 1) = w
    BY <1>3 DEF ClassWords
  <2>3. w \in 0 .. NumClasses - 1
    BY <1>3 DEF NumClasses
  <2>4. sz \in Nat
    BY RequestRange
  <2> QED BY <1>1, <1>3, <2>1, <2>2, <2>3, <2>4 DEF Fits
<1>4. CASE w \in LargeWord
  <2>1. ~(w + 1 < 8)
    BY <1>4 DEF LargeWord
  <2>2. SizeToClass(sz) = ClassByte(w)
    BY <1>1, <1>2, <2>1 DEF SizeToClass
  <2>3. PICK cls \in 7 .. NumClasses - 1 :
           /\ cls = ClassByte(w)
           /\ ClassWords(cls) \in Nat /\ w < ClassWords(cls)
           /\ ClassWords(cls - 1) \in Nat /\ ClassWords(cls - 1) <= w
    BY <1>4, LargeClass, Zenon
  <2>4. sz \in Nat /\ w > 0
    BY <1>4, RequestRange DEF LargeWord
  <2>5. 16 * ClassWords(cls) >= sz /\ 16 * ClassWords(cls - 1) < sz
    BY <1>1, <2>3, <2>4, SMT
  <2>6. cls \in 0 .. NumClasses - 1
    BY <2>3, SMT DEF NumClasses
  <2> QED BY <2>2, <2>3, <2>5, <2>6, Zenon DEF Fits
<1> QED BY <1>1, <1>3, <1>4, Zenon

-----------------------------------------------------------------------------
LEMMA TableInvInit == TableInit => TableInv
<1> SUFFICES ASSUME TableInit PROVE TableInv
  OBVIOUS
<1>1. FreeChain = {} /\ Ends(link, NoPage, free_list)
  BY ListOfNull DEF TableInit, FreeChain, Ends
<1>2. FreePagesOK
  BY <1>1, NumPagesType DEF TableInit, FreePagesOK, FreeListSound
<1>3. TablesOK
  BY DEF TableInit, TablesOK
<1> QED BY <1>2, <1>3 DEF TableInit, TableInv

LEMMA TableInvStep == TableInv /\ [TableNext]_tableVars => TableInv'
<1> SUFFICES ASSUME TableInv, [TableNext]_tableVars PROVE TableInv'
  OBVIOUS
<1>1. CASE UNCHANGED tableVars
  BY <1>1 DEF tableVars, TableInv, TablesOK, EntryIs, FreePagesOK, FreeListSound, FreeChain
<1>2. CASE Ask
  BY <1>2 DEF Ask, TableInv, TablesOK, EntryIs, FreePagesOK, FreeListSound, FreeChain
<1>3. ASSUME NEW q \in Page \cup {NumPages}, Lookup(q) PROVE TableInv'
  BY <1>3, LookupStep, NumPagesType
<1> QED BY <1>1, <1>2, <1>3, AllocFreeStep, AllocBumpStep, FreePageStep
        DEF TableNext, PagesNext

\* A lookup of an address of a page in use finds the page.
LEMMA InUseFound ==
  ASSUME TableInv, NEW p \in inUse, NEW a \in 0 .. PageBytes - 1
  PROVE  GetUnaligned(p * PageBytes + a) = p
<1>1. p \in 0 .. NumPages - 1 /\ NumPages \in Nat
  BY NumPagesType DEF TableInv, TablesOK, FreePagesOK
<1>2. (p * PageBytes + a) \div PageBytes = p
  <2>1. p \in Nat /\ PageBytes \in Nat \ {0}
    BY <1>1, TablesAssumption
  <2> QED BY <2>1, Number, Zenon
<1>3. InBound(p)
  BY <1>1 DEF InBound
<1>4. Walked(p) = root /\ root[Indices(p)[1]][Indices(p)[2]] = p
  BY DEF TableInv, TablesOK, EntryIs, Walked
<1> QED BY <1>2, <1>3, <1>4 DEF GetUnaligned, GetPage

\* Every request has the smallest size class it fits, no page is handed out
\* twice or lost, and a lookup of any address of a page in use finds the page,
\* for any depth of the tables and whatever has been given back before
\* (SizeClass.cpp, PageManager and HeapPageTable of Heap.cpp).
THEOREM TablesCorrect == TableSpec => []HeapTablesSound
<1>1. TableInv => HeapTablesSound
  <2> SUFFICES ASSUME TableInv PROVE HeapTablesSound
    OBVIOUS
  <2>1. request \in AnyRequest
    <3>1. Asked \subseteq AnyRequest
      BY TablesAssumption, Zenon DEF AnyRequest
    <3>2. 0 \in AnyRequest
      BY SMT DEF AnyRequest, MaxRequest
    <3>3. request \in Asked \/ request = 0
      BY DEF TableInv
    <3> QED BY <3>1, <3>2, <3>3, Zenon
  <2>2. ClassFits
    BY <2>1, ClassesFit, Zenon DEF ClassFits, Fits
  <2> QED BY <2>2, InUseFound DEF TableInv, FreePagesOK, HeapTablesSound
<1> QED BY <1>1, TableInvInit, TableInvStep, PTL DEF TableSpec

-----------------------------------------------------------------------------
(***************************************************************************)
(* The simulated handle TLB: the oldest line of a set.                     *)
(***************************************************************************)
LineType    == [hid : Handle \cup {0}, valid : BOOLEAN, last_used : Nat]
Level(n, w) == [0 .. n - 1 -> [1 .. w -> LineType]]

LEMMA OldestIn ==
  ASSUME NEW w \in Nat \ {0}, NEW set \in [1 .. w -> LineType]
  PROVE  Oldest(set) \in 1 .. w
<1> DEFINE U == {set[v].last_used : v \in 1 .. w}
           O == {v \in DOMAIN set : \A u \in DOMAIN set : set[v].last_used <= set[u].last_used}
<1>1. \A v \in 1 .. w : set[v].last_used \in Nat
  BY DEF LineType
<1>2. U \subseteq Nat /\ U # {}
  BY <1>1
<1>3. PICK n \in U : \A m \in U : n <= m
  <2> HIDE DEF U
  <2> QED BY <1>2, LeastElement
<1>4. O # {} /\ O \subseteq Nat /\ O \subseteq 1 .. w
  <2>1. DOMAIN set = 1 .. w
    OBVIOUS
  <2>2. O \subseteq 1 .. w
    BY <2>1, Zenon
  <2>3. PICK v \in 1 .. w : n = set[v].last_used
    OBVIOUS
  <2>4. \A u \in 1 .. w : set[u].last_used \in U
    OBVIOUS
  <2>5. v \in O
    BY <1>3, <2>1, <2>3, <2>4, Zenon
  <2> HIDE DEF O
  <2> QED BY <2>2, <2>5
<1>5. Oldest(set) = Min(O)
  BY DEF Oldest
<1> HIDE DEF O
<1> QED BY <1>4, <1>5, MinIn

\* The line a hit finds.
LEMMA FirstHeld ==
  ASSUME NEW w \in Nat, NEW set \in [1 .. w -> LineType], NEW h, Holds(set, h) # {}
  PROVE  /\ Min(Holds(set, h)) \in 1 .. w
         /\ set[Min(Holds(set, h))].valid /\ set[Min(Holds(set, h))].hid = h
<1>1. Holds(set, h) \subseteq Nat
  BY DEF Holds
<1>2. Min(Holds(set, h)) \in Holds(set, h)
  BY <1>1, MinIn
<1> QED BY <1>2 DEF Holds

-----------------------------------------------------------------------------
(***************************************************************************)
(* What holds of a level: a valid line is in the set of its handle, where  *)
(* no other line has the handle, and was used after the handle was removed *)
(* last.                                                                   *)
(***************************************************************************)
LineOK(line, s, n, removed) ==
  line.valid => /\ line.hid \in Handle /\ line.hid % n = s
                /\ line.last_used > removed[line.hid]

LevelOK(level, n, w, removed) ==
  /\ level \in Level(n, w)
  /\ \A s \in 0 .. n - 1 : \A v \in 1 .. w :
       /\ LineOK(level[s][v], s, n, removed)
       /\ \A u \in 1 .. w :
            level[s][u].valid /\ level[s][v].valid /\ level[s][u].hid = level[s][v].hid
              => u = v

HTLBInv ==
  /\ time \in Nat /\ since \in [Handle -> 0 .. time]
  /\ LevelOK(l1, L1Sets, L1Ways, since)
  /\ LevelOK(l2, L2Sets, L2Ways, since)
  /\ ~aborted

LEMMA LevelReplaced ==
  ASSUME NEW n \in Nat, NEW w \in Nat, NEW removed, NEW level, LevelOK(level, n, w, removed),
         NEW s \in 0 .. n - 1, NEW v \in 1 .. w,
         NEW line \in LineType, LineOK(line, s, n, removed), Holds(level[s], line.hid) = {}
  PROVE  LevelOK([level EXCEPT ![s][v] = line], n, w, removed)
<1> DEFINE set == [level[s] EXCEPT ![v] = line]
           new == [level EXCEPT ![s] = set]
<1>1. level \in Level(n, w) /\ level[s] \in [1 .. w -> LineType]
  BY DEF LevelOK, Level
<1>2. set \in [1 .. w -> LineType] /\ set[v] = line
      /\ \A u \in 1 .. w : u # v => set[u] = level[s][u]
  BY <1>1
<1>3. \A u \in 1 .. w : level[s][u].valid => level[s][u].hid # line.hid
  BY <1>1 DEF Holds
<1> HIDE DEF set
<1>4. new \in Level(n, w) /\ new[s] = set
      /\ \A r \in 0 .. n - 1 : r # s => new[r] = level[r]
  BY <1>1, <1>2 DEF Level
<1> HIDE DEF new
<1>5. ASSUME NEW r \in 0 .. n - 1, NEW x \in 1 .. w
      PROVE  LineOK(new[r][x], r, n, removed)
  BY <1>2, <1>4 DEF LevelOK
<1>6. ASSUME NEW r \in 0 .. n - 1, NEW x \in 1 .. w, NEW y \in 1 .. w,
             new[r][y].valid, new[r][x].valid, new[r][y].hid = new[r][x].hid
      PROVE  y = x
  BY <1>2, <1>3, <1>4, <1>6 DEF LevelOK
<1>7. LevelOK(new, n, w, removed)
  BY <1>4, <1>5, <1>6 DEF LevelOK
<1> QED BY <1>7 DEF new, set

\* Marking lines as not valid, and new clocks for the valid ones that are left.
LEMMA LevelWeaker ==
  ASSUME NEW n \in Nat, NEW w \in Nat, NEW removed, NEW level, LevelOK(level, n, w, removed),
         NEW removed2, NEW new \in Level(n, w),
         \A s \in 0 .. n - 1 : \A v \in 1 .. w :
           new[s][v].valid => /\ level[s][v].valid /\ new[s][v].hid = level[s][v].hid
                              /\ new[s][v].last_used > removed2[new[s][v].hid]
  PROVE  LevelOK(new, n, w, removed2)
<1>1. ASSUME NEW s \in 0 .. n - 1, NEW v \in 1 .. w PROVE LineOK(new[s][v], s, n, removed2)
  BY DEF LevelOK, LineOK
<1>2. ASSUME NEW s \in 0 .. n - 1, NEW v \in 1 .. w, NEW u \in 1 .. w,
             new[s][u].valid, new[s][v].valid, new[s][u].hid = new[s][v].hid
      PROVE  u = v
  BY <1>2 DEF LevelOK
<1> QED BY <1>1, <1>2 DEF LevelOK

LEMMA LevelPulled ==
  ASSUME NEW n \in Nat, NEW w \in Nat, NEW removed, NEW level, LevelOK(level, n, w, removed),
         NEW s \in 0 .. n - 1, NEW h \in Handle
  PROVE  LevelOK(Pulled(level, s, h), n, w, removed) /\ Holds(Pulled(level, s, h)[s], h) = {}
<1>1. level \in Level(n, w) /\ level[s] \in [1 .. w -> LineType]
  BY DEF LevelOK, Level
<1>2. CASE Holds(level[s], h) = {}
  BY <1>2 DEF Pulled
<1>3. CASE Holds(level[s], h) # {}
  <2> DEFINE v == Min(Holds(level[s], h))
             line == [level[s][v] EXCEPT !.valid = FALSE]
             new == [level EXCEPT ![s][v].valid = FALSE]
  <2>1. v \in 1 .. w /\ level[s][v].valid /\ level[s][v].hid = h
    BY <1>1, <1>3, FirstHeld
  <2>2. Pulled(level, s, h) = new
    BY <1>3 DEF Pulled
  <2> HIDE DEF v
  <2>3. v \in 1 .. w /\ level[s][v].valid /\ level[s][v].hid = h /\ level[s][v] \in LineType
    BY <1>1, <2>1
  <2>4. line \in LineType /\ ~line.valid
    BY <2>3 DEF LineType
  <2>5. new = [level EXCEPT ![s] = [level[s] EXCEPT ![v] = line]]
    BY <1>1, <2>3
  <2> HIDE DEF line, new
  <2>6. /\ new \in Level(n, w) /\ new[s][v] = line
        /\ \A r \in 0 .. n - 1, x \in 1 .. w : <<r, x>> # <<s, v>> => new[r][x] = level[r][x]
    BY <1>1, <2>3, <2>4, <2>5 DEF Level
  <2>7. LevelOK(new, n, w, removed)
    <3>1. ASSUME NEW r \in 0 .. n - 1, NEW x \in 1 .. w, new[r][x].valid
          PROVE  new[r][x] = level[r][x]
      BY <2>4, <2>6, <3>1
    <3>2. ASSUME NEW r \in 0 .. n - 1, NEW x \in 1 .. w, new[r][x].valid
          PROVE  new[r][x].last_used > removed[new[r][x].hid]
      BY <3>1, <3>2 DEF LevelOK, LineOK
    <3> QED BY <2>6, <3>1, <3>2, LevelWeaker
  <2>8. Holds(new[s], h) = {}
    <3>1. ASSUME NEW x \in 1 .. w, new[s][x].valid, new[s][x].hid = h PROVE FALSE
      <4>1. x # v
        BY <2>4, <2>6, <3>1
      <4>2. new[s][x] = level[s][x]
        BY <2>6, <4>1
      <4> QED BY <2>3, <3>1, <4>1, <4>2 DEF LevelOK
    <3>2. DOMAIN new[s] = 1 .. w
      BY <2>6 DEF Level
    <3> QED BY <3>1, <3>2 DEF Holds
  <2> QED BY <2>2, <2>7, <2>8
<1> QED BY <1>2, <1>3

LEMMA LevelTouched ==
  ASSUME NEW n \in Nat, NEW w \in Nat, NEW removed, NEW level, LevelOK(level, n, w, removed),
         NEW s \in 0 .. n - 1, NEW v \in 1 .. w, NEW t \in Nat, t > removed[level[s][v].hid]
  PROVE  LevelOK([level EXCEPT ![s][v].last_used = t], n, w, removed)
<1> DEFINE line == [level[s][v] EXCEPT !.last_used = t]
           new == [level EXCEPT ![s][v].last_used = t]
<1>1. level \in Level(n, w) /\ level[s] \in [1 .. w -> LineType] /\ level[s][v] \in LineType
  BY DEF LevelOK, Level
<1>2. line \in LineType /\ line.valid = level[s][v].valid /\ line.hid = level[s][v].hid
      /\ line.last_used = t
  BY <1>1 DEF LineType
<1>3. new = [level EXCEPT ![s] = [level[s] EXCEPT ![v] = line]]
  BY <1>1
<1> HIDE DEF line, new
<1>4. /\ new \in Level(n, w) /\ new[s][v] = line
      /\ \A r \in 0 .. n - 1, x \in 1 .. w : <<r, x>> # <<s, v>> => new[r][x] = level[r][x]
  BY <1>1, <1>2, <1>3 DEF Level
<1>5. ASSUME NEW r \in 0 .. n - 1, NEW x \in 1 .. w, new[r][x].valid
      PROVE  /\ level[r][x].valid /\ new[r][x].hid = level[r][x].hid
             /\ new[r][x].last_used > removed[new[r][x].hid]
  <2>1. CASE r = s /\ x = v
    BY <1>2, <1>4, <1>5, <2>1
  <2>2. CASE ~(r = s /\ x = v)
    <3>1. new[r][x] = level[r][x]
      BY <1>4, <2>2
    <3> QED BY <1>5, <3>1 DEF LevelOK, LineOK
  <2> QED BY <2>1, <2>2
<1>6. LevelOK(new, n, w, removed)
  BY <1>4, <1>5, LevelWeaker
<1> QED BY <1>6 DEF new

\* removed is as before, but for h.
LEMMA LevelWithout ==
  ASSUME NEW n \in Nat, NEW w \in Nat, NEW removed, NEW level, LevelOK(level, n, w, removed),
         NEW h \in Handle, NEW removed2,
         \A k \in Handle : k # h => removed2[k] = removed[k]
  PROVE  LevelOK(Without(level, h), n, w, removed2)
<1> DEFINE new == Without(level, h)
<1>1. level \in Level(n, w) /\ \A s \in 0 .. n - 1 : level[s] \in [1 .. w -> LineType]
  BY DEF LevelOK, Level
<1>2. new = [s \in 0 .. n - 1 |-> [v \in 1 .. w |->
               IF level[s][v].hid = h THEN Empty(0) ELSE level[s][v]]]
  BY <1>1 DEF Without, Level
<1>3. Empty(0) \in LineType /\ ~Empty(0).valid
  BY DEF Empty, LineType
<1>4. \A s \in 0 .. n - 1, v \in 1 .. w : level[s][v] \in LineType
  BY <1>1
<1> HIDE DEF new
<1>5. /\ new \in Level(n, w)
      /\ \A s \in 0 .. n - 1, v \in 1 .. w :
           new[s][v] = IF level[s][v].hid = h THEN Empty(0) ELSE level[s][v]
  BY <1>2, <1>3, <1>4 DEF Level
<1>6. ASSUME NEW s \in 0 .. n - 1, NEW v \in 1 .. w, new[s][v].valid
      PROVE  /\ level[s][v].valid /\ new[s][v].hid = level[s][v].hid
             /\ new[s][v].last_used > removed2[new[s][v].hid]
  <2>1. new[s][v] = level[s][v] /\ level[s][v].hid # h
    BY <1>3, <1>5, <1>6
  <2>2. removed2[level[s][v].hid] = removed[level[s][v].hid]
    BY <1>6, <2>1 DEF LevelOK, LineOK
  <2> QED BY <1>6, <2>1, <2>2 DEF LevelOK, LineOK
<1>7. LevelOK(new, n, w, removed2)
  BY <1>5, <1>6, LevelWeaker
<1> QED BY <1>7 DEF new

LEMMA LevelReset ==
  ASSUME NEW n \in Nat, NEW w \in Nat, NEW removed, NEW level, NEW new \in Level(n, w),
         \A s \in 0 .. n - 1, v \in 1 .. w : ~new[s][v].valid
  PROVE  LevelOK(new, n, w, removed)
BY DEF LevelOK, LineOK

-----------------------------------------------------------------------------
LEMMA Sizes ==
  /\ L1Sets \in Nat \ {0} /\ L2Sets \in Nat \ {0}
  /\ L1Ways \in Nat \ {0} /\ L2Ways \in Nat \ {0}
  /\ Handle \subseteq Nat \ {0}
BY HTLBAssumption

LEMMA HTLBBegins == HTLBInit(Unwritten) => HTLBInv
<1> SUFFICES ASSUME HTLBInit(Unwritten) PROVE HTLBInv
  OBVIOUS
<1>1. \A u \in Unwritten : Empty(u) \in LineType /\ ~Empty(u).valid
  BY HTLBAssumption DEF Empty, LineType
<1>2. ASSUME NEW n \in Nat, NEW w \in Nat,
             NEW level \in [0 .. n - 1 -> [1 .. w -> {Empty(u) : u \in Unwritten}]]
      PROVE  LevelOK(level, n, w, since)
  <2> DEFINE E == {Empty(u) : u \in Unwritten}
  <2>1. \A e \in E : e \in LineType /\ ~e.valid
    BY <1>1
  <2>2. level \in [0 .. n - 1 -> [1 .. w -> E]]
    OBVIOUS
  <2> HIDE DEF E
  <2>3. \A s \in 0 .. n - 1 : level[s] \in [1 .. w -> LineType]
    BY <2>1, <2>2
  <2>4. level \in Level(n, w)
    BY <2>2, <2>3 DEF Level
  <2>5. \A s \in 0 .. n - 1, v \in 1 .. w : ~level[s][v].valid
    BY <2>1, <2>2
  <2> QED BY <2>4, <2>5, LevelReset
<1>3. time = 0 /\ since \in [Handle -> 0 .. time] /\ ~aborted
  BY DEF HTLBInit
<1>4. LevelOK(l1, L1Sets, L1Ways, since) /\ LevelOK(l2, L2Sets, L2Ways, since)
  BY <1>2, Sizes DEF HTLBInit
<1> QED BY <1>3, <1>4 DEF HTLBInv

LEMMA AccessKeeps == ASSUME HTLBInv, NEW h \in Handle, Access(h) PROVE HTLBInv'
<1> DEFINE s     == h % L1Sets
           z     == h % L2Sets
           found == Holds(l2[z], h) # {}
           line  == [hid |-> h, valid |-> found \/ h \in live, last_used |-> time + 1]
           after == Pulled(l2, z, h)
<1>1. h \in Nat /\ s \in 0 .. L1Sets - 1 /\ z \in 0 .. L2Sets - 1
  BY Sizes, SMT
<1>2. /\ time \in Nat /\ time' = time + 1 /\ since' = since /\ since \in [Handle -> 0 .. time]
      /\ since' \in [Handle -> 0 .. time'] /\ time + 1 > since[h]
  BY DEF HTLBInv, Access
<1>3. LevelOK(l1, L1Sets, L1Ways, since) /\ LevelOK(l2, L2Sets, L2Ways, since) /\ ~aborted
  BY DEF HTLBInv
<1>4. CASE Holds(l1[s], h) # {}
  <2>1. PICK v : v = Min(Holds(l1[s], h))
    OBVIOUS
  <2>2. l1' = [l1 EXCEPT ![s][v].last_used = time + 1] /\ UNCHANGED <<l2, aborted>>
    BY <1>4, <2>1 DEF Access
  <2>3. v \in 1 .. L1Ways /\ l1[s][v].hid = h
    <3>1. l1[s] \in [1 .. L1Ways -> LineType]
      BY <1>1, <1>3 DEF LevelOK, Level
    <3> HIDE DEF s
    <3> QED BY <1>4, <2>1, <3>1, FirstHeld, Sizes
  <2> HIDE DEF s
  <2>4. LevelOK(l1', L1Sets, L1Ways, since)
    <3>1. time + 1 \in Nat /\ time + 1 > since[l1[s][v].hid]
      BY <1>2, <2>3
    <3>2. L1Sets \in Nat /\ L1Ways \in Nat
      BY Sizes
    <3>3. LevelOK([l1 EXCEPT ![s][v].last_used = time + 1], L1Sets, L1Ways, since)
      BY <1>1, <1>3, <2>3, <3>1, <3>2, LevelTouched
    <3> QED BY <2>2, <3>3
  <2> QED BY <1>2, <1>3, <2>2, <2>4 DEF HTLBInv
<1>5. CASE Holds(l1[s], h) = {}
  <2>1. PICK v : v = Oldest(l1[s])
    OBVIOUS
  <2>2. PICK u : u = Oldest(after[z])
    OBVIOUS
  <2>3. /\ l1' = [l1 EXCEPT ![s][v] = line]
        /\ aborted' = (line.valid /\ Holds(after[z], h) # {})
        /\ l2' = IF line.valid /\ ~aborted' THEN [after EXCEPT ![z][u] = line] ELSE after
    BY <1>5, <2>1, <2>2 DEF Access
  <2>4. line \in LineType /\ LineOK(line, s, L1Sets, since) /\ LineOK(line, z, L2Sets, since)
        /\ line.hid = h
    BY <1>1, <1>2 DEF LineType, LineOK
  <2>5. LevelOK(after, L2Sets, L2Ways, since) /\ Holds(after[z], h) = {}
    BY <1>1, <1>3, LevelPulled, Sizes
  <2>6. v \in 1 .. L1Ways /\ u \in 1 .. L2Ways
    <3>1. l1[s] \in [1 .. L1Ways -> LineType] /\ after[z] \in [1 .. L2Ways -> LineType]
      BY <1>1, <1>3, <2>5 DEF LevelOK, Level
    <3> QED BY <2>1, <2>2, <3>1, OldestIn, Sizes
  <2> HIDE DEF s, z, after, line
  <2>7. LevelOK(l1', L1Sets, L1Ways, since)
    BY <1>1, <1>3, <1>5, <2>3, <2>4, <2>6, LevelReplaced, Sizes
  <2>8. LevelOK([after EXCEPT ![z][u] = line], L2Sets, L2Ways, since)
    BY <1>1, <2>4, <2>5, <2>6, LevelReplaced, Sizes
  <2>9. ~aborted' /\ LevelOK(l2', L2Sets, L2Ways, since)
    BY <2>3, <2>5, <2>8
  <2> QED BY <1>2, <2>7, <2>9 DEF HTLBInv
<1> QED BY <1>4, <1>5

LEMMA InvalidateKeeps == ASSUME HTLBInv, NEW h \in Handle, Invalidate(h) PROVE HTLBInv'
<1>1. /\ l1' = Without(l1, h) /\ l2' = Without(l2, h)
      /\ since' = [since EXCEPT ![h] = time] /\ time' = time /\ aborted' = aborted
  BY DEF Invalidate
<1>2. time \in Nat /\ since \in [Handle -> 0 .. time] /\ ~aborted
      /\ LevelOK(l1, L1Sets, L1Ways, since) /\ LevelOK(l2, L2Sets, L2Ways, since)
  BY DEF HTLBInv
<1>3. since' \in [Handle -> 0 .. time] /\ \A k \in Handle : k # h => since'[k] = since[k]
  BY <1>1, <1>2
<1>4. LevelOK(l1', L1Sets, L1Ways, since')
  BY <1>1, <1>2, <1>3, LevelWithout, Sizes
<1>5. LevelOK(l2', L2Sets, L2Ways, since')
  BY <1>1, <1>2, <1>3, LevelWithout, Sizes
<1> QED BY <1>1, <1>2, <1>3, <1>4, <1>5 DEF HTLBInv

LEMMA ResetKeeps == ASSUME HTLBInv, Reset PROVE HTLBInv'
<1>1. /\ l1' = [s \in DOMAIN l1 |-> [w \in DOMAIN l1[s] |-> [l1[s][w] EXCEPT !.valid = FALSE]]]
      /\ l2' = [s \in DOMAIN l2 |-> [w \in DOMAIN l2[s] |-> Empty(0)]]
      /\ UNCHANGED <<time, since, aborted>>
  BY DEF Reset
<1>2. l1 \in Level(L1Sets, L1Ways) /\ l2 \in Level(L2Sets, L2Ways)
  BY DEF HTLBInv, LevelOK
<1>3. \A line \in LineType : /\ [line EXCEPT !.valid = FALSE] \in LineType
                             /\ ~[line EXCEPT !.valid = FALSE].valid
  BY DEF LineType
<1>4. Empty(0) \in LineType /\ ~Empty(0).valid
  BY DEF Empty, LineType
<1>5. /\ l1' \in Level(L1Sets, L1Ways)
      /\ \A s \in 0 .. L1Sets - 1, v \in 1 .. L1Ways : ~l1'[s][v].valid
  BY <1>1, <1>2, <1>3 DEF Level
<1>6. /\ l2' \in Level(L2Sets, L2Ways)
      /\ \A s \in 0 .. L2Sets - 1, v \in 1 .. L2Ways : ~l2'[s][v].valid
  BY <1>1, <1>2, <1>4 DEF Level
<1>7. LevelOK(l1', L1Sets, L1Ways, since') /\ LevelOK(l2', L2Sets, L2Ways, since')
  BY <1>5, <1>6, LevelReset, Sizes
<1> QED BY <1>1, <1>7 DEF HTLBInv

LEMMA HTLBStep == HTLBInv /\ [HTLBNext]_htlbVars => HTLBInv'
<1> SUFFICES ASSUME HTLBInv, [HTLBNext]_htlbVars PROVE HTLBInv'
  OBVIOUS
<1>1. CASE UNCHANGED htlbVars
  BY <1>1 DEF htlbVars, HTLBInv
<1>2. ASSUME NEW h \in Handle, Put(h) \/ Get(h) PROVE HTLBInv'
  BY <1>2 DEF Put, Get, HTLBInv
<1> QED BY <1>1, <1>2, AccessKeeps, InvalidateKeeps, ResetKeeps DEF HTLBNext

LEMMA LevelSound ==
  ASSUME HTLBInv, NEW level, NEW n \in Nat \ {0}, NEW w \in Nat \ {0},
         LevelOK(level, n, w, since)
  PROVE  OneLineEach(level) /\ UsedSinceRemoved(level)
<1>1. /\ DOMAIN level = 0 .. n - 1 /\ DOMAIN level[0] = 1 .. w
      /\ Cardinality(DOMAIN level) = n
  <2>1. DOMAIN level = 0 .. n - 1 /\ DOMAIN level[0] = 1 .. w
    BY DEF LevelOK, Level
  <2>2. Cardinality(0 .. n - 1) = n
    BY FS_Interval
  <2> QED BY <2>1, <2>2
<1>2. ASSUME NEW x \in Named(level)
      PROVE  /\ x[1] \in 0 .. n - 1 /\ x[2] \in 1 .. w /\ x = <<x[1], x[2]>>
             /\ Line(level, x) = level[x[1]][x[2]] /\ level[x[1]][x[2]].valid
             /\ Dumped(level)[x] = level[x[1]][x[2]].hid
  BY <1>1 DEF Named, Lines, Dumped, Line
<1>3. ASSUME NEW x \in Named(level)
      PROVE  /\ level[x[1]][x[2]].hid \in Handle /\ level[x[1]][x[2]].hid % n = x[1]
             /\ level[x[1]][x[2]].last_used > since[level[x[1]][x[2]].hid]
  BY <1>2 DEF LevelOK, LineOK
<1>4. ASSUME NEW x \in Named(level), NEW y \in Named(level),
             Dumped(level)[x] = Dumped(level)[y]
      PROVE  x = y
  <2>1. x[1] = y[1]
    BY <1>2, <1>3, <1>4
  <2>2. x[2] = y[2]
    BY <1>2, <1>4, <2>1 DEF LevelOK
  <2> QED BY <1>2, <2>1, <2>2
<1>5. OneLineEach(level)
  BY <1>1, <1>2, <1>3, <1>4 DEF OneLineEach
<1> QED BY <1>2, <1>3, <1>5 DEF UsedSinceRemoved

\* For any number of handles, sets and ways, and whatever the lines' clocks are
\* to begin with: the assertion in insert never fails, each level holds a handle
\* once at most, and no line survives the removal of its handle (HTLB.cpp).
THEOREM HTLBCorrect == HTLBSpec => []HTLBSound
<1>1. HTLBInv => HTLBSound
  <2> SUFFICES ASSUME HTLBInv PROVE HTLBSound
    OBVIOUS
  <2>1. OneLineEach(l1) /\ UsedSinceRemoved(l1)
    BY LevelSound, Sizes DEF HTLBInv
  <2>2. OneLineEach(l2) /\ UsedSinceRemoved(l2)
    BY LevelSound, Sizes DEF HTLBInv
  <2> QED BY <2>1, <2>2 DEF HTLBInv, HTLBSound
<1> QED BY <1>1, HTLBBegins, HTLBStep, PTL DEF HTLBSpec

-----------------------------------------------------------------------------
(***************************************************************************)
(* The invariant is about the first word of dump_buf.  When the list of    *)
(* buffers goes through it, what feed_hotness_buffer writes there as a     *)
(* link is what get_hotness_buffer has read there before, with nobody in   *)
(* between: a handle of the last dump, or nothing.                         *)
(***************************************************************************)

\* dump_mutex keeps the threads that dump and the background thread apart.
MutexOK ==
  /\ step \in [Tracker -> {"app", "dump", "write", "signal"}]
  /\ \A t \in Tracker : step[t] \in {"write", "signal"} => dump_mutex = t
  /\ mover \in {"get", "feed"} => dump_mutex = "mover" /\ woken = dumps

\* The two words the list goes through.
LinksOK ==
  /\ dumps \in Nat
  /\ word \in {NoBuffer, dumps}
  /\ buffers \in IF mover = "feed" THEN {NoBuffer, dumps} ELSE {NoBuffer, DumpBuf}
  /\ mover = "feed" => buf \in {HeapBuf, DumpBuf}

DumpInv == MutexOK /\ LinksOK

\* At the start the list is empty and there is no dump.
LEMMA DumpBegins == DumpInit => DumpInv
BY HotnessAssumption DEF DumpInit, DumpInv, MutexOK, LinksOK

\* A thread that dumps has the mutex, so that the list is not in use.
LEMMA ThreadDumps ==
  ASSUME DumpInv, NEW t \in Tracker,
         Track(t) \/ LockDump(t) \/ WriteDump(t) \/ SignalDump(t)
  PROVE  DumpInv'
<1> USE HotnessAssumption DEF DumpInv, MutexOK, LinksOK
<1>1. CASE Track(t)
  BY <1>1 DEF Track
<1>2. CASE LockDump(t)
  BY <1>2 DEF LockDump
<1>3. CASE WriteDump(t)
  BY <1>3 DEF WriteDump
<1>4. CASE SignalDump(t)
  BY <1>4 DEF SignalDump
<1> QED
  BY <1>1, <1>2, <1>3, <1>4

\* The background thread has it from its wake-up to the end of the turn.
LEMMA MoverTurns ==
  ASSUME DumpInv, BeginWait \/ WakeUp \/ GetBuffer \/ PushBuffer
  PROVE  DumpInv'
<1> USE HotnessAssumption DEF DumpInv, MutexOK, LinksOK
<1>1. CASE BeginWait
  BY <1>1 DEF BeginWait
<1>2. CASE WakeUp
  BY <1>2 DEF WakeUp
<1>3. CASE GetBuffer
  BY <1>3 DEF GetBuffer, WithoutHead
<1>4. CASE PushBuffer
  BY <1>4 DEF PushBuffer
<1> QED
  BY <1>1, <1>2, <1>3, <1>4

\* Whatever the number of dumps and however wake-ups and dumps are interleaved,
\* the localizer gets buffers, and handles of the last dump, though its list
\* goes through a word that every dump overwrites.
THEOREM DumpsHandledCorrect == DumpSpec => []DumpsHandled
<1>1. DumpInit => DumpInv
  BY DumpBegins
<1>2. DumpInv /\ [DumpNext]_dumpVars => DumpInv'
  <2> SUFFICES ASSUME DumpInv, [DumpNext]_dumpVars PROVE DumpInv'
    OBVIOUS
  <2>1. CASE DumpNext
    BY <2>1, ThreadDumps, MoverTurns DEF DumpNext
  <2>2. CASE UNCHANGED dumpVars
    BY <2>2 DEF dumpVars, DumpInv, MutexOK, LinksOK
  <2> QED
    BY <2>1, <2>2
<1>3. DumpInv => DumpsHandled
  BY HotnessAssumption DEF DumpInv, MutexOK, LinksOK, DumpsHandled
<1> QED
  BY <1>1, <1>2, <1>3, PTL DEF DumpSpec

-----------------------------------------------------------------------------
(***************************************************************************)
(* The inductive invariant: where every block is.                          *)
(***************************************************************************)

\* A block is with one freer, with the program, or on a list.
FreersOK ==
  /\ \A t \in Freer : pc[t] = "idle" <=> block[t] = Null
  /\ \A t, u \in Freer : block[t] = block[u] /\ block[t] # Null => t = u
  /\ \A t \in Freer : block[t] \notin held \cup Chain(local_free)
                                           \cup Chain(remote_free)

ChainsOK ==
  /\ Ends(next, Null, local_free) /\ Ends(next, Null, remote_free)
  /\ held \cap (Chain(local_free) \cup Chain(remote_free)) = {}

\* What swap() has loaded is on the remote list still: others only push.
SwapOK ==
  IF swapping THEN local_free \in Chain(remote_free) \cup {Null}
  ELSE Chain(local_free) \cap Chain(remote_free) = {}

IInv == TypeOK /\ FreersOK /\ ChainsOK /\ SwapOK

LEMMA InitIInv == Init => IInv
<1> SUFFICES ASSUME Init PROVE IInv
  OBVIOUS
<1>1. TypeOK
  BY DEF Init, TypeOK, Link
<1>2. Chain(local_free) = {} /\ Chain(remote_free) = {}
  BY ListOfNull DEF Init, Chain
<1>3. FreersOK
  BY <1>2, BlockAssumption DEF Init, FreersOK
<1>4. ChainsOK /\ SwapOK
  BY <1>2 DEF Init, ChainsOK, SwapOK, Ends, Chain
<1> QED BY <1>1, <1>3, <1>4 DEF IInv

-----------------------------------------------------------------------------
(***************************************************************************)
(* What each step does to the chains.                                      *)
(***************************************************************************)

LEMMA BlocksLink ==
  ASSUME NEW f \in [Block -> Link]
  PROVE  Links(f, Null) /\ DOMAIN f = Block /\ DOMAIN f \cup {Null} = Link
BY BlockAssumption DEF Link, Links

LEMMA Written ==
  ASSUME NEW f \in [Block -> Link], NEW b \in Block, NEW w \in Link, NEW h \in Link,
         Ends(f, Null, h), b \notin List(f, Null, h)
  PROVE  LET g == [f EXCEPT ![b] = w]
         IN  List(g, Null, h) = List(f, Null, h) /\ Ends(g, Null, h)
<1>1. Links(f, Null) /\ DOMAIN f = Block /\ DOMAIN f \cup {Null} = Link
  BY BlocksLink
<1> QED BY <1>1, EndsWritten

LEMMA Pushed ==
  ASSUME NEW f \in [Block -> Link], NEW h \in Link, NEW b \in Block,
         Ends(f, Null, h), b \notin List(f, Null, h), f[b] = h
  PROVE  List(f, Null, b) = {b} \cup List(f, Null, h) /\ Ends(f, Null, b)
BY BlocksLink, EndsPush

\* Writing the first word of a block that is on no list.
LEMMA WriteElsewhere ==
  ASSUME IInv, NEW b \in Block, NEW w \in Link,
         b \notin Chain(local_free) \cup Chain(remote_free),
         next' = [next EXCEPT ![b] = w]
  PROVE  /\ next' \in [Block -> Link] /\ next'[b] = w
         /\ List(next', Null, local_free) = Chain(local_free)
         /\ List(next', Null, remote_free) = Chain(remote_free)
         /\ Ends(next', Null, local_free) /\ Ends(next', Null, remote_free)
<1>1. /\ next \in [Block -> Link] /\ local_free \in Link /\ remote_free \in Link
      /\ Ends(next, Null, local_free) /\ Ends(next, Null, remote_free)
  BY DEF IInv, TypeOK, ChainsOK
<1> DEFINE g == [next EXCEPT ![b] = w]
<1>2. List(g, Null, local_free) = List(next, Null, local_free) /\ Ends(g, Null, local_free)
  BY <1>1, Written, Zenon DEF Chain
<1>3. List(g, Null, remote_free) = List(next, Null, remote_free) /\ Ends(g, Null, remote_free)
  BY <1>1, Written, Zenon DEF Chain
<1>4. next' = g /\ g \in [Block -> Link] /\ g[b] = w
  BY <1>1
<1> HIDE DEF g
<1> QED BY <1>2, <1>3, <1>4, Zenon DEF Chain

LEMMA PopChains ==
  ASSUME IInv, Pop
  PROVE  /\ local_free \in Block /\ local_free \in Chain(local_free)
         /\ Chain(local_free)' = Chain(local_free) \ {local_free}
         /\ Chain(remote_free)' = Chain(remote_free)
         /\ Ends(next', Null, local_free') /\ Ends(next', Null, remote_free')
<1>1. local_free \in Block /\ next \in [Block -> Link]
  BY DEF IInv, TypeOK, Link, Pop
<1>2. local_free' = next[local_free] /\ UNCHANGED <<remote_free, next>>
  BY DEF Pop
<1> QED BY <1>1, <1>2, BlocksLink, EndsPop DEF Chain, IInv, ChainsOK

\* free_local of b.
LEMMA FreeChains ==
  ASSUME IInv, NEW b \in held,
         next' = [next EXCEPT ![b] = local_free],
         local_free' = b, remote_free' = remote_free
  PROVE  /\ next' \in [Block -> Link]
         /\ Chain(local_free)' = Chain(local_free) \cup {b}
         /\ Chain(remote_free)' = Chain(remote_free)
         /\ Ends(next', Null, local_free') /\ Ends(next', Null, remote_free')
<1>1. /\ b \in Block /\ local_free \in Link
      /\ b \notin Chain(local_free) \cup Chain(remote_free)
  BY DEF IInv, TypeOK, ChainsOK
<1>2. /\ next' \in [Block -> Link] /\ next'[b] = local_free
      /\ List(next', Null, local_free) = Chain(local_free)
      /\ List(next', Null, remote_free) = Chain(remote_free)
      /\ Ends(next', Null, local_free) /\ Ends(next', Null, remote_free)
  BY <1>1, WriteElsewhere
<1>3. /\ List(next', Null, b) = {b} \cup List(next', Null, local_free)
      /\ Ends(next', Null, b)
  <2>1. b \notin List(next', Null, local_free)
    BY <1>1, <1>2
  <2> QED BY <1>1, <1>2, <2>1, Pushed
<1> QED BY <1>2, <1>3 DEF Chain

LEMMA PushChains ==
  ASSUME IInv, NEW t \in Freer, PushCas(t)
  PROVE  /\ block[t] \in Block
         /\ Chain(local_free)' = Chain(local_free)
         /\ Chain(remote_free)' = Chain(remote_free) \cup {block[t]}
         /\ Ends(next', Null, local_free') /\ Ends(next', Null, remote_free')
<1>1. /\ block[t] \in Block /\ block[t] \notin Chain(remote_free)
      /\ next \in [Block -> Link] /\ remote_free \in Link
  BY DEF PushCas, IInv, TypeOK, Link, FreersOK
<1>2. /\ next[block[t]] = remote_free /\ remote_free' = block[t]
      /\ UNCHANGED <<local_free, next>>
  BY DEF PushCas, Unchanged
<1>3. /\ List(next, Null, block[t]) = {block[t]} \cup List(next, Null, remote_free)
      /\ Ends(next, Null, block[t])
  BY <1>1, <1>2, Pushed DEF IInv, ChainsOK, Chain
<1> QED BY <1>1, <1>2, <1>3 DEF Chain, IInv, ChainsOK

\* The steps that write the first word of a block that is with a freer or the
\* program.
Scribble ==
  \/ Write
  \/ \E t \in Freer : PushLoad(t) \/ PushRetry(t)

LEMMA ScribbleChains ==
  ASSUME IInv, Scribble
  PROVE  /\ next' \in [Block -> Link]
         /\ Chain(local_free)' = Chain(local_free)
         /\ Chain(remote_free)' = Chain(remote_free)
         /\ Ends(next', Null, local_free') /\ Ends(next', Null, remote_free')
         /\ UNCHANGED <<local_free, remote_free, held, swapping, block>>
<1>1. \E b \in Block, w \in Link :
        /\ b \notin Chain(local_free) \cup Chain(remote_free)
        /\ next' = [next EXCEPT ![b] = w]
  <2>1. CASE Write
    BY <2>1 DEF Write, IInv, TypeOK, ChainsOK
  <2>2. ASSUME NEW t \in Freer, PushLoad(t) \/ PushRetry(t)
        PROVE  /\ block[t] \in Block /\ remote_free \in Link
               /\ block[t] \notin Chain(local_free) \cup Chain(remote_free)
               /\ next' = [next EXCEPT ![block[t]] = remote_free]
    BY <2>2 DEF PushLoad, PushRetry, IInv, TypeOK, Link, FreersOK
  <2> QED BY <2>1, <2>2 DEF Scribble
<1>2. UNCHANGED <<local_free, remote_free, held, swapping, block>>
  BY DEF Scribble, Write, PushLoad, PushRetry
<1> QED BY <1>1, <1>2, WriteElsewhere DEF Chain

-----------------------------------------------------------------------------
LEMMA InvStep == IInv /\ [Next]_vars => IInv'
<1> SUFFICES ASSUME IInv, [Next]_vars PROVE IInv'
  OBVIOUS
<1> USE DEF IInv
<1>1. CASE UNCHANGED vars
  BY <1>1 DEF vars, heads, TypeOK, FreersOK, ChainsOK, SwapOK, Chain
<1>2. CASE Pop
  <2>1. TypeOK'
    BY <1>2, PopChains DEF Pop, TypeOK
  <2>2. \A t \in Freer : block[t] # local_free
    BY <1>2, PopChains DEF FreersOK
  <2> QED BY <1>2, <2>1, <2>2, PopChains DEF Pop, FreersOK, ChainsOK, SwapOK
<1>3. CASE FreeLocal
  <2>1. PICK b \in held : /\ held' = held \ {b}
                          /\ next' = [next EXCEPT ![b] = local_free]
                          /\ local_free' = b
    BY <1>3 DEF FreeLocal
  <2>2. /\ UNCHANGED <<remote_free, swapping, pc, block>> /\ ~swapping
        /\ b \in Block /\ b \notin Chain(remote_free)
    BY <1>3 DEF FreeLocal, TypeOK, ChainsOK
  <2>3. /\ next' \in [Block -> Link]
        /\ Chain(local_free)' = Chain(local_free) \cup {b}
        /\ Chain(remote_free)' = Chain(remote_free)
        /\ Ends(next', Null, local_free') /\ Ends(next', Null, remote_free')
    BY <2>1, <2>2, FreeChains
  <2>4. TypeOK'
    BY <2>1, <2>2, <2>3 DEF TypeOK, Link
  <2> QED BY <2>1, <2>2, <2>3, <2>4 DEF FreersOK, ChainsOK, SwapOK
<1>4. CASE SwapLoad \/ SwapRetry
  <2>1. /\ local_free' = remote_free /\ swapping'
        /\ UNCHANGED <<remote_free, next, held, pc, block>>
    BY <1>4 DEF SwapLoad, SwapRetry
  <2>2. swapping' = TRUE
    BY <1>4 DEF SwapLoad, SwapRetry, TypeOK
  <2>3. Chain(local_free)' = Chain(remote_free)
        /\ Chain(remote_free)' = Chain(remote_free)
    BY <2>1 DEF Chain
  <2>4. remote_free \in Chain(remote_free) \cup {Null}
    BY ListStart DEF Chain, TypeOK, Link
  <2> QED BY <2>1, <2>2, <2>3, <2>4 DEF TypeOK, FreersOK, ChainsOK, SwapOK
<1>5. CASE SwapCas
  <2>1. /\ remote_free' = Null /\ ~swapping'
        /\ UNCHANGED <<local_free, next, held, pc, block>>
    BY <1>5 DEF SwapCas
  <2>2. Chain(local_free)' = Chain(local_free) /\ Chain(remote_free)' = {}
    BY <2>1, ListOfNull DEF Chain
  <2>3. Ends(next', Null, remote_free')
    BY <2>2 DEF Ends, Chain
  <2>4. TypeOK' /\ FreersOK'
    BY <1>5, <2>1, <2>2 DEF SwapCas, TypeOK, Link, FreersOK
  <2>5. ChainsOK' /\ SwapOK'
    BY <2>1, <2>2, <2>3 DEF ChainsOK, SwapOK
  <2> QED BY <2>4, <2>5
<1>6. ASSUME NEW t \in Freer, BeginFreeRemote(t) PROVE IInv'
  <2>1. PICK b \in held : /\ held' = held \ {b}
                          /\ block' = [block EXCEPT ![t] = b]
    BY <1>6 DEF BeginFreeRemote
  <2>2. /\ pc[t] = "idle" /\ pc' = [pc EXCEPT ![t] = "load"]
        /\ UNCHANGED <<heads, swapping>>
    BY <1>6 DEF BeginFreeRemote
  <2>3. Chain(local_free)' = Chain(local_free)
        /\ Chain(remote_free)' = Chain(remote_free)
    BY <2>2 DEF Chain, heads
  <2>4. /\ b \in Block /\ b # Null
        /\ b \notin Chain(local_free) \cup Chain(remote_free)
    BY BlockAssumption DEF TypeOK, ChainsOK
  <2>5. TypeOK'
    BY <2>1, <2>2, <2>4 DEF TypeOK, heads, Link
  <2>6. FreersOK'
    BY <2>1, <2>2, <2>3, <2>4 DEF TypeOK, FreersOK
  <2> QED BY <2>1, <2>2, <2>3, <2>5, <2>6 DEF heads, ChainsOK, SwapOK
<1>7. CASE Scribble
  <2>1. /\ pc' \in [Freer -> {"idle", "load", "cas"}]
        /\ \A t \in Freer : pc'[t] = "idle" <=> pc[t] = "idle"
    BY <1>7 DEF Scribble, Write, PushLoad, PushRetry, TypeOK
  <2> QED BY <1>7, <2>1, ScribbleChains DEF TypeOK, FreersOK, ChainsOK, SwapOK
<1>8. ASSUME NEW t \in Freer, PushCas(t) PROVE IInv'
  <2>1. /\ pc[t] = "cas" /\ pc' = [pc EXCEPT ![t] = "idle"]
        /\ block' = [block EXCEPT ![t] = Null] /\ remote_free' = block[t]
        /\ UNCHANGED <<local_free, next, held, swapping>>
    BY <1>8 DEF PushCas
  <2>2. TypeOK'
    BY <1>8, <2>1, PushChains DEF TypeOK, Link
  <2>3. \A u \in Freer : u # t => block[u] # block[t]
    BY <1>8, <2>1 DEF FreersOK
  <2>4. FreersOK'
    BY <1>8, <2>1, <2>3, PushChains, BlockAssumption, FreerAssumption, ListType
       DEF TypeOK, FreersOK, Chain
  <2>5. ChainsOK'
    BY <1>8, <2>1, PushChains DEF FreersOK, ChainsOK
  <2>6. SwapOK'
    BY <1>8, <2>1, PushChains DEF FreersOK, SwapOK
  <2> QED BY <2>2, <2>4, <2>5, <2>6
<1> QED BY <1>1, <1>2, <1>3, <1>4, <1>5, <1>6, <1>7, <1>8 DEF Next, Scribble

LEMMA Inductive == Spec => []IInv
BY InitIInv, InvStep, PTL DEF Spec

\* Neither list ever has a cycle, whatever the freers' compare-and-swaps do
\* between the load and the compare-and-swap of swap(), and whatever the program
\* writes over the links of the blocks it holds (ShardedFreeList.hpp:68-120).
THEOREM ListsAlwaysEnd == Spec => []ListsEnd
<1>1. IInv => ListsEnd
  BY DEF IInv, ChainsOK, ListsEnd, Ends, Chain
<1> QED BY Inductive, <1>1, PTL

-----------------------------------------------------------------------------
(***************************************************************************)
(* The pointers implement the atomic list.                                 *)
(***************************************************************************)
Freeing == {block[t] : t \in Freer} \ {Null}

LEMMA StepMaps ==
  ASSUME IInv, IInv', [Next]_vars
  PROVE  [Atomic!Next]_<<held, Freeing, LocalChain, Chain(remote_free)>>
<1> DEFINE Same == UNCHANGED <<held, Freeing, LocalChain, Chain(remote_free)>>
<1> USE DEF IInv
<1>1. CASE UNCHANGED vars
  <2>1. Same
    BY <1>1 DEF vars, heads, Freeing, LocalChain, Chain
  <2> QED BY <2>1
<1>2. CASE Pop
  <2>1. UNCHANGED <<Freeing, Chain(remote_free)>>
    BY <1>2, PopChains DEF Pop, Freeing
  <2>2. /\ local_free \in LocalChain
        /\ LocalChain' = LocalChain \ {local_free}
        /\ held' = held \cup {local_free}
    BY <1>2, PopChains DEF Pop, LocalChain
  <2> QED BY <2>1, <2>2 DEF Atomic!Next, Atomic!Pop, Freeing
<1>3. CASE FreeLocal
  <2>1. PICK b \in held : /\ held' = held \ {b}
                          /\ next' = [next EXCEPT ![b] = local_free]
                          /\ local_free' = b
    BY <1>3 DEF FreeLocal
  <2>2. UNCHANGED <<remote_free, swapping, block>> /\ ~swapping
    BY <1>3 DEF FreeLocal
  <2>3. /\ Chain(local_free)' = Chain(local_free) \cup {b}
        /\ Chain(remote_free)' = Chain(remote_free)
    BY <2>1, <2>2, FreeChains
  <2>4. LocalChain' = LocalChain \cup {b} /\ UNCHANGED Freeing
    BY <2>2, <2>3 DEF LocalChain, Freeing
  <2> QED BY <2>1, <2>3, <2>4 DEF Atomic!Next, Atomic!FreeLocal, Freeing
<1>4. CASE SwapLoad \/ SwapRetry
  <2>1. /\ UNCHANGED <<remote_free, next, held, block>> /\ swapping'
        /\ swapping \/ local_free = Null
    BY <1>4 DEF SwapLoad, SwapRetry
  <2>2. LocalChain = {} /\ LocalChain' = {}
    BY <2>1, ListOfNull DEF LocalChain, Chain
  <2>3. Same
    BY <2>1, <2>2 DEF Freeing, Chain
  <2> QED BY <2>3
<1>5. CASE SwapCas
  <2>1. /\ swapping /\ ~swapping' /\ remote_free' = Null
        /\ local_free = remote_free
        /\ UNCHANGED <<local_free, next, held, block>>
    BY <1>5 DEF SwapCas, Unchanged
  <2>2. /\ LocalChain = {} /\ LocalChain' = Chain(remote_free)
        /\ Chain(remote_free)' = {} /\ UNCHANGED <<held, Freeing>>
    BY <2>1, ListOfNull DEF LocalChain, Chain, Freeing
  <2> QED BY <2>2 DEF Atomic!Next, Atomic!Swap, Freeing
<1>6. ASSUME NEW t \in Freer, BeginFreeRemote(t)
      PROVE  Atomic!Next
  <2>1. PICK b \in held : /\ held' = held \ {b}
                          /\ block' = [block EXCEPT ![t] = b]
    BY <1>6 DEF BeginFreeRemote
  <2>2. pc[t] = "idle" /\ UNCHANGED <<heads, swapping>>
    BY <1>6 DEF BeginFreeRemote
  <2>3. UNCHANGED <<LocalChain, Chain(remote_free)>>
    BY <2>2 DEF heads, LocalChain, Chain
  <2>4. Freeing' = Freeing \cup {b}
    <3>1. block[t] = Null /\ b # Null
      BY <2>2, BlockAssumption DEF FreersOK, TypeOK
    <3> QED BY <2>1, <3>1 DEF Freeing, TypeOK
  <2> QED BY <2>1, <2>3, <2>4 DEF Atomic!Next, Atomic!BeginFreeRemote, Freeing
<1>7. CASE Scribble
  <2>1. Same
    BY <1>7, ScribbleChains DEF Freeing, LocalChain
  <2> QED BY <2>1
<1>8. ASSUME NEW t \in Freer, PushCas(t) PROVE Atomic!Next
  <2>1. /\ block' = [block EXCEPT ![t] = Null]
        /\ UNCHANGED <<held, swapping>>
    BY <1>8 DEF PushCas
  <2>2. /\ Chain(remote_free)' = Chain(remote_free) \cup {block[t]}
        /\ UNCHANGED LocalChain
    BY <1>8, <2>1, PushChains DEF LocalChain
  <2>3. block[t] \in Freeing /\ Freeing' = Freeing \ {block[t]}
    <3>1. block[t] # Null
      BY <1>8, PushChains, BlockAssumption
    <3> QED BY <2>1, <3>1 DEF Freeing, FreersOK, TypeOK
  <2> QED BY <2>1, <2>2, <2>3 DEF Atomic!Next, Atomic!FreeRemote, Freeing
<1> QED BY <1>1, <1>2, <1>3, <1>4, <1>5, <1>6, <1>7, <1>8 DEF Next, Scribble

\* A swap takes exactly what is on the remote list when its compare-and-swap
\* succeeds, a push appears on it at its own, and everything between is
\* invisible: the pointers of ShardedFreeList.hpp implement the atomic free list
\* the sized pages and the slabs are modelled with.
THEOREM Refinement == Spec => ImplementsFreeList
<1>1. Init => Atomic!Init
  <2> SUFFICES ASSUME Init PROVE Atomic!Init
    OBVIOUS
  <2>1. LocalChain = {} /\ Chain(remote_free) = {}
    BY ListOfNull DEF Init, LocalChain, Chain
  <2>2. Freeing = {}
    BY DEF Init, Freeing
  <2> QED BY <2>1, <2>2 DEF Init, Atomic!Init, Freeing
<1>2. IInv /\ IInv' /\ [Next]_vars
        => [Atomic!Next]_<<held, Freeing, LocalChain, Chain(remote_free)>>
  BY StepMaps
<1> QED BY <1>1, <1>2, Inductive, PTL
        DEF Spec, ImplementsFreeList, Atomic!Spec, Freeing

-----------------------------------------------------------------------------
(***************************************************************************)
(* The internal allocator: the minors of a major lie one behind the other  *)
(* inside it, its usage is what they take, and malloc maps memory only     *)
(* when no gap is large enough.                                            *)
(***************************************************************************)
(***************************************************************************)
(* A major: its minors in order, and what they take.                       *)
(***************************************************************************)
MinorType == [at : Nat, size : Nat, req : Nat \ {0}]

EndOf(m) == m.at + WithHeader(m.size)

\* The minors lie one behind the other, between the header and the end.
InOrder(ms, b) ==
  /\ \A i \in 1 .. Len(ms) : /\ ms[i].at >= MajorHeader
                             /\ ms[i].size = Padded(ms[i].req)
                             /\ EndOf(ms[i]) <= b
  /\ \A i, j \in 1 .. Len(ms) : i < j => EndOf(ms[i]) <= ms[j].at

\* f[i] is what the header of the major and the first i minors take.
Totals(ms, f) ==
  /\ f \in [0 .. Len(ms) -> Int]
  /\ f[0] = MajorHeader
  /\ \A i \in 1 .. Len(ms) : f[i] = f[i - 1] + WithHeader(ms[i].size)
Summed(ms, u) == \E f : Totals(ms, f) /\ u = f[Len(ms)]

LEMMA LibSizes ==
  /\ MajorHeader \in Nat \ {0} /\ MinorHeader \in Nat \ {0} /\ Alignment \in Nat \ {0}
  /\ Info \in Nat \ {0} /\ PageSize \in Nat \ {0} /\ PageCount \in Nat \ {0}
BY LibAllocAssumption

LEMMA MinorFacts ==
  ASSUME NEW ms \in Seq(MinorType)
  PROVE  /\ Len(ms) \in Nat
         /\ \A i \in 1 .. Len(ms) :
              /\ ms[i] \in MinorType
              /\ ms[i].at \in Nat /\ ms[i].size \in Nat /\ ms[i].req \in Nat \ {0}
              /\ WithHeader(ms[i].size) \in Nat /\ EndOf(ms[i]) \in Nat
<1>1. Len(ms) \in Nat
  BY LenProperties
<1>2. ASSUME NEW i \in 1 .. Len(ms)
      PROVE  /\ ms[i] \in MinorType
             /\ ms[i].at \in Nat /\ ms[i].size \in Nat /\ ms[i].req \in Nat \ {0}
  <2>1. ms[i] \in MinorType
    BY ElementOfSeq
  <2> QED BY <2>1 DEF MinorType
<1>3. ASSUME NEW i \in 1 .. Len(ms)
      PROVE  WithHeader(ms[i].size) \in Nat /\ EndOf(ms[i]) \in Nat
  <2>1. WithHeader(ms[i].size) \in Nat
    BY <1>2, LibSizes DEF WithHeader
  <2> QED BY <1>2, <2>1 DEF EndOf
<1> QED BY <1>1, <1>2, <1>3, Zenon

LEMMA TotalsStep ==
  ASSUME NEW ms \in Seq(MinorType), NEW f, Totals(ms, f)
  PROVE  /\ \A i \in 0 .. Len(ms) : f[i] \in Int
         /\ \A i \in 1 .. Len(ms) :
              /\ f[i - 1] \in Int
              /\ f[i] = f[i - 1] + WithHeader(ms[i].size)
<1>1. Len(ms) \in Nat
  BY MinorFacts
<1>2. \A i \in 0 .. Len(ms) : f[i] \in Int
  BY DEF Totals
<1>3. ASSUME NEW i \in 1 .. Len(ms)
      PROVE  f[i - 1] \in Int /\ f[i] = f[i - 1] + WithHeader(ms[i].size)
  <2>1. i - 1 \in 0 .. Len(ms)
    BY <1>1
  <2> QED BY <1>2, <2>1, Zenon DEF Totals
<1> QED BY <1>2, <1>3

LEMMA SumIsTotal ==
  ASSUME NEW r \in Region, minors[r] \in Seq(MinorType), minors[r] # <<>>,
         Summed(minors[r], usage[r])
  PROVE  UsageExact(r)
<1> DEFINE ms == minors[r]
           Rec(S) == [i \in 0 .. Len(ms) |->
                        IF i = 0 THEN MajorHeader
                        ELSE S[i - 1] + MinorHeader + ms[i].size]
           Sum == CHOOSE S : S = Rec(S)
<1>1. PICK f : Totals(ms, f) /\ usage[r] = f[Len(ms)]
  BY DEF Summed
<1>2. Len(ms) \in Nat /\ \A i \in 1 .. Len(ms) : ms[i].size \in Nat
  BY MinorFacts
<1>3. f = Rec(f)
  <2>1. ASSUME NEW i \in 0 .. Len(ms), i # 0
        PROVE  f[i] = f[i - 1] + MinorHeader + ms[i].size
    <3>1. i \in 1 .. Len(ms)
      BY <1>2, <2>1
    <3>2. f[i] = f[i - 1] + (ms[i].size + MinorHeader) /\ f[i - 1] \in Int /\ ms[i].size \in Nat
      BY <1>1, <1>2, <3>1, TotalsStep, Zenon DEF WithHeader
    <3> QED BY <3>2, LibSizes
  <2>2. f[0] = MajorHeader
    BY <1>1 DEF Totals
  <2>3. \A i \in 0 .. Len(ms) : f[i] = IF i = 0 THEN MajorHeader
                                       ELSE f[i - 1] + MinorHeader + ms[i].size
    BY <2>1, <2>2, Zenon
  <2>4. f \in [0 .. Len(ms) -> Int]
    BY <1>1 DEF Totals
  <2> QED BY <2>3, <2>4, Zenon
<1>4. Sum = Rec(Sum)
  BY <1>3, Zenon
<1> HIDE DEF Sum
<1>5. \A i \in 0 .. Len(ms) : Sum[i] = IF i = 0 THEN MajorHeader
                                       ELSE Sum[i - 1] + MinorHeader + ms[i].size
  BY <1>4, Zenon
<1> DEFINE Wrong == {i \in 0 .. Len(ms) : Sum[i] # f[i]}
<1>6. Wrong = {}
  <2> SUFFICES ASSUME Wrong # {} PROVE FALSE
    OBVIOUS
  <2>1. PICK i \in Wrong : \A j \in Wrong : i <= j
    <3>1. Wrong \subseteq Nat
      BY <1>2
    <3> QED BY <3>1, LeastElement
  <2>2. i # 0
    BY <1>1, <1>2, <1>5 DEF Totals
  <2>3. i \in 0 .. Len(ms) /\ Sum[i] # f[i]
    OBVIOUS
  <2> HIDE DEF Wrong
  <2>4. i - 1 \in 0 .. Len(ms) /\ ~(i <= i - 1)
    BY <1>2, <2>2, <2>3
  <2>5. Sum[i - 1] = f[i - 1]
    BY <2>1, <2>4, Zenon DEF Wrong
  <2>6. f[i] = f[i - 1] + (ms[i].size + MinorHeader) /\ f[i - 1] \in Int /\ ms[i].size \in Nat
    <3>1. i \in 1 .. Len(ms)
      BY <1>2, <2>2, <2>3
    <3> QED BY <1>1, <1>2, <3>1, TotalsStep, Zenon DEF WithHeader
  <2>7. Sum[i] = Sum[i - 1] + MinorHeader + ms[i].size
    BY <1>5, <2>2, <2>3, Zenon
  <2> QED BY <2>3, <2>5, <2>6, <2>7, LibSizes
<1>7. Len(ms) \in 0 .. Len(ms)
  BY <1>2
<1>8. Sum[Len(ms)] = f[Len(ms)]
  BY <1>6, <1>7, Zenon
<1> QED BY <1>1, <1>8, Zenon DEF UsageExact, Sum

\* A minor in a gap.
LEMMA OrderAfterInsert ==
  ASSUME NEW ms \in Seq(MinorType), NEW b \in Nat, InOrder(ms, b),
         NEW i \in 0 .. Len(ms), NEW e \in MinorType,
         e.size = Padded(e.req),
         e.at = IF i = 0 THEN MajorHeader ELSE EndOf(ms[i]),
         EndOf(e) <= IF i = Len(ms) THEN b ELSE ms[i + 1].at
  PROVE  InOrder(InsertAt(ms, i + 1, e), b)
<1> DEFINE t == InsertAt(ms, i + 1, e)
           n == Len(ms)
<1>1. n \in Nat /\ i + 1 \in 1 .. n + 1
  BY MinorFacts
<1>2. /\ t \in Seq(MinorType) /\ Len(t) = n + 1
      /\ \A j \in 1 .. n + 1 :
           t[j] = IF j < i + 1 THEN ms[j] ELSE IF j = i + 1 THEN e ELSE ms[j - 1]
  <2>1. t \in Seq(MinorType) /\ Inserted(t, ms, i + 1, e)
    BY <1>1, InsertAtIs, Zenon
  <2> HIDE DEF t
  <2> QED BY <2>1, Zenon DEF Inserted
<1>3. \A j \in 1 .. n : /\ ms[j] \in MinorType /\ ms[j].at \in Nat /\ EndOf(ms[j]) \in Nat
                        /\ ms[j].at <= EndOf(ms[j])
  <2> SUFFICES ASSUME NEW j \in 1 .. n
               PROVE  /\ ms[j] \in MinorType /\ ms[j].at \in Nat /\ EndOf(ms[j]) \in Nat
                      /\ ms[j].at <= EndOf(ms[j])
    OBVIOUS
  <2> QED BY MinorFacts DEF EndOf
<1>4. /\ e.at \in Nat /\ EndOf(e) \in Nat
  <2>1. e.at \in Nat /\ e.size \in Nat
    BY DEF MinorType
  <2> QED BY <2>1, LibSizes DEF EndOf, WithHeader
<1>5. /\ \A j \in 1 .. n : ms[j].at >= MajorHeader /\ ms[j].size = Padded(ms[j].req) /\ EndOf(ms[j]) <= b
      /\ \A j, k \in 1 .. n : j < k => EndOf(ms[j]) <= ms[k].at
  BY DEF InOrder
<1> HIDE DEF t, n
<1>6. \A j \in 1 .. n : j <= i => EndOf(ms[j]) <= e.at
  <2> SUFFICES ASSUME NEW j \in 1 .. n, j <= i PROVE EndOf(ms[j]) <= e.at
    OBVIOUS
  <2>1. i # 0 /\ i \in 1 .. n /\ e.at = EndOf(ms[i])
    BY <1>1 DEF n
  <2>2. CASE j = i
    BY <1>3, <2>1, <2>2
  <2>3. CASE j < i
    <3>1. EndOf(ms[j]) <= ms[i].at
      BY <1>5, <2>1, <2>3, Zenon
    <3> QED BY <1>3, <2>1, <3>1
  <2> QED BY <1>1, <2>2, <2>3
<1>7. \A j \in 1 .. n : j > i => EndOf(e) <= ms[j].at
  <2> SUFFICES ASSUME NEW j \in 1 .. n, j > i PROVE EndOf(e) <= ms[j].at
    OBVIOUS
  <2>1. i # n /\ i + 1 \in 1 .. n /\ EndOf(e) <= ms[i + 1].at
    BY <1>1 DEF n
  <2>2. CASE j = i + 1
    BY <2>1, <2>2
  <2>3. CASE i + 1 < j
    <3>1. EndOf(ms[i + 1]) <= ms[j].at
      BY <1>5, <2>1, <2>3, Zenon
    <3> QED BY <1>3, <1>4, <2>1, <3>1
  <2> QED BY <1>1, <2>2, <2>3
<1>8. e.at >= MajorHeader /\ EndOf(e) <= b
  <2>1. CASE i = 0
    BY <1>1, <1>3, <1>4, <1>5, <2>1, LibSizes DEF n
  <2>2. CASE i # 0
    BY <1>1, <1>3, <1>4, <1>5, <2>2, LibSizes DEF n
  <2> QED BY <2>1, <2>2
<1>9. ASSUME NEW j \in 1 .. n + 1
      PROVE  t[j].at >= MajorHeader /\ t[j].size = Padded(t[j].req) /\ EndOf(t[j]) <= b
  <2>1. CASE j <= i
    <3>1. t[j] = ms[j] /\ j \in 1 .. n
      BY <1>1, <1>2, <2>1
    <3> QED BY <1>5, <3>1, Zenon
  <2>2. CASE j = i + 1
    <3>1. t[j] = e
      BY <1>1, <1>2, <2>2
    <3> QED BY <1>8, <3>1, Zenon
  <2>3. CASE j > i + 1
    <3>1. t[j] = ms[j - 1] /\ j - 1 \in 1 .. n
      BY <1>1, <1>2, <2>3
    <3> QED BY <1>5, <3>1, Zenon
  <2> QED BY <1>1, <2>1, <2>2, <2>3
<1>10. ASSUME NEW j \in 1 .. n + 1, NEW k \in 1 .. n + 1, j < k
       PROVE  EndOf(t[j]) <= t[k].at
  <2>1. CASE k <= i
    <3>1. t[j] = ms[j] /\ t[k] = ms[k] /\ j \in 1 .. n /\ k \in 1 .. n
      BY <1>1, <1>2, <1>10, <2>1
    <3> QED BY <1>5, <1>10, <3>1, Zenon
  <2>2. CASE k = i + 1
    <3>1. t[j] = ms[j] /\ t[k] = e /\ j \in 1 .. n /\ j <= i
      BY <1>1, <1>2, <1>10, <2>2
    <3> QED BY <1>6, <3>1, Zenon
  <2>3. CASE k > i + 1
    <3>1. t[k] = ms[k - 1] /\ k - 1 \in 1 .. n /\ k - 1 > i
      BY <1>1, <1>2, <2>3
    <3>2. CASE j <= i
      <4>1. t[j] = ms[j] /\ j \in 1 .. n /\ j < k - 1
        BY <1>1, <1>2, <2>3, <3>2
      <4> QED BY <1>5, <3>1, <4>1, Zenon
    <3>3. CASE j = i + 1
      <4>1. t[j] = e
        BY <1>1, <1>2, <3>3
      <4> QED BY <1>7, <3>1, <4>1, Zenon
    <3>4. CASE j > i + 1
      <4>1. t[j] = ms[j - 1] /\ j - 1 \in 1 .. n /\ j - 1 < k - 1
        BY <1>1, <1>2, <1>10, <3>4
      <4> QED BY <1>5, <3>1, <4>1, Zenon
    <3> QED BY <1>1, <3>2, <3>3, <3>4
  <2> QED BY <1>1, <2>1, <2>2, <2>3
<1> QED BY <1>2, <1>9, <1>10, Zenon DEF InOrder, t

LEMMA SumAfterInsert ==
  ASSUME NEW ms \in Seq(MinorType), NEW u, Summed(ms, u),
         NEW i \in 0 .. Len(ms), NEW e \in MinorType
  PROVE  Summed(InsertAt(ms, i + 1, e), u + WithHeader(e.size))
<1> DEFINE t == InsertAt(ms, i + 1, e)
           n == Len(ms)
           w == WithHeader(e.size)
<1>0. PICK f : Totals(ms, f) /\ u = f[n]
  BY DEF Summed
<1>1. n \in Nat /\ i + 1 \in 1 .. n + 1
  BY MinorFacts
<1>2. /\ t \in Seq(MinorType) /\ Len(t) = n + 1
      /\ \A j \in 1 .. n + 1 :
           t[j] = IF j < i + 1 THEN ms[j] ELSE IF j = i + 1 THEN e ELSE ms[j - 1]
  <2>1. t \in Seq(MinorType) /\ Inserted(t, ms, i + 1, e)
    BY <1>1, InsertAtIs, Zenon
  <2> HIDE DEF t
  <2> QED BY <2>1, Zenon DEF Inserted
<1>3. w \in Nat
  BY LibSizes DEF MinorType, WithHeader
<1>4. /\ \A j \in 0 .. n : f[j] \in Int
      /\ \A j \in 1 .. n : f[j - 1] \in Int /\ f[j] = f[j - 1] + WithHeader(ms[j].size)
  BY <1>0, TotalsStep
<1>5. \A j \in 1 .. n : WithHeader(ms[j].size) \in Nat
  BY MinorFacts
<1>6. f[0] = MajorHeader
  BY <1>0 DEF Totals
<1> DEFINE g == [j \in 0 .. n + 1 |-> IF j <= i THEN f[j] ELSE f[j - 1] + w]
<1>7. g \in [0 .. n + 1 -> Int]
  <2> SUFFICES ASSUME NEW j \in 0 .. n + 1
               PROVE  (IF j <= i THEN f[j] ELSE f[j - 1] + w) \in Int
    OBVIOUS
  <2>1. CASE j <= i
    <3>1. j \in 0 .. n
      BY <1>1, <2>1
    <3> QED BY <1>4, <2>1, <3>1
  <2>2. CASE ~(j <= i)
    <3>1. j - 1 \in 0 .. n
      BY <1>1, <2>2
    <3>2. f[j - 1] \in Int
      BY <1>4, <3>1
    <3> QED BY <1>3, <2>2, <3>2
  <2> QED BY <2>1, <2>2
<1>8. /\ \A j \in 0 .. n + 1 : j <= i => g[j] = f[j]
      /\ \A j \in 0 .. n + 1 : j > i => g[j] = f[j - 1] + w
  BY <1>1
<1> HIDE DEF g, t, n, w
<1>9. g[0] = MajorHeader
  BY <1>1, <1>6, <1>8
<1>10. ASSUME NEW j \in 1 .. n + 1
       PROVE  g[j] = g[j - 1] + WithHeader(t[j].size)
  <2>0. j \in 0 .. n + 1 /\ j - 1 \in 0 .. n + 1
    BY <1>1
  <2>1. CASE j <= i
    <3>1. t[j] = ms[j] /\ j \in 1 .. n /\ j - 1 <= i
      BY <1>1, <1>2, <2>1
    <3>2. g[j] = f[j] /\ g[j - 1] = f[j - 1]
      BY <1>8, <2>0, <2>1, <3>1, Zenon
    <3> QED BY <1>4, <3>1, <3>2, Zenon
  <2>2. CASE j = i + 1
    <3>1. t[j] = e /\ j > i /\ j - 1 <= i
      BY <1>1, <1>2, <2>2
    <3>2. g[j] = f[j - 1] + w /\ g[j - 1] = f[j - 1]
      BY <1>8, <2>0, <3>1, Zenon
    <3> QED BY <3>1, <3>2 DEF w
  <2>3. CASE j > i + 1
    <3>1. t[j] = ms[j - 1] /\ j - 1 \in 1 .. n /\ j > i /\ j - 1 > i
      BY <1>1, <1>2, <2>3
    <3>2. g[j] = f[j - 1] + w /\ g[j - 1] = f[(j - 1) - 1] + w
      BY <1>8, <2>0, <3>1, Zenon
    <3>3. /\ f[(j - 1) - 1] \in Int /\ WithHeader(ms[j - 1].size) \in Nat
          /\ f[j - 1] = f[(j - 1) - 1] + WithHeader(ms[j - 1].size)
      BY <1>4, <1>5, <3>1, Zenon
    <3>4. f[j - 1] + w = (f[(j - 1) - 1] + w) + WithHeader(ms[j - 1].size)
      BY <1>3, <3>3
    <3> QED BY <3>1, <3>2, <3>4, Zenon
  <2> QED BY <1>1, <2>1, <2>2, <2>3
<1>11. g[n + 1] = u + w
  <2>1. n + 1 \in 0 .. n + 1 /\ n + 1 > i /\ (n + 1) - 1 = n
    BY <1>1
  <2> QED BY <1>0, <1>8, <2>1, Zenon
<1>12. Totals(t, g)
  BY <1>2, <1>7, <1>9, <1>10, Zenon DEF Totals
<1> QED BY <1>2, <1>11, <1>12, Zenon DEF Summed, t, w

\* A minor less.
LEMMA OrderAfterRemove ==
  ASSUME NEW ms \in Seq(MinorType), NEW b \in Nat, InOrder(ms, b), NEW i \in 1 .. Len(ms)
  PROVE  InOrder(RemoveAt(ms, i), b)
<1> DEFINE t == RemoveAt(ms, i)
           n == Len(ms)
<1>1. n \in Nat
  BY MinorFacts
<1>2. /\ Len(t) = n - 1
      /\ \A j \in 1 .. n - 1 : t[j] = IF j < i THEN ms[j] ELSE ms[j + 1]
  BY RemoveAtIs, Zenon
<1>3. /\ \A j \in 1 .. n : ms[j].at >= MajorHeader /\ ms[j].size = Padded(ms[j].req) /\ EndOf(ms[j]) <= b
      /\ \A j, k \in 1 .. n : j < k => EndOf(ms[j]) <= ms[k].at
  BY DEF InOrder
<1> DEFINE old(j) == IF j < i THEN j ELSE j + 1
<1> HIDE DEF t, n
<1>4. ASSUME NEW j \in 1 .. n - 1
      PROVE  t[j] = ms[old(j)] /\ old(j) \in 1 .. n
  BY <1>1, <1>2
<1>5. ASSUME NEW j \in 1 .. n - 1, NEW k \in 1 .. n - 1, j < k
      PROVE  old(j) < old(k)
  BY <1>1, <1>5
<1> HIDE DEF old
<1>6. ASSUME NEW j \in 1 .. n - 1
      PROVE  t[j].at >= MajorHeader /\ t[j].size = Padded(t[j].req) /\ EndOf(t[j]) <= b
  BY <1>3, <1>4, Zenon
<1>7. ASSUME NEW j \in 1 .. n - 1, NEW k \in 1 .. n - 1, j < k
      PROVE  EndOf(t[j]) <= t[k].at
  BY <1>3, <1>4, <1>5, <1>7, Zenon
<1> QED BY <1>2, <1>6, <1>7, Zenon DEF InOrder, t

LEMMA SumAfterRemove ==
  ASSUME NEW ms \in Seq(MinorType), NEW u, Summed(ms, u), NEW i \in 1 .. Len(ms)
  PROVE  Summed(RemoveAt(ms, i), u - WithHeader(ms[i].size))
<1> DEFINE t == RemoveAt(ms, i)
           n == Len(ms)
           w == WithHeader(ms[i].size)
<1>0. PICK f : Totals(ms, f) /\ u = f[n]
  BY DEF Summed
<1>1. n \in Nat
  BY MinorFacts
<1>2. /\ Len(t) = n - 1
      /\ \A j \in 1 .. n - 1 : t[j] = IF j < i THEN ms[j] ELSE ms[j + 1]
  BY RemoveAtIs, Zenon
<1>3. w \in Nat
  BY MinorFacts
<1>4. /\ \A j \in 0 .. n : f[j] \in Int
      /\ \A j \in 1 .. n : f[j - 1] \in Int /\ f[j] = f[j - 1] + WithHeader(ms[j].size)
  BY <1>0, TotalsStep
<1>5. \A j \in 1 .. n : WithHeader(ms[j].size) \in Nat
  BY MinorFacts
<1>6. f[0] = MajorHeader
  BY <1>0 DEF Totals
<1> DEFINE g == [j \in 0 .. n - 1 |-> IF j < i THEN f[j] ELSE f[j + 1] - w]
<1>7. g \in [0 .. n - 1 -> Int]
  <2> SUFFICES ASSUME NEW j \in 0 .. n - 1
               PROVE  (IF j < i THEN f[j] ELSE f[j + 1] - w) \in Int
    OBVIOUS
  <2>1. j \in 0 .. n /\ j + 1 \in 0 .. n
    BY <1>1
  <2>2. f[j] \in Int /\ f[j + 1] \in Int
    BY <1>4, <2>1
  <2> QED BY <1>3, <2>2
<1>8. /\ \A j \in 0 .. n - 1 : j < i => g[j] = f[j]
      /\ \A j \in 0 .. n - 1 : ~(j < i) => g[j] = f[j + 1] - w
  BY <1>1
<1> HIDE DEF g, t, n, w
<1>9. i \in 1 .. n /\ i \in Nat
  BY DEF n
<1>10. g[0] = MajorHeader
  BY <1>1, <1>6, <1>8, <1>9
<1>11. f[i] = f[i - 1] + w /\ f[i - 1] \in Int
  BY <1>4, <1>9, Zenon DEF w
<1>12. ASSUME NEW j \in 1 .. n - 1
       PROVE  g[j] = g[j - 1] + WithHeader(t[j].size)
  <2>0. j \in 0 .. n - 1 /\ j - 1 \in 0 .. n - 1 /\ (j - 1) + 1 = j /\ (j + 1) - 1 = j
    BY <1>1
  <2>1. CASE j < i
    <3>1. t[j] = ms[j] /\ j \in 1 .. n /\ j - 1 < i
      BY <1>1, <1>2, <1>9, <2>1
    <3>2. g[j] = f[j] /\ g[j - 1] = f[j - 1]
      BY <1>8, <2>0, <2>1, <3>1, Zenon
    <3> QED BY <1>4, <3>1, <3>2, Zenon
  <2>2. CASE ~(j < i)
    <3>1. t[j] = ms[j + 1] /\ j + 1 \in 1 .. n
      BY <1>1, <1>2, <1>9, <2>2
    <3>2. g[j] = f[j + 1] - w
      BY <1>8, <2>0, <2>2, Zenon
    <3>3. /\ f[j] \in Int /\ WithHeader(ms[j + 1].size) \in Nat
          /\ f[j + 1] = f[j] + WithHeader(ms[j + 1].size)
      BY <1>4, <1>5, <2>0, <3>1, Zenon
    <3>4. g[j - 1] = f[j] - w
      <4>1. CASE j = i
        <5>1. g[j - 1] = f[j - 1]
          <6>1. j - 1 < i
            BY <1>1, <4>1
          <6> QED BY <1>8, <2>0, <6>1, Zenon
        <5> QED BY <1>3, <1>11, <4>1, <5>1
      <4>2. CASE j > i
        <5>1. ~(j - 1 < i)
          BY <1>1, <1>9, <4>2
        <5> QED BY <1>8, <2>0, <5>1, Zenon
      <4> QED BY <1>9, <2>2, <4>1, <4>2
    <3> QED BY <1>3, <3>1, <3>2, <3>3, <3>4
  <2> QED BY <2>1, <2>2
<1>13. g[n - 1] = u - w
  <2>0. n - 1 \in 0 .. n - 1 /\ (n - 1) + 1 = n
    BY <1>1, <1>9
  <2>1. CASE i = n
    <3>1. n - 1 < i
      BY <1>1, <2>1
    <3>2. g[n - 1] = f[n - 1]
      BY <1>8, <2>0, <3>1, Zenon
    <3> QED BY <1>0, <1>3, <1>11, <2>1, <3>2 DEF n
  <2>2. CASE i # n
    <3>1. ~(n - 1 < i)
      BY <1>1, <1>9, <2>2
    <3> QED BY <1>0, <1>8, <2>0, <3>1, Zenon DEF n
  <2> QED BY <2>1, <2>2
<1>14. Totals(t, g)
  BY <1>2, <1>7, <1>10, <1>12, Zenon DEF Totals
<1> QED BY <1>2, <1>13, <1>14, Zenon DEF Summed, t, w

\* A major with a gap for a minor has that many free bytes.
LEMMA GapIsFree ==
  ASSUME NEW ms \in Seq(MinorType), NEW b \in Nat, InOrder(ms, b), NEW u, Summed(ms, u),
         MajorHeader <= b, NEW i \in 0 .. Len(ms), NEW w \in Nat,
         (IF i = Len(ms) THEN b ELSE ms[i + 1].at) -
           (IF i = 0 THEN MajorHeader ELSE EndOf(ms[i])) >= w
  PROVE  u \in Int /\ b - u >= w
<1> DEFINE n == Len(ms)
           Start(j) == IF j = 0 THEN MajorHeader ELSE EndOf(ms[j])
<1>0. PICK f : Totals(ms, f) /\ u = f[n]
  BY DEF Summed
<1>1. n \in Nat /\ n \in 0 .. n
  BY MinorFacts
<1>2. /\ \A j \in 0 .. n : f[j] \in Int
      /\ \A j \in 1 .. n : f[j - 1] \in Int /\ f[j] = f[j - 1] + WithHeader(ms[j].size)
  BY <1>0, TotalsStep
<1>3. \A j \in 1 .. n : /\ WithHeader(ms[j].size) \in Nat /\ ms[j].at \in Nat
                        /\ EndOf(ms[j]) = ms[j].at + WithHeader(ms[j].size)
  BY MinorFacts DEF EndOf
<1>4. f[0] = MajorHeader /\ MajorHeader \in Nat
  BY <1>0, LibSizes DEF Totals
<1>5. /\ \A j \in 1 .. n : ms[j].at >= MajorHeader /\ EndOf(ms[j]) <= b
      /\ \A j, k \in 1 .. n : j < k => EndOf(ms[j]) <= ms[k].at
  BY DEF InOrder
<1>6. \A j \in 0 .. n : Start(j) \in Nat
  <2> SUFFICES ASSUME NEW j \in 0 .. n PROVE Start(j) \in Nat
    OBVIOUS
  <2>1. CASE j = 0
    BY <1>4, <2>1
  <2>2. CASE j # 0
    <3>1. j \in 1 .. n
      BY <1>1, <2>2
    <3>2. EndOf(ms[j]) \in Nat
      BY <3>1, MinorFacts
    <3> QED BY <2>2, <3>2
  <2> QED BY <2>1, <2>2
<1>7. ASSUME NEW j \in 1 .. n
      PROVE  j - 1 \in 0 .. n /\ Start(j - 1) <= ms[j].at /\ Start(j) = ms[j].at + WithHeader(ms[j].size)
  <2>1. Start(j) = ms[j].at + WithHeader(ms[j].size)
    BY <1>3
  <2>2. CASE j = 1
    BY <1>5, <2>1, <2>2
  <2>3. CASE j # 1
    <3>1. j - 1 \in 1 .. n /\ j - 1 < j
      BY <1>1, <2>3
    <3>2. EndOf(ms[j - 1]) <= ms[j].at
      BY <1>5, <3>1, Zenon
    <3> QED BY <2>1, <3>1, <3>2
  <2> QED BY <2>2, <2>3
<1>8. Start(n) <= b
  BY <1>1, <1>5
<1>9. (IF i = n THEN b ELSE ms[i + 1].at) - Start(i) >= w
  OBVIOUS
<1> DEFINE More(j) == IF j > i THEN w ELSE 0
           Wrong == {j \in 0 .. n : ~(f[j] + More(j) <= Start(j))}
<1>10. i \in 0 .. n
  OBVIOUS
<1> HIDE DEF n, Start
<1>11. Wrong = {}
  <2> SUFFICES ASSUME Wrong # {} PROVE FALSE
    OBVIOUS
  <2>1. PICK j \in Wrong : \A k \in Wrong : j <= k
    <3>1. Wrong \subseteq Nat
      BY <1>1
    <3> QED BY <3>1, LeastElement
  <2>2. j \in 0 .. n /\ ~(f[j] + More(j) <= Start(j))
    OBVIOUS
  <2>3. j # 0
    BY <1>1, <1>4, <1>10, <2>2 DEF Start
  <2>4. j \in 1 .. n /\ ~(j <= j - 1)
    BY <1>1, <2>2, <2>3
  <2>5. /\ j - 1 \in 0 .. n /\ Start(j - 1) <= ms[j].at
        /\ Start(j) = ms[j].at + WithHeader(ms[j].size)
    BY <1>7, <2>4
  <2> HIDE DEF Wrong
  <2>6. f[j - 1] + More(j - 1) <= Start(j - 1)
    BY <2>1, <2>4, <2>5, Zenon DEF Wrong
  <2>7. /\ f[j - 1] \in Int /\ f[j] = f[j - 1] + WithHeader(ms[j].size)
        /\ WithHeader(ms[j].size) \in Nat /\ ms[j].at \in Nat
    BY <1>2, <1>3, <2>4, Zenon
  <2>8. Start(j - 1) \in Nat
    BY <1>6, <2>5, Zenon
  <2>9. CASE j = i + 1
    <3>1. ms[j].at - Start(j - 1) >= w
      <4>1. i # n /\ i = j - 1
        BY <1>1, <1>10, <2>4, <2>9
      <4> QED BY <1>9, <2>9, <4>1, Zenon
    <3>2. More(j) = w /\ More(j - 1) = 0
      BY <1>10, <2>9
    <3> QED BY <2>2, <2>5, <2>6, <2>7, <2>8, <3>1, <3>2
  <2>10. CASE j # i + 1
    <3>1. More(j) = More(j - 1) /\ More(j) \in Nat
      BY <1>10, <2>4, <2>10
    <3> HIDE DEF More
    <3> DEFINE a == WithHeader(ms[j].size)
    <3>2. f[j] + More(j) = (f[j - 1] + More(j - 1)) + a
      BY <2>7, <3>1
    <3>3. f[j - 1] + More(j - 1) <= ms[j].at
      BY <2>5, <2>6, <2>7, <2>8, <3>1
    <3> HIDE DEF a
    <3>4. a \in Nat /\ Start(j) = ms[j].at + a
      BY <2>5, <2>7 DEF a
    <3>5. f[j] + More(j) <= Start(j)
      BY <2>7, <3>1, <3>2, <3>3, <3>4
    <3> QED BY <2>2, <3>5
  <2> QED BY <2>9, <2>10
<1>12. f[n] + More(n) <= Start(n)
  BY <1>1, <1>11, Zenon
<1>13. f[n] \in Int /\ Start(n) \in Nat
  BY <1>1, <1>2, <1>6, Zenon
<1>14. CASE i = n
  <2>1. b - Start(n) >= w
    BY <1>9, <1>14, Zenon
  <2>2. More(n) = 0
    BY <1>1, <1>14
  <2> QED BY <1>0, <1>12, <1>13, <2>1, <2>2 DEF n
<1>15. CASE i # n
  <2>1. More(n) = w
    BY <1>1, <1>10, <1>15
  <2> QED BY <1>0, <1>8, <1>12, <1>13, <2>1 DEF n
<1> QED BY <1>14, <1>15

-----------------------------------------------------------------------------
(***************************************************************************)
(* What the operators of the allocator return.                             *)
(***************************************************************************)
LEMMA RoundUp ==
  ASSUME NEW st \in Nat, NEW p \in Nat \ {0}
  PROVE  /\ (st + p - 1) \div p \in Nat
         /\ p * ((st + p - 1) \div p) \in Nat
         /\ p * ((st + p - 1) \div p) >= st
<1> DEFINE q == (st + p - 1) \div p
           d == (st + p - 1) % p
<1>1. st + p - 1 \in Nat
  OBVIOUS
<1>2. d \in 0 .. p - 1 /\ q \in Nat /\ st + p - 1 = p * q + d
  BY <1>1, Digit
<1> HIDE DEF q, d
<1>3. p * q \in Nat
  BY <1>2, SMT
<1> DEFINE pq == p * q
<1> HIDE DEF pq
<1>4. pq >= st
  BY <1>2, <1>3 DEF pq
<1> QED BY <1>2, <1>3, <1>4 DEF pq, q

LEMMA Scale ==
  ASSUME NEW p \in Nat, NEW a \in Nat, NEW b \in Nat, a <= b
  PROVE  b * p \in Nat /\ p * a <= b * p
BY SMT

LEMMA MaxOfTwo ==
  ASSUME NEW a \in Nat, NEW b \in Nat
  PROVE  Max({a, b}) \in Nat /\ a <= Max({a, b})
<1>1. \E x \in {a, b} : \A y \in {a, b} : x >= y
  OBVIOUS
<1>2. Max({a, b}) \in {a, b} /\ \A y \in {a, b} : Max({a, b}) >= y
  BY <1>1, Zenon DEF Max
<1> QED BY <1>2

\* A new major has room for its header and the minor it is mapped for.
LEMMA NewMajorFits ==
  ASSUME NEW n \in Nat
  PROVE  NewBytes(n) \in Nat /\ MajorHeader + WithHeader(n) <= NewBytes(n)
<1> DEFINE st == n + MajorHeader + MinorHeader
           pages == (st + PageSize - 1) \div PageSize
           most == Max({pages, PageCount})
<1>1. st \in Nat /\ PageSize \in Nat \ {0} /\ PageCount \in Nat
  BY LibSizes
<1> HIDE DEF st
<1>2. pages \in Nat /\ PageSize * pages \in Nat /\ PageSize * pages >= st
  BY <1>1, RoundUp
<1> HIDE DEF pages
<1>3. most \in Nat /\ pages <= most
  BY <1>1, <1>2, MaxOfTwo
<1> HIDE DEF most
<1>4. most * PageSize \in Nat /\ PageSize * pages <= most * PageSize
  BY <1>1, <1>2, <1>3, Scale
<1>5. NewBytes(n) = most * PageSize
  BY Zenon DEF NewBytes, most, pages, st
<1> DEFINE a == PageSize * pages
           b == most * PageSize
<1> HIDE DEF a, b
<1>6. a \in Nat /\ a >= st /\ b \in Nat /\ a <= b /\ NewBytes(n) = b
  BY <1>2, <1>4, <1>5 DEF a, b
<1>7. st <= b
  BY <1>1, <1>6
<1>8. MajorHeader + WithHeader(n) = st
  BY LibSizes DEF st, WithHeader
<1> QED BY <1>6, <1>7, <1>8

\* The pointer that a caller gets: behind the header of its minor, and with the
\* bytes asked for inside it.
LEMMA PointerInside ==
  ASSUME NEW m \in MinorType, m.size = Padded(m.req)
  PROVE  /\ Pointer(m) \in Nat
         /\ Pointer(m) - Info >= m.at + MinorHeader
         /\ Pointer(m) + m.req <= EndOf(m)
<1> DEFINE p == m.at + MinorHeader + Info
           a == p % Alignment
           s == (Alignment - a) % Alignment
<1>1. m.at \in Nat /\ m.req \in Nat
  BY DEF MinorType
<1>2. p \in Nat
  BY <1>1, LibSizes
<1>3. a \in 0 .. Alignment - 1
  BY <1>2, LibSizes, Digit
<1> HIDE DEF a
<1>4. Alignment - a \in Nat
  BY <1>3, LibSizes
<1>5. s \in 0 .. Alignment - 1
  BY <1>4, LibSizes, Digit
<1>6. Pointer(m) = p + s
  BY Zenon DEF Pointer, a
<1> HIDE DEF s
<1>7. EndOf(m) = m.at + (m.req + Alignment + Info + MinorHeader)
  BY DEF EndOf, WithHeader, Padded
<1> QED BY <1>1, <1>5, <1>6, <1>7, LibSizes

\* The best bet after a walk is the old one or a region of the walk.
LEMMA BetterIs ==
  ASSUME NEW seen, DOMAIN seen \subseteq Nat
  PROVE  Better(seen) = bestBet \/ \E k \in DOMAIN seen : Better(seen) = seen[k].r
<1> DEFINE free == IF bestBet = NoRegion THEN 0 ELSE FreeBytes(bestBet)
           best == {k \in DOMAIN seen :
                      /\ seen[k].free > free
                      /\ \A j \in DOMAIN seen : seen[j].free <= seen[k].free}
<1>1. Better(seen) = IF best = {} THEN bestBet ELSE seen[Min(best)].r
  BY Zenon DEF Better
<1>2. CASE best = {}
  BY <1>1, <1>2
<1>3. CASE best # {}
  <2>1. best \subseteq DOMAIN seen /\ best \subseteq Nat
    BY Zenon
  <2> HIDE DEF best
  <2>2. Min(best) \in best
    BY <1>3, <2>1, MinIn
  <2> QED BY <1>1, <1>3, <2>1, <2>2, Zenon
<1> QED BY <1>2, <1>3

-----------------------------------------------------------------------------
(***************************************************************************)
(* The list of the majors, and the way malloc takes through it.            *)
(***************************************************************************)
LEMMA ToSetIs ==
  ASSUME NEW s \in Seq(Region)
  PROVE  /\ Len(s) \in Nat /\ DOMAIN s = 1 .. Len(s)
         /\ \A k \in 1 .. Len(s) : s[k] \in Region /\ s[k] \in ToSet(s)
         /\ \A r \in ToSet(s) : r \in Region /\ \E k \in 1 .. Len(s) : s[k] = r
<1>1. Len(s) \in Nat /\ DOMAIN s = 1 .. Len(s)
  BY LenProperties
<1>2. \A k \in 1 .. Len(s) : s[k] \in Region
  BY ElementOfSeq
<1> QED BY <1>1, <1>2, Zenon DEF ToSet

LEMMA MapMajor ==
  ASSUME NEW s \in Seq(Region), IsInjective(s), NEW r \in Region \ ToSet(s)
  PROVE  /\ Append(s, r) \in Seq(Region) /\ IsInjective(Append(s, r))
         /\ ToSet(Append(s, r)) = ToSet(s) \cup {r}
         /\ Last(Append(s, r)) = r /\ Len(Append(s, r)) = Len(s) + 1
<1> DEFINE t == Append(s, r)
           n == Len(s)
<1>1. /\ n \in Nat /\ \A k \in 1 .. n : s[k] \in Region /\ s[k] \in ToSet(s)
      /\ \A x \in ToSet(s) : \E k \in 1 .. n : s[k] = x
  BY ToSetIs
<1>2. /\ t \in Seq(Region) /\ Len(t) = n + 1 /\ t[n + 1] = r
      /\ \A k \in 1 .. n : t[k] = s[k]
  BY AppendProperties
<1>3. \A j, k \in 1 .. n : s[j] = s[k] => j = k
  BY ToSetIs, Zenon DEF IsInjective
<1> HIDE DEF t, n
<1>4. /\ DOMAIN t = 1 .. n + 1 /\ \A k \in 1 .. n + 1 : t[k] \in ToSet(t)
      /\ \A x \in ToSet(t) : \E k \in 1 .. n + 1 : t[k] = x
  BY <1>2, ToSetIs
<1>5. \A k \in 1 .. n + 1 : k \in 1 .. n \/ k = n + 1
  BY <1>1
<1>6. n + 1 \in 1 .. n + 1 /\ \A k \in 1 .. n : k \in 1 .. n + 1
  BY <1>1
<1>7. ASSUME NEW j \in 1 .. n + 1, NEW k \in 1 .. n + 1, t[j] = t[k]
      PROVE  j = k
  BY <1>1, <1>2, <1>3, <1>5, <1>7, Zenon
<1>8. ToSet(t) = ToSet(s) \cup {r}
  <2>1. ASSUME NEW x \in ToSet(t) PROVE x \in ToSet(s) \cup {r}
    <3>1. PICK k \in 1 .. n + 1 : t[k] = x
      BY <1>4
    <3>2. CASE k = n + 1
      BY <1>2, <3>1, <3>2
    <3>3. CASE k \in 1 .. n
      <4>1. x = s[k] /\ s[k] \in ToSet(s)
        BY <1>1, <1>2, <3>1, <3>3
      <4> QED BY <4>1
    <3> QED BY <1>5, <3>2, <3>3
  <2>2. ASSUME NEW x \in ToSet(s) PROVE x \in ToSet(t)
    <3>1. PICK k \in 1 .. n : s[k] = x
      BY <1>1
    <3>2. t[k] = x /\ k \in 1 .. n + 1
      BY <1>2, <1>6, <3>1
    <3> QED BY <1>4, <3>2
  <2>3. r \in ToSet(t)
    BY <1>2, <1>4, <1>6
  <2> QED BY <2>1, <2>2, <2>3
<1>9. IsInjective(t)
  BY <1>4, <1>7, Zenon DEF IsInjective
<1> QED BY <1>2, <1>8, <1>9, Zenon DEF t, n, Last

LEMMA UnmapMajor ==
  ASSUME NEW s \in Seq(Region), IsInjective(s), NEW p \in 1 .. Len(s)
  PROVE  /\ RemoveAt(s, p) \in Seq(Region) /\ IsInjective(RemoveAt(s, p))
         /\ ToSet(RemoveAt(s, p)) = ToSet(s) \ {s[p]}
<1> DEFINE t == RemoveAt(s, p)
           n == Len(s)
           old(k) == IF k < p THEN k ELSE k + 1
<1>1. /\ n \in Nat /\ \A k \in 1 .. n : s[k] \in ToSet(s)
      /\ \A x \in ToSet(s) : \E k \in 1 .. n : s[k] = x
  BY ToSetIs
<1>2. /\ t \in Seq(Region) /\ Len(t) = n - 1
      /\ \A k \in 1 .. n - 1 : t[k] = IF k < p THEN s[k] ELSE s[k + 1]
  BY RemoveAtIs, Zenon
<1>3. \A j, k \in 1 .. n : s[j] = s[k] => j = k
  BY ToSetIs, Zenon DEF IsInjective
<1>0. p \in 1 .. n
  OBVIOUS
<1> HIDE DEF t, n
<1>4. /\ DOMAIN t = 1 .. n - 1 /\ \A k \in 1 .. n - 1 : t[k] \in ToSet(t)
      /\ \A x \in ToSet(t) : \E k \in 1 .. n - 1 : t[k] = x
  BY <1>2, ToSetIs
<1>5. \A k \in 1 .. n - 1 : t[k] = s[old(k)] /\ old(k) \in 1 .. n /\ old(k) # p
  BY <1>0, <1>1, <1>2
<1>6. \A j, k \in 1 .. n - 1 : old(j) = old(k) => j = k
  BY <1>0, <1>1
<1>7. \A k \in 1 .. n : k # p => \E j \in 1 .. n - 1 : old(j) = k
  <2> SUFFICES ASSUME NEW k \in 1 .. n, k # p PROVE \E j \in 1 .. n - 1 : old(j) = k
    OBVIOUS
  <2>1. CASE k < p
    <3>1. k \in 1 .. n - 1 /\ old(k) = k
      BY <1>0, <1>1, <2>1
    <3> QED BY <3>1, Zenon
  <2>2. CASE ~(k < p)
    <3>1. k - 1 \in 1 .. n - 1 /\ old(k - 1) = k
      BY <1>0, <1>1, <2>2
    <3> QED BY <3>1, Zenon
  <2> QED BY <2>1, <2>2
<1> HIDE DEF old
<1>8. IsInjective(t)
  <2>1. ASSUME NEW j \in 1 .. n - 1, NEW k \in 1 .. n - 1, t[j] = t[k] PROVE j = k
    BY <1>3, <1>5, <1>6, <2>1, Zenon
  <2> QED BY <1>4, <2>1, Zenon DEF IsInjective
<1>9. ToSet(t) = ToSet(s) \ {s[p]}
  <2>1. ASSUME NEW x \in ToSet(t) PROVE x \in ToSet(s) \ {s[p]}
    <3>1. PICK k \in 1 .. n - 1 : t[k] = x
      BY <1>4
    <3>2. x = s[old(k)] /\ old(k) \in 1 .. n /\ old(k) # p
      BY <1>5, <3>1
    <3>3. s[old(k)] # s[p]
      BY <1>0, <1>3, <3>2
    <3> QED BY <1>1, <3>2, <3>3
  <2>2. ASSUME NEW x \in ToSet(s) \ {s[p]} PROVE x \in ToSet(t)
    <3>1. PICK k \in 1 .. n : s[k] = x
      BY <1>1
    <3>2. PICK j \in 1 .. n - 1 : old(j) = k
      BY <1>7, <3>1
    <3> QED BY <1>4, <1>5, <3>1, <3>2, Zenon
  <2> QED BY <2>1, <2>2
<1> QED BY <1>2, <1>8, <1>9, Zenon DEF t

LEMMA PlaceIs ==
  ASSUME majors \in Seq(Region), NEW r \in ToSet(majors)
  PROVE  PlaceOf(r) \in 1 .. Len(majors) /\ majors[PlaceOf(r)] = r
<1>1. \E k \in DOMAIN majors : majors[k] = r
  BY DEF ToSet
<1>2. DOMAIN majors = 1 .. Len(majors)
  BY ToSetIs
<1> QED BY <1>1, <1>2, Zenon DEF PlaceOf

\* malloc looks at majors only, and at every one of them.
LEMMA PathIs ==
  ASSUME majors \in Seq(Region), bestBet \in ToSet(majors) \cup {NoRegion}, NEW n
  PROVE  /\ Visited(n) \in Seq(Region)
         /\ \A k \in 1 .. Len(Visited(n)) : Visited(n)[k] \in ToSet(majors)
         /\ \A r \in ToSet(majors) : \E k \in 1 .. Len(Visited(n)) : Visited(n)[k] = r
<1>1. /\ Len(majors) \in Nat /\ \A k \in 1 .. Len(majors) : majors[k] \in ToSet(majors)
      /\ \A r \in ToSet(majors) : \E k \in 1 .. Len(majors) : majors[k] = r
  BY ToSetIs
<1>2. CASE ~FromBest(n)
  <2>1. Visited(n) = majors
    BY <1>2, Zenon DEF Visited
  <2> QED BY <1>1, <2>1, Zenon
<1>3. CASE FromBest(n)
  <2> DEFINE p == PlaceOf(bestBet)
             l == SubSeq(majors, p, Len(majors))
             path == l \o majors
  <2>1. Visited(n) = path
    BY <1>3, Zenon DEF Visited
  <2>2. bestBet \in ToSet(majors)
    BY <1>3, Zenon DEF FromBest
  <2>3. p \in 1 .. Len(majors)
    BY <2>2, PlaceIs, Zenon
  <2> HIDE DEF p
  <2>4. /\ l \in Seq(Region) /\ Len(l) = Len(majors) - p + 1
        /\ \A j \in 1 .. Len(majors) - p + 1 : l[j] = majors[p + j - 1]
    BY <1>1, <2>3, SubSeqProperties
  <2>5. ASSUME NEW j \in 1 .. Len(l) PROVE l[j] \in ToSet(majors)
    <3> HIDE DEF l
    <3>1. p + j - 1 \in 1 .. Len(majors)
      BY <1>1, <2>3, <2>4
    <3> QED BY <1>1, <2>4, <3>1, Zenon
  <2> HIDE DEF l
  <2>6. /\ path \in Seq(Region) /\ Len(path) = Len(l) + Len(majors)
        /\ \A j \in 1 .. Len(l) + Len(majors) :
             path[j] = IF j <= Len(l) THEN l[j] ELSE majors[j - Len(l)]
    BY <2>4, ConcatProperties
  <2> HIDE DEF path
  <2>7. Len(l) \in Nat
    BY <1>1, <2>3, <2>4
  <2>8. ASSUME NEW j \in 1 .. Len(path) PROVE path[j] \in ToSet(majors)
    <3>1. CASE j <= Len(l)
      <4>1. j \in 1 .. Len(l) /\ path[j] = l[j]
        BY <1>1, <2>6, <2>7, <3>1
      <4> QED BY <2>5, <4>1, Zenon
    <3>2. CASE ~(j <= Len(l))
      <4>1. j - Len(l) \in 1 .. Len(majors) /\ path[j] = majors[j - Len(l)]
        BY <1>1, <2>6, <2>7, <3>2
      <4> QED BY <1>1, <4>1, Zenon
    <3> QED BY <3>1, <3>2
  <2>9. ASSUME NEW r \in ToSet(majors) PROVE \E j \in 1 .. Len(path) : path[j] = r
    <3>1. PICK k \in 1 .. Len(majors) : majors[k] = r
      BY <1>1
    <3>2. Len(l) + k \in 1 .. Len(path) /\ path[Len(l) + k] = majors[k]
      <4>1. Len(l) + k \in 1 .. Len(l) + Len(majors) /\ ~(Len(l) + k <= Len(l)) /\ (Len(l) + k) - Len(l) = k
        BY <1>1, <2>7
      <4> QED BY <2>6, <4>1, Zenon
    <3> QED BY <3>1, <3>2, Zenon
  <2> QED BY <2>1, <2>6, <2>8, <2>9, Zenon
<1> QED BY <1>2, <1>3

-----------------------------------------------------------------------------
(***************************************************************************)
(* The invariant.                                                          *)
(***************************************************************************)
Correct(ms, b, u) ==
  ms # <<>> /\ MajorHeader <= b /\ InOrder(ms, b) /\ Summed(ms, u)

LibTypeOK ==
  /\ majors \in Seq(Region)
  /\ bytes \in [Region -> Nat]
  /\ usage \in [Region -> Int]
  /\ minors \in [Region -> Seq(MinorType)]

LibInv ==
  /\ LibTypeOK
  /\ IsInjective(majors)
  /\ bestBet \in ToSet(majors) \cup {NoRegion}
  /\ \A r \in ToSet(majors) : Correct(minors[r], bytes[r], usage[r])
  /\ \A r \in Region \ ToSet(majors) : minors[r] = <<>>

LEMMA NewMinor ==
  ASSUME NEW req \in Request, NEW at \in Nat
  PROVE  /\ req \in Nat \ {0} /\ Padded(req) \in Nat
         /\ Minor(at, req) \in MinorType
         /\ Minor(at, req).at = at /\ Minor(at, req).req = req
         /\ Minor(at, req).size = Padded(req)
         /\ EndOf(Minor(at, req)) = at + WithHeader(Padded(req))
<1>1. req \in Nat \ {0}
  BY LibAllocAssumption
<1>2. Padded(req) \in Nat
  BY <1>1, LibSizes DEF Padded
<1> QED BY <1>1, <1>2 DEF Minor, MinorType, EndOf

LEMMA InitOfLib == ASSUME LibInit PROVE LibInv
<1>1. <<>> \in Seq(Region) /\ <<>> \in Seq(MinorType) /\ DOMAIN <<>> = {}
  BY EmptySeq
<1>2. ToSet(<<>>) = {} /\ IsInjective(<<>>)
  BY <1>1 DEF ToSet, IsInjective
<1> QED BY <1>1, <1>2 DEF LibInit, LibInv, LibTypeOK

\* The gaps of a major, and what malloc puts in one.
LEMMA GapIs ==
  ASSUME LibInv, NEW r \in ToSet(majors), NEW n \in Nat
  PROVE  /\ Len(minors[r]) \in Nat /\ Gaps(r, n) \subseteq 0 .. Len(minors[r])
         /\ \A i \in Gaps(r, n) :
              /\ GapStart(r, i) = IF i = 0 THEN MajorHeader ELSE EndOf(minors[r][i])
              /\ GapEnd(r, i) = IF i = Len(minors[r]) THEN bytes[r] ELSE minors[r][i + 1].at
              /\ GapStart(r, i) \in Nat /\ GapEnd(r, i) \in Nat
              /\ GapEnd(r, i) - GapStart(r, i) >= WithHeader(n)
<1> DEFINE ms == minors[r]
<1>1. r \in Region /\ ms \in Seq(MinorType) /\ bytes[r] \in Nat
  BY ToSetIs DEF LibInv, LibTypeOK
<1>2. /\ Len(ms) \in Nat
      /\ \A i \in 1 .. Len(ms) : ms[i].at \in Nat /\ EndOf(ms[i]) \in Nat
  BY <1>1, MinorFacts
<1>3. ASSUME NEW i \in 0 .. Len(ms)
      PROVE  /\ GapStart(r, i) = IF i = 0 THEN MajorHeader ELSE EndOf(ms[i])
             /\ GapEnd(r, i) = IF i = Len(ms) THEN bytes[r] ELSE ms[i + 1].at
  BY Zenon DEF GapStart, GapEnd, EndOf
<1> HIDE DEF ms
<1>4. ASSUME NEW i \in 0 .. Len(ms)
      PROVE  GapStart(r, i) \in Nat /\ GapEnd(r, i) \in Nat
  <2>1. i = 0 \/ i \in 1 .. Len(ms)
    BY <1>2
  <2>2. i = Len(ms) \/ i + 1 \in 1 .. Len(ms)
    BY <1>2
  <2>3. GapStart(r, i) \in Nat
    BY <1>2, <1>3, <2>1, LibSizes, Zenon
  <2>4. GapEnd(r, i) \in Nat
    BY <1>1, <1>2, <1>3, <2>2, Zenon
  <2> QED BY <2>3, <2>4
<1>5. Gaps(r, n) = {i \in 0 .. Len(ms) : GapEnd(r, i) - GapStart(r, i) >= WithHeader(n)}
  BY Zenon DEF Gaps, ms
<1>6. /\ Len(ms) \in Nat /\ Gaps(r, n) \subseteq 0 .. Len(ms)
      /\ \A i \in Gaps(r, n) :
           /\ GapStart(r, i) = IF i = 0 THEN MajorHeader ELSE EndOf(ms[i])
           /\ GapEnd(r, i) = IF i = Len(ms) THEN bytes[r] ELSE ms[i + 1].at
           /\ GapStart(r, i) \in Nat /\ GapEnd(r, i) \in Nat
           /\ GapEnd(r, i) - GapStart(r, i) >= WithHeader(n)
  BY <1>2, <1>3, <1>4, <1>5, Zenon
<1> QED BY <1>6, Zenon DEF ms

LEMMA MallocInFits ==
  ASSUME LibInv, NEW r \in ToSet(majors), NEW req \in Request, Gaps(r, Padded(req)) # {}
  PROVE  LET i == Min(Gaps(r, Padded(req)))
             t == InsertAt(minors[r], i + 1, Minor(GapStart(r, i), req))
         IN  /\ t \in Seq(MinorType)
             /\ Correct(t, bytes[r], usage[r] + WithHeader(Padded(req)))
<1> DEFINE n == Padded(req)
           i == Min(Gaps(r, n))
           ms == minors[r]
           e == Minor(GapStart(r, i), req)
           t == InsertAt(ms, i + 1, e)
<1>1. /\ r \in Region /\ ms \in Seq(MinorType) /\ bytes[r] \in Nat
      /\ Correct(ms, bytes[r], usage[r])
  BY ToSetIs DEF LibInv, LibTypeOK
<1>2. n \in Nat
  BY NewMinor
<1> HIDE DEF n
<1>3. Gaps(r, n) \subseteq 0 .. Len(ms) /\ Len(ms) \in Nat
  BY <1>2, GapIs
<1>4. i \in Gaps(r, n)
  <2>1. Gaps(r, n) \subseteq Nat
    BY <1>3
  <2>2. Gaps(r, n) # {}
    BY DEF n
  <2> QED BY <2>1, <2>2, MinIn
<1> HIDE DEF i
<1>5. /\ GapStart(r, i) = IF i = 0 THEN MajorHeader ELSE EndOf(ms[i])
      /\ GapEnd(r, i) = IF i = Len(ms) THEN bytes[r] ELSE ms[i + 1].at
      /\ GapStart(r, i) \in Nat /\ GapEnd(r, i) \in Nat
      /\ GapEnd(r, i) - GapStart(r, i) >= WithHeader(n)
  <2>1. \A j \in Gaps(r, n) :
          /\ GapStart(r, j) = IF j = 0 THEN MajorHeader ELSE EndOf(ms[j])
          /\ GapEnd(r, j) = IF j = Len(ms) THEN bytes[r] ELSE ms[j + 1].at
          /\ GapStart(r, j) \in Nat /\ GapEnd(r, j) \in Nat
          /\ GapEnd(r, j) - GapStart(r, j) >= WithHeader(n)
    BY <1>2, GapIs
  <2> HIDE DEF ms
  <2> QED BY <1>4, <2>1, Zenon
<1>6. /\ e \in MinorType /\ e.at = GapStart(r, i) /\ e.size = n /\ e.size = Padded(e.req)
      /\ EndOf(e) = GapStart(r, i) + WithHeader(n)
  <2>1. GapStart(r, i) \in Nat
    BY <1>5
  <2> DEFINE at == GapStart(r, i)
  <2> HIDE DEF at
  <2>2. /\ Minor(at, req) \in MinorType /\ Minor(at, req).at = at /\ Minor(at, req).req = req
        /\ Minor(at, req).size = Padded(req)
        /\ EndOf(Minor(at, req)) = at + WithHeader(Padded(req))
    BY <2>1, NewMinor DEF at
  <2> QED BY <2>2, Zenon DEF at, n
<1> HIDE DEF e
<1>7. i \in 0 .. Len(ms) /\ i + 1 \in 1 .. Len(ms) + 1
  BY <1>3, <1>4
<1>8. t \in Seq(MinorType) /\ Len(t) = Len(ms) + 1
  <2>1. t \in Seq(MinorType) /\ Inserted(t, ms, i + 1, e)
    BY <1>1, <1>6, <1>7, InsertAtIs, Zenon
  <2> HIDE DEF t
  <2> QED BY <2>1, Zenon DEF Inserted
<1>9. InOrder(t, bytes[r])
  <2>1. WithHeader(n) \in Nat
    BY <1>2, LibSizes DEF WithHeader
  <2>2. EndOf(e) <= GapEnd(r, i)
    <3>1. /\ GapEnd(r, i) - GapStart(r, i) >= WithHeader(n)
          /\ GapStart(r, i) \in Nat /\ GapEnd(r, i) \in Nat
          /\ EndOf(e) = GapStart(r, i) + WithHeader(n)
      BY <1>5, <1>6, Zenon
    <3> HIDE DEF ms
    <3> QED BY <2>1, <3>1
  <2> HIDE DEF ms
  <2>3. InOrder(ms, bytes[r])
    BY <1>1 DEF Correct
  <2>4. EndOf(e) <= IF i = Len(ms) THEN bytes[r] ELSE ms[i + 1].at
    BY <1>5, <2>2, Zenon
  <2>5. e.at = IF i = 0 THEN MajorHeader ELSE EndOf(ms[i])
    BY <1>5, <1>6, Zenon
  <2> QED BY <1>1, <1>6, <1>7, <2>3, <2>4, <2>5, OrderAfterInsert
<1>10. Summed(t, usage[r] + WithHeader(n))
  <2>1. Summed(ms, usage[r])
    BY <1>1 DEF Correct
  <2> HIDE DEF ms
  <2>2. Summed(t, usage[r] + WithHeader(e.size))
    BY <1>1, <1>6, <1>7, <2>1, SumAfterInsert
  <2> QED BY <1>6, <2>2, Zenon
<1>11. t # <<>>
  <2>1. Len(t) # 0
    BY <1>3, <1>8
  <2> QED BY <2>1
<1>12. t \in Seq(MinorType) /\ Correct(t, bytes[r], usage[r] + WithHeader(n))
  BY <1>1, <1>8, <1>9, <1>10, <1>11, Zenon DEF Correct
<1> QED BY <1>12, Zenon DEF t, e, i, ms, n

LEMMA SeenIs ==
  ASSUME NEW rs \in Seq(Region)
  PROVE  DOMAIN Seen(rs) = 1 .. Len(rs) /\ \A k \in 1 .. Len(rs) : Seen(rs)[k].r = rs[k]
BY ToSetIs DEF Seen

LEMMA MallocKeeps ==
  ASSUME LibInv, NEW req \in Request, Malloc(req)
  PROVE  LibInv'
<1> DEFINE n == Padded(req)
           path == Visited(n)
           fit == {k \in DOMAIN path : Roomy(path[k], n) /\ Gaps(path[k], n) # {}}
           k == Min(fit)
           r == path[k]
           walk == SubSeq(path, 1, k)
           i == Min(Gaps(r, n))
           t == InsertAt(minors[r], i + 1, Minor(GapStart(r, i), req))
<1>1. LibTypeOK /\ IsInjective(majors) /\ bestBet \in ToSet(majors) \cup {NoRegion}
  BY DEF LibInv
<1>2. /\ path \in Seq(Region) /\ Len(path) \in Nat /\ DOMAIN path = 1 .. Len(path)
      /\ \A j \in 1 .. Len(path) : path[j] \in ToSet(majors)
  <2>1. path \in Seq(Region) /\ \A j \in 1 .. Len(path) : path[j] \in ToSet(majors)
    BY <1>1, PathIs, Zenon DEF LibTypeOK
  <2> HIDE DEF path
  <2> QED BY <2>1, ToSetIs
<1>3. fit # {} /\ MallocIn(r, req, walk)
  BY Zenon DEF Malloc
<1> HIDE DEF path
<1>4. k \in fit
  <2>1. fit \subseteq Nat
    BY <1>2
  <2> HIDE DEF fit
  <2> QED BY <1>3, <2>1, MinIn
<1>5. k \in 1 .. Len(path) /\ Gaps(r, n) # {}
  BY <1>2, <1>4
<1> HIDE DEF k, fit
<1>6. r \in ToSet(majors) /\ r \in Region
  BY <1>1, <1>2, <1>5, ToSetIs DEF LibTypeOK
<1>7. walk \in Seq(Region) /\ \A j \in 1 .. Len(walk) : walk[j] \in ToSet(majors)
  <2>1. \A j \in 1 .. k : j \in 1 .. Len(path)
    BY <1>2, <1>5
  <2>2. \A j \in 1 .. k : path[j] \in Region
    BY <1>2, <2>1, ToSetIs
  <2>3. /\ walk \in Seq(Region) /\ Len(walk) = k
        /\ \A j \in 1 .. k : walk[j] = path[1 + j - 1]
    BY <1>5, <2>2, SubSeqProperties
  <2> HIDE DEF walk
  <2>4. \A j \in 1 .. k : 1 + j - 1 = j
    BY <1>5
  <2> QED BY <1>2, <2>1, <2>3, <2>4, Zenon
<1>8. t \in Seq(MinorType) /\ Correct(t, bytes[r], usage[r] + WithHeader(n))
  <2> HIDE DEF r
  <2> QED BY <1>5, <1>6, MallocInFits, Zenon
<1> HIDE DEF walk
<1>9. /\ minors' = [minors EXCEPT ![r] = t]
      /\ usage' = [usage EXCEPT ![r] = @ + WithHeader(n)]
      /\ bestBet' = Better(Seen(walk))
      /\ majors' = majors /\ bytes' = bytes
  BY <1>3, Zenon DEF MallocIn
<1> HIDE DEF r, t, i, n
<1>10. bestBet' \in ToSet(majors) \cup {NoRegion}
  <2>1. /\ Len(walk) \in Nat /\ DOMAIN Seen(walk) = 1 .. Len(walk)
        /\ \A j \in 1 .. Len(walk) : Seen(walk)[j].r = walk[j]
    BY <1>7, SeenIs, ToSetIs
  <2>2. DOMAIN Seen(walk) \subseteq Nat
    BY <2>1
  <2>3. bestBet' = bestBet \/ \E j \in DOMAIN Seen(walk) : bestBet' = Seen(walk)[j].r
    BY <1>9, <2>2, BetterIs
  <2> QED BY <1>1, <1>7, <2>1, <2>3
<1>11. WithHeader(n) \in Nat
  <2>1. n \in Nat
    BY NewMinor DEF n
  <2> QED BY <2>1, LibSizes DEF WithHeader
<1>12. LibTypeOK'
  BY <1>1, <1>6, <1>8, <1>9, <1>11 DEF LibTypeOK
<1>13. ASSUME NEW x \in ToSet(majors) PROVE Correct(minors'[x], bytes'[x], usage'[x])
  <2>1. x \in Region
    BY <1>1, ToSetIs DEF LibTypeOK
  <2>2. CASE x = r
    <3>1. minors'[x] = t /\ usage'[x] = usage[r] + WithHeader(n) /\ bytes'[x] = bytes[r]
      BY <1>1, <1>6, <1>9, <2>2 DEF LibTypeOK
    <3> QED BY <1>8, <3>1
  <2>3. CASE x # r
    <3>1. minors'[x] = minors[x] /\ usage'[x] = usage[x] /\ bytes'[x] = bytes[x]
      BY <1>1, <1>9, <2>1, <2>3 DEF LibTypeOK
    <3> QED BY <3>1 DEF LibInv
  <2> QED BY <2>2, <2>3
<1>14. ASSUME NEW x \in Region \ ToSet(majors) PROVE minors'[x] = <<>>
  BY <1>1, <1>6, <1>9 DEF LibInv, LibTypeOK
<1> QED BY <1>1, <1>9, <1>10, <1>12, <1>13, <1>14 DEF LibInv

LEMMA MallocMapKeeps ==
  ASSUME LibInv, NEW req \in Request, MallocMap(req)
  PROVE  LibInv'
<1> DEFINE n == Padded(req)
           path == Visited(n)
           size == NewBytes(n)
           e == Minor(MajorHeader, req)
<1>1. LibTypeOK /\ IsInjective(majors) /\ bestBet \in ToSet(majors) \cup {NoRegion}
  BY DEF LibInv
<1>2. /\ path \in Seq(Region) /\ Len(path) \in Nat
      /\ \A j \in 1 .. Len(path) : path[j] \in ToSet(majors)
  <2>1. path \in Seq(Region) /\ \A j \in 1 .. Len(path) : path[j] \in ToSet(majors)
    BY <1>1, PathIs, Zenon DEF LibTypeOK
  <2> HIDE DEF path
  <2> QED BY <2>1, ToSetIs
<1>3. PICK r \in Region \ ToSet(majors) :
        /\ majors'  = Append(majors, r)
        /\ bytes'   = [bytes EXCEPT ![r] = size]
        /\ minors'  = [minors EXCEPT ![r] = <<e>>]
        /\ usage'   = [usage EXCEPT ![r] = MajorHeader + WithHeader(n)]
        /\ bestBet' = Better(Seen(path) \o
             IF path # <<>> /\ ~Roomy(Last(path), n) THEN <<>>
             ELSE <<[r |-> r, free |-> size - MajorHeader]>>)
  BY Zenon DEF MallocMap
<1>4. /\ n \in Nat /\ e \in MinorType /\ e.at = MajorHeader
      /\ e.size = Padded(e.req) /\ e.size = n /\ EndOf(e) = MajorHeader + WithHeader(n)
  BY NewMinor, LibSizes
<1>5. WithHeader(n) \in Nat /\ size \in Nat /\ MajorHeader + WithHeader(n) <= size
  <2> HIDE DEF n
  <2> QED BY <1>4, LibSizes, NewMajorFits DEF WithHeader
<1> HIDE DEF path, n, size, e
<1>6. /\ <<e>> \in Seq(MinorType) /\ <<e>> # <<>> /\ Len(<<e>>) = 1
      /\ \A j \in 1 .. 1 : <<e>>[j] = e
  BY <1>4
<1>7. InOrder(<<e>>, size)
  <2>1. e.at >= MajorHeader /\ EndOf(e) <= size
    BY <1>4, <1>5, LibSizes
  <2>2. \A j, k \in 1 .. 1 : ~(j < k)
    OBVIOUS
  <2> QED BY <1>4, <1>6, <2>1, <2>2, Zenon DEF InOrder
<1>8. Summed(<<e>>, MajorHeader + WithHeader(n))
  <2> DEFINE f == [j \in 0 .. 1 |-> IF j = 0 THEN MajorHeader ELSE MajorHeader + WithHeader(n)]
  <2>1. /\ f \in [0 .. 1 -> Int] /\ f[0] = MajorHeader /\ f[1] = f[1 - 1] + WithHeader(n)
        /\ f[1] = MajorHeader + WithHeader(n)
    BY <1>5, LibSizes
  <2> HIDE DEF f
  <2>2. \A j \in 1 .. 1 : j = 1
    OBVIOUS
  <2>3. \A j \in 1 .. 1 : f[j] = f[j - 1] + WithHeader(<<e>>[j].size)
    BY <1>4, <1>6, <2>1, <2>2, Zenon
  <2>4. Totals(<<e>>, f)
    BY <1>6, <2>1, <2>3, Zenon DEF Totals
  <2> QED BY <1>6, <2>1, <2>4, Zenon DEF Summed
<1>9. MajorHeader <= size
  BY <1>5, LibSizes
<1>10. Correct(<<e>>, size, MajorHeader + WithHeader(n))
  BY <1>6, <1>7, <1>8, <1>9, Zenon DEF Correct
<1>11. /\ majors' \in Seq(Region) /\ IsInjective(majors')
       /\ ToSet(majors') = ToSet(majors) \cup {r}
  BY <1>1, <1>3, MapMajor, Zenon DEF LibTypeOK
<1>12. LibTypeOK'
  <2>1. MajorHeader + WithHeader(n) \in Int
    BY <1>5, LibSizes
  <2> QED BY <1>1, <1>3, <1>5, <1>6, <1>11, <2>1, Zenon DEF LibTypeOK
<1>13. bestBet' \in ToSet(majors') \cup {NoRegion}
  <2> DEFINE x == IF path # <<>> /\ ~Roomy(Last(path), n) THEN <<>>
                  ELSE <<[r |-> r, free |-> size - MajorHeader]>>
             A == [r : Region, free : {Seen(path)[j].free : j \in DOMAIN Seen(path)} \cup {size - MajorHeader}]
             seen == Seen(path) \o x
  <2>1. /\ DOMAIN Seen(path) = 1 .. Len(path)
        /\ \A j \in 1 .. Len(path) : Seen(path)[j].r = path[j]
    BY <1>2, SeenIs
  <2>2. Seen(path) \in Seq(A) /\ Len(Seen(path)) = Len(path)
    <3>1. \A j \in 1 .. Len(path) : Seen(path)[j] \in A
      <4>1. DOMAIN path = 1 .. Len(path) /\ \A j \in 1 .. Len(path) : path[j] \in Region
        BY <1>2, ToSetIs
      <4>2. ASSUME NEW j \in 1 .. Len(path)
            PROVE  Seen(path)[j] = [r |-> path[j], free |-> FreeBytes(path[j])]
        BY <4>1 DEF Seen
      <4> QED BY <2>1, <4>1, <4>2
    <3>2. Seen(path) = [j \in 1 .. Len(path) |-> Seen(path)[j]]
      BY <2>1 DEF Seen
    <3> HIDE DEF A
    <3> QED BY <1>2, <3>1, <3>2, IsASeq
  <2>3. /\ x \in Seq(A) /\ Len(x) \in Nat /\ \A j \in 1 .. Len(x) : x[j].r = r
    <3> DEFINE new == [r |-> r, free |-> size - MajorHeader]
    <3>1. new \in A /\ new.r = r
      BY <1>3
    <3> HIDE DEF A, new
    <3>2. <<new>> \in Seq(A) /\ Len(<<new>>) = 1 /\ \A j \in 1 .. 1 : <<new>>[j] = new
      BY <3>1
    <3>3. <<>> \in Seq(A) /\ Len(<<>>) = 0 /\ ~\E j \in 1 .. 0 : TRUE
      OBVIOUS
    <3>4. x = <<>> \/ x = <<new>>
      BY Zenon DEF new
    <3> HIDE DEF x
    <3>5. CASE x = <<>>
      BY <3>3, <3>5
    <3>6. CASE x = <<new>>
      <4>1. 1 \in Nat
        OBVIOUS
      <4> QED BY <3>1, <3>2, <3>6, <4>1, Zenon
    <3> QED BY <3>4, <3>5, <3>6
  <2> HIDE DEF A, x
  <2>4. /\ DOMAIN seen = 1 .. Len(path) + Len(x)
        /\ \A j \in 1 .. Len(path) + Len(x) :
             seen[j] = IF j <= Len(path) THEN Seen(path)[j] ELSE x[j - Len(path)]
    <3>1. /\ seen \in Seq(A) /\ Len(seen) = Len(path) + Len(x)
          /\ \A j \in 1 .. Len(path) + Len(x) :
               seen[j] = IF j <= Len(path) THEN Seen(path)[j] ELSE x[j - Len(path)]
      <4>1. /\ seen \in Seq(A) /\ Len(seen) = Len(Seen(path)) + Len(x)
            /\ \A j \in 1 .. Len(Seen(path)) + Len(x) :
                 seen[j] = IF j <= Len(Seen(path)) THEN Seen(path)[j] ELSE x[j - Len(Seen(path))]
        BY <2>2, <2>3, ConcatProperties
      <4> HIDE DEF seen
      <4> QED BY <2>2, <4>1, Zenon
    <3> HIDE DEF seen
    <3>2. DOMAIN seen = 1 .. Len(seen)
      BY <3>1, LenProperties
    <3> QED BY <3>1, <3>2
  <2>5. bestBet' = Better(seen)
    BY <1>3 DEF x
  <2> HIDE DEF seen
  <2>6. DOMAIN seen \subseteq Nat
    BY <1>2, <2>3, <2>4
  <2>7. bestBet' = bestBet \/ \E j \in DOMAIN seen : bestBet' = seen[j].r
    BY <2>5, <2>6, BetterIs
  <2>8. ASSUME NEW j \in DOMAIN seen PROVE seen[j].r \in ToSet(majors) \cup {r}
    <3>1. CASE j <= Len(path)
      <4>1. j \in 1 .. Len(path) /\ seen[j] = Seen(path)[j]
        BY <1>2, <2>3, <2>4, <3>1
      <4> QED BY <1>2, <2>1, <4>1
    <3>2. CASE ~(j <= Len(path))
      <4>1. j - Len(path) \in 1 .. Len(x) /\ seen[j] = x[j - Len(path)]
        BY <1>2, <2>3, <2>4, <3>2
      <4> QED BY <2>3, <4>1
    <3> QED BY <3>1, <3>2
  <2> QED BY <1>1, <1>11, <2>7, <2>8
<1>14. ASSUME NEW y \in ToSet(majors') PROVE Correct(minors'[y], bytes'[y], usage'[y])
  <2>1. y \in Region
    BY <1>11, ToSetIs
  <2>2. CASE y = r
    <3>1. minors'[y] = <<e>> /\ usage'[y] = MajorHeader + WithHeader(n) /\ bytes'[y] = size
      BY <1>1, <1>3, <2>2 DEF LibTypeOK
    <3> QED BY <1>10, <3>1
  <2>3. CASE y # r
    <3>1. minors'[y] = minors[y] /\ usage'[y] = usage[y] /\ bytes'[y] = bytes[y]
      BY <1>1, <1>3, <2>1, <2>3 DEF LibTypeOK
    <3> QED BY <1>11, <2>3, <3>1 DEF LibInv
  <2> QED BY <2>2, <2>3
<1>15. ASSUME NEW y \in Region \ ToSet(majors') PROVE minors'[y] = <<>>
  BY <1>1, <1>3, <1>11 DEF LibInv, LibTypeOK
<1> QED BY <1>11, <1>12, <1>13, <1>14, <1>15 DEF LibInv

LEMMA FreeKeeps ==
  ASSUME LibInv, NEW r \in Region, NEW i \in DOMAIN minors[r], Free(r, i)
  PROVE  LibInv'
<1> DEFINE ms == minors[r]
           w == WithHeader(ms[i].size)
           t == RemoveAt(ms, i)
<1>1. LibTypeOK /\ IsInjective(majors) /\ bestBet \in ToSet(majors) \cup {NoRegion}
  BY DEF LibInv
<1>2. /\ ms \in Seq(MinorType) /\ bytes[r] \in Nat /\ usage[r] \in Int
      /\ DOMAIN ms = 1 .. Len(ms) /\ Len(ms) \in Nat
  <2>1. ms \in Seq(MinorType) /\ bytes[r] \in Nat /\ usage[r] \in Int
    BY <1>1 DEF LibTypeOK
  <2> HIDE DEF ms
  <2> QED BY <2>1, LenProperties
<1>3. i \in 1 .. Len(ms)
  BY <1>2
<1>4. r \in ToSet(majors)
  <2>1. ms # <<>>
    BY <1>2, <1>3
  <2> QED BY <2>1 DEF LibInv
<1>5. Correct(ms, bytes[r], usage[r])
  BY <1>4 DEF LibInv
<1>6. w \in Nat
  <2> HIDE DEF ms
  <2> QED BY <1>2, <1>3, MinorFacts
<1>7. /\ usage' = [usage EXCEPT ![r] = @ - w]
      /\ minors' = [minors EXCEPT ![r] = t]
  BY Zenon DEF Free
<1>8. t \in Seq(MinorType) /\ InOrder(t, bytes[r]) /\ Summed(t, usage[r] - w)
  <2> HIDE DEF ms
  <2>1. InOrder(ms, bytes[r]) /\ Summed(ms, usage[r])
    BY <1>5 DEF Correct
  <2> QED BY <1>2, <1>3, <2>1, RemoveAtIs, OrderAfterRemove, SumAfterRemove
<1> HIDE DEF t, w, ms
<1>9. minors'[r] = t /\ usage'[r] = usage[r] - w
  BY <1>1, <1>7 DEF LibTypeOK
<1>10. \A x \in Region : x # r => minors'[x] = minors[x] /\ usage'[x] = usage[x]
  BY <1>1, <1>7 DEF LibTypeOK
<1>11. minors' \in [Region -> Seq(MinorType)] /\ usage' \in [Region -> Int]
  BY <1>1, <1>2, <1>6, <1>7, <1>8 DEF LibTypeOK
<1>12. CASE t = <<>>
  <2>1. /\ majors'  = RemoveAt(majors, PlaceOf(r))
        /\ bestBet' = BetWithout(r)
        /\ bytes'   = [bytes EXCEPT ![r] = 0]
    BY <1>9, <1>12, Zenon DEF Free
  <2>2. PlaceOf(r) \in 1 .. Len(majors) /\ majors[PlaceOf(r)] = r
    BY <1>1, <1>4, PlaceIs DEF LibTypeOK
  <2>3. /\ majors' \in Seq(Region) /\ IsInjective(majors')
        /\ ToSet(majors') = ToSet(majors) \ {r}
    BY <1>1, <2>1, <2>2, UnmapMajor DEF LibTypeOK
  <2>4. LibTypeOK'
    BY <1>1, <1>11, <2>1, <2>3 DEF LibTypeOK
  <2>5. bestBet' \in ToSet(majors') \cup {NoRegion}
    BY <1>1, <2>1, <2>3 DEF BetWithout
  <2>6. ASSUME NEW x \in ToSet(majors') PROVE Correct(minors'[x], bytes'[x], usage'[x])
    <3>1. x \in ToSet(majors) /\ x # r /\ x \in Region
      BY <2>3, ToSetIs
    <3>2. minors'[x] = minors[x] /\ usage'[x] = usage[x] /\ bytes'[x] = bytes[x]
      BY <1>1, <1>10, <2>1, <3>1 DEF LibTypeOK
    <3> QED BY <3>1, <3>2 DEF LibInv
  <2>7. ASSUME NEW x \in Region \ ToSet(majors') PROVE minors'[x] = <<>>
    BY <1>9, <1>10, <1>12, <2>3 DEF LibInv
  <2> QED BY <2>3, <2>4, <2>5, <2>6, <2>7 DEF LibInv
<1>13. CASE t # <<>>
  <2>1. /\ majors' = majors /\ bytes' = bytes
        /\ bestBet' = r \/ bestBet' = bestBet
    BY <1>9, <1>13, Zenon DEF Free
  <2>2. LibTypeOK'
    BY <1>1, <1>11, <2>1 DEF LibTypeOK
  <2>3. ASSUME NEW x \in ToSet(majors) PROVE Correct(minors'[x], bytes'[x], usage'[x])
    <3>1. x \in Region
      BY <1>1, ToSetIs DEF LibTypeOK
    <3>2. CASE x = r
      <4>1. MajorHeader <= bytes[r]
        BY <1>5 DEF Correct
      <4>2. Correct(t, bytes[r], usage[r] - w)
        BY <1>8, <1>13, <4>1, Zenon DEF Correct
      <4> QED BY <1>9, <2>1, <3>2, <4>2
    <3>3. CASE x # r
      BY <1>10, <2>1, <3>1, <3>3 DEF LibInv
    <3> QED BY <3>2, <3>3
  <2>4. ASSUME NEW x \in Region \ ToSet(majors) PROVE minors'[x] = <<>>
    BY <1>4, <1>10 DEF LibInv
  <2>5. bestBet' \in ToSet(majors) \cup {NoRegion}
    BY <1>1, <1>4, <2>1
  <2> QED BY <1>1, <2>1, <2>2, <2>3, <2>4, <2>5 DEF LibInv
<1> QED BY <1>12, <1>13

LEMMA LibStep ==
  ASSUME LibInv, [LibNext]_libVars
  PROVE  LibInv'
<1>1. ASSUME NEW req \in Request, Malloc(req) PROVE LibInv'
  BY <1>1, MallocKeeps
<1>2. ASSUME NEW req \in Request, MallocMap(req) PROVE LibInv'
  BY <1>2, MallocMapKeeps
<1>3. ASSUME NEW r \in Region, NEW i \in DOMAIN minors[r], Free(r, i) PROVE LibInv'
  BY <1>3, FreeKeeps
<1>4. CASE UNCHANGED libVars
  BY <1>4 DEF libVars, LibInv, LibTypeOK
<1> QED BY <1>1, <1>2, <1>3, <1>4, Zenon DEF LibNext

LEMMA CorrectIsApart ==
  ASSUME LibInv, NEW r \in ToSet(majors)
  PROVE  Apart(r) /\ UsageExact(r)
<1> DEFINE ms == minors[r]
<1>1. /\ r \in Region /\ ms \in Seq(MinorType) /\ bytes[r] \in Nat
      /\ Correct(ms, bytes[r], usage[r])
  BY ToSetIs DEF LibInv, LibTypeOK
<1>2. UsageExact(r)
  BY <1>1, SumIsTotal DEF Correct
<1>3. /\ Len(ms) \in Nat /\ DOMAIN ms = 1 .. Len(ms)
      /\ \A i \in 1 .. Len(ms) : /\ ms[i] \in MinorType /\ EndOf(ms[i]) \in Nat
                                 /\ ms[i].at \in Nat /\ ms[i].req \in Nat
  <2> HIDE DEF ms
  <2> QED BY <1>1, MinorFacts, LenProperties
<1>4. InOrder(ms, bytes[r])
  BY <1>1 DEF Correct
<1> HIDE DEF ms
<1>5. ASSUME NEW i \in 1 .. Len(ms)
      PROVE  /\ ms[i].at >= MajorHeader
             /\ Pointer(ms[i]) - Info >= ms[i].at + MinorHeader
             /\ Pointer(ms[i]) + ms[i].req <= EndOf(ms[i])
             /\ Pointer(ms[i]) + ms[i].req \in Nat
             /\ EndOf(ms[i]) <= bytes[r]
  <2>1. ms[i].at >= MajorHeader /\ ms[i].size = Padded(ms[i].req) /\ EndOf(ms[i]) <= bytes[r]
    BY <1>4 DEF InOrder
  <2>2. /\ Pointer(ms[i]) \in Nat
        /\ Pointer(ms[i]) - Info >= ms[i].at + MinorHeader
        /\ Pointer(ms[i]) + ms[i].req <= EndOf(ms[i])
    BY <1>3, <2>1, PointerInside
  <2> QED BY <1>3, <2>1, <2>2
<1>6. ASSUME NEW i \in 1 .. Len(ms)
      PROVE  Pointer(ms[i]) + ms[i].req <= bytes[r]
  BY <1>1, <1>3, <1>5
<1>7. ASSUME NEW i \in 1 .. Len(ms), NEW j \in 1 .. Len(ms), i < j
      PROVE  Pointer(ms[i]) + ms[i].req <= ms[j].at
  <2>1. EndOf(ms[i]) <= ms[j].at
    BY <1>4, <1>7 DEF InOrder
  <2> QED BY <1>3, <1>5, <2>1
<1>8. Apart(r)
  BY <1>3, <1>5, <1>6, <1>7, Zenon DEF Apart, ms
<1> QED BY <1>2, <1>8

LEMMA LibInvHolds == LibSpec => []LibInv
<1>1. LibInit => LibInv
  BY InitOfLib
<1>2. LibInv /\ [LibNext]_libVars => LibInv'
  BY LibStep
<1> QED BY <1>1, <1>2, PTL DEF LibSpec

\* The runtime's own objects never share memory, and the best bet is mapped
\* (liballoc.c), whatever the sizes of requests, headers and pages.
THEOREM InternalMemoryCorrect == LibSpec => []InternalMemorySound
<1>1. LibInv => InternalMemorySound
  <2> SUFFICES ASSUME LibInv PROVE InternalMemorySound
    OBVIOUS
  <2>1. \A r \in ToSet(majors) : Apart(r) /\ UsageExact(r)
    BY CorrectIsApart
  <2> QED BY <2>1 DEF InternalMemorySound, LibInv
<1> QED BY <1>1, LibInvHolds, PTL

\* A new region is mapped only when no major has a gap for the request
\* (alaska_internal_malloc), whatever the walk began with.
THEOREM MapsOnlyWhenFull == LibSpec => MapsWhenFull
<1> DEFINE Full == Len(majors') > Len(majors) =>
                     \A r \in ToSet(majors) : Gaps(r, minors'[Last(majors')][1].size) = {}
<1>1. ASSUME LibInv, [LibNext]_libVars PROVE Full
  <2>0. majors \in Seq(Region) /\ Len(majors) \in Nat /\ LibTypeOK /\ IsInjective(majors)
    BY <1>1, ToSetIs DEF LibInv, LibTypeOK
  <2>1. ASSUME NEW req \in Request, Malloc(req) PROVE Full
    <3>1. majors' = majors
      BY <2>1, Zenon DEF Malloc, MallocIn
    <3> QED BY <2>0, <3>1
  <2>2. ASSUME NEW r \in Region, NEW i \in DOMAIN minors[r], Free(r, i) PROVE Full
    <3>1. CASE majors' = majors
      BY <2>0, <3>1
    <3>2. CASE majors' = RemoveAt(majors, PlaceOf(r))
      <4>1. minors[r] # <<>>
        OBVIOUS
      <4>2. r \in ToSet(majors)
        BY <1>1, <4>1 DEF LibInv
      <4>3. PlaceOf(r) \in 1 .. Len(majors)
        BY <2>0, <4>2, PlaceIs
      <4>4. Len(majors') = Len(majors) - 1
        BY <2>0, <3>2, <4>3, RemoveAtIs
      <4> QED BY <2>0, <4>4
    <3> QED BY <2>2, <3>1, <3>2, Zenon DEF Free
  <2>3. ASSUME NEW req \in Request, MallocMap(req) PROVE Full
    <3> DEFINE n == Padded(req)
               path == Visited(n)
               e == Minor(MajorHeader, req)
    <3>1. \A k \in DOMAIN path : ~Roomy(path[k], n) \/ Gaps(path[k], n) = {}
      BY <2>3, Zenon DEF MallocMap
    <3>2. PICK r \in Region \ ToSet(majors) :
            majors' = Append(majors, r) /\ minors' = [minors EXCEPT ![r] = <<e>>]
      BY <2>3, Zenon DEF MallocMap
    <3>3. Last(majors') = r
      BY <2>0, <3>2, MapMajor
    <3>4. n \in Nat /\ e.size = n
      BY NewMinor, LibSizes
    <3>5. minors'[Last(majors')][1].size = n
      <4>1. minors'[r] = <<e>> /\ <<e>>[1] = e
        BY <2>0, <3>2 DEF LibTypeOK
      <4> QED BY <3>3, <3>4, <4>1, Zenon
    <3>6. /\ DOMAIN path = 1 .. Len(path)
          /\ \A x \in ToSet(majors) : \E k \in 1 .. Len(path) : path[k] = x
      <4>1. /\ path \in Seq(Region)
            /\ \A x \in ToSet(majors) : \E k \in 1 .. Len(path) : path[k] = x
        BY <1>1, <2>0, PathIs, Zenon DEF LibInv
      <4> HIDE DEF path
      <4> QED BY <4>1, ToSetIs
    <3> HIDE DEF path, n, e
    <3>7. ASSUME NEW x \in ToSet(majors), NEW i \in Gaps(x, n) PROVE Roomy(x, n)
      <4> DEFINE ms == minors[x]
      <4>1. /\ x \in Region /\ ms \in Seq(MinorType) /\ bytes[x] \in Nat
            /\ InOrder(ms, bytes[x]) /\ Summed(ms, usage[x]) /\ MajorHeader <= bytes[x]
        BY <1>1, ToSetIs DEF LibInv, LibTypeOK, Correct
      <4>2. /\ i \in 0 .. Len(ms)
            /\ GapStart(x, i) = IF i = 0 THEN MajorHeader ELSE EndOf(ms[i])
            /\ GapEnd(x, i) = IF i = Len(ms) THEN bytes[x] ELSE ms[i + 1].at
            /\ GapEnd(x, i) - GapStart(x, i) >= WithHeader(n)
        BY <1>1, <3>4, GapIs, Zenon
      <4> HIDE DEF ms
      <4>3. WithHeader(n) \in Nat
        BY <3>4, LibSizes DEF WithHeader
      <4>4. (IF i = Len(ms) THEN bytes[x] ELSE ms[i + 1].at) -
              (IF i = 0 THEN MajorHeader ELSE EndOf(ms[i])) >= WithHeader(n)
        BY <4>2, Zenon
      <4>5. bytes[x] - usage[x] >= WithHeader(n)
        BY <4>1, <4>2, <4>3, <4>4, GapIsFree
      <4> QED BY <4>5 DEF Roomy, FreeBytes
    <3>8. \A x \in ToSet(majors) : Gaps(x, n) = {}
      BY <3>1, <3>6, <3>7, Zenon
    <3> QED BY <3>5, <3>8, Zenon
  <2>4. CASE UNCHANGED libVars
    BY <2>0, <2>4 DEF libVars
  <2> QED BY <1>1, <2>1, <2>2, <2>3, <2>4, Zenon DEF LibNext
<1>2. LibInv /\ [LibNext]_libVars => Full
  BY <1>1
<1> QED BY <1>2, LibInvHolds, PTL DEF LibSpec, MapsWhenFull
=============================================================================
