-------------------------- MODULE SizedHeapProofs ---------------------------
(***************************************************************************)
(* Proofs about SizedHeap for any number of threads, pages and blocks.     *)
(***************************************************************************)
EXTENDS SizedHeap, FiniteSetTheorems, TLAPS

(***************************************************************************)
(* Where a thread's pages and block come from: what it is doing tells      *)
(* which of page, got and blk it has, and the pages it has are its own.    *)
(***************************************************************************)
PcOK(t) ==
  /\ pc[t] \in {"alloc", "add", "clear", "check"} => page[t] # None
  /\ pc[t] = "put" <=> got[t] # None
  /\ pc[t] \in {"push", "count"} <=> blk[t] # None

PagesOK(t) ==
  /\ page[t] # None => page[t] \in magazine /\ owner[page[t]] = t
  /\ got[t]  # None => /\ got[t] \in magazine /\ owner[got[t]] = t
                       /\ got[t] # page[t]

\* A page the heap has not created yet has given out nothing.
FreshOK == \A p \in Page \ magazine : bump[p] = 0

Control == /\ \A t \in Thread : PcOK(t)
           /\ \A t \in Thread : PagesOK(t)
           /\ FreshOK

IInv == TypeOK /\ Control

USE DEF PCs

LEMMA BlockFacts ==
  ASSUME NEW p \in Page, NEW i \in Nat, NEW j \in 0 .. Capacity,
         NEW b \in Between(p, i, j)
  PROVE  b \in Block /\ PageOf(b) = p /\ b[2] \in (i + 1) .. j
BY CapacityAssumption DEF Between, Block, Slot, PageOf

LEMMA PageOfBlock == ASSUME NEW b \in Block
                     PROVE  PageOf(b) \in Page /\ b[2] \in Slot
BY DEF Block, PageOf

LEMMA ExtendEndType ==
  ASSUME TypeOK, NEW p \in Page
  PROVE  /\ ExtendEnd(p) \in 0 .. Capacity
         /\ bump[p] <= ExtendEnd(p)
         /\ bump[p] < Capacity => bump[p] < ExtendEnd(p)
BY CapacityAssumption, ChunkAssumption DEF TypeOK, ExtendEnd

LEMMA InitIInv == Init => IInv
BY CapacityAssumption DEF Init, IInv, TypeOK, Control, PcOK, PagesOK, FreshOK

LEMMA TypeStep == IInv /\ [Next]_vars => TypeOK'
<1> SUFFICES ASSUME IInv, [Next]_vars PROVE TypeOK'
  OBVIOUS
<1> USE DEF IInv, heap, lists, thread
<1>1. CASE UNCHANGED vars
  BY <1>1 DEF TypeOK, vars
<1>2. ASSUME NEW t \in Thread, HallocStart(t) PROVE TypeOK'
  BY <1>2 DEF TypeOK, HallocStart, At, Goto
<1>3. ASSUME NEW t \in Thread, AllocPop(t) PROVE TypeOK'
  BY <1>3 DEF TypeOK, Control, PcOK, AllocPop, At, Goto, Return
<1>4. ASSUME NEW t \in Thread, AllocExtend(t) PROVE TypeOK'
  <2> DEFINE p == page[t]
             new == Between(p, bump[p], ExtendEnd(p))
  <2>1. p \in Page
    BY <1>4 DEF TypeOK, Control, PcOK, AllocExtend, At
  <2>2. new \subseteq Block
    BY <2>1, BlockFacts, ExtendEndType DEF TypeOK
  <2> QED BY <1>4, <2>1, <2>2, ExtendEndType
          DEF TypeOK, AllocExtend, At, Goto, Return
<1>5. ASSUME NEW t \in Thread, SwapTake(t) PROVE TypeOK'
  BY <1>5 DEF TypeOK, SwapTake, TakeRemote, At, Goto
<1>6. ASSUME NEW t \in Thread, SwapAdd(t) PROVE TypeOK'
  BY <1>6 DEF TypeOK, Control, PcOK, SwapAdd, At, Goto
<1>7. ASSUME NEW t \in Thread, SwapClearHit(t) PROVE TypeOK'
  BY <1>7 DEF TypeOK, Control, PcOK, SwapClearHit, ClearCount, At, Goto, Return
<1>8. ASSUME NEW t \in Thread, SwapClearMiss(t) PROVE TypeOK'
  BY <1>8 DEF TypeOK, SwapClearMiss, ClearCount, AfterMiss, At, Goto
<1>9. ASSUME NEW t \in Thread, SkipPage(t) PROVE TypeOK'
  BY <1>9 DEF TypeOK, SkipPage, HasHeap
<1>10. ASSUME NEW t \in Thread, FindPage(t) PROVE TypeOK'
  BY <1>10 DEF TypeOK, FindPage, Goto
<1>11. ASSUME NEW t \in Thread, AllocPage(t) PROVE TypeOK'
  BY <1>11, CapacityAssumption DEF TypeOK, AllocPage, Goto
<1>12. ASSUME NEW t \in Thread, HeapExhausted(t) PROVE TypeOK'
  BY <1>12 DEF TypeOK, HeapExhausted, Goto
<1>13. ASSUME NEW t \in Thread, PutPage(t) PROVE TypeOK'
  BY <1>13 DEF TypeOK, PutPage, Goto
<1>14. ASSUME NEW t \in Thread, CheckPage(t) PROVE TypeOK'
  BY <1>14 DEF TypeOK, CheckPage, Goto
<1>15. ASSUME NEW t \in Thread, FreeLocal(t) PROVE TypeOK'
  BY <1>15, PageOfBlock DEF TypeOK, FreeLocal
<1>16. ASSUME NEW t \in Thread, FreeRemote(t) PROVE TypeOK'
  BY <1>16 DEF TypeOK, FreeRemote, Goto
<1>17. ASSUME NEW t \in Thread, Push(t) PROVE TypeOK'
  BY <1>17, PageOfBlock DEF TypeOK, Control, PcOK, Push, At, Goto
<1>18. ASSUME NEW t \in Thread, Count(t) PROVE TypeOK'
  BY <1>18, PageOfBlock DEF TypeOK, Control, PcOK, Count, At, Goto
<1> QED BY <1>1, <1>2, <1>3, <1>4, <1>5, <1>6, <1>7, <1>8, <1>9, <1>10,
           <1>11, <1>12, <1>13, <1>14, <1>15, <1>16, <1>17, <1>18
        DEF Next, Proceed

LEMMA ControlStep == IInv /\ [Next]_vars => Control'
<1> SUFFICES ASSUME IInv, [Next]_vars PROVE Control'
  OBVIOUS
<1> USE ThreadAssumption, PageAssumption
    DEF IInv, TypeOK, Control, PcOK, PagesOK, FreshOK, heap, lists, thread
<1>1. CASE UNCHANGED vars
  BY <1>1 DEF vars
<1>2. ASSUME NEW t \in Thread, HallocStart(t) PROVE Control'
  BY <1>2 DEF HallocStart, At, Goto
<1>3. ASSUME NEW t \in Thread, AllocPop(t) PROVE Control'
  BY <1>3 DEF AllocPop, At, Return, Goto
<1>4. ASSUME NEW t \in Thread, AllocExtend(t) PROVE Control'
  BY <1>4 DEF AllocExtend, At, Return, Goto
<1>5. ASSUME NEW t \in Thread, SwapTake(t) PROVE Control'
  BY <1>5 DEF SwapTake, TakeRemote, At, Goto
<1>6. ASSUME NEW t \in Thread, SwapAdd(t) PROVE Control'
  BY <1>6 DEF SwapAdd, At, Goto
<1>7. ASSUME NEW t \in Thread, SwapClearHit(t) PROVE Control'
  BY <1>7 DEF SwapClearHit, At, Return, Goto
<1>8. ASSUME NEW t \in Thread, SwapClearMiss(t) PROVE Control'
  BY <1>8 DEF SwapClearMiss, AfterMiss, At, Goto
<1>9. ASSUME NEW t \in Thread, SkipPage(t) PROVE Control'
  BY <1>9 DEF SkipPage, HasHeap
<1>10. ASSUME NEW t \in Thread, FindPage(t) PROVE Control'
  BY <1>10 DEF FindPage, HasHeap, Adoptable, At, Goto
<1>11. ASSUME NEW t \in Thread, AllocPage(t) PROVE Control'
  BY <1>11 DEF AllocPage, HasHeap, At, Goto
<1>12. ASSUME NEW t \in Thread, HeapExhausted(t) PROVE Control'
  BY <1>12 DEF HeapExhausted, HasHeap, At, Goto
<1>13. ASSUME NEW t \in Thread, PutPage(t) PROVE Control'
  BY <1>13 DEF PutPage, At, Goto
<1>14. ASSUME NEW t \in Thread, CheckPage(t) PROVE Control'
  BY <1>14 DEF CheckPage, At, Goto
<1>15. ASSUME NEW t \in Thread, FreeLocal(t) PROVE Control'
  BY <1>15 DEF FreeLocal, At
<1>16. ASSUME NEW t \in Thread, FreeRemote(t) PROVE Control'
  BY <1>16, BlockAssumption DEF FreeRemote, At, Goto
<1>17. ASSUME NEW t \in Thread, Push(t) PROVE Control'
  BY <1>17 DEF Push, At, Goto
<1>18. ASSUME NEW t \in Thread, Count(t) PROVE Control'
  BY <1>18 DEF Count, At, Goto
<1> QED BY <1>1, <1>2, <1>3, <1>4, <1>5, <1>6, <1>7, <1>8, <1>9, <1>10, <1>11, <1>12, <1>13, <1>14, <1>15, <1>16, <1>17, <1>18
        DEF Next, Proceed

-----------------------------------------------------------------------------
(***************************************************************************)
(* Types, and one owner per page.                                          *)
(***************************************************************************)

LEMMA Inductive == Spec => []IInv
<1>1. IInv /\ [Next]_vars => IInv'
  BY TypeStep, ControlStep DEF IInv
<1> QED BY InitIInv, <1>1, PTL DEF Spec

\* Every variable keeps its type: in particular the bump pointer stays within
\* its page (extend, SizedAllocator.hpp:124) and the counter of remote frees
\* never becomes negative.
THEOREM TypeCorrect == Spec => []TypeOK
<1>1. IInv => TypeOK
  BY DEF IInv
<1> QED BY Inductive, <1>1, PTL

\* A page has one user: whatever new_sized_page, get_sizedpage and put_page do
\* in between (ThreadCache.cpp:74-87, Heap.hpp:190-220), the page a thread cache
\* allocates from, or is about to install, is in no other thread cache.
THEOREM OwnerUnique == Spec => []OneOwner
<1>1. IInv => OneOwner
  BY DEF IInv, Control, PagesOK, OneOwner
<1> QED BY Inductive, <1>1, PTL

-----------------------------------------------------------------------------
(***************************************************************************)
(* Blocks: each is in one place.                                           *)
(***************************************************************************)

\* A step that neither enters nor leaves "push" keeps the blocks in flight.
SamePushers == \A u \in Thread : /\ pc'[u] = "push" <=> pc[u] = "push"
                                 /\ pc[u] = "push" => blk'[u] = blk[u]

SamePlaces == UNCHANGED <<local, remote, bump, live>> /\ SamePushers

LEMMA InFlightKept == SamePushers => InFlight' = InFlight
BY DEF SamePushers, InFlight

LEMMA InFlightIn ==
  ASSUME IInv, NEW t \in Thread, pc[t] = "push"
  PROVE  blk[t] \in InFlight
BY DEF InFlight

\* The steps that move no block.
Bookkeeping(t) ==
  \/ HallocStart(t) \/ SwapAdd(t) \/ SwapClearMiss(t) \/ SkipPage(t)
  \/ FindPage(t) \/ HeapExhausted(t) \/ PutPage(t) \/ CheckPage(t) \/ Count(t)

LEMMA BookkeepingMovesNothing ==
  ASSUME IInv, NEW t \in Thread, Bookkeeping(t)
  PROVE  SamePlaces
<1> USE DEF SamePlaces, SamePushers, IInv, TypeOK, heap, lists, thread
<1>1. CASE HallocStart(t)
  BY <1>1 DEF HallocStart, At, Goto
<1>2. CASE SwapAdd(t)
  BY <1>2 DEF SwapAdd, At, Goto
<1>3. CASE SwapClearMiss(t)
  BY <1>3 DEF SwapClearMiss, AfterMiss, At, Goto
<1>4. CASE SkipPage(t)
  BY <1>4 DEF SkipPage
<1>5. CASE FindPage(t)
  BY <1>5 DEF FindPage, HasHeap, At, Goto
<1>6. CASE HeapExhausted(t)
  BY <1>6 DEF HeapExhausted, HasHeap, At, Goto
<1>7. CASE PutPage(t)
  BY <1>7 DEF PutPage, At, Goto
<1>8. CASE CheckPage(t)
  BY <1>8 DEF CheckPage, At, Goto
<1>9. CASE Count(t)
  BY <1>9 DEF Count, At, Goto
<1> QED BY <1>1, <1>2, <1>3, <1>4, <1>5, <1>6, <1>7, <1>8, <1>9 DEF Bookkeeping

LEMMA TwiceStep == IInv /\ NoBlockTwice /\ [Next]_vars => NoBlockTwice'
<1> SUFFICES ASSUME IInv, NoBlockTwice, [Next]_vars PROVE NoBlockTwice'
  OBVIOUS
<1>1. ASSUME SamePlaces PROVE NoBlockTwice'
  <2>1. InFlight' = InFlight
    BY <1>1, InFlightKept DEF SamePlaces
  <2> QED BY <1>1, <2>1 DEF NoBlockTwice, SamePlaces, SamePushers
<1>2. CASE UNCHANGED vars
  <2>1. SamePlaces
    BY <1>2 DEF vars, heap, lists, thread, SamePlaces, SamePushers
  <2> QED BY <1>1, <2>1
<1>3. ASSUME NEW t \in Thread, AllocPop(t) PROVE NoBlockTwice'
  <2>1. SamePushers
    BY <1>3 DEF IInv, TypeOK, AllocPop, At, Return, Goto, SamePushers
  <2>2. InFlight' = InFlight
    BY <2>1, InFlightKept
  <2>3. page[t] \in Page
    BY <1>3 DEF IInv, TypeOK, Control, PcOK, AllocPop, At
  <2> QED BY <1>3, <2>1, <2>2, <2>3
          DEF NoBlockTwice, AllocPop, Return, SamePushers, IInv, TypeOK, PageOf
<1>4. ASSUME NEW t \in Thread, AllocExtend(t) PROVE NoBlockTwice'
  <2> DEFINE p == page[t]
             new == Between(p, bump[p], ExtendEnd(p))
  <2>1. SamePushers
    BY <1>4 DEF IInv, TypeOK, AllocExtend, At, Return, Goto, SamePushers
  <2>2. InFlight' = InFlight
    BY <2>1, InFlightKept
  <2>3. p \in Page /\ local[p] = {} /\ bump[p] \in Nat
    BY <1>4 DEF IInv, TypeOK, Control, PcOK, AllocExtend, At
  <2>4. /\ ExtendEnd(p) \in 0 .. Capacity
        /\ bump[p] <= ExtendEnd(p)
    BY <2>3, ExtendEndType DEF IInv
  <2>5. PICK b \in new : /\ local' = [local EXCEPT ![p] = new \ {b}]
                         /\ live' = live \cup {b}
    BY <1>4 DEF AllocExtend, Return
  <2>6. bump' = [bump EXCEPT ![p] = ExtendEnd(p)] /\ remote' = remote
    BY <1>4 DEF AllocExtend
  <2>7. \A x \in new : PageOf(x) = p /\ x[2] > bump[p] /\ x[2] <= ExtendEnd(p)
    BY <2>3, <2>4, BlockFacts
  <2>8. new \cap (live \cup InFlight \cup remote[p]) = {}
    <3>1. \A x \in remote[p] : x[2] \in 1 .. bump[p]
      BY <2>3 DEF NoBlockTwice
    <3>2. \A x \in live \cup InFlight : x[2] <= bump[PageOf(x)]
      BY DEF NoBlockTwice
    <3>3. \A x \in new : x[2] \in Nat
      BY <2>3, <2>4 DEF Between
    <3>4. \A x \in live \cup InFlight : x \in Block
      BY DEF InFlight, IInv, TypeOK, Control, PcOK
    <3>5. \A x \in Block : x[2] \in Nat
      BY PageOfBlock DEF Slot
    <3> QED BY <2>3, <2>7, <3>1, <3>2, <3>3, <3>4, <3>5
  <2>9. new \subseteq {p} \X (1 .. ExtendEnd(p))
    BY <2>3, <2>4 DEF Between
  <2>10. remote[p] \subseteq {p} \X (1 .. ExtendEnd(p))
    BY <2>3, <2>4 DEF NoBlockTwice
  <2>11. \A q \in Page :
            /\ local'[q] \cap remote'[q] = {}
            /\ (local'[q] \cup remote'[q]) \cap (live' \cup InFlight') = {}
            /\ (local'[q] \cup remote'[q]) \subseteq {q} \X (1 .. bump'[q])
    <3> SUFFICES ASSUME NEW q \in Page
                 PROVE  /\ local'[q] \cap remote'[q] = {}
                        /\ (local'[q] \cup remote'[q])
                             \cap (live' \cup InFlight') = {}
                        /\ (local'[q] \cup remote'[q])
                             \subseteq {q} \X (1 .. bump'[q])
      OBVIOUS
    <3>1. CASE q = p
      BY <3>1, <2>2, <2>3, <2>5, <2>6, <2>8, <2>9, <2>10
         DEF NoBlockTwice, IInv, TypeOK
    <3>2. CASE q # p
      BY <3>2, <2>2, <2>3, <2>5, <2>6, <2>7
         DEF NoBlockTwice, IInv, TypeOK, PageOf
    <3> QED BY <3>1, <3>2
  <2>12. live' \cap InFlight' = {}
    BY <2>2, <2>5, <2>8 DEF NoBlockTwice
  <2>13. \A x \in live' \cup InFlight' : x[2] <= bump'[PageOf(x)]
    <3>1. SUFFICES ASSUME NEW x \in live \cup InFlight
                   PROVE  x[2] <= bump'[PageOf(x)]
      BY <2>2, <2>3, <2>4, <2>5, <2>6, <2>7 DEF IInv, TypeOK
    <3>2. x \in Block /\ x[2] <= bump[PageOf(x)]
      BY <3>1 DEF NoBlockTwice, InFlight, IInv, TypeOK, Control, PcOK
    <3>3. PageOf(x) \in Page /\ x[2] \in Nat
      BY <3>2, PageOfBlock DEF Slot
    <3> QED BY <2>3, <2>4, <2>6, <3>2, <3>3 DEF IInv, TypeOK
  <2> QED BY <2>1, <2>11, <2>12, <2>13 DEF NoBlockTwice, SamePushers
<1>5. ASSUME NEW t \in Thread, SwapTake(t) PROVE NoBlockTwice'
  <2>1. SamePushers
    BY <1>5 DEF IInv, TypeOK, SwapTake, At, Goto, SamePushers, thread
  <2>2. InFlight' = InFlight
    BY <2>1, InFlightKept
  <2> QED BY <1>5, <2>1, <2>2
          DEF NoBlockTwice, SwapTake, TakeRemote, SamePushers, IInv, TypeOK
<1>6. ASSUME NEW t \in Thread, SwapClearHit(t) PROVE NoBlockTwice'
  <2>1. SamePushers
    BY <1>6 DEF IInv, TypeOK, SwapClearHit, At, Return, Goto, SamePushers
  <2>2. InFlight' = InFlight
    BY <2>1, InFlightKept
  <2>3. page[t] \in Page
    BY <1>6 DEF IInv, TypeOK, Control, PcOK, SwapClearHit, At
  <2> QED BY <1>6, <2>1, <2>2, <2>3
          DEF NoBlockTwice, SwapClearHit, Return, SamePushers, IInv, TypeOK,
              PageOf
<1>7. ASSUME NEW t \in Thread, AllocPage(t) PROVE NoBlockTwice'
  <2>1. SamePushers
    BY <1>7 DEF IInv, TypeOK, AllocPage, HasHeap, At, Goto, SamePushers
  <2>2. InFlight' = InFlight
    BY <2>1, InFlightKept
  <2>3. bump' = bump
    BY <1>7 DEF IInv, TypeOK, Control, FreshOK, AllocPage
  <2> QED BY <1>7, <2>1, <2>2, <2>3
          DEF NoBlockTwice, AllocPage, SamePushers, IInv, TypeOK
<1>8. ASSUME NEW t \in Thread, FreeLocal(t) PROVE NoBlockTwice'
  <2>1. SamePushers
    BY <1>8 DEF FreeLocal, SamePushers, thread
  <2>2. InFlight' = InFlight
    BY <2>1, InFlightKept
  <2>3. PICK b \in live :
          /\ live' = live \ {b}
          /\ local' = [local EXCEPT ![PageOf(b)] = @ \cup {b}]
          /\ UNCHANGED <<remote, bump>>
    BY <1>8 DEF FreeLocal
  <2>4. /\ PageOf(b) \in Page
        /\ b \in {PageOf(b)} \X (1 .. bump[PageOf(b)])
    BY <2>3 DEF IInv, TypeOK, Block, Slot, PageOf, NoBlockTwice
  <2> QED BY <2>1, <2>2, <2>3, <2>4
          DEF NoBlockTwice, SamePushers, IInv, TypeOK, PageOf
<1>9. ASSUME NEW t \in Thread, FreeRemote(t) PROVE NoBlockTwice'
  <2>1. PICK b \in live : /\ live' = live \ {b}
                          /\ blk' = [blk EXCEPT ![t] = b]
    BY <1>9 DEF FreeRemote
  <2>2. /\ pc[t] = "idle"
        /\ pc' = [pc EXCEPT ![t] = "push"]
        /\ UNCHANGED <<local, remote, bump>>
    BY <1>9 DEF FreeRemote, At, Goto, lists
  <2>3. InFlight' = InFlight \cup {b}
    BY <2>1, <2>2 DEF InFlight, IInv, TypeOK
  <2>4. \A u \in Thread : pc[u] = "push" => blk[u] \in InFlight
    BY InFlightIn
  <2> QED BY <2>1, <2>2, <2>3, <2>4 DEF NoBlockTwice, IInv, TypeOK
<1>10. ASSUME NEW t \in Thread, Push(t) PROVE NoBlockTwice'
  <2> DEFINE b == blk[t]
  <2>1. /\ pc[t] = "push"
        /\ pc' = [pc EXCEPT ![t] = "count"]
        /\ remote' = [remote EXCEPT ![PageOf(b)] = @ \cup {b}]
        /\ UNCHANGED <<local, bump, live, blk>>
    BY <1>10 DEF Push, At, Goto, thread
  <2>2. InFlight' = InFlight \ {b}
    BY <2>1 DEF InFlight, IInv, TypeOK, NoBlockTwice
  <2>3. b \in InFlight
    BY <2>1, InFlightIn
  <2>4. b \in Block
    BY <2>1 DEF IInv, TypeOK, Control, PcOK
  <2>5. /\ PageOf(b) \in Page
        /\ b \in {PageOf(b)} \X (1 .. bump[PageOf(b)])
    BY <2>3, <2>4 DEF IInv, TypeOK, Block, Slot, PageOf, NoBlockTwice
  <2>6. \A p \in Page \ {PageOf(b)} : b \notin local[p] \cup remote[p]
    BY DEF NoBlockTwice, PageOf
  <2> QED BY <2>1, <2>2, <2>3, <2>5, <2>6 DEF NoBlockTwice, IInv, TypeOK
<1>11. ASSUME NEW t \in Thread, Bookkeeping(t) PROVE NoBlockTwice'
  BY <1>1, <1>11, BookkeepingMovesNothing
<1> QED BY <1>2, <1>3, <1>4, <1>5, <1>6, <1>7, <1>8, <1>9, <1>10, <1>11
        DEF Next, Proceed, Bookkeeping

\* The places a block of a page can be in.
Placed(p) == live \cup InFlight \cup local[p] \cup remote[p] \cup Untouched(p)

LEMMA LostStep == IInv /\ NoBlockTwice /\ NoBlockLost /\ [Next]_vars => NoBlockLost'
<1> SUFFICES ASSUME IInv, NoBlockTwice, NoBlockLost, [Next]_vars,
                    NEW p \in magazine', NEW b \in {p} \X Slot
             PROVE  b \in Placed(p)'
  BY DEF NoBlockLost, Placed
<1>1. p \in Page
  BY TypeStep DEF TypeOK
<1>2. p \in magazine => b \in Placed(p)
  BY DEF NoBlockLost, Placed
<1>3. ASSUME SamePlaces, magazine' = magazine PROVE b \in Placed(p)'
  <2>1. InFlight' = InFlight
    BY <1>3, InFlightKept DEF SamePlaces
  <2> QED BY <1>2, <1>3, <2>1 DEF Placed, SamePlaces, Untouched
<1>4. CASE UNCHANGED vars
  <2>1. SamePlaces
    BY <1>4 DEF vars, heap, lists, thread, SamePlaces, SamePushers
  <2> QED BY <1>3, <1>4, <2>1 DEF vars, heap
<1>5. ASSUME NEW t \in Thread, AllocPop(t) PROVE b \in Placed(p)'
  <2>1. InFlight' = InFlight
    BY <1>5, InFlightKept
       DEF IInv, TypeOK, AllocPop, At, Return, Goto, SamePushers
  <2>2. p \in magazine
    BY <1>5 DEF AllocPop, heap
  <2> QED BY <1>2, <1>5, <2>1, <2>2
          DEF Placed, Untouched, AllocPop, Return, IInv, TypeOK
<1>6. ASSUME NEW t \in Thread, AllocExtend(t) PROVE b \in Placed(p)'
  <2> DEFINE q == page[t]
             new == Between(q, bump[q], ExtendEnd(q))
  <2>1. InFlight' = InFlight
    BY <1>6, InFlightKept
       DEF IInv, TypeOK, AllocExtend, At, Return, Goto, SamePushers
  <2>2. p \in magazine /\ q \in Page /\ local[q] = {}
    BY <1>6 DEF AllocExtend, heap, At, IInv, TypeOK, Control, PcOK
  <2>3. PICK a \in new : /\ local' = [local EXCEPT ![q] = new \ {a}]
                         /\ live' = live \cup {a}
    BY <1>6 DEF AllocExtend, Return
  <2>4. bump' = [bump EXCEPT ![q] = ExtendEnd(q)] /\ remote' = remote
    BY <1>6 DEF AllocExtend
  <2>5. CASE b \in Untouched(p) /\ p = q
    <3>1. b \in new \/ b \in Between(q, ExtendEnd(q), Capacity)
      BY <2>2, <2>5, ExtendEndType, CapacityAssumption
         DEF Untouched, Between, IInv, TypeOK
    <3> QED BY <2>2, <2>3, <2>4, <2>5, <3>1
            DEF Placed, Untouched, IInv, TypeOK
  <2>6. CASE ~(b \in Untouched(p) /\ p = q)
    BY <1>1, <1>2, <2>1, <2>2, <2>3, <2>4, <2>6
       DEF Placed, Untouched, IInv, TypeOK
  <2> QED BY <2>5, <2>6
<1>7. ASSUME NEW t \in Thread, SwapTake(t) PROVE b \in Placed(p)'
  <2>1. InFlight' = InFlight
    BY <1>7, InFlightKept
       DEF IInv, TypeOK, SwapTake, At, Goto, SamePushers, thread
  <2>2. p \in magazine
    BY <1>7 DEF SwapTake, heap
  <2> QED BY <1>1, <1>2, <1>7, <2>1, <2>2
          DEF Placed, Untouched, SwapTake, TakeRemote, IInv, TypeOK
<1>8. ASSUME NEW t \in Thread, SwapClearHit(t) PROVE b \in Placed(p)'
  <2>1. InFlight' = InFlight
    BY <1>8, InFlightKept
       DEF IInv, TypeOK, SwapClearHit, At, Return, Goto, SamePushers
  <2>2. p \in magazine
    BY <1>8 DEF SwapClearHit, heap
  <2> QED BY <1>2, <1>8, <2>1, <2>2
          DEF Placed, Untouched, SwapClearHit, Return, IInv, TypeOK
<1>9. ASSUME NEW t \in Thread, AllocPage(t) PROVE b \in Placed(p)'
  <2>1. InFlight' = InFlight
    BY <1>9, InFlightKept
       DEF IInv, TypeOK, AllocPage, HasHeap, At, Goto, SamePushers
  <2>2. PICK q \in Page \ magazine :
          /\ magazine' = magazine \cup {q}
          /\ local'  = [local  EXCEPT ![q] = {}]
          /\ remote' = [remote EXCEPT ![q] = {}]
          /\ bump'   = [bump   EXCEPT ![q] = 0]
    BY <1>9 DEF AllocPage
  <2>3. CASE p = q
    <3>1. bump'[p] = 0
      BY <1>1, <2>2, <2>3 DEF IInv, TypeOK
    <3> QED BY <3>1 DEF Placed, Untouched, Between, Slot
  <2>4. CASE p # q
    BY <1>1, <1>2, <1>9, <2>1, <2>2, <2>4
       DEF Placed, Untouched, AllocPage, IInv, TypeOK
  <2> QED BY <2>3, <2>4
<1>10. ASSUME NEW t \in Thread, FreeLocal(t) PROVE b \in Placed(p)'
  <2>1. InFlight' = InFlight
    BY <1>10, InFlightKept DEF FreeLocal, SamePushers, thread
  <2>2. p \in magazine
    BY <1>10 DEF FreeLocal, heap
  <2>3. PageOf(b) = p
    BY DEF PageOf
  <2> QED BY <1>1, <1>2, <1>10, <2>1, <2>2, <2>3
          DEF Placed, Untouched, FreeLocal, IInv, TypeOK
<1>11. ASSUME NEW t \in Thread, FreeRemote(t) PROVE b \in Placed(p)'
  <2>1. PICK a \in live : /\ live' = live \ {a}
                          /\ blk' = [blk EXCEPT ![t] = a]
    BY <1>11 DEF FreeRemote
  <2>2. /\ pc[t] = "idle"
        /\ pc' = [pc EXCEPT ![t] = "push"]
        /\ UNCHANGED <<magazine, local, remote, bump>>
    BY <1>11 DEF FreeRemote, At, Goto, lists, heap
  <2>3. InFlight' = InFlight \cup {a}
    BY <2>1, <2>2 DEF InFlight, IInv, TypeOK
  <2> QED BY <1>2, <2>1, <2>2, <2>3 DEF Placed, Untouched
<1>12. ASSUME NEW t \in Thread, Push(t) PROVE b \in Placed(p)'
  <2>1. /\ pc[t] = "push"
        /\ pc' = [pc EXCEPT ![t] = "count"]
        /\ remote' = [remote EXCEPT ![PageOf(blk[t])] = @ \cup {blk[t]}]
        /\ UNCHANGED <<magazine, local, bump, live, blk>>
    BY <1>12 DEF Push, At, Goto, thread, heap
  <2>2. InFlight' = InFlight \ {blk[t]}
    BY <2>1 DEF InFlight, IInv, TypeOK, NoBlockTwice
  <2>3. PageOf(b) = p
    BY DEF PageOf
  <2> QED BY <1>1, <1>2, <2>1, <2>2, <2>3 DEF Placed, Untouched, IInv, TypeOK
<1>13. ASSUME NEW t \in Thread, Bookkeeping(t) PROVE b \in Placed(p)'
  <2>1. magazine' = magazine
    BY <1>13 DEF Bookkeeping, HallocStart, SwapAdd, SwapClearMiss, SkipPage,
                 FindPage, HeapExhausted, PutPage, CheckPage, Count, heap
  <2> QED BY <1>3, <1>13, <2>1, BookkeepingMovesNothing
<1> QED BY <1>4, <1>5, <1>6, <1>7, <1>8, <1>9, <1>10, <1>11, <1>12, <1>13
        DEF Next, Proceed, Bookkeeping

-----------------------------------------------------------------------------
Blocks == IInv /\ NoBlockTwice /\ NoBlockLost

LEMMA InitBlocks == Init => Blocks
<1> SUFFICES ASSUME Init PROVE Blocks
  OBVIOUS
<1>1. InFlight = {}
  BY DEF Init, InFlight
<1>2. NoBlockTwice
  BY <1>1 DEF Init, NoBlockTwice
<1> QED BY <1>2, InitIInv DEF Init, Blocks, NoBlockLost

LEMMA BlocksAlways == Spec => []Blocks
<1>1. Blocks /\ [Next]_vars => Blocks'
  BY TypeStep, ControlStep, TwiceStep, LostStep DEF Blocks, IInv
<1> QED BY InitBlocks, <1>1, PTL DEF Spec

\* However pops, extensions, hand-overs of the remote list, pushes and changes
\* of owner interleave (ShardedFreeList.hpp:68-120, ThreadCache.cpp:52-87), no
\* block can be handed out twice.
THEOREM NeverTwice == Spec => []NoBlockTwice
<1>1. Blocks => NoBlockTwice
  BY DEF Blocks
<1> QED BY BlocksAlways, <1>1, PTL

\* Nor does a block of a page the heap has created drop out of circulation,
\* although the counters of the free lists can lose count of it.
THEOREM NeverLost == Spec => []NoBlockLost
<1>1. Blocks => NoBlockLost
  BY DEF Blocks
<1> QED BY BlocksAlways, <1>1, PTL

-----------------------------------------------------------------------------
(***************************************************************************)
(* The heap implements BlockStore: what is not held is available, and a    *)
(* step that changes what is held moves one block.                         *)
(***************************************************************************)
Available ==
  InFlight \cup UNION {local[p] \cup remote[p] \cup Untouched(p) : p \in Page}

LEMMA InAvailable ==
  ASSUME NEW b
  PROVE  b \in Available <=>
           \/ b \in InFlight
           \/ \E p \in Page : b \in local[p] \cup remote[p] \cup Untouched(p)
BY DEF Available

LEMMA AvailableIsRest == Blocks => Available = Block \ live
<1> SUFFICES ASSUME Blocks PROVE Available = Block \ live
  OBVIOUS
<1> USE DEF Blocks, IInv
<1>1. ASSUME NEW b \in Available PROVE b \in Block \ live
  <2>1. CASE b \in InFlight
    BY <2>1 DEF InFlight, NoBlockTwice, TypeOK, Control, PcOK
  <2>2. ASSUME NEW p \in Page, b \in local[p] \cup remote[p]
        PROVE  b \in Block \ live
    BY <2>2 DEF NoBlockTwice, TypeOK
  <2>3. ASSUME NEW p \in Page, b \in Untouched(p) PROVE b \in Block \ live
    <3>1. b \in Block /\ PageOf(b) = p /\ b[2] > bump[p]
      BY <2>3, BlockFacts, CapacityAssumption DEF Untouched, TypeOK
    <3> QED BY <3>1 DEF NoBlockTwice, TypeOK, Block, Slot
  <2> QED BY <2>1, <2>2, <2>3, InAvailable
<1>2. ASSUME NEW b \in Block \ live PROVE b \in Available
  <2> DEFINE p == PageOf(b)
  <2>1. p \in Page /\ b \in {p} \X Slot
    BY DEF Block, PageOf
  <2>2. CASE p \in magazine
    BY <2>1, <2>2, InAvailable DEF NoBlockLost
  <2>3. CASE p \notin magazine
    <3>1. b \in Untouched(p)
      BY <2>1, <2>3 DEF Control, FreshOK, Untouched, Between, Slot
    <3> QED BY <2>1, <3>1, InAvailable
  <2> QED BY <2>2, <2>3
<1> QED BY <1>1, <1>2

LEMMA StepMovesOne ==
  ASSUME Blocks, [Next]_vars
  PROVE  \/ live' = live
         \/ \E b \in Block \ live : live' = live \cup {b}
         \/ \E b \in live : live' = live \ {b}
<1> USE DEF Blocks, IInv
<1>1. ASSUME NEW t \in Thread, AllocPop(t)
      PROVE  \E b \in Block \ live : live' = live \cup {b}
  <2>1. page[t] \in Page
    BY <1>1 DEF AllocPop, At, TypeOK, Control, PcOK
  <2> QED BY <1>1, <2>1 DEF AllocPop, Return, TypeOK, NoBlockTwice
<1>2. ASSUME NEW t \in Thread, AllocExtend(t)
      PROVE  \E b \in Block \ live : live' = live \cup {b}
  <2>1. page[t] \in Page
    BY <1>2 DEF AllocExtend, At, TypeOK, Control, PcOK
  <2>2. PICK b \in Between(page[t], bump[page[t]], ExtendEnd(page[t])) :
          live' = live \cup {b}
    BY <1>2 DEF AllocExtend, Return
  <2>3. b \in Block /\ PageOf(b) = page[t] /\ b[2] > bump[page[t]]
    BY <2>1, BlockFacts, ExtendEndType DEF TypeOK
  <2>4. b \notin live
    BY <2>1, <2>3 DEF NoBlockTwice, TypeOK, Block, Slot
  <2> QED BY <2>2, <2>3, <2>4
<1>3. ASSUME NEW t \in Thread, SwapClearHit(t)
      PROVE  \E b \in Block \ live : live' = live \cup {b}
  <2>1. page[t] \in Page
    BY <1>3 DEF SwapClearHit, At, TypeOK, Control, PcOK
  <2> QED BY <1>3, <2>1 DEF SwapClearHit, Return, TypeOK, NoBlockTwice
<1>4. ASSUME NEW t \in Thread, FreeLocal(t) \/ FreeRemote(t)
      PROVE  \E b \in live : live' = live \ {b}
  BY <1>4 DEF FreeLocal, FreeRemote
<1>5. ASSUME NEW t \in Thread, SwapTake(t) \/ AllocPage(t) \/ Push(t)
      PROVE  live' = live
  BY <1>5 DEF SwapTake, AllocPage, Push
<1>6. ASSUME NEW t \in Thread, Bookkeeping(t) PROVE live' = live
  BY <1>6, BookkeepingMovesNothing DEF SamePlaces
<1>7. CASE UNCHANGED vars
  BY <1>7 DEF vars
<1> QED BY <1>1, <1>2, <1>3, <1>4, <1>5, <1>6, <1>7
        DEF Next, Proceed, Bookkeeping

\* To the program the shared, sharded heap is one pool of blocks: every step of
\* halloc and hfree (ThreadCache.cpp:35-69) either moves exactly one block
\* between the program and the pool, or none.
THEOREM Refinement == Spec => ImplementsBlockStore
<1>1. Init => Store!Init
  <2> SUFFICES ASSUME Init PROVE live = {} /\ Available = Block
    BY DEF Store!Init, Available
  <2>1. live = {}
    BY DEF Init
  <2> QED BY <2>1, InitBlocks, AvailableIsRest
<1>2. Blocks /\ Blocks' /\ [Next]_vars => [Store!Next]_<<live, Available>>
  <2> SUFFICES ASSUME Blocks, Blocks', [Next]_vars
               PROVE  [Store!Next]_<<live, Available>>
    OBVIOUS
  <2>1. Available = Block \ live /\ Available' = Block \ live'
    <3>1. Available = Block \ live
      BY AvailableIsRest
    <3>2. (Blocks => Available = Block \ live)'
      BY AvailableIsRest, PTL
    <3> QED BY <3>1, <3>2
  <2>2. live \subseteq Block
    BY DEF Blocks, IInv, TypeOK
  <2>3. CASE live' = live
    BY <2>1, <2>3
  <2>4. ASSUME NEW b \in Block \ live, live' = live \cup {b}
        PROVE  Store!Alloc
    <3>1. b \in Available /\ Available' = Available \ {b}
      BY <2>1, <2>4
    <3> QED BY <2>4, <3>1 DEF Store!Alloc, Available
  <2>5. ASSUME NEW b \in live, live' = live \ {b} PROVE Store!Free
    <3>1. Available' = Available \cup {b}
      BY <2>1, <2>2, <2>5
    <3> QED BY <2>5, <3>1 DEF Store!Free, Available
  <2> QED BY <2>3, <2>4, <2>5, StepMovesOne DEF Store!Next
<1> QED BY <1>1, <1>2, BlocksAlways, PTL
        DEF Spec, ImplementsBlockStore, Store!Spec, Available

-----------------------------------------------------------------------------
(***************************************************************************)
(* Proofs about the counters of SizedHeap: they never promise a block that *)
(* is not on a list, and so an allocation from a fresh page succeeds.      *)
(*                                                                         *)
(* The two counters of a free list say less than its length for three      *)
(* reasons: a block is pushed before it is counted, swap() can forget an   *)
(* increment, and nothing ever adds a count without a block.  Between the  *)
(* two halves of swap() they say more: what was read of num_remote_free is *)
(* counted twice.  Balanced is the account that takes both into it.        *)
(***************************************************************************)

\* The blocks on the two lists of a page, and the threads that have pushed a
\* block to it and not counted it.
Listed(p)   == local[p] \cup remote[p]
Counting(p) == {t \in Thread : pc[t] = "count" /\ PageOf(blk[t]) = p}

\* What swap() has added to one counter and not yet taken from the other.
Owed(p) ==
  IF /\ owner[p] # None
     /\ page[owner[p]] = p
     /\ pc[owner[p]] = "clear"
  THEN seen[owner[p]] ELSE 0

Balanced(p) ==
  nlocal[p] + nremote[p] - Owed(p) + Cardinality(Counting(p))
    <= Cardinality(Listed(p))

\* num_remote_free only grows while its owner is about to clear it, and the
\* block being counted is of a page that exists.
CountOK(t) ==
  /\ pc[t] = "clear" => seen[t] <= nremote[page[t]]
  /\ blk[t] # None   => PageOf(blk[t]) \in magazine

Ledger == /\ \A p \in magazine : Balanced(p)
          /\ \A t \in Thread : CountOK(t)

-----------------------------------------------------------------------------
LEMMA BetweenSize ==
  ASSUME NEW p, NEW i \in Nat, NEW j \in Nat, i <= j
  PROVE  IsFiniteSet(Between(p, i, j)) /\ Cardinality(Between(p, i, j)) = j - i
<1>1. IsFiniteSet((i + 1) .. j) /\ Cardinality((i + 1) .. j) = j - i
  <2>1. i + 1 \in Int /\ j \in Int
    OBVIOUS
  <2> DEFINE a == i + 1
  <2>2. /\ IsFiniteSet(a .. j)
        /\ Cardinality(a .. j) = IF a > j THEN 0 ELSE j - a + 1
    <3> HIDE DEF a
    <3> QED BY <2>1, FS_Interval DEF a
  <2> QED BY <2>2
<1>2. IsFiniteSet({p}) /\ Cardinality({p}) = 1
  BY FS_Singleton
<1>3. /\ IsFiniteSet({p} \X ((i + 1) .. j))
      /\ Cardinality({p} \X ((i + 1) .. j)) = 1 * (j - i)
  BY <1>1, <1>2, FS_Product
<1> QED BY <1>3 DEF Between

LEMMA Finite ==
  ASSUME IInv, NoBlockTwice, NEW p \in Page
  PROVE  /\ IsFiniteSet(Listed(p)) /\ Cardinality(Listed(p)) \in Nat
         /\ IsFiniteSet(Counting(p)) /\ Cardinality(Counting(p)) \in Nat
         /\ IsFiniteSet(local[p]) /\ IsFiniteSet(remote[p])
<1>1. bump[p] \in Nat
  BY DEF IInv, TypeOK
<1>2. IsFiniteSet(Between(p, 0, bump[p]))
  BY <1>1, BetweenSize
<1>3. Listed(p) \subseteq Between(p, 0, bump[p])
  BY DEF NoBlockTwice, Listed, Between
<1>4. Counting(p) \subseteq Thread
  BY DEF Counting
<1>5. local[p] \subseteq Listed(p) /\ remote[p] \subseteq Listed(p)
  BY DEF Listed
<1> QED BY <1>2, <1>3, <1>4, <1>5, FS_Subset, FS_CardinalityType,
           ThreadAssumption

LEMMA OwedType == ASSUME IInv, NEW p \in Page PROVE Owed(p) \in Nat
BY DEF IInv, TypeOK, Owed

\* A step that neither enters nor leaves "count".
SameCounting == \A u \in Thread : /\ pc'[u] = "count" <=> pc[u] = "count"
                                  /\ pc[u] = "count" => blk'[u] = blk[u]

LEMMA CountingKept ==
  ASSUME SameCounting, NEW p PROVE Counting(p)' = Counting(p)
BY DEF SameCounting, Counting

LEMMA BalanceKept ==
  ASSUME NEW p, Balanced(p), SameCounting, Owed(p)' = Owed(p),
         local'[p] = local[p], remote'[p] = remote[p],
         nlocal'[p] = nlocal[p], nremote'[p] = nremote[p]
  PROVE  Balanced(p)'
<1>1. Counting(p)' = Counting(p)
  BY CountingKept
<1> QED BY <1>1 DEF Balanced, Listed

\* A step that changes no account of swap()'s.
SameOwed == /\ UNCHANGED <<owner, page>>
            /\ \A u \in Thread : /\ pc'[u] = "clear" <=> pc[u] = "clear"
                                 /\ pc[u] = "clear" => seen'[u] = seen[u]

LEMMA OwedKept ==
  ASSUME IInv, SameOwed, NEW p \in Page PROVE Owed(p)' = Owed(p)
BY DEF IInv, TypeOK, SameOwed, Owed

\* What the owner of a page owes is what it has read, at "clear", and else
\* nothing.
LEMMA OwedByOwner ==
  ASSUME IInv, NEW t \in Thread, page[t] # None
  PROVE  Owed(page[t]) = IF pc[t] = "clear" THEN seen[t] ELSE 0
BY ThreadAssumption DEF IInv, Control, PagesOK, Owed

-----------------------------------------------------------------------------
LEMMA CountOKStep ==
  ASSUME Blocks, Ledger, [Next]_vars, NEW u \in Thread
  PROVE  CountOK(u)'
<1> USE DEF Blocks, IInv, TypeOK, Ledger, CountOK, heap, lists, thread
<1>1. CASE UNCHANGED vars
  BY <1>1 DEF vars
<1>2. ASSUME NEW t \in Thread,
             \/ HallocStart(t) \/ AllocPop(t) \/ AllocExtend(t) \/ SwapTake(t)
             \/ SkipPage(t) \/ FindPage(t) \/ HeapExhausted(t) \/ PutPage(t)
             \/ CheckPage(t) \/ FreeLocal(t) \/ Push(t)
      PROVE  CountOK(u)'
  BY <1>2 DEF HallocStart, AllocPop, AllocExtend, SwapTake, SkipPage, FindPage,
              HasHeap, HeapExhausted, PutPage, CheckPage, FreeLocal, Push,
              At, Goto, Return
<1>3. ASSUME NEW t \in Thread, SwapAdd(t) PROVE CountOK(u)'
  BY <1>3 DEF SwapAdd, At, Goto, Control, PcOK
<1>4. ASSUME NEW t \in Thread, SwapClearHit(t) \/ SwapClearMiss(t)
      PROVE  CountOK(u)'
  <2>1. /\ nremote' = [nremote EXCEPT ![page[t]] = 0]
        /\ pc[t] = "clear" /\ pc'[t] # "clear"
        /\ \A w \in Thread \ {t} : pc'[w] = pc[w]
        /\ UNCHANGED <<blk, magazine, seen, page, owner>>
    BY <1>4 DEF SwapClearHit, SwapClearMiss, ClearCount, AfterMiss, At, Goto,
                Return
  <2>2. page[t] # None /\ (page[u] = page[t] => u = t)
    BY <2>1 DEF Control, PcOK, PagesOK
  <2>3. pc[u] = "clear" => page[u] \in Page
    BY DEF Control, PcOK
  <2> QED BY <2>1, <2>2, <2>3
<1>5. ASSUME NEW t \in Thread, AllocPage(t) PROVE CountOK(u)'
  BY <1>5 DEF AllocPage, HasHeap, At, Goto, Control, PcOK, PagesOK
<1>6. ASSUME NEW t \in Thread, FreeRemote(t) PROVE CountOK(u)'
  <2>1. \A b \in live : PageOf(b) \in magazine
    BY PageOfBlock DEF NoBlockTwice, Control, FreshOK, Slot
  <2> QED BY <1>6, <2>1 DEF FreeRemote, At, Goto
<1>7. ASSUME NEW t \in Thread, Count(t) PROVE CountOK(u)'
  <2>1. PageOf(blk[t]) \in Page
    BY <1>7, PageOfBlock DEF Count, At, Control, PcOK
  <2> QED BY <1>7, <2>1 DEF Count, At, Goto, Control, PcOK
<1> QED BY <1>1, <1>2, <1>3, <1>4, <1>5, <1>6, <1>7 DEF Next, Proceed

-----------------------------------------------------------------------------
(***************************************************************************)
(* One lemma for each step that moves blocks or counts.                    *)
(***************************************************************************)

LEMMA PopBalanced ==
  ASSUME Blocks, Ledger, NEW t \in Thread, AllocPop(t), NEW p \in magazine
  PROVE  Balanced(p)'
<1> USE DEF Blocks, IInv, Ledger
<1> DEFINE q == page[t]
<1>1. /\ pc[t] = "alloc" /\ pc' = [pc EXCEPT ![t] = "idle"]
      /\ UNCHANGED <<owner, page, blk, seen, remote, nremote>>
  BY DEF AllocPop, At, Goto, Return, heap
<1>2. q \in magazine /\ q \in Page /\ p \in Page
  BY <1>1 DEF TypeOK, Control, PcOK, PagesOK
<1>3. SameCounting /\ SameOwed
  BY <1>1 DEF TypeOK, SameCounting, SameOwed
<1>4. PICK b \in local[q] : /\ local'  = [local  EXCEPT ![q] = @ \ {b}]
                            /\ nlocal' = [nlocal EXCEPT ![q] = @ - 1]
  BY DEF AllocPop
<1>5. CASE p = q
  <2>1. Listed(q)' = Listed(q) \ {b} /\ b \in Listed(q)
    BY <1>1, <1>2, <1>4 DEF Listed, NoBlockTwice, TypeOK
  <2>2. Cardinality(Listed(q)') = Cardinality(Listed(q)) - 1
    BY <1>2, <2>1, Finite, FS_RemoveElement
  <2>3. Counting(p)' = Counting(p) /\ Owed(p)' = Owed(p)
    BY <1>2, <1>3, CountingKept, OwedKept
  <2> QED BY <1>1, <1>2, <1>4, <1>5, <2>2, <2>3, Finite, OwedType
          DEF Balanced, TypeOK
<1>6. CASE p # q
  BY <1>1, <1>2, <1>3, <1>4, <1>6, OwedKept, BalanceKept DEF TypeOK
<1> QED BY <1>5, <1>6

LEMMA ExtendBalanced ==
  ASSUME Blocks, Ledger, NEW t \in Thread, AllocExtend(t), NEW p \in magazine
  PROVE  Balanced(p)'
<1> USE DEF Blocks, IInv, Ledger
<1> DEFINE q   == page[t]
           end == ExtendEnd(q)
           new == Between(q, bump[q], end)
<1>1. /\ pc[t] = "alloc" /\ pc' = [pc EXCEPT ![t] = "idle"]
      /\ local[q] = {}
      /\ UNCHANGED <<owner, page, blk, seen, remote, nremote>>
  BY DEF AllocExtend, At, Goto, Return, heap
<1>2. q \in magazine /\ q \in Page /\ p \in Page
  BY <1>1 DEF TypeOK, Control, PcOK, PagesOK
<1>3. SameCounting /\ SameOwed
  BY <1>1 DEF TypeOK, SameCounting, SameOwed
<1>4. PICK b \in new :
        /\ local'  = [local  EXCEPT ![q] = new \ {b}]
        /\ nlocal' = [nlocal EXCEPT ![q] = @ + (end - bump[q]) - 1]
  BY DEF AllocExtend
<1>5. bump[q] \in Nat /\ end \in Nat /\ bump[q] <= end
  BY <1>2, ExtendEndType DEF TypeOK
<1>6. CASE p = q
  <2>1. IsFiniteSet(new) /\ Cardinality(new) = end - bump[q]
    BY <1>5, BetweenSize
  <2>2. IsFiniteSet(new \ {b}) /\ Cardinality(new \ {b}) = end - bump[q] - 1
    BY <2>1, FS_RemoveElement
  <2>3. (new \ {b}) \cap remote[q] = {}
    <3>1. \A x \in remote[q] : x[2] \in 1 .. bump[q]
      BY <1>2 DEF NoBlockTwice
    <3>2. \A x \in new : x[2] \in (bump[q] + 1) .. end
      BY <1>2, <1>5, ExtendEndType, BlockFacts DEF TypeOK
    <3> QED BY <1>5, <3>1, <3>2
  <2>4. Listed(q)' = (new \ {b}) \cup remote[q] /\ Listed(q) = remote[q]
    BY <1>1, <1>2, <1>4 DEF Listed, TypeOK
  <2>5. Cardinality((new \ {b}) \cup remote[q])
          = Cardinality(new \ {b}) + Cardinality(remote[q])
    <3>1. Cardinality((new \ {b}) \cup remote[q])
            = Cardinality(new \ {b}) + Cardinality(remote[q])
                - Cardinality((new \ {b}) \cap remote[q])
      BY <1>2, <2>2, Finite, FS_Union
    <3>2. Cardinality((new \ {b}) \cap remote[q]) = 0
      BY <2>3, FS_EmptySet
    <3>3. Cardinality(remote[q]) \in Nat /\ Cardinality(new \ {b}) \in Nat
      BY <1>2, <2>2, Finite, FS_CardinalityType
    <3> QED BY <3>1, <3>2, <3>3
  <2>6. Counting(p)' = Counting(p) /\ Owed(p)' = Owed(p)
    BY <1>2, <1>3, CountingKept, OwedKept
  <2> HIDE DEF new, end
  <2> QED BY <1>1, <1>2, <1>4, <1>5, <1>6, <2>2, <2>4, <2>5, <2>6,
             Finite, OwedType DEF Balanced, TypeOK
<1>7. CASE p # q
  BY <1>1, <1>2, <1>3, <1>4, <1>7, OwedKept, BalanceKept DEF TypeOK
<1> QED BY <1>6, <1>7

LEMMA TakeBalanced ==
  ASSUME Blocks, Ledger, NEW t \in Thread, SwapTake(t), NEW p \in magazine
  PROVE  Balanced(p)'
<1> USE DEF Blocks, IInv, Ledger
<1> DEFINE q == page[t]
<1>1. /\ pc[t] = "alloc" /\ pc' = [pc EXCEPT ![t] = "add"]
      /\ local[q] = {}
      /\ local'  = [local  EXCEPT ![q] = remote[q]]
      /\ remote' = [remote EXCEPT ![q] = {}]
      /\ UNCHANGED <<owner, page, blk, seen, nlocal, nremote>>
  BY DEF SwapTake, TakeRemote, At, Goto, heap, thread
<1>2. q \in Page /\ p \in Page
  BY <1>1 DEF TypeOK, Control, PcOK
<1>3. SameCounting /\ SameOwed
  BY <1>1 DEF TypeOK, SameCounting, SameOwed
<1>4. Listed(p)' = Listed(p)
  BY <1>1, <1>2 DEF Listed, TypeOK
<1>5. Counting(p)' = Counting(p) /\ Owed(p)' = Owed(p)
  BY <1>2, <1>3, CountingKept, OwedKept
<1> QED BY <1>1, <1>4, <1>5 DEF Balanced

LEMMA AddBalanced ==
  ASSUME Blocks, Ledger, NEW t \in Thread, SwapAdd(t), NEW p \in magazine
  PROVE  Balanced(p)'
<1> USE DEF Blocks, IInv, Ledger
<1> DEFINE q == page[t]
<1>1. /\ pc[t] = "add" /\ pc' = [pc EXCEPT ![t] = "clear"]
      /\ nlocal' = [nlocal EXCEPT ![q] = @ + nremote[q]]
      /\ seen' = [seen EXCEPT ![t] = nremote[q]]
      /\ UNCHANGED <<owner, page, blk, local, remote, nremote>>
  BY DEF SwapAdd, At, Goto, heap
<1>2. q \in Page /\ p \in Page /\ q # None /\ owner[q] = t
  BY <1>1 DEF TypeOK, Control, PcOK, PagesOK
<1>3. Counting(p)' = Counting(p)
  BY <1>1, CountingKept DEF TypeOK, SameCounting
<1>4. Listed(p)' = Listed(p)
  BY <1>1 DEF Listed
<1>5. CASE p = q
  <2>1. Owed(q) = 0
    BY <1>1, <1>2, OwedByOwner
  <2>2. Owed(q)' = nremote[q]
    BY <1>1, <1>2, ThreadAssumption DEF Owed, TypeOK
  <2> QED BY <1>1, <1>2, <1>3, <1>4, <1>5, <2>1, <2>2, Finite
          DEF Balanced, TypeOK
<1>6. CASE p # q
  <2>1. Owed(p)' = Owed(p)
    BY <1>1, <1>2, <1>6 DEF Owed, TypeOK
  <2> QED BY <1>1, <1>2, <1>3, <1>4, <1>6, <2>1 DEF Balanced, TypeOK
<1> QED BY <1>5, <1>6

LEMMA ClearBalanced ==
  ASSUME Blocks, Ledger, NEW t \in Thread, NEW p \in magazine,
         SwapClearHit(t) \/ SwapClearMiss(t)
  PROVE  Balanced(p)'
<1> USE DEF Blocks, IInv, Ledger
<1> DEFINE q == page[t]
<1>1. /\ pc[t] = "clear" /\ pc'[t] \notin {"clear", "count"}
      /\ \A u \in Thread \ {t} : pc'[u] = pc[u]
      /\ nremote' = [nremote EXCEPT ![q] = 0]
      /\ UNCHANGED <<owner, page, blk, seen, remote>>
  BY DEF SwapClearHit, SwapClearMiss, ClearCount, AfterMiss, Return, At, Goto,
         heap, TypeOK
<1>2. q \in Page /\ p \in Page /\ q # None /\ owner[q] = t
  BY <1>1 DEF TypeOK, Control, PcOK, PagesOK
<1>3. Counting(p)' = Counting(p)
  BY <1>1, CountingKept DEF TypeOK, SameCounting
<1>4. CASE p = q
  <2>1. Owed(q) = seen[t] /\ Owed(q)' = 0
    <3>1. Owed(q) = seen[t]
      BY <1>1, <1>2, OwedByOwner
    <3>2. Owed(q)' = 0
      BY <1>1, <1>2 DEF Owed
    <3> QED BY <3>1, <3>2
  <2>2. seen[t] <= nremote[q]
    BY <1>1 DEF CountOK
  <2>3. \E k \in {0, 1} :
          /\ nlocal'[q] = nlocal[q] - k
          /\ Cardinality(Listed(q)') = Cardinality(Listed(q)) - k
    <3>1. CASE SwapClearHit(t)
      <4>1. PICK b \in local[q] :
              /\ local'  = [local  EXCEPT ![q] = @ \ {b}]
              /\ nlocal' = [nlocal EXCEPT ![q] = @ - 1]
        BY <3>1 DEF SwapClearHit
      <4>2. Listed(q)' = Listed(q) \ {b} /\ b \in Listed(q)
        BY <1>1, <1>2, <4>1 DEF Listed, NoBlockTwice, TypeOK
      <4>3. Cardinality(Listed(q)') = Cardinality(Listed(q)) - 1
        BY <1>2, <4>2, Finite, FS_RemoveElement
      <4> QED BY <1>2, <4>1, <4>3 DEF TypeOK
    <3>2. CASE SwapClearMiss(t)
      <4>1. Listed(q)' = Listed(q) /\ nlocal' = nlocal
        BY <1>1, <3>2 DEF SwapClearMiss, Listed
      <4> QED BY <1>2, <4>1, Finite DEF TypeOK
    <3> QED BY <3>1, <3>2
  <2> QED BY <1>1, <1>2, <1>3, <1>4, <2>1, <2>2, <2>3, Finite
          DEF Balanced, TypeOK
<1>5. CASE p # q
  <2>1. local'[p] = local[p] /\ nlocal'[p] = nlocal[p]
    BY <1>2, <1>5 DEF SwapClearHit, SwapClearMiss, TypeOK
  <2>2. Owed(p)' = Owed(p)
    BY <1>1, <1>2, <1>5 DEF Owed, TypeOK
  <2> QED BY <1>1, <1>2, <1>3, <1>5, <2>1, <2>2 DEF Balanced, Listed, TypeOK
<1> QED BY <1>4, <1>5

LEMMA NewPageBalanced ==
  ASSUME Blocks, Ledger, NEW t \in Thread, AllocPage(t), NEW p \in magazine'
  PROVE  Balanced(p)'
<1> USE DEF Blocks, IInv, Ledger
<1>1. PICK q \in Page \ magazine :
        /\ magazine' = magazine \cup {q}
        /\ owner'   = [owner   EXCEPT ![q] = t]
        /\ local'   = [local   EXCEPT ![q] = {}]
        /\ remote'  = [remote  EXCEPT ![q] = {}]
        /\ nlocal'  = [nlocal  EXCEPT ![q] = 0]
        /\ nremote' = [nremote EXCEPT ![q] = 0]
  BY DEF AllocPage
<1>2. /\ pc[t] = "newpage" /\ pc' = [pc EXCEPT ![t] = "put"]
      /\ UNCHANGED <<page, blk, seen>>
  BY DEF AllocPage, HasHeap, At, Goto
<1>3. SameCounting
  BY <1>2 DEF TypeOK, SameCounting
<1>4. Counting(p)' = Counting(p) /\ p \in Page
  BY <1>1, <1>3, CountingKept DEF TypeOK
<1>5. CASE p = q
  <2>1. Owed(p)' = 0
    BY <1>1, <1>2, <1>5 DEF Owed, TypeOK, Control, PagesOK
  <2>2. Counting(p) = {}
    BY <1>1, <1>5 DEF Counting, Control, PcOK, CountOK
  <2>3. Listed(p)' = {}
    BY <1>1, <1>5 DEF Listed, TypeOK
  <2> QED BY <1>1, <1>4, <1>5, <2>1, <2>2, <2>3, FS_EmptySet
          DEF Balanced, TypeOK
<1>6. CASE p # q
  <2>1. Owed(p)' = Owed(p)
    BY <1>1, <1>2, <1>4, <1>6 DEF Owed, TypeOK
  <2> QED BY <1>1, <1>3, <1>4, <1>6, <2>1, BalanceKept DEF TypeOK
<1> QED BY <1>5, <1>6

LEMMA FreeLocalBalanced ==
  ASSUME Blocks, Ledger, NEW t \in Thread, FreeLocal(t), NEW p \in magazine
  PROVE  Balanced(p)'
<1> USE DEF Blocks, IInv, Ledger
<1>1. UNCHANGED <<pc, owner, page, blk, seen, remote, nremote>>
  BY DEF FreeLocal, heap, thread
<1>2. PICK b \in live : /\ local'  = [local  EXCEPT ![PageOf(b)] = @ \cup {b}]
                        /\ nlocal' = [nlocal EXCEPT ![PageOf(b)] = @ + 1]
  BY DEF FreeLocal
<1>3. p \in Page
  BY DEF TypeOK
<1>4. Counting(p)' = Counting(p) /\ Owed(p)' = Owed(p)
  BY <1>1 DEF Counting, Owed
<1>5. CASE p = PageOf(b)
  <2>1. Listed(p)' = Listed(p) \cup {b} /\ b \notin Listed(p)
    BY <1>1, <1>2, <1>3, <1>5 DEF Listed, NoBlockTwice, TypeOK
  <2>2. Cardinality(Listed(p)') = Cardinality(Listed(p)) + 1
    BY <1>3, <2>1, Finite, FS_AddElement
  <2> QED BY <1>1, <1>2, <1>3, <1>4, <1>5, <2>2, Finite, OwedType
          DEF Balanced, TypeOK
<1>6. CASE p # PageOf(b)
  BY <1>1, <1>2, <1>3, <1>4, <1>6 DEF Balanced, Listed, TypeOK
<1> QED BY <1>5, <1>6

LEMMA PushBalanced ==
  ASSUME Blocks, Ledger, NEW t \in Thread, Push(t), NEW p \in magazine
  PROVE  Balanced(p)'
<1> USE DEF Blocks, IInv, Ledger
<1> DEFINE b == blk[t]
<1>1. /\ pc[t] = "push" /\ pc' = [pc EXCEPT ![t] = "count"]
      /\ remote' = [remote EXCEPT ![PageOf(b)] = @ \cup {b}]
      /\ UNCHANGED <<owner, page, blk, seen, local, nlocal, nremote>>
  BY DEF Push, At, Goto, heap, thread
<1>2. p \in Page
  BY DEF TypeOK
<1>3. Owed(p)' = Owed(p)
  BY <1>1, <1>2, OwedKept DEF TypeOK, SameOwed
<1>4. CASE p = PageOf(b)
  <2>1. Listed(p)' = Listed(p) \cup {b}
    BY <1>1, <1>2, <1>4 DEF Listed, TypeOK
  <2>2. b \notin Listed(p)
    BY <1>1, <1>2, InFlightIn DEF Listed, NoBlockTwice
  <2>3. Cardinality(Listed(p)') = Cardinality(Listed(p)) + 1
    BY <1>2, <2>1, <2>2, Finite, FS_AddElement
  <2>4. Counting(p)' = Counting(p) \cup {t} /\ t \notin Counting(p)
    BY <1>1, <1>4 DEF Counting, TypeOK
  <2>5. Cardinality(Counting(p)') = Cardinality(Counting(p)) + 1
    BY <1>2, <2>4, Finite, FS_AddElement
  <2> QED BY <1>1, <1>2, <1>3, <2>3, <2>5, Finite, OwedType
          DEF Balanced, TypeOK
<1>5. CASE p # PageOf(b)
  <2>1. Counting(p)' = Counting(p)
    BY <1>1, <1>5 DEF Counting, TypeOK
  <2> QED BY <1>1, <1>2, <1>3, <1>5, <2>1 DEF Balanced, Listed, TypeOK
<1> QED BY <1>4, <1>5

LEMMA CountBalanced ==
  ASSUME Blocks, Ledger, NEW t \in Thread, Count(t), NEW p \in magazine
  PROVE  Balanced(p)'
<1> USE DEF Blocks, IInv, Ledger
<1> DEFINE b == blk[t]
<1>1. /\ pc[t] = "count" /\ pc' = [pc EXCEPT ![t] = "idle"]
      /\ nremote' = [nremote EXCEPT ![PageOf(b)] = @ + 1]
      /\ blk' = [blk EXCEPT ![t] = None]
      /\ UNCHANGED <<owner, page, seen, local, remote, nlocal>>
  BY DEF Count, At, Goto, heap
<1>2. p \in Page
  BY DEF TypeOK
<1>3. Owed(p)' = Owed(p) /\ Listed(p)' = Listed(p)
  BY <1>1, <1>2, OwedKept DEF TypeOK, SameOwed, Listed
<1>4. CASE p = PageOf(b)
  <2>1. Counting(p)' = Counting(p) \ {t} /\ t \in Counting(p)
    BY <1>1, <1>4 DEF Counting, TypeOK
  <2>2. Cardinality(Counting(p)') = Cardinality(Counting(p)) - 1
    BY <1>2, <2>1, Finite, FS_RemoveElement
  <2> QED BY <1>1, <1>2, <1>3, <1>4, <2>2, Finite, OwedType
          DEF Balanced, TypeOK
<1>5. CASE p # PageOf(b)
  <2>1. Counting(p)' = Counting(p)
    BY <1>1, <1>5 DEF Counting, TypeOK
  <2> QED BY <1>1, <1>2, <1>3, <1>5, <2>1 DEF Balanced, TypeOK
<1> QED BY <1>4, <1>5

\* The steps that touch no list and no counter.
Elsewhere(t) ==
  \/ HallocStart(t) \/ SkipPage(t) \/ FindPage(t) \/ HeapExhausted(t)
  \/ PutPage(t) \/ CheckPage(t) \/ FreeRemote(t)

LEMMA ElsewhereBalanced ==
  ASSUME Blocks, Ledger, NEW t \in Thread, Elsewhere(t), NEW p \in magazine
  PROVE  Balanced(p)'
<1> USE DEF Blocks, IInv, Ledger
<1>1. UNCHANGED <<local, remote, nlocal, nremote>>
  BY DEF Elsewhere, HallocStart, SkipPage, FindPage, HeapExhausted, PutPage,
         CheckPage, FreeRemote, lists
<1>2. SameCounting
  BY DEF Elsewhere, HallocStart, SkipPage, FindPage, HasHeap, HeapExhausted,
         PutPage, CheckPage, FreeRemote, thread, At, Goto, TypeOK, SameCounting
<1>3. p \in Page
  BY DEF TypeOK
<1>4. Owed(p)' = Owed(p)
  <2>1. CASE FindPage(t)
    <3>1. PICK q \in Page : owner[q] = None /\ owner' = [owner EXCEPT ![q] = t]
      BY <2>1 DEF FindPage, Adoptable, TypeOK
    <3>2. /\ pc[t] = "newpage" /\ pc' = [pc EXCEPT ![t] = "put"]
          /\ UNCHANGED <<page, seen>>
      BY <2>1 DEF FindPage, HasHeap, At, Goto
    <3>3. CASE p = q
      BY <1>3, <3>1, <3>2, <3>3 DEF TypeOK, Owed
    <3>4. CASE p # q
      BY <1>3, <3>1, <3>2, <3>4 DEF TypeOK, Owed
    <3> QED BY <3>3, <3>4
  <2>2. CASE PutPage(t)
    <3>1. owner'[p] = IF p = page[t] THEN None ELSE owner[p]
      BY <1>3, <2>2 DEF PutPage
    <3>2. /\ pc[t] = "put" /\ pc' = [pc EXCEPT ![t] = "check"]
          /\ page' = [page EXCEPT ![t] = got[t]] /\ seen' = seen
      BY <2>2 DEF PutPage, At, Goto
    <3>3. CASE owner[p] \in {None, t}
      BY <1>3, <3>1, <3>2, <3>3 DEF TypeOK, Owed
    <3>4. CASE owner[p] \notin {None, t}
      BY <1>3, <3>1, <3>2, <3>4, PageAssumption
         DEF TypeOK, Owed, Control, PagesOK
    <3> QED BY <3>3, <3>4
  <2>3. CASE ~FindPage(t) /\ ~PutPage(t)
    <3>1. SameOwed
      BY <2>3 DEF Elsewhere, HallocStart, SkipPage, HasHeap, HeapExhausted,
                  CheckPage, FreeRemote, heap, thread, At, Goto, TypeOK, SameOwed
    <3> QED BY <1>3, <3>1, OwedKept
  <2> QED BY <2>1, <2>2, <2>3
<1> QED BY <1>1, <1>2, <1>4, BalanceKept

-----------------------------------------------------------------------------
LEMMA LedgerStep == Blocks /\ Ledger /\ [Next]_vars => Ledger'
<1> SUFFICES ASSUME Blocks, Ledger, [Next]_vars PROVE Ledger'
  OBVIOUS
<1>1. \A u \in Thread : CountOK(u)'
  BY CountOKStep
<1>2. ASSUME NEW p \in magazine' PROVE Balanced(p)'
  <2>1. CASE UNCHANGED vars
    BY <2>1 DEF vars, heap, lists, thread, Ledger, Balanced, Owed, Counting,
                Listed
  <2>2. ASSUME NEW t \in Thread, AllocPage(t) PROVE Balanced(p)'
    BY <2>2, NewPageBalanced
  <2>3. CASE \A t \in Thread : ~AllocPage(t)
    <3>1. magazine' = magazine
      BY <2>3 DEF Next, Proceed, HallocStart, AllocPop, AllocExtend, SwapTake,
                  SwapAdd, SwapClearHit, SwapClearMiss, SkipPage, FindPage,
                  HeapExhausted, PutPage, CheckPage, FreeLocal, FreeRemote,
                  Push, Count, heap, vars
    <3> QED BY <2>1, <2>3, <3>1, PopBalanced, ExtendBalanced, TakeBalanced,
               AddBalanced, ClearBalanced, FreeLocalBalanced, PushBalanced,
               CountBalanced, ElsewhereBalanced
            DEF Next, Proceed, Elsewhere
  <2> QED BY <2>2, <2>3
<1> QED BY <1>1, <1>2 DEF Ledger

Books == Blocks /\ Ledger

LEMMA BooksAlways == Spec => []Books
<1>1. Init => Books
  BY InitBlocks DEF Books, Ledger, Init, CountOK
<1>2. Books /\ [Next]_vars => Books'
  BY TypeStep, ControlStep, TwiceStep, LostStep, LedgerStep
     DEF Books, Blocks, IInv
<1> QED BY <1>1, <1>2, PTL DEF Spec

LEMMA BooksSound ==
  ASSUME Books, NEW p \in magazine,
         \A t \in Thread : page[t] = p => pc[t] # "clear"
  PROVE  NumFree(p) <= Cardinality(local[p] \cup remote[p] \cup Untouched(p))
<1> USE DEF Books, Blocks, IInv
<1>1. p \in Page /\ bump[p] \in Nat /\ bump[p] <= Capacity
  BY DEF TypeOK
<1>2. Owed(p) = 0
  BY <1>1 DEF Owed, TypeOK
<1>3. IsFiniteSet(Untouched(p)) /\ Cardinality(Untouched(p)) = Capacity - bump[p]
  BY <1>1, BetweenSize, CapacityAssumption DEF Untouched
<1>4. Listed(p) \cap Untouched(p) = {}
  BY <1>1 DEF NoBlockTwice, Listed, Untouched, Between
<1>5. Cardinality(Listed(p) \cup Untouched(p))
        = Cardinality(Listed(p)) + Cardinality(Untouched(p))
  <2>1. Cardinality(Listed(p) \cup Untouched(p))
          = Cardinality(Listed(p)) + Cardinality(Untouched(p))
              - Cardinality(Listed(p) \cap Untouched(p))
    BY <1>1, <1>3, Finite, FS_Union
  <2>2. Cardinality(Listed(p) \cap Untouched(p)) = 0
    BY <1>4, FS_EmptySet
  <2> QED BY <1>1, <1>3, <2>1, <2>2, Finite, CapacityAssumption
<1>6. nlocal[p] + nremote[p] <= Cardinality(Listed(p))
  BY <1>1, <1>2, Finite DEF Ledger, Balanced, TypeOK
<1>7. NumFree(p) <= Cardinality(Listed(p) \cup Untouched(p))
  <2>1. nlocal[p] \in Int /\ nremote[p] \in Int /\ Cardinality(Listed(p)) \in Int
    BY <1>1, Finite DEF TypeOK
  <2> QED BY <1>1, <1>3, <1>5, <1>6, <2>1, CapacityAssumption DEF NumFree
<1> QED BY <1>7 DEF Listed

\* The estimate find_or_alloc_page and new_sized_page rely on (Heap.hpp:197,
\* ThreadCache.cpp:85) may fall behind the lists, but never runs ahead of them
\* outside the two lines of swap() that hand the counter over.
THEOREM CountsSound == Spec => []FreeCountSound
<1>1. Books => FreeCountSound
  BY BooksSound DEF FreeCountSound
<1> QED BY BooksAlways, <1>1, PTL

-----------------------------------------------------------------------------
(***************************************************************************)
(* The second page->alloc() of an allocation succeeds.                     *)
(***************************************************************************)
Retrying(t) ==
  /\ pc[t] \in {"idle", "push", "count"} => ~second[t]
  /\ second[t] /\ pc[t] = "alloc" =>
       Listed(page[t]) \cup Untouched(page[t]) # {}
  /\ second[t] /\ pc[t] \in {"add", "clear"} => local[page[t]] # {}
  /\ pc[t] # "oom"

\* What is on the lists of a thread's page stays there while others run.
LEMMA OthersKeep ==
  ASSUME Books, [Next]_vars, NEW t \in Thread, page[t] # None,
         pc'[t] = pc[t], pc[t] \in {"alloc", "add", "clear"}
  PROVE  /\ local'[page[t]] = local[page[t]]
         /\ remote[page[t]] \subseteq remote'[page[t]]
         /\ bump'[page[t]] = bump[page[t]]
         /\ page'[t] = page[t]
         /\ second'[t] = second[t]
<1> USE DEF Books, Blocks, IInv, TypeOK, heap, lists, thread
<1>1. page[t] \in magazine /\ page[t] \in Page /\ owner[page[t]] = t
  BY DEF Control, PagesOK
<1>2. CASE UNCHANGED vars
  BY <1>2 DEF vars
<1>3. ASSUME NEW u \in Thread, AllocPop(u) \/ AllocExtend(u)
      PROVE  /\ u # t /\ page[u] # page[t]
             /\ \A q \in Page \ {page[u]} : /\ local'[q] = local[q]
                                            /\ bump'[q] = bump[q]
             /\ second'[t] = second[t]
             /\ UNCHANGED <<remote, page>>
  <2>1. pc[u] = "alloc" /\ pc'[u] = "idle" /\ page[u] \in Page
    BY <1>3 DEF AllocPop, AllocExtend, At, Return, Goto, Control, PcOK
  <2>2. u # t /\ page[u] # page[t]
    BY <1>1, <2>1 DEF Control, PagesOK
  <2> QED BY <1>3, <2>1, <2>2 DEF AllocPop, AllocExtend, Return
<1>4. ASSUME NEW u \in Thread, SwapTake(u) \/ SwapClearHit(u)
      PROVE  /\ u # t /\ page[u] # page[t]
             /\ \A q \in Page \ {page[u]} : /\ local'[q] = local[q]
                                            /\ remote'[q] = remote[q]
             /\ second'[t] = second[t]
             /\ UNCHANGED <<bump, page>>
  <2>1. pc[u] \in {"alloc", "clear"} /\ pc'[u] # pc[u] /\ page[u] \in Page
    BY <1>4 DEF SwapTake, SwapClearHit, At, Return, Goto, Control, PcOK
  <2>2. u # t /\ page[u] # page[t]
    BY <1>1, <2>1 DEF Control, PagesOK
  <2> QED BY <1>4, <2>1, <2>2 DEF SwapTake, TakeRemote, SwapClearHit, Return
<1>5. ASSUME NEW u \in Thread, FreeLocal(u)
      PROVE  /\ local'[page[t]] = local[page[t]]
             /\ UNCHANGED <<remote, bump, page, second>>
  <2>1. u # t
    BY <1>5 DEF FreeLocal, At
  <2> QED BY <1>1, <1>5, <2>1, PageOfBlock DEF FreeLocal
<1>6. ASSUME NEW u \in Thread, AllocPage(u) \/ Push(u)
      PROVE  /\ local'[page[t]] = local[page[t]]
             /\ remote[page[t]] \subseteq remote'[page[t]]
             /\ bump'[page[t]] = bump[page[t]]
             /\ UNCHANGED <<page, second>>
  BY <1>1, <1>6 DEF AllocPage, Push
<1>7. ASSUME NEW u \in Thread,
             \/ HallocStart(u) \/ SwapAdd(u) \/ SwapClearMiss(u) \/ SkipPage(u)
             \/ FindPage(u) \/ HeapExhausted(u) \/ PutPage(u) \/ CheckPage(u)
             \/ FreeRemote(u) \/ Count(u)
      PROVE  /\ UNCHANGED <<local, remote, bump>>
             /\ page'[t] = page[t] /\ second'[t] = second[t]
  BY <1>7 DEF HallocStart, SwapAdd, SwapClearMiss, AfterMiss, SkipPage, FindPage,
              HeapExhausted, PutPage, CheckPage, FreeRemote, Count, At, Goto
<1> QED BY <1>1, <1>2, <1>3, <1>4, <1>5, <1>6, <1>7 DEF Next, Proceed

LEMMA RetryStep ==
  ASSUME Books, [Next]_vars, NEW t \in Thread, Retrying(t)
  PROVE  Retrying(t)'
<1> USE DEF Books, Blocks, IInv, TypeOK
<1>1. CASE pc'[t] = pc[t] /\ pc[t] \in {"alloc", "add", "clear"}
  <2>1. page[t] # None
    BY <1>1 DEF Control, PcOK
  <2> QED BY <1>1, <2>1, OthersKeep DEF Retrying, Listed, Untouched
<1>2. CASE pc'[t] = pc[t] /\ pc[t] \notin {"alloc", "add", "clear"}
  <2>1. second'[t] = second[t]
    BY <1>2 DEF Next, Proceed, HallocStart, AllocPop, AllocExtend, SwapTake,
                SwapAdd, SwapClearHit, SwapClearMiss, SkipPage, FindPage,
                AllocPage, HeapExhausted, PutPage, CheckPage, FreeLocal,
                FreeRemote, Push, Count, Return, At, Goto, thread, vars
  <2> QED BY <1>2, <2>1 DEF Retrying
<1>3. CASE pc'[t] # pc[t]
  <2> USE DEF At, Goto, thread
  <2>1. CASE HallocStart(t)
    BY <2>1 DEF HallocStart, Retrying
  <2>2. CASE AllocPop(t)
    BY <2>2 DEF AllocPop, Return, Retrying
  <2>3. CASE AllocExtend(t)
    BY <2>3 DEF AllocExtend, Return, Retrying
  <2>4. CASE SwapTake(t)
    <3>1. page[t] \in Page /\ local[page[t]] = {} /\ bump[page[t]] = Capacity
      BY <2>4 DEF SwapTake, Control, PcOK
    <3>2. Untouched(page[t]) = {}
      BY <3>1, CapacityAssumption DEF Untouched, Between
    <3>3. second[t] => remote[page[t]] # {}
      BY <2>4, <3>1, <3>2 DEF SwapTake, Retrying, Listed
    <3> QED BY <2>4, <3>1, <3>3 DEF SwapTake, TakeRemote, Retrying
  <2>5. CASE SwapAdd(t)
    BY <2>5 DEF SwapAdd, Retrying
  <2>6. CASE SwapClearHit(t)
    BY <2>6 DEF SwapClearHit, Return, Retrying
  <2>7. CASE SwapClearMiss(t)
    BY <2>7 DEF SwapClearMiss, AfterMiss, Retrying
  <2>8. CASE FindPage(t) \/ AllocPage(t) \/ HeapExhausted(t) \/ PutPage(t)
    BY <2>8 DEF FindPage, AllocPage, HeapExhausted, PutPage, Retrying
  <2>9. CASE CheckPage(t)
    <3> DEFINE p == page[t]
    <3>1. /\ p \in magazine /\ p \in Page
          /\ \A u \in Thread : page[u] = p => pc[u] # "clear"
      BY <2>9 DEF CheckPage, Control, PcOK, PagesOK
    <3>2. NumFree(p) <= Cardinality(local[p] \cup remote[p] \cup Untouched(p))
      BY <3>1, BooksSound
    <3>3. NumFree(p) > 0 => Listed(p) \cup Untouched(p) # {}
      <4>1. NumFree(p) \in Int
        BY <3>1, CapacityAssumption DEF NumFree
      <4>2. Listed(p) \cup Untouched(p) = {} => NumFree(p) <= 0
        BY <3>2, FS_EmptySet DEF Listed
      <4> QED BY <4>1, <4>2
    <3>4. /\ pc'[t] = IF NumFree(p) > 0 THEN "alloc" ELSE "noSpace"
          /\ UNCHANGED <<local, remote, bump, page, second>>
      BY <2>9 DEF CheckPage, lists
    <3>5. Listed(p)' = Listed(p) /\ Untouched(p)' = Untouched(p) /\ page'[t] = p
      BY <3>4 DEF Listed, Untouched
    <3> QED BY <3>3, <3>4, <3>5 DEF Retrying
  <2>10. CASE FreeRemote(t) \/ Push(t) \/ Count(t)
    BY <2>10 DEF FreeRemote, Push, Count, Retrying
  <2>11. ~UNCHANGED vars /\ ~SkipPage(t) /\ ~FreeLocal(t)
    BY <1>3 DEF vars, SkipPage, FreeLocal
  <2>12. ASSUME NEW u \in Thread, u # t,
                HallocStart(u) \/ FreeLocal(u) \/ FreeRemote(u) \/ Proceed(u)
         PROVE  FALSE
    BY <1>3, <2>12
       DEF Proceed, HallocStart, AllocPop, AllocExtend, SwapTake, SwapAdd,
           SwapClearHit, SwapClearMiss, SkipPage, FindPage, AllocPage,
           HeapExhausted, PutPage, CheckPage, FreeLocal, FreeRemote, Push,
           Count, Return
  <2> QED BY <2>1, <2>2, <2>3, <2>4, <2>5, <2>6, <2>7, <2>8, <2>9, <2>10,
             <2>11, <2>12 DEF Next, Proceed
<1> QED BY <1>1, <1>2, <1>3

\* ThreadCache.cpp:44: the assertion "OOM!" after the second page->alloc() never
\* fails, although the page was chosen by an estimate other threads change.
THEOREM SecondTrySucceeds == Spec => []NoOOM
<1>1. Init => \A t \in Thread : Retrying(t)
  BY DEF Init, Retrying
<1>2. Books /\ (\A t \in Thread : Retrying(t)) /\ [Next]_vars
        => (\A t \in Thread : Retrying(t))'
  BY RetryStep
<1>3. (\A t \in Thread : Retrying(t)) => NoOOM
  BY DEF Retrying, NoOOM
<1> QED BY BooksAlways, <1>1, <1>2, <1>3, PTL DEF Spec
=============================================================================
