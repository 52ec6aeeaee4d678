------------------------- MODULE HandleTableProofs --------------------------
(***************************************************************************)
(* Proofs about HandleTable for any number of threads, slabs and mappings, *)
(* and any growth of the table and of the vector of slabs.                 *)
(***************************************************************************)
EXTENDS HandleTable, FiniteSetTheorems, TLAPS

(***************************************************************************)
(* What a thread is doing tells which slab and mapping it has, and its     *)
(* slabs are its own.                                                      *)
(***************************************************************************)
PcOK(t) ==
  /\ pc[t] \in {"alloc", "add", "clear"} => slab[t] # None
  /\ pc[t] = "install" <=> got[t] # None
  /\ pc[t] \in {"find", "push", "wild", "count"} <=> putting[t] # None

SlabsOK(t) ==
  /\ slab[t] # None => slab[t] < nslabs /\ owner[slab[t]] = t
  /\ got[t]  # None => /\ got[t] < nslabs /\ owner[got[t]] = t
                       /\ got[t] # slab[t]

\* A slab that has not been made has given nothing out and has no owner.
FreshOK == \A s \in SlabIdx : s >= nslabs => bump[s] = 0 /\ owner[s] = None

Control == /\ capacity # 0
           /\ \A t \in Thread : PcOK(t)
           /\ \A t \in Thread : SlabsOK(t)
           /\ FreshOK

IInv == TypeOK /\ Control

USE DEF PCs

LEMMA BetweenFacts ==
  ASSUME NEW s \in SlabIdx, NEW i \in Nat, NEW j \in 0 .. SlabCapacity,
         NEW m \in Between(s, i, j)
  PROVE  m \in Handle /\ SlabOf(m) = s /\ m[2] \in (i + 1) .. j
BY SizeAssumption DEF Between, Handle, SlabOf

LEMMA SlabOfHandle ==
  ASSUME NEW m \in Handle
  PROVE  SlabOf(m) \in SlabIdx /\ m[2] \in 1 .. SlabCapacity
BY DEF Handle, SlabOf

LEMMA ExtendEndType ==
  ASSUME TypeOK, NEW s \in SlabIdx
  PROVE  ExtendEnd(s) \in 0 .. SlabCapacity /\ bump[s] <= ExtendEnd(s)
BY SizeAssumption DEF TypeOK, ExtendEnd

\* grow() and grow_capacity() make room for one slab more.
LEMMA Growth ==
  ASSUME TypeOK, capacity # 0
  PROVE  /\ NewCapacity \in Nat /\ NewCapacity # 0 /\ nslabs + 1 <= NewCapacity
         /\ GrowVec(nslabs + 1) =>
              buffer' \in Nat /\ room' \in Nat /\ nslabs + 1 <= room'
<1>1. nslabs \in Nat /\ capacity \in Nat /\ nslabs <= capacity
  BY SizeAssumption DEF TypeOK
<1>2. ASSUME NEW c \in Nat \ {0}, NEW g \in Nat \ {0, 1}
      PROVE  c * g \in Nat /\ c + 1 <= c * g
  <2>1. c * g = c * 2 + c * (g - 2)
    OBVIOUS
  <2>2. c * (g - 2) \in Nat
    OBVIOUS
  <2> QED BY <2>1, <2>2
<1>3. NewCapacity \in Nat /\ NewCapacity # 0 /\ nslabs + 1 <= NewCapacity
  BY <1>1, <1>2, SizeAssumption DEF NewCapacity
<1>4. (nslabs + 1) \div 4 \in Nat
  BY <1>1
<1> QED BY <1>1, <1>3, <1>4, SizeAssumption DEF GrowVec, TypeOK

LEMMA InitIInv == Init => IInv
BY SizeAssumption, NoneAssumption
DEF Init, IInv, TypeOK, Control, PcOK, SlabsOK, FreshOK

LEMMA TypeStep == IInv /\ [Next]_vars => TypeOK'
<1> SUFFICES ASSUME IInv, [Next]_vars PROVE TypeOK'
  OBVIOUS
<1> USE DEF IInv, vector, table, lists, locals
<1>1. CASE UNCHANGED vars
  BY <1>1 DEF TypeOK, vars
<1>2. ASSUME NEW t \in Thread, NewMapping(t) PROVE TypeOK'
  BY <1>2 DEF TypeOK, NewMapping, Goto
<1>3. ASSUME NEW t \in Thread, AllocPop(t) PROVE TypeOK'
  BY <1>3 DEF TypeOK, Control, PcOK, AllocPop, Pop, At, Goto
<1>4. ASSUME NEW t \in Thread, AllocExtend(t) PROVE TypeOK'
  <2> DEFINE s == slab[t]
             new == Between(s, bump[s], ExtendEnd(s))
  <2>1. s \in SlabIdx
    BY <1>4 DEF TypeOK, Control, PcOK, AllocExtend, At
  <2>2. new \subseteq Handle
    BY <2>1, BetweenFacts, ExtendEndType DEF TypeOK
  <2> QED BY <1>4, <2>1, <2>2, ExtendEndType
          DEF TypeOK, AllocExtend, Pop, At, Goto
<1>5. ASSUME NEW t \in Thread, SwapTake(t) PROVE TypeOK'
  BY <1>5 DEF TypeOK, SwapTake, TakeRemote, At, Goto
<1>6. ASSUME NEW t \in Thread, SwapAdd(t) PROVE TypeOK'
  BY <1>6 DEF TypeOK, Control, PcOK, SwapAdd, At, Goto
<1>7. ASSUME NEW t \in Thread, SwapClearHit(t) PROVE TypeOK'
  BY <1>7 DEF TypeOK, Control, PcOK, SwapClearHit, Pop, ClearCount, At, Goto
<1>8. ASSUME NEW t \in Thread, SwapClearMiss(t) PROVE TypeOK'
  BY <1>8 DEF TypeOK, SwapClearMiss, ClearCount, Goto
<1>9. ASSUME NEW t \in Thread, SkipSlab(t) PROVE TypeOK'
  BY <1>9, SizeAssumption DEF TypeOK, SkipSlab
<1>10. ASSUME NEW t \in Thread, TakeSlab(t) PROVE TypeOK'
  <2>1. scan \in SlabIdx /\ 0 \in 0 .. nslabs
    BY <1>10, SizeAssumption DEF TakeSlab, TypeOK, SlabIdx
  <2> QED BY <1>10, <2>1 DEF TypeOK, TakeSlab, Goto
<1>11. ASSUME NEW t \in Thread, EndScan(t) PROVE TypeOK'
  <2>1. 0 \in 0 .. nslabs
    BY SizeAssumption DEF TypeOK
  <2> QED BY <1>11, <2>1 DEF TypeOK, EndScan, Goto
<1>12. ASSUME NEW t \in Thread, FreshSlab(t) PROVE TypeOK'
  <2>1. /\ nslabs \in SlabIdx /\ nslabs + 1 \in 0 .. MaxSlabs
        /\ 0 .. nslabs \subseteq 0 .. (nslabs + 1)
        /\ 0 \in 0 .. SlabCapacity
    BY <1>12, SizeAssumption DEF FreshSlab, TypeOK, SlabIdx
  <2> QED BY <1>12, <2>1, Growth DEF TypeOK, Control, FreshSlab, Goto
<1>13. ASSUME NEW t \in Thread, GrowFails(t) PROVE TypeOK'
  BY <1>13 DEF TypeOK, GrowFails, Goto
<1>14. ASSUME NEW t \in Thread, InstallSlab(t) PROVE TypeOK'
  BY <1>14 DEF TypeOK, InstallSlab, Goto
<1>15. ASSUME NEW t \in Thread, Put(t) PROVE TypeOK'
  BY <1>15 DEF TypeOK, Put, Goto
<1>16. ASSUME NEW t \in Thread, FindLocal(t) PROVE TypeOK'
  BY <1>16, SlabOfHandle DEF TypeOK, Control, PcOK, FindLocal, At, Goto
<1>17. ASSUME NEW t \in Thread, FindRemote(t) PROVE TypeOK'
  BY <1>17 DEF TypeOK, FindRemote, Goto
<1>18. ASSUME NEW t \in Thread, FindWild(t) PROVE TypeOK'
  BY <1>18 DEF TypeOK, FindWild, Goto
<1>19. ASSUME NEW t \in Thread, Push(t) PROVE TypeOK'
  BY <1>19, SlabOfHandle DEF TypeOK, Control, PcOK, Push, At, Goto
<1>20. ASSUME NEW t \in Thread, Count(t) PROVE TypeOK'
  BY <1>20, SlabOfHandle DEF TypeOK, Control, PcOK, Count, At, Goto
<1> QED BY <1>1, <1>2, <1>3, <1>4, <1>5, <1>6, <1>7, <1>8, <1>9, <1>10,
           <1>11, <1>12, <1>13, <1>14, <1>15, <1>16, <1>17, <1>18, <1>19, <1>20
        DEF Next

LEMMA ControlStep == IInv /\ [Next]_vars => Control'
<1> SUFFICES ASSUME IInv, [Next]_vars PROVE Control'
  OBVIOUS
<1> USE ThreadAssumption, NoneAssumption
    DEF IInv, TypeOK, Control, PcOK, SlabsOK, FreshOK,
        vector, table, lists, locals
<1>1. CASE UNCHANGED vars
  BY <1>1 DEF vars
<1>2. ASSUME NEW t \in Thread, NewMapping(t) PROVE Control'
  BY <1>2 DEF NewMapping, At, Goto
<1>3. ASSUME NEW t \in Thread, AllocPop(t) PROVE Control'
  BY <1>3 DEF AllocPop, Pop, At, Goto
<1>4. ASSUME NEW t \in Thread, AllocExtend(t) PROVE Control'
  <2>1. slab[t] \in SlabIdx /\ ~(slab[t] >= nslabs)
    BY <1>4, SizeAssumption DEF AllocExtend, At, SlabIdx
  <2> QED BY <1>4, <2>1 DEF AllocExtend, Pop, At, Goto
<1>5. ASSUME NEW t \in Thread, SwapTake(t) PROVE Control'
  BY <1>5 DEF SwapTake, TakeRemote, At, Goto
<1>6. ASSUME NEW t \in Thread, SwapAdd(t) PROVE Control'
  BY <1>6 DEF SwapAdd, At, Goto
<1>7. ASSUME NEW t \in Thread, SwapClearHit(t) PROVE Control'
  BY <1>7 DEF SwapClearHit, Pop, ClearCount, At, Goto
<1>8. ASSUME NEW t \in Thread, SwapClearMiss(t) PROVE Control'
  BY <1>8 DEF SwapClearMiss, At, Goto
<1>9. ASSUME NEW t \in Thread, SkipSlab(t) PROVE Control'
  BY <1>9 DEF SkipSlab
<1>10. ASSUME NEW t \in Thread, TakeSlab(t) PROVE Control'
  <2>1. scan \in SlabIdx /\ ~(scan >= nslabs) /\ owner[scan] = None
    BY <1>10, SizeAssumption DEF TakeSlab, Usable, SlabIdx
  <2> QED BY <1>10, <2>1 DEF TakeSlab, Scans, At, Goto
<1>11. ASSUME NEW t \in Thread, EndScan(t) PROVE Control'
  BY <1>11 DEF EndScan, Scans, At, Goto
<1>12. ASSUME NEW t \in Thread, FreshSlab(t) PROVE Control'
  <2>1. /\ nslabs \in SlabIdx /\ nslabs \in Nat /\ nslabs # None
        /\ owner[nslabs] = None
    BY <1>12, SizeAssumption DEF FreshSlab, SlabIdx
  <2>2. \A s \in SlabIdx : s \in Nat
    BY SizeAssumption DEF SlabIdx
  <2>3. capacity' # 0
    BY <1>12, Growth DEF FreshSlab
  <2>4. \A u \in Thread : PcOK(u)'
    BY <1>12, <2>1 DEF FreshSlab, At, Goto
  <2>5. \A u \in Thread : SlabsOK(u)'
    <3> SUFFICES ASSUME NEW u \in Thread PROVE SlabsOK(u)'
      OBVIOUS
    <3>1. /\ slab' = slab /\ nslabs' = nslabs + 1
          /\ got' = [got EXCEPT ![t] = nslabs]
          /\ owner' = [owner EXCEPT ![nslabs] = t]
      BY <1>12 DEF FreshSlab
    <3>2. /\ slab[u] # None => slab[u] \in Nat /\ slab[u] < nslabs
          /\ got[u]  # None => got[u] \in Nat /\ got[u] < nslabs
      BY <2>2
    <3>3. slab[u] # None => slab'[u] < nslabs' /\ owner'[slab'[u]] = u
      BY <2>1, <3>1, <3>2
    <3>4. CASE u = t
      BY <2>1, <3>1, <3>2, <3>3, <3>4
    <3>5. CASE u # t
      BY <2>1, <3>1, <3>2, <3>3, <3>5
    <3> QED BY <3>4, <3>5
  <2>6. FreshOK'
    BY <1>12, <2>1, <2>2 DEF FreshSlab
  <2> QED BY <2>3, <2>4, <2>5, <2>6
<1>13. ASSUME NEW t \in Thread, GrowFails(t) PROVE Control'
  BY <1>13 DEF GrowFails, At, Goto
<1>14. ASSUME NEW t \in Thread, InstallSlab(t) PROVE Control'
  BY <1>14 DEF InstallSlab, At, Goto
<1>15. ASSUME NEW t \in Thread, Put(t) PROVE Control'
  BY <1>15 DEF Put, At, Goto
<1>16. ASSUME NEW t \in Thread, FindLocal(t) PROVE Control'
  BY <1>16 DEF FindLocal, At, Goto
<1>17. ASSUME NEW t \in Thread, FindRemote(t) PROVE Control'
  BY <1>17 DEF FindRemote, At, Goto
<1>18. ASSUME NEW t \in Thread, FindWild(t) PROVE Control'
  BY <1>18 DEF FindWild, At, Goto
<1>19. ASSUME NEW t \in Thread, Push(t) PROVE Control'
  BY <1>19 DEF Push, At, Goto
<1>20. ASSUME NEW t \in Thread, Count(t) PROVE Control'
  BY <1>20 DEF Count, At, Goto
<1> QED BY <1>1, <1>2, <1>3, <1>4, <1>5, <1>6, <1>7, <1>8, <1>9, <1>10,
           <1>11, <1>12, <1>13, <1>14, <1>15, <1>16, <1>17, <1>18, <1>19, <1>20
        DEF Next

-----------------------------------------------------------------------------
LEMMA Inductive == Spec => []IInv
<1>1. IInv /\ [Next]_vars => IInv'
  BY TypeStep, ControlStep DEF IInv
<1> QED BY InitIInv, <1>1, PTL DEF Spec

\* Every variable keeps its type; in particular the table has room for every
\* slab fresh_slab makes, whatever the growth factor (HandleTable.cpp:96-100),
\* and the vector of slabs has room for every element.
THEOREM TypeCorrect == Spec => []TypeOK
<1>1. IInv => TypeOK
  BY DEF IInv
<1> QED BY Inductive, <1>1, PTL

\* No two threads allocate from one slab (HandleTable.hpp:39-41), through every
\* interleaving of new_slab, fresh_slab and new_mapping's change of slabs
\* (HandleTable.cpp:90-135, ThreadCache.cpp:230-236).
THEOREM SlabsUnshared == Spec => []OneSlabEach
<1>1. IInv => OneSlabEach
  BY DEF IInv, Control, SlabsOK, OneSlabEach
<1> QED BY Inductive, <1>1, PTL

-----------------------------------------------------------------------------
(***************************************************************************)
(* Mappings: each is in one place.                                         *)
(***************************************************************************)

\* A step that neither begins nor ends a put keeps the mappings in flight.
SamePutters == \A u \in Thread : /\ Putting(u)' <=> Putting(u)
                                 /\ Putting(u) => putting'[u] = putting[u]

SamePlaces == UNCHANGED <<local, remote, bump, live>> /\ SamePutters

LEMMA InFlightKept == SamePutters => InFlight' = InFlight
BY DEF SamePutters, InFlight

LEMMA InFlightIn ==
  ASSUME NEW t \in Thread, Putting(t) PROVE putting[t] \in InFlight
BY DEF InFlight

LEMMA InFlightType == IInv => InFlight \subseteq Handle
BY DEF InFlight, Putting, IInv, TypeOK, Control, PcOK

\* The steps that move no mapping.
Bookkeeping(t) ==
  \/ NewMapping(t) \/ SwapAdd(t) \/ SwapClearMiss(t)
  \/ SkipSlab(t) \/ TakeSlab(t) \/ EndScan(t) \/ GrowFails(t) \/ InstallSlab(t)
  \/ FindRemote(t) \/ FindWild(t) \/ Count(t)

LEMMA BookkeepingMovesNothing ==
  ASSUME IInv, NEW t \in Thread, Bookkeeping(t)
  PROVE  SamePlaces
<1> USE DEF SamePlaces, SamePutters, Putting, IInv, TypeOK, table, vector,
            lists, locals
<1>1. CASE NewMapping(t)
  BY <1>1 DEF NewMapping, At, Goto
<1>2. CASE SwapAdd(t)
  BY <1>2 DEF SwapAdd, At, Goto
<1>3. CASE SwapClearMiss(t)
  BY <1>3 DEF SwapClearMiss, At, Goto
<1>4. CASE SkipSlab(t)
  BY <1>4 DEF SkipSlab
<1>5. CASE TakeSlab(t)
  BY <1>5 DEF TakeSlab, Scans, At, Goto
<1>6. CASE EndScan(t)
  BY <1>6 DEF EndScan, Scans, At, Goto
<1>7. CASE GrowFails(t)
  BY <1>7 DEF GrowFails, At, Goto
<1>8. CASE InstallSlab(t)
  BY <1>8 DEF InstallSlab, At, Goto
<1>9. CASE FindRemote(t)
  BY <1>9 DEF FindRemote, At, Goto
<1>10. CASE FindWild(t)
  BY <1>10 DEF FindWild, At, Goto
<1>11. CASE Count(t)
  BY <1>11 DEF Count, At, Goto
<1> QED BY <1>1, <1>2, <1>3, <1>4, <1>5, <1>6, <1>7, <1>8, <1>9, <1>10, <1>11, Zenon
        DEF Bookkeeping

\* Pop, as far as the places of mappings are concerned.
LEMMA PopMoves ==
  ASSUME IInv, NEW t \in Thread, pc[t] \in {"alloc", "clear"},
         NEW free, NEW n, Pop(t, free, n)
  PROVE  /\ slab[t] \in SlabIdx
         /\ \E m \in free :
              /\ local' = [local EXCEPT ![slab[t]] = free \ {m}]
              /\ live' = IF Disallowed(m) THEN live ELSE live \cup {m}
         /\ remote' = remote /\ owner' = owner /\ nslabs' = nslabs
         /\ SamePutters
<1>1. slab[t] \in SlabIdx
  BY DEF IInv, TypeOK, Control, PcOK
<1>2. /\ \E m \in free :
           /\ local' = [local EXCEPT ![slab[t]] = free \ {m}]
           /\ live' = IF Disallowed(m) THEN live ELSE live \cup {m}
      /\ remote' = remote /\ owner' = owner /\ nslabs' = nslabs
  BY DEF Pop, table, vector
<1>3. SamePutters
  BY DEF Pop, Goto, SamePutters, Putting, IInv, TypeOK
<1> QED BY <1>1, <1>2, <1>3

LEMMA TwiceStep == IInv /\ NoHandleTwice /\ [Next]_vars => NoHandleTwice'
<1> SUFFICES ASSUME IInv, NoHandleTwice, [Next]_vars PROVE NoHandleTwice'
  OBVIOUS
<1>1. ASSUME SamePlaces PROVE NoHandleTwice'
  <2>1. InFlight' = InFlight
    BY <1>1, InFlightKept DEF SamePlaces
  <2> QED BY <1>1, <2>1 DEF NoHandleTwice, SamePlaces, SamePutters
<1>2. CASE UNCHANGED vars
  <2>1. SamePlaces
    BY <1>2 DEF vars, lists, locals, SamePlaces, SamePutters, Putting
  <2> QED BY <1>1, <2>1
<1>3. ASSUME NEW t \in Thread, pc[t] \in {"alloc", "clear"},
             Pop(t, local[slab[t]], nlocal[slab[t]]), bump' = bump
      PROVE  NoHandleTwice'
  <2>1. /\ slab[t] \in SlabIdx
        /\ remote' = remote
        /\ SamePutters
    BY <1>3, PopMoves
  <2>2. PICK m \in local[slab[t]] :
          /\ local' = [local EXCEPT ![slab[t]] = local[slab[t]] \ {m}]
          /\ live' = IF Disallowed(m) THEN live ELSE live \cup {m}
    BY <1>3, PopMoves
  <2>3. InFlight' = InFlight
    BY <2>1, InFlightKept
  <2>4. /\ m[2] <= bump[SlabOf(m)] /\ SlabOf(m) = slab[t]
        /\ m \notin InFlight /\ m \notin remote[slab[t]]
    BY <2>1, <2>2 DEF NoHandleTwice, SlabOf, IInv, TypeOK
  <2>5. \A s \in SlabIdx : s # slab[t] => m \notin local[s] \cup remote[s]
    BY <2>4 DEF NoHandleTwice, SlabOf
  <2>6. live' \subseteq live \cup {m}
    BY <2>2
  <2> QED BY <1>3, <2>1, <2>2, <2>3, <2>4, <2>5, <2>6
          DEF NoHandleTwice, SamePutters, IInv, TypeOK
<1>4. ASSUME NEW t \in Thread, AllocPop(t) PROVE NoHandleTwice'
  BY <1>3, <1>4 DEF AllocPop, At
<1>5. ASSUME NEW t \in Thread, SwapClearHit(t) PROVE NoHandleTwice'
  BY <1>3, <1>5 DEF SwapClearHit, At
<1>6. ASSUME NEW t \in Thread, AllocExtend(t) PROVE NoHandleTwice'
  <2> DEFINE s   == slab[t]
             new == Between(s, bump[s], ExtendEnd(s))
  <2>1. /\ s \in SlabIdx
        /\ remote' = remote
        /\ SamePutters
        /\ local[s] = {} /\ bump[s] \in Nat
        /\ bump' = [bump EXCEPT ![s] = ExtendEnd(s)]
    BY <1>6, PopMoves DEF AllocExtend, At, IInv, TypeOK
  <2>2. PICK m \in new :
          /\ local' = [local EXCEPT ![s] = new \ {m}]
          /\ live' = IF Disallowed(m) THEN live ELSE live \cup {m}
    BY <1>6, PopMoves DEF AllocExtend, At
  <2>3. InFlight' = InFlight
    BY <2>1, InFlightKept
  <2>4. /\ ExtendEnd(s) \in 0 .. SlabCapacity
        /\ bump[s] <= ExtendEnd(s)
    BY <2>1, ExtendEndType DEF IInv
  <2>5. \A x \in new : SlabOf(x) = s /\ x[2] > bump[s] /\ x[2] <= ExtendEnd(s)
    BY <2>1, <2>4, BetweenFacts
  <2>6. new \cap (live \cup InFlight \cup remote[s]) = {}
    <3>1. \A x \in remote[s] : x[2] \in 1 .. bump[s]
      BY <2>1 DEF NoHandleTwice
    <3>2. \A x \in live \cup InFlight : x[2] <= bump[SlabOf(x)] /\ x \in Handle
      BY InFlightType DEF NoHandleTwice, IInv, TypeOK
    <3>3. \A x \in Handle : x[2] \in Nat
      BY SlabOfHandle
    <3>4. \A x \in new : x[2] \in Nat
      BY <2>1, <2>4 DEF Between
    <3> QED BY <2>1, <2>5, <3>1, <3>2, <3>3, <3>4
  <2>7. /\ new \subseteq {s} \X (1 .. ExtendEnd(s))
        /\ remote[s] \subseteq {s} \X (1 .. ExtendEnd(s))
    BY <2>1, <2>4 DEF Between, NoHandleTwice
  <2>8. live' \subseteq live \cup {m}
    BY <2>2
  <2>9. \A q \in SlabIdx :
          /\ local'[q] \cap remote'[q] = {}
          /\ (local'[q] \cup remote'[q]) \cap (live' \cup InFlight') = {}
          /\ (local'[q] \cup remote'[q]) \subseteq {q} \X (1 .. bump'[q])
    <3> SUFFICES ASSUME NEW q \in SlabIdx
                 PROVE  /\ local'[q] \cap remote'[q] = {}
                        /\ (local'[q] \cup remote'[q])
                             \cap (live' \cup InFlight') = {}
                        /\ (local'[q] \cup remote'[q])
                             \subseteq {q} \X (1 .. bump'[q])
      OBVIOUS
    <3>1. CASE q = s
      BY <3>1, <2>1, <2>2, <2>3, <2>6, <2>7, <2>8 DEF NoHandleTwice, IInv, TypeOK
    <3>2. CASE q # s
      BY <3>2, <2>1, <2>2, <2>3, <2>5, <2>8 DEF NoHandleTwice, IInv, TypeOK, SlabOf
    <3> QED BY <3>1, <3>2
  <2>10. live' \cap InFlight' = {}
    BY <2>2, <2>3, <2>6, <2>8 DEF NoHandleTwice
  <2>11. \A x \in live' \cup InFlight' : x[2] <= bump'[SlabOf(x)]
    <3>1. SUFFICES ASSUME NEW x \in live \cup InFlight
                   PROVE  x[2] <= bump'[SlabOf(x)]
      BY <2>1, <2>2, <2>3, <2>4, <2>5, <2>8 DEF IInv, TypeOK
    <3>2. x \in Handle /\ x[2] <= bump[SlabOf(x)]
      BY <3>1, InFlightType DEF NoHandleTwice, IInv, TypeOK
    <3>3. SlabOf(x) \in SlabIdx /\ x[2] \in Nat
      BY <3>2, SlabOfHandle
    <3> QED BY <2>1, <2>4, <3>2, <3>3 DEF IInv, TypeOK
  <2> QED BY <2>1, <2>9, <2>10, <2>11 DEF NoHandleTwice, SamePutters
<1>7. ASSUME NEW t \in Thread, SwapTake(t) PROVE NoHandleTwice'
  <2>1. SamePutters
    BY <1>7 DEF IInv, TypeOK, SwapTake, At, Goto, SamePutters, Putting, locals
  <2>2. InFlight' = InFlight
    BY <2>1, InFlightKept
  <2> QED BY <1>7, <2>1, <2>2
          DEF NoHandleTwice, SwapTake, TakeRemote, SamePutters, IInv, TypeOK
<1>8. ASSUME NEW t \in Thread, FreshSlab(t) PROVE NoHandleTwice'
  <2>1. SamePutters
    BY <1>8 DEF IInv, TypeOK, FreshSlab, At, Goto, SamePutters, Putting
  <2>2. InFlight' = InFlight
    BY <2>1, InFlightKept
  <2>3. nslabs \in SlabIdx
    BY <1>8, SizeAssumption DEF FreshSlab, IInv, TypeOK, SlabIdx
  <2>4. bump' = bump
    <3>1. bump[nslabs] = 0
      BY <2>3, SizeAssumption DEF IInv, Control, FreshOK, SlabIdx
    <3> QED BY <1>8, <2>3, <3>1 DEF FreshSlab, IInv, TypeOK
  <2> QED BY <1>8, <2>1, <2>2, <2>4
          DEF NoHandleTwice, FreshSlab, SamePutters, IInv, TypeOK
<1>9. ASSUME NEW t \in Thread, Put(t) PROVE NoHandleTwice'
  <2>1. PICK m \in live : /\ live' = live \ {m}
                          /\ putting' = [putting EXCEPT ![t] = m]
    BY <1>9 DEF Put
  <2>2. /\ pc[t] = "idle"
        /\ pc' = [pc EXCEPT ![t] = "find"]
        /\ UNCHANGED <<local, remote, bump>>
    BY <1>9 DEF Put, At, Goto, lists
  <2>3. InFlight' = InFlight \cup {m}
    BY <2>1, <2>2 DEF InFlight, Putting, IInv, TypeOK
  <2>4. \A u \in Thread : Putting(u) => putting[u] \in InFlight
    BY InFlightIn
  <2> QED BY <2>1, <2>2, <2>3, <2>4 DEF NoHandleTwice, Putting, IInv, TypeOK
<1>10. ASSUME NEW t \in Thread, FindLocal(t) \/ Push(t) PROVE NoHandleTwice'
  <2> DEFINE m == putting[t]
             s == SlabOf(m)
  <2>1. Putting(t) /\ ~Putting(t)'
    BY <1>10 DEF FindLocal, Push, At, Goto, Putting, IInv, TypeOK
  <2>2. \A u \in Thread : u # t => /\ Putting(u)' <=> Putting(u)
                                   /\ putting'[u] = putting[u]
    BY <1>10 DEF FindLocal, Push, At, Goto, Putting, locals, IInv, TypeOK
  <2>3. InFlight' = InFlight \ {m}
    BY <2>1, <2>2 DEF InFlight, NoHandleTwice
  <2>4. m \in InFlight /\ m \in Handle
    BY <2>1, InFlightIn, InFlightType
  <2>5. /\ s \in SlabIdx
        /\ m \in {s} \X (1 .. bump[s])
    BY <2>4 DEF Handle, SlabOf, NoHandleTwice, IInv, TypeOK
  <2>6. \A q \in SlabIdx : m \notin local[q] \cup remote[q]
    BY <2>4 DEF NoHandleTwice
  <2>7. /\ UNCHANGED <<bump, live>>
        /\ \/ /\ local' = [local EXCEPT ![s] = @ \cup {m}]
              /\ remote' = remote
           \/ /\ remote' = [remote EXCEPT ![s] = @ \cup {m}]
              /\ local' = local
    BY <1>10 DEF FindLocal, Push
  <2>8. m \notin live
    BY <2>4 DEF NoHandleTwice
  <2>9. ASSUME NEW q \in SlabIdx
        PROVE  /\ local'[q] \cap remote'[q] = {}
               /\ (local'[q] \cup remote'[q]) \cap (live' \cup InFlight') = {}
               /\ (local'[q] \cup remote'[q]) \subseteq {q} \X (1 .. bump'[q])
    <3>1. local'[q] \cup remote'[q] \subseteq
            local[q] \cup remote[q] \cup (IF q = s THEN {m} ELSE {})
      BY <2>5, <2>7 DEF IInv, TypeOK
    <3>2. local'[q] \cap remote'[q] = {}
      BY <2>5, <2>6, <2>7 DEF NoHandleTwice, IInv, TypeOK
    <3> QED BY <2>3, <2>5, <2>7, <2>8, <3>1, <3>2 DEF NoHandleTwice
  <2> QED BY <2>1, <2>2, <2>3, <2>7, <2>9 DEF NoHandleTwice
<1>11. ASSUME NEW t \in Thread, Bookkeeping(t) PROVE NoHandleTwice'
  BY <1>1, <1>11, BookkeepingMovesNothing
<1> QED BY <1>2, <1>4, <1>5, <1>6, <1>7, <1>8, <1>9, <1>10, <1>11
        DEF Next, Bookkeeping

-----------------------------------------------------------------------------
(***************************************************************************)
(* No mapping that may be handed out is lost.                              *)
(***************************************************************************)
Placed(m) ==
  \/ m \in live \cup InFlight
  \/ m \in local[SlabOf(m)] \cup remote[SlabOf(m)]
  \/ m \in Untouched(SlabOf(m))

Kept == /\ live \cap Reserved = {}
        /\ \A m \in Handle \ Reserved : Placed(m)

LEMMA UntouchedIff ==
  ASSUME IInv, NEW m \in Handle
  PROVE  m \in Untouched(SlabOf(m)) <=> m[2] > bump[SlabOf(m)]
BY SizeAssumption DEF Untouched, Between, Handle, SlabOf, IInv, TypeOK

LEMMA KeptStep ==
  ASSUME IInv, IInv', NoHandleTwice, Kept, [Next]_vars
  PROVE  Kept'
<1>1. live' \cap Reserved = {}
  <2>1. ASSUME NEW t \in Thread, NEW free, NEW n, Pop(t, free, n)
        PROVE  live' \cap Reserved = {}
    BY <2>1 DEF Pop, Disallowed, Kept
  <2>2. ASSUME NEW t \in Thread,
               AllocPop(t) \/ AllocExtend(t) \/ SwapClearHit(t)
        PROVE  live' \cap Reserved = {}
    BY <2>1, <2>2 DEF AllocPop, AllocExtend, SwapClearHit
  <2>3. ASSUME NEW t \in Thread,
               SwapTake(t) \/ FreshSlab(t) \/ Put(t) \/ FindLocal(t) \/ Push(t)
        PROVE  live' \subseteq live
    BY <2>3 DEF SwapTake, FreshSlab, Put, FindLocal, Push
  <2>4. ASSUME NEW t \in Thread, Bookkeeping(t) PROVE live' \subseteq live
    BY <2>4, BookkeepingMovesNothing DEF SamePlaces
  <2>5. CASE UNCHANGED vars
    BY <2>5 DEF vars, Kept
  <2> QED BY <2>2, <2>3, <2>4, <2>5 DEF Next, Bookkeeping, Kept
<1>2. SUFFICES ASSUME NEW m \in Handle \ Reserved PROVE Placed(m)'
  BY <1>1 DEF Kept
<1> DEFINE s == SlabOf(m)
<1>3. Placed(m) /\ s \in SlabIdx /\ ~Disallowed(m)
  BY SlabOfHandle DEF Kept, Disallowed
<1>4. ASSUME SamePlaces PROVE Placed(m)'
  <2>1. InFlight' = InFlight
    BY <1>4, InFlightKept DEF SamePlaces
  <2> QED BY <1>3, <1>4, <2>1 DEF Placed, SamePlaces, Untouched
<1>5. CASE UNCHANGED vars
  <2>1. SamePlaces
    BY <1>5 DEF vars, lists, locals, SamePlaces, SamePutters, Putting
  <2> QED BY <1>4, <2>1
<1>6. ASSUME NEW t \in Thread, AllocPop(t) \/ SwapClearHit(t) PROVE Placed(m)'
  <2>1. /\ slab[t] \in SlabIdx /\ remote' = remote /\ SamePutters
        /\ \E x \in local[slab[t]] :
             /\ local' = [local EXCEPT ![slab[t]] = local[slab[t]] \ {x}]
             /\ live' = IF Disallowed(x) THEN live ELSE live \cup {x}
    BY <1>6, PopMoves DEF AllocPop, SwapClearHit, At
  <2>2. bump' = bump /\ InFlight' = InFlight
    BY <1>6, <2>1, InFlightKept DEF AllocPop, SwapClearHit
  <2> QED BY <1>3, <2>1, <2>2 DEF Placed, Untouched, IInv, TypeOK
<1>7. ASSUME NEW t \in Thread, AllocExtend(t) PROVE Placed(m)'
  <2> DEFINE q   == slab[t]
             new == Between(q, bump[q], ExtendEnd(q))
  <2>1. /\ q \in SlabIdx /\ remote' = remote /\ SamePutters
        /\ local[q] = {} /\ bump' = [bump EXCEPT ![q] = ExtendEnd(q)]
    BY <1>7, PopMoves DEF AllocExtend, At
  <2>2. PICK x \in new :
          /\ local' = [local EXCEPT ![q] = new \ {x}]
          /\ live' = IF Disallowed(x) THEN live ELSE live \cup {x}
    BY <1>7, PopMoves DEF AllocExtend, At
  <2>3. InFlight' = InFlight
    BY <2>1, InFlightKept
  <2>4. CASE s = q /\ m[2] > bump[q] /\ m[2] <= ExtendEnd(q)
    <3>1. m \in new
      BY <2>1, <2>4, ExtendEndType DEF Between, Handle, SlabOf, IInv, TypeOK
    <3>2. m = x \/ m \in local'[s]
      BY <2>1, <2>2, <2>4, <3>1 DEF IInv, TypeOK
    <3> QED BY <1>3, <2>2, <3>2 DEF Placed
  <2>5. CASE s = q /\ m[2] > ExtendEnd(q)
    <3>1. m[2] > bump'[s]
      BY <2>1, <2>5 DEF IInv, TypeOK
    <3>2. (m \in Untouched(SlabOf(m)))'
      BY <3>1, UntouchedIff DEF Untouched, Between, Handle, SlabOf, IInv, TypeOK
    <3> QED BY <3>2 DEF Placed
  <2>6. CASE s # q \/ m[2] <= bump[q]
    <3>1. bump'[s] = bump[s] \/ m \notin Untouched(s)
      <4>1. CASE s = q
        BY <2>6, <4>1, UntouchedIff, SlabOfHandle, <2>1 DEF IInv, TypeOK
      <4>2. CASE s # q
        BY <1>3, <2>1, <4>2 DEF IInv, TypeOK
      <4> QED BY <4>1, <4>2
    <3>2. m \notin Untouched(s) \/ Untouched(s)' = Untouched(s)
      BY <3>1 DEF Untouched, SlabOf
    <3> QED BY <1>3, <2>1, <2>2, <2>3, <3>2 DEF Placed, IInv, TypeOK
  <2>7. m[2] \in Nat /\ bump[q] \in Nat /\ ExtendEnd(q) \in Nat
    BY <2>1, SlabOfHandle, ExtendEndType DEF IInv, TypeOK
  <2> QED BY <2>4, <2>5, <2>6, <2>7
<1>8. ASSUME NEW t \in Thread, SwapTake(t) PROVE Placed(m)'
  <2>1. SamePutters
    BY <1>8 DEF IInv, TypeOK, SwapTake, At, Goto, SamePutters, Putting, locals
  <2>2. InFlight' = InFlight
    BY <2>1, InFlightKept
  <2> QED BY <1>3, <1>8, <2>2
          DEF Placed, Untouched, SwapTake, TakeRemote, At, IInv, TypeOK
<1>9. ASSUME NEW t \in Thread, FreshSlab(t) PROVE Placed(m)'
  <2>1. SamePutters
    BY <1>9 DEF IInv, TypeOK, FreshSlab, At, Goto, SamePutters, Putting
  <2>2. InFlight' = InFlight
    BY <2>1, InFlightKept
  <2>3. nslabs \in SlabIdx
    BY <1>9, SizeAssumption DEF FreshSlab, IInv, TypeOK, SlabIdx
  <2>4. CASE s = nslabs
    <3>1. bump'[s] = 0
      BY <1>9, <2>3, <2>4 DEF FreshSlab, IInv, TypeOK
    <3>2. (m \in Untouched(SlabOf(m)))'
      BY <3>1 DEF Untouched, Between, Handle, SlabOf
    <3> QED BY <3>2 DEF Placed
  <2>5. CASE s # nslabs
    BY <1>3, <1>9, <2>2, <2>3, <2>5
       DEF Placed, Untouched, FreshSlab, IInv, TypeOK
  <2> QED BY <2>4, <2>5
<1>10. ASSUME NEW t \in Thread, Put(t) PROVE Placed(m)'
  <2>1. PICK x \in live : /\ live' = live \ {x}
                          /\ putting' = [putting EXCEPT ![t] = x]
    BY <1>10 DEF Put
  <2>2. /\ pc[t] = "idle"
        /\ pc' = [pc EXCEPT ![t] = "find"]
        /\ UNCHANGED <<local, remote, bump>>
    BY <1>10 DEF Put, At, Goto, lists
  <2>3. InFlight' = InFlight \cup {x}
    BY <2>1, <2>2 DEF InFlight, Putting, IInv, TypeOK
  <2> QED BY <1>3, <2>1, <2>2, <2>3 DEF Placed, Untouched
<1>11. ASSUME NEW t \in Thread, FindLocal(t) \/ Push(t) PROVE Placed(m)'
  <2> DEFINE x == putting[t]
  <2>1. Putting(t) /\ ~Putting(t)'
    BY <1>11 DEF FindLocal, Push, At, Goto, Putting, IInv, TypeOK
  <2>2. \A u \in Thread : u # t => /\ Putting(u)' <=> Putting(u)
                                   /\ putting'[u] = putting[u]
    BY <1>11 DEF FindLocal, Push, At, Goto, Putting, locals, IInv, TypeOK
  <2>3. InFlight' = InFlight \ {x}
    BY <2>1, <2>2 DEF InFlight, NoHandleTwice
  <2>4. /\ UNCHANGED <<bump, live>>
        /\ \/ /\ local' = [local EXCEPT ![SlabOf(x)] = @ \cup {x}]
              /\ remote' = remote
           \/ /\ remote' = [remote EXCEPT ![SlabOf(x)] = @ \cup {x}]
              /\ local' = local
    BY <1>11 DEF FindLocal, Push
  <2> QED BY <1>3, <2>3, <2>4 DEF Placed, Untouched, IInv, TypeOK
<1>12. ASSUME NEW t \in Thread, Bookkeeping(t) PROVE Placed(m)'
  BY <1>4, <1>12, BookkeepingMovesNothing
<1> QED BY <1>5, <1>6, <1>7, <1>8, <1>9, <1>10, <1>11, <1>12
        DEF Next, Bookkeeping

-----------------------------------------------------------------------------
Mappings == IInv /\ NoHandleTwice /\ Kept

LEMMA InitMappings == Init => Mappings
<1> SUFFICES ASSUME Init PROVE Mappings
  OBVIOUS
<1>1. InFlight = {}
  BY DEF Init, InFlight, Putting
<1>2. NoHandleTwice
  BY <1>1 DEF Init, NoHandleTwice, Putting
<1>3. Kept
  <2>1. ASSUME NEW m \in Handle PROVE Placed(m)
    BY <2>1 DEF Init, Placed, Untouched, Between, Handle, SlabOf
  <2> QED BY <2>1 DEF Init, Kept
<1> QED BY <1>2, <1>3, InitIInv DEF Mappings

LEMMA MappingsAlways == Spec => []Mappings
<1>1. Mappings /\ [Next]_vars => Mappings'
  BY TypeStep, ControlStep, TwiceStep, KeptStep DEF Mappings, IInv
<1> QED BY InitMappings, <1>1, PTL DEF Spec

\* However allocations, puts by owners and by others, hand-overs of slabs and
\* growth of the table interleave (HandleTable.cpp:58-157,
\* ThreadCache.cpp:214-247), no mapping backs two handles.
THEOREM HandlesNeverTwice == Spec => []NoHandleTwice
<1>1. Mappings => NoHandleTwice
  BY DEF Mappings
<1> QED BY MappingsAlways, <1>1, PTL

-----------------------------------------------------------------------------
(***************************************************************************)
(* The table implements BlockStore.                                        *)
(***************************************************************************)
LEMMA AvailableIsRest ==
  ASSUME Mappings PROVE Available = (Handle \ Reserved) \ live
<1> USE DEF Mappings, IInv
<1>1. ASSUME NEW m \in Available PROVE m \in (Handle \ Reserved) \ live
  <2>1. m \notin Reserved
    BY DEF Available
  <2>2. CASE m \in InFlight
    BY <2>1, <2>2, InFlightType DEF NoHandleTwice
  <2>3. ASSUME NEW s \in SlabIdx, m \in local[s] \cup remote[s]
        PROVE  m \in Handle \ live
    BY <2>3 DEF NoHandleTwice, TypeOK
  <2>4. ASSUME NEW s \in SlabIdx, m \in Untouched(s) PROVE m \in Handle \ live
    <3>1. m \in Handle /\ SlabOf(m) = s /\ m[2] > bump[s]
      BY <2>4, BetweenFacts, SizeAssumption DEF Untouched, TypeOK
    <3>2. m[2] \in Nat /\ bump[s] \in Nat
      BY <3>1, SlabOfHandle DEF TypeOK
    <3> QED BY <3>1, <3>2 DEF NoHandleTwice
  <2> QED BY <2>1, <2>2, <2>3, <2>4 DEF Available
<1>2. ASSUME NEW m \in (Handle \ Reserved) \ live PROVE m \in Available
  <2>1. Placed(m) /\ SlabOf(m) \in SlabIdx
    BY SlabOfHandle DEF Kept
  <2> QED BY <2>1 DEF Placed, Available
<1> QED BY <1>1, <1>2

LEMMA StepMovesOne ==
  ASSUME Mappings, [Next]_vars
  PROVE  \/ live' = live
         \/ \E m \in (Handle \ Reserved) \ live : live' = live \cup {m}
         \/ \E m \in live : live' = live \ {m}
<1> DEFINE Moves == \/ live' = live
                    \/ \E m \in (Handle \ Reserved) \ live : live' = live \cup {m}
<1> USE DEF Mappings, IInv
<1>1. ASSUME NEW t \in Thread, AllocPop(t) \/ SwapClearHit(t) PROVE Moves
  <2>1. /\ slab[t] \in SlabIdx
        /\ \E m \in local[slab[t]] :
             live' = IF Disallowed(m) THEN live ELSE live \cup {m}
    BY <1>1, PopMoves DEF AllocPop, SwapClearHit, At
  <2> QED BY <2>1 DEF Disallowed, TypeOK, NoHandleTwice
<1>2. ASSUME NEW t \in Thread, AllocExtend(t) PROVE Moves
  <2> DEFINE s == slab[t]
  <2>1. s \in SlabIdx
    BY <1>2, PopMoves DEF AllocExtend, At
  <2>2. PICK m \in Between(s, bump[s], ExtendEnd(s)) :
          live' = IF Disallowed(m) THEN live ELSE live \cup {m}
    BY <1>2, PopMoves DEF AllocExtend, At
  <2>3. m \in Handle /\ SlabOf(m) = s /\ m[2] > bump[s]
    <3>1. m \in Handle /\ SlabOf(m) = s /\ m[2] \in (bump[s] + 1) .. ExtendEnd(s)
      BY <2>1, BetweenFacts, ExtendEndType DEF TypeOK
    <3> QED BY <2>1, <3>1 DEF TypeOK
  <2>4. m[2] \in Nat /\ bump[s] \in Nat
    BY <2>1, <2>3, SlabOfHandle DEF TypeOK
  <2>5. m \notin live
    BY <2>3, <2>4 DEF NoHandleTwice
  <2> QED BY <2>2, <2>3, <2>5 DEF Disallowed
<1>3. ASSUME NEW t \in Thread, Put(t)
      PROVE  \E m \in live : live' = live \ {m}
  BY <1>3 DEF Put
<1>4. ASSUME NEW t \in Thread,
             SwapTake(t) \/ FreshSlab(t) \/ FindLocal(t) \/ Push(t)
      PROVE  live' = live
  BY <1>4 DEF SwapTake, FreshSlab, FindLocal, Push
<1>5. ASSUME NEW t \in Thread, Bookkeeping(t) PROVE live' = live
  BY <1>5, BookkeepingMovesNothing DEF SamePlaces
<1>6. CASE UNCHANGED vars
  BY <1>6 DEF vars
<1> QED BY <1>1, <1>2, <1>3, <1>4, <1>5, <1>6 DEF Next, Bookkeeping

\* To halloc and hfree the table is one pool of handles: every step moves
\* exactly one between the program and the pool, or none, whatever slabs do
\* (HandleTable.cpp:111-157, ThreadCache.cpp:214-247), and the disallowed IDs
\* are never in it.
THEOREM Refinement == Spec => ImplementsBlockStore
<1>1. Init => Store!Init
  <2> SUFFICES ASSUME Init PROVE live = {} /\ Available = Handle \ Reserved
    BY DEF Store!Init, Available
  <2>1. live = {}
    BY DEF Init
  <2> QED BY <2>1, InitMappings, AvailableIsRest
<1>2. Mappings /\ Mappings' /\ [Next]_vars => [Store!Next]_<<live, Available>>
  <2> SUFFICES ASSUME Mappings, Mappings', [Next]_vars
               PROVE  [Store!Next]_<<live, Available>>
    OBVIOUS
  <2>1. /\ Available  = (Handle \ Reserved) \ live
        /\ Available' = (Handle \ Reserved) \ live'
    <3>1. Mappings => Available = (Handle \ Reserved) \ live
      BY AvailableIsRest
    <3>2. (Mappings => Available = (Handle \ Reserved) \ live)'
      BY AvailableIsRest, PTL
    <3> QED BY <3>1, <3>2
  <2>2. live \subseteq Handle \ Reserved
    BY DEF Mappings, IInv, TypeOK, Kept
  <2>3. CASE live' = live
    BY <2>1, <2>3
  <2>4. ASSUME NEW m \in (Handle \ Reserved) \ live, live' = live \cup {m}
        PROVE  Store!Alloc
    <3>1. m \in Available /\ Available' = Available \ {m}
      BY <2>1, <2>4
    <3> QED BY <2>4, <3>1 DEF Store!Alloc, Available
  <2>5. ASSUME NEW m \in live, live' = live \ {m} PROVE Store!Free
    <3>1. Available' = Available \cup {m}
      BY <2>1, <2>2, <2>5
    <3> QED BY <2>5, <3>1 DEF Store!Free, Available
  <2> QED BY <2>3, <2>4, <2>5, StepMovesOne DEF Store!Next
<1> QED BY <1>1, <1>2, MappingsAlways, PTL
        DEF Spec, ImplementsBlockStore, Store!Spec, Available

-----------------------------------------------------------------------------
(***************************************************************************)
(* The counters of a slab never promise a mapping that is on no list, so   *)
(* the slab new_slab returns has one.  Between the two halves of swap()    *)
(* what was read of num_remote_free is counted twice: Owed is that part.   *)
(***************************************************************************)

\* The mappings on the two lists of a slab, and the threads that have pushed
\* a mapping to it and not counted it.
Listed(s)   == local[s] \cup remote[s]
Counting(s) == {t \in Thread : pc[t] = "count" /\ SlabOf(putting[t]) = s}

Owed(s) ==
  IF /\ owner[s] # None
     /\ slab[owner[s]] = s
     /\ pc[owner[s]] = "clear"
  THEN seen[owner[s]] ELSE 0

Balanced(s) ==
  nlocal[s] + nremote[s] - Owed(s) + Cardinality(Counting(s))
    <= Cardinality(Listed(s))

\* num_remote_free only grows while its owner is about to clear it, and a
\* mapping that is being put back is of a slab that has been made.
CountOK(t) ==
  /\ pc[t] = "clear" => seen[t] <= nremote[slab[t]]
  /\ putting[t] # None => SlabOf(putting[t]) < nslabs

Ledger == /\ \A s \in SlabIdx : Balanced(s)
          /\ \A t \in Thread : CountOK(t)

Books == IInv /\ NoHandleTwice /\ Ledger

LEMMA BetweenSize ==
  ASSUME NEW s, NEW i \in Nat, NEW j \in Nat, i <= j
  PROVE  IsFiniteSet(Between(s, i, j)) /\ Cardinality(Between(s, i, j)) = j - i
<1>1. IsFiniteSet((i + 1) .. j) /\ Cardinality((i + 1) .. j) = j - i
  <2>1. i + 1 \in Int /\ j \in Int
    OBVIOUS
  <2> DEFINE a == i + 1
  <2>2. /\ IsFiniteSet(a .. j)
        /\ Cardinality(a .. j) = IF a > j THEN 0 ELSE j - a + 1
    <3> HIDE DEF a
    <3> QED BY <2>1, FS_Interval DEF a
  <2> QED BY <2>2
<1>2. IsFiniteSet({s}) /\ Cardinality({s}) = 1
  BY FS_Singleton
<1>3. /\ IsFiniteSet({s} \X ((i + 1) .. j))
      /\ Cardinality({s} \X ((i + 1) .. j)) = 1 * (j - i)
  BY <1>1, <1>2, FS_Product
<1> QED BY <1>3 DEF Between

LEMMA Finite ==
  ASSUME IInv, NoHandleTwice, NEW s \in SlabIdx
  PROVE  /\ IsFiniteSet(Listed(s)) /\ Cardinality(Listed(s)) \in Nat
         /\ IsFiniteSet(Counting(s)) /\ Cardinality(Counting(s)) \in Nat
         /\ IsFiniteSet(local[s]) /\ IsFiniteSet(remote[s])
<1>1. bump[s] \in Nat
  BY DEF IInv, TypeOK
<1>2. IsFiniteSet(Between(s, 0, bump[s]))
  BY <1>1, BetweenSize
<1>3. Listed(s) \subseteq Between(s, 0, bump[s])
  BY DEF NoHandleTwice, Listed, Between
<1>4. Counting(s) \subseteq Thread
  BY DEF Counting
<1>5. local[s] \subseteq Listed(s) /\ remote[s] \subseteq Listed(s)
  BY DEF Listed
<1> QED BY <1>2, <1>3, <1>4, <1>5, FS_Subset, FS_CardinalityType,
           ThreadAssumption

LEMMA OwedType == ASSUME IInv, NEW s \in SlabIdx PROVE Owed(s) \in Nat
BY DEF IInv, TypeOK, Owed

\* A step that neither enters nor leaves "count".
SameCounting == \A u \in Thread : /\ pc'[u] = "count" <=> pc[u] = "count"
                                  /\ pc[u] = "count" => putting'[u] = putting[u]

LEMMA CountingKept ==
  ASSUME SameCounting, NEW s PROVE Counting(s)' = Counting(s)
BY DEF SameCounting, Counting

\* A step that changes no account of swap()'s.
SameOwed == /\ UNCHANGED <<owner, slab>>
            /\ \A u \in Thread : /\ pc'[u] = "clear" <=> pc[u] = "clear"
                                 /\ pc[u] = "clear" => seen'[u] = seen[u]

LEMMA OwedKept ==
  ASSUME IInv, SameOwed, NEW s \in SlabIdx PROVE Owed(s)' = Owed(s)
BY DEF IInv, TypeOK, SameOwed, Owed

LEMMA BalanceKept ==
  ASSUME NEW s, Balanced(s), SameCounting, Owed(s)' = Owed(s),
         local'[s] = local[s], remote'[s] = remote[s],
         nlocal'[s] = nlocal[s], nremote'[s] = nremote[s]
  PROVE  Balanced(s)'
<1>1. Counting(s)' = Counting(s)
  BY CountingKept
<1> QED BY <1>1 DEF Balanced, Listed

\* What the owner of a slab owes is what it has read, at "clear", and else
\* nothing.
LEMMA OwedByOwner ==
  ASSUME IInv, NEW t \in Thread, slab[t] # None
  PROVE  Owed(slab[t]) = IF pc[t] = "clear" THEN seen[t] ELSE 0
BY ThreadAssumption DEF IInv, Control, SlabsOK, Owed

-----------------------------------------------------------------------------
LEMMA CountOKStep ==
  ASSUME Books, [Next]_vars, NEW u \in Thread
  PROVE  CountOK(u)'
<1> USE SizeAssumption
    DEF Books, IInv, TypeOK, Ledger, CountOK, table, vector, lists, locals
<1>1. CASE UNCHANGED vars
  BY <1>1 DEF vars
<1>2. ASSUME NEW t \in Thread,
             \/ NewMapping(t) \/ SwapTake(t) \/ SkipSlab(t) \/ TakeSlab(t)
             \/ EndScan(t) \/ GrowFails(t) \/ FindLocal(t) \/ FindRemote(t)
             \/ FindWild(t) \/ Push(t)
      PROVE  CountOK(u)'
  BY <1>2 DEF NewMapping, SwapTake, SkipSlab, TakeSlab, EndScan, GrowFails,
              FindLocal, FindRemote, FindWild, Push, Scans, At, Goto
<1>3. ASSUME NEW t \in Thread, AllocPop(t) \/ AllocExtend(t) PROVE CountOK(u)'
  BY <1>3 DEF AllocPop, AllocExtend, Pop, At, Goto
<1>4. ASSUME NEW t \in Thread, SwapAdd(t) PROVE CountOK(u)'
  BY <1>4 DEF SwapAdd, At, Goto, Control, PcOK
<1>5. ASSUME NEW t \in Thread, SwapClearHit(t) \/ SwapClearMiss(t)
      PROVE  CountOK(u)'
  <2>1. /\ nremote' = [nremote EXCEPT ![slab[t]] = 0]
        /\ pc[t] = "clear" /\ pc'[t] # "clear"
        /\ \A w \in Thread \ {t} : pc'[w] = pc[w] /\ seen'[w] = seen[w]
        /\ UNCHANGED <<putting, nslabs, slab>>
    BY <1>5 DEF SwapClearHit, SwapClearMiss, Pop, ClearCount, At, Goto
  <2>2. slab[t] # None /\ (slab[u] = slab[t] => u = t)
    BY <2>1 DEF Control, PcOK, SlabsOK
  <2>3. pc[u] = "clear" => slab[u] \in SlabIdx
    BY DEF Control, PcOK
  <2> QED BY <2>1, <2>2, <2>3
<1>6. ASSUME NEW t \in Thread, FreshSlab(t) PROVE CountOK(u)'
  <2>1. /\ nslabs' = nslabs + 1 /\ nremote' = [nremote EXCEPT ![nslabs] = 0]
        /\ pc[t] = "fresh" /\ pc' = [pc EXCEPT ![t] = "install"]
        /\ UNCHANGED <<slab, putting, seen>>
    BY <1>6 DEF FreshSlab, At, Goto
  <2>2. pc[u] = "clear" => slab[u] \in SlabIdx /\ slab[u] < nslabs
    BY DEF Control, PcOK, SlabsOK
  <2>3. putting[u] # None => SlabOf(putting[u]) \in Nat
    BY SlabOfHandle DEF SlabIdx
  <2> QED BY <2>1, <2>2, <2>3 DEF SlabIdx
<1>7. ASSUME NEW t \in Thread, InstallSlab(t) PROVE CountOK(u)'
  BY <1>7 DEF InstallSlab, At, Goto
<1>8. ASSUME NEW t \in Thread, Put(t) PROVE CountOK(u)'
  BY <1>8 DEF Put, At, Goto
<1>9. ASSUME NEW t \in Thread, Count(t) PROVE CountOK(u)'
  <2>1. SlabOf(putting[t]) \in SlabIdx
    BY <1>9, SlabOfHandle DEF Count, At, Control, PcOK
  <2> QED BY <1>9, <2>1 DEF Count, At, Goto, Control, PcOK
<1> QED BY <1>1, <1>2, <1>3, <1>4, <1>5, <1>6, <1>7, <1>8, <1>9 DEF Next

-----------------------------------------------------------------------------
(***************************************************************************)
(* One lemma for each step that moves mappings or counts.                  *)
(***************************************************************************)

\* Taking a mapping off a list takes it off the count.
LEMMA PopBalanced ==
  ASSUME Books, NEW t \in Thread, AllocPop(t), NEW s \in SlabIdx
  PROVE  Balanced(s)'
<1> USE DEF Books, IInv, Ledger
<1> DEFINE q == slab[t]
<1>1. /\ pc[t] = "alloc" /\ pc'[t] \in {"alloc", "idle"}
      /\ \A u \in Thread \ {t} : pc'[u] = pc[u]
      /\ UNCHANGED <<owner, slab, putting, seen, remote, nremote>>
  BY DEF AllocPop, Pop, At, Goto, table, TypeOK
<1>2. q \in SlabIdx
  BY <1>1 DEF TypeOK, Control, PcOK
<1>3. SameCounting /\ SameOwed
  BY <1>1 DEF TypeOK, SameCounting, SameOwed
<1>4. PICK m \in local[q] : /\ local'  = [local  EXCEPT ![q] = local[q] \ {m}]
                            /\ nlocal' = [nlocal EXCEPT ![q] = nlocal[q] - 1]
  BY DEF AllocPop, Pop
<1>5. CASE s = q
  <2>1. Listed(q)' = Listed(q) \ {m} /\ m \in Listed(q)
    BY <1>1, <1>2, <1>4 DEF Listed, NoHandleTwice, TypeOK
  <2>2. Cardinality(Listed(q)') = Cardinality(Listed(q)) - 1
    BY <1>2, <2>1, Finite, FS_RemoveElement
  <2>3. Counting(s)' = Counting(s) /\ Owed(s)' = Owed(s)
    BY <1>3, CountingKept, OwedKept
  <2> QED BY <1>1, <1>2, <1>4, <1>5, <2>2, <2>3, Finite, OwedType
          DEF Balanced, TypeOK
<1>6. CASE s # q
  BY <1>1, <1>2, <1>3, <1>4, <1>6, OwedKept, BalanceKept DEF TypeOK
<1> QED BY <1>5, <1>6

LEMMA ExtendBalanced ==
  ASSUME Books, NEW t \in Thread, AllocExtend(t), NEW s \in SlabIdx
  PROVE  Balanced(s)'
<1> USE DEF Books, IInv, Ledger
<1> DEFINE q   == slab[t]
           end == ExtendEnd(q)
           new == Between(q, bump[q], end)
           n   == nlocal[q] + (end - bump[q])
<1>1. /\ pc[t] = "alloc" /\ pc'[t] \in {"alloc", "idle"}
      /\ \A u \in Thread \ {t} : pc'[u] = pc[u]
      /\ local[q] = {}
      /\ UNCHANGED <<owner, slab, putting, seen, remote, nremote>>
  BY DEF AllocExtend, Pop, At, Goto, table, TypeOK
<1>2. q \in SlabIdx
  BY <1>1 DEF TypeOK, Control, PcOK
<1>3. SameCounting /\ SameOwed
  BY <1>1 DEF TypeOK, SameCounting, SameOwed
<1>4. PICK m \in new : /\ local'  = [local  EXCEPT ![q] = new \ {m}]
                      /\ nlocal' = [nlocal EXCEPT ![q] = n - 1]
  <2>1. Pop(t, new, n)
    BY DEF AllocExtend
  <2> HIDE DEF new, n
  <2> QED BY <2>1 DEF Pop
<1>5. bump[q] \in Nat /\ end \in Nat /\ bump[q] <= end
  BY <1>2, ExtendEndType DEF TypeOK
<1>6. CASE s = q
  <2>1. IsFiniteSet(new) /\ Cardinality(new) = end - bump[q]
    BY <1>5, BetweenSize
  <2>2. IsFiniteSet(new \ {m}) /\ Cardinality(new \ {m}) = end - bump[q] - 1
    BY <2>1, FS_RemoveElement
  <2>3. (new \ {m}) \cap remote[q] = {}
    <3>1. \A x \in remote[q] : x[2] \in 1 .. bump[q]
      BY <1>2 DEF NoHandleTwice
    <3>2. \A x \in new : x[2] \in (bump[q] + 1) .. end
      BY DEF Between
    <3> QED BY <1>5, <3>1, <3>2
  <2>4. Listed(q)' = (new \ {m}) \cup remote[q] /\ Listed(q) = remote[q]
    BY <1>1, <1>2, <1>4 DEF Listed, TypeOK
  <2>5. Cardinality((new \ {m}) \cup remote[q])
          = Cardinality(new \ {m}) + Cardinality(remote[q])
    <3>1. Cardinality((new \ {m}) \cup remote[q])
            = Cardinality(new \ {m}) + Cardinality(remote[q])
                - Cardinality((new \ {m}) \cap remote[q])
      BY <1>2, <2>2, Finite, FS_Union
    <3>2. Cardinality((new \ {m}) \cap remote[q]) = 0
      BY <2>3, FS_EmptySet
    <3>3. Cardinality(remote[q]) \in Nat /\ Cardinality(new \ {m}) \in Nat
      BY <1>2, <2>2, Finite, FS_CardinalityType
    <3> QED BY <3>1, <3>2, <3>3
  <2>6. Counting(s)' = Counting(s) /\ Owed(s)' = Owed(s)
    BY <1>3, CountingKept, OwedKept
  <2> HIDE DEF new, end
  <2> QED BY <1>1, <1>2, <1>4, <1>5, <1>6, <2>2, <2>4, <2>5, <2>6,
             Finite, OwedType DEF Balanced, TypeOK
<1>7. CASE s # q
  BY <1>1, <1>2, <1>3, <1>4, <1>7, OwedKept, BalanceKept DEF TypeOK
<1> QED BY <1>6, <1>7

LEMMA TakeBalanced ==
  ASSUME Books, NEW t \in Thread, SwapTake(t), NEW s \in SlabIdx
  PROVE  Balanced(s)'
<1> USE DEF Books, IInv, Ledger
<1> DEFINE q == slab[t]
<1>1. /\ pc[t] = "alloc" /\ pc' = [pc EXCEPT ![t] = "add"]
      /\ local[q] = {}
      /\ local'  = [local  EXCEPT ![q] = remote[q]]
      /\ remote' = [remote EXCEPT ![q] = {}]
      /\ UNCHANGED <<owner, slab, putting, seen, nlocal, nremote>>
  BY DEF SwapTake, TakeRemote, At, Goto, table, locals
<1>2. q \in SlabIdx
  BY <1>1 DEF TypeOK, Control, PcOK
<1>3. SameCounting /\ SameOwed
  BY <1>1 DEF TypeOK, SameCounting, SameOwed
<1>4. Listed(s)' = Listed(s)
  BY <1>1, <1>2 DEF Listed, TypeOK
<1>5. Counting(s)' = Counting(s) /\ Owed(s)' = Owed(s)
  BY <1>3, CountingKept, OwedKept
<1> QED BY <1>1, <1>4, <1>5 DEF Balanced

LEMMA AddBalanced ==
  ASSUME Books, NEW t \in Thread, SwapAdd(t), NEW s \in SlabIdx
  PROVE  Balanced(s)'
<1> USE DEF Books, IInv, Ledger
<1> DEFINE q == slab[t]
<1>1. /\ pc[t] = "add" /\ pc' = [pc EXCEPT ![t] = "clear"]
      /\ nlocal' = [nlocal EXCEPT ![q] = @ + nremote[q]]
      /\ seen' = [seen EXCEPT ![t] = nremote[q]]
      /\ UNCHANGED <<owner, slab, putting, local, remote, nremote>>
  BY DEF SwapAdd, At, Goto, table
<1>2. q \in SlabIdx /\ q # None /\ owner[q] = t
  BY <1>1 DEF TypeOK, Control, PcOK, SlabsOK
<1>3. Counting(s)' = Counting(s)
  BY <1>1, CountingKept DEF TypeOK, SameCounting
<1>4. Listed(s)' = Listed(s)
  BY <1>1 DEF Listed
<1>5. CASE s = q
  <2>1. Owed(q) = 0
    BY <1>1, <1>2, OwedByOwner
  <2>2. Owed(q)' = nremote[q]
    BY <1>1, <1>2, ThreadAssumption DEF Owed, TypeOK
  <2> QED BY <1>1, <1>2, <1>3, <1>4, <1>5, <2>1, <2>2, Finite
          DEF Balanced, TypeOK
<1>6. CASE s # q
  <2>1. Owed(s)' = Owed(s)
    BY <1>1, <1>2, <1>6 DEF Owed, TypeOK
  <2> QED BY <1>1, <1>2, <1>3, <1>4, <1>6, <2>1 DEF Balanced, TypeOK
<1> QED BY <1>5, <1>6

LEMMA ClearBalanced ==
  ASSUME Books, NEW t \in Thread, NEW s \in SlabIdx,
         SwapClearHit(t) \/ SwapClearMiss(t)
  PROVE  Balanced(s)'
<1> USE DEF Books, IInv, Ledger
<1> DEFINE q == slab[t]
<1>1. /\ pc[t] = "clear" /\ pc'[t] \notin {"clear", "count"}
      /\ \A u \in Thread \ {t} : pc'[u] = pc[u] /\ seen'[u] = seen[u]
      /\ nremote' = [nremote EXCEPT ![q] = 0]
      /\ UNCHANGED <<owner, slab, putting, remote>>
  BY DEF SwapClearHit, SwapClearMiss, Pop, ClearCount, At, Goto, table, TypeOK
<1>2. q \in SlabIdx /\ q # None /\ owner[q] = t
  BY <1>1 DEF TypeOK, Control, PcOK, SlabsOK
<1>3. Counting(s)' = Counting(s)
  BY <1>1, CountingKept DEF TypeOK, SameCounting
<1>4. CASE s = q
  <2>1. Owed(q) = seen[t] /\ Owed(q)' = 0
    <3>1. Owed(q) = seen[t]
      BY <1>1, <1>2, OwedByOwner
    <3>2. Owed(q)' = 0
      BY <1>1, <1>2 DEF Owed
    <3> QED BY <3>1, <3>2
  <2>2. seen[t] <= nremote[q]
    BY <1>1 DEF CountOK
  <2>3. \E k \in {0, 1} :
          /\ nlocal'[q] = nlocal[q] - k
          /\ Cardinality(Listed(q)') = Cardinality(Listed(q)) - k
    <3>1. CASE SwapClearHit(t)
      <4>1. PICK m \in local[q] :
              /\ local'  = [local  EXCEPT ![q] = local[q] \ {m}]
              /\ nlocal' = [nlocal EXCEPT ![q] = nlocal[q] - 1]
        BY <3>1 DEF SwapClearHit, Pop
      <4>2. Listed(q)' = Listed(q) \ {m} /\ m \in Listed(q)
        BY <1>1, <1>2, <4>1 DEF Listed, NoHandleTwice, TypeOK
      <4>3. Cardinality(Listed(q)') = Cardinality(Listed(q)) - 1
        BY <1>2, <4>2, Finite, FS_RemoveElement
      <4> QED BY <1>2, <4>1, <4>3 DEF TypeOK
    <3>2. CASE SwapClearMiss(t)
      <4>1. Listed(q)' = Listed(q) /\ nlocal' = nlocal
        BY <1>1, <3>2 DEF SwapClearMiss, Listed
      <4> QED BY <1>2, <4>1, Finite DEF TypeOK
    <3> QED BY <3>1, <3>2
  <2> QED BY <1>1, <1>2, <1>3, <1>4, <2>1, <2>2, <2>3, Finite
          DEF Balanced, TypeOK
<1>5. CASE s # q
  <2>1. local'[s] = local[s] /\ nlocal'[s] = nlocal[s]
    BY <1>2, <1>5 DEF SwapClearHit, SwapClearMiss, Pop, TypeOK
  <2>2. Owed(s)' = Owed(s)
    BY <1>1, <1>2, <1>5 DEF Owed, TypeOK
  <2> QED BY <1>1, <1>2, <1>3, <1>5, <2>1, <2>2 DEF Balanced, Listed, TypeOK
<1> QED BY <1>4, <1>5

LEMMA FreshBalanced ==
  ASSUME Books, NEW t \in Thread, FreshSlab(t), NEW s \in SlabIdx
  PROVE  Balanced(s)'
<1> USE DEF Books, IInv, Ledger
<1>1. /\ owner'   = [owner   EXCEPT ![nslabs] = t]
      /\ local'   = [local   EXCEPT ![nslabs] = {}]
      /\ remote'  = [remote  EXCEPT ![nslabs] = {}]
      /\ nlocal'  = [nlocal  EXCEPT ![nslabs] = 0]
      /\ nremote' = [nremote EXCEPT ![nslabs] = 0]
      /\ nslabs \in SlabIdx
  BY SizeAssumption DEF FreshSlab, TypeOK, SlabIdx
<1>2. /\ pc[t] = "fresh" /\ pc' = [pc EXCEPT ![t] = "install"]
      /\ UNCHANGED <<slab, putting, seen>>
  BY DEF FreshSlab, At, Goto
<1>3. SameCounting
  BY <1>2 DEF TypeOK, SameCounting
<1>4. Counting(s)' = Counting(s)
  BY <1>3, CountingKept
<1>5. CASE s = nslabs
  <2>1. Owed(s)' = 0
    BY <1>1, <1>2, <1>5, NoneAssumption DEF Owed, TypeOK
  <2>2. Counting(s) = {}
    <3>1. ~(s < nslabs)
      BY <1>1, <1>5, SizeAssumption DEF SlabIdx
    <3> QED BY <1>5, <3>1 DEF Counting, Control, PcOK, CountOK
  <2>3. Listed(s)' = {}
    BY <1>1, <1>5 DEF Listed, TypeOK
  <2> QED BY <1>1, <1>4, <1>5, <2>1, <2>2, <2>3, FS_EmptySet
          DEF Balanced, TypeOK
<1>6. CASE s # nslabs
  <2>1. Owed(s)' = Owed(s)
    BY <1>1, <1>2, <1>6 DEF Owed, TypeOK
  <2> QED BY <1>1, <1>3, <1>6, <2>1, BalanceKept DEF TypeOK
<1> QED BY <1>5, <1>6

LEMMA FindLocalBalanced ==
  ASSUME Books, NEW t \in Thread, FindLocal(t), NEW s \in SlabIdx
  PROVE  Balanced(s)'
<1> USE DEF Books, IInv, Ledger
<1> DEFINE m == putting[t]
           q == SlabOf(m)
<1>1. /\ pc[t] = "find" /\ pc' = [pc EXCEPT ![t] = "idle"]
      /\ local'  = [local  EXCEPT ![q] = @ \cup {m}]
      /\ nlocal' = [nlocal EXCEPT ![q] = @ + 1]
      /\ putting' = [putting EXCEPT ![t] = None]
      /\ UNCHANGED <<owner, slab, seen, remote, nremote>>
  BY DEF FindLocal, At, Goto, table
<1>2. SameCounting /\ SameOwed
  BY <1>1 DEF TypeOK, SameCounting, SameOwed
<1>3. Counting(s)' = Counting(s) /\ Owed(s)' = Owed(s)
  BY <1>2, CountingKept, OwedKept
<1>4. CASE s = q
  <2>1. m \notin Listed(s)
    BY <1>1, InFlightIn DEF Listed, NoHandleTwice, Putting
  <2>2. Listed(s)' = Listed(s) \cup {m}
    BY <1>1, <1>4 DEF Listed, TypeOK
  <2>3. Cardinality(Listed(s)') = Cardinality(Listed(s)) + 1
    BY <2>1, <2>2, Finite, FS_AddElement
  <2> QED BY <1>1, <1>3, <1>4, <2>3, Finite, OwedType DEF Balanced, TypeOK
<1>5. CASE s # q
  BY <1>1, <1>2, <1>3, <1>5, BalanceKept DEF TypeOK
<1> QED BY <1>4, <1>5

LEMMA PushBalanced ==
  ASSUME Books, NEW t \in Thread, Push(t), NEW s \in SlabIdx
  PROVE  Balanced(s)'
<1> USE DEF Books, IInv, Ledger
<1> DEFINE m == putting[t]
           q == SlabOf(m)
<1>1. /\ pc[t] = "push" /\ pc' = [pc EXCEPT ![t] = "count"]
      /\ remote' = [remote EXCEPT ![q] = @ \cup {m}]
      /\ UNCHANGED <<owner, slab, putting, seen, local, nlocal, nremote>>
  BY DEF Push, At, Goto, table, locals
<1>2. Owed(s)' = Owed(s)
  BY <1>1, OwedKept DEF TypeOK, SameOwed
<1>3. CASE s = q
  <2>1. m \notin Listed(s)
    BY <1>1, InFlightIn DEF Listed, NoHandleTwice, Putting
  <2>2. Listed(s)' = Listed(s) \cup {m}
    BY <1>1, <1>3 DEF Listed, TypeOK
  <2>3. Cardinality(Listed(s)') = Cardinality(Listed(s)) + 1
    BY <2>1, <2>2, Finite, FS_AddElement
  <2>4. Counting(s)' = Counting(s) \cup {t} /\ t \notin Counting(s)
    BY <1>1, <1>3 DEF Counting, TypeOK
  <2>5. Cardinality(Counting(s)') = Cardinality(Counting(s)) + 1
    BY <2>4, Finite, FS_AddElement
  <2> QED BY <1>1, <1>2, <1>3, <2>3, <2>5, Finite, OwedType DEF Balanced, TypeOK
<1>4. CASE s # q
  <2>1. Counting(s)' = Counting(s)
    BY <1>1, <1>4 DEF Counting, TypeOK
  <2> QED BY <1>1, <1>2, <1>4, <2>1 DEF Balanced, Listed, TypeOK
<1> QED BY <1>3, <1>4

LEMMA CountBalanced ==
  ASSUME Books, NEW t \in Thread, Count(t), NEW s \in SlabIdx
  PROVE  Balanced(s)'
<1> USE DEF Books, IInv, Ledger
<1> DEFINE q == SlabOf(putting[t])
<1>1. /\ pc[t] = "count" /\ pc' = [pc EXCEPT ![t] = "idle"]
      /\ nremote' = [nremote EXCEPT ![q] = @ + 1]
      /\ putting' = [putting EXCEPT ![t] = None]
      /\ UNCHANGED <<owner, slab, seen, local, remote, nlocal>>
  BY DEF Count, At, Goto, table
<1>2. Owed(s)' = Owed(s) /\ Listed(s)' = Listed(s)
  BY <1>1, OwedKept DEF TypeOK, SameOwed, Listed
<1>3. CASE s = q
  <2>1. Counting(s)' = Counting(s) \ {t} /\ t \in Counting(s)
    BY <1>1, <1>3 DEF Counting, TypeOK
  <2>2. Cardinality(Counting(s)') = Cardinality(Counting(s)) - 1
    BY <2>1, Finite, FS_RemoveElement
  <2> QED BY <1>1, <1>2, <1>3, <2>2, Finite, OwedType DEF Balanced, TypeOK
<1>4. CASE s # q
  <2>1. Counting(s)' = Counting(s)
    BY <1>1, <1>4 DEF Counting, TypeOK
  <2> QED BY <1>1, <1>2, <1>4, <2>1 DEF Balanced, TypeOK
<1> QED BY <1>3, <1>4

\* The steps that touch no list and no counter.
Elsewhere(t) ==
  \/ NewMapping(t) \/ SkipSlab(t) \/ TakeSlab(t) \/ EndScan(t) \/ GrowFails(t)
  \/ InstallSlab(t) \/ Put(t) \/ FindRemote(t) \/ FindWild(t)

LEMMA ElsewhereBalanced ==
  ASSUME Books, NEW t \in Thread, Elsewhere(t), NEW s \in SlabIdx
  PROVE  Balanced(s)'
<1> USE DEF Books, IInv, Ledger
<1>1. UNCHANGED <<local, remote, nlocal, nremote>>
  BY DEF Elsewhere, NewMapping, SkipSlab, TakeSlab, EndScan, GrowFails,
         InstallSlab, Put, FindRemote, FindWild, lists
<1>2. SameCounting
  BY DEF Elsewhere, NewMapping, SkipSlab, TakeSlab, EndScan, GrowFails,
         InstallSlab, Put, FindRemote, FindWild, Scans, locals, At, Goto,
         TypeOK, SameCounting
<1>3. Owed(s)' = Owed(s)
  <2>1. CASE TakeSlab(t)
    <3>1. /\ scan \in SlabIdx /\ owner[scan] = None
          /\ owner' = [owner EXCEPT ![scan] = t]
      BY <2>1, SizeAssumption DEF TakeSlab, Usable, TypeOK, SlabIdx
    <3>2. /\ pc[t] = "newslab" /\ pc' = [pc EXCEPT ![t] = "install"]
          /\ UNCHANGED <<slab, seen>>
      BY <2>1 DEF TakeSlab, Scans, At, Goto
    <3>3. CASE s = scan
      BY <3>1, <3>2, <3>3 DEF TypeOK, Owed
    <3>4. CASE s # scan
      BY <3>1, <3>2, <3>4 DEF TypeOK, Owed
    <3> QED BY <3>3, <3>4
  <2>2. CASE InstallSlab(t)
    <3>1. owner'[s] = IF s = slab[t] THEN None ELSE owner[s]
      BY <2>2 DEF InstallSlab
    <3>2. /\ pc[t] = "install" /\ pc' = [pc EXCEPT ![t] = "alloc"]
          /\ slab' = [slab EXCEPT ![t] = got[t]] /\ seen' = seen
      BY <2>2 DEF InstallSlab, At, Goto
    <3>3. CASE owner[s] \in {None, t}
      BY <3>1, <3>2, <3>3 DEF TypeOK, Owed
    <3>4. CASE owner[s] \notin {None, t}
      BY <3>1, <3>2, <3>4, NoneAssumption DEF TypeOK, Owed, Control, SlabsOK
    <3> QED BY <3>3, <3>4
  <2>3. CASE ~TakeSlab(t) /\ ~InstallSlab(t)
    <3>1. SameOwed
      BY <2>3 DEF Elsewhere, NewMapping, SkipSlab, EndScan, GrowFails, Put,
                  FindRemote, FindWild, Scans, table, locals, At, Goto, TypeOK,
                  SameOwed
    <3> QED BY <3>1, OwedKept
  <2> QED BY <2>1, <2>2, <2>3
<1> QED BY <1>1, <1>2, <1>3, BalanceKept

-----------------------------------------------------------------------------
LEMMA LedgerStep == Books /\ [Next]_vars => Ledger'
<1> SUFFICES ASSUME Books, [Next]_vars PROVE Ledger'
  OBVIOUS
<1>1. \A u \in Thread : CountOK(u)'
  BY CountOKStep
<1>2. ASSUME NEW s \in SlabIdx PROVE Balanced(s)'
  <2>1. CASE UNCHANGED vars
    BY <2>1 DEF vars, table, lists, locals, Books, Ledger, Balanced, Owed,
                Counting, Listed
  <2> QED BY <2>1, PopBalanced, ExtendBalanced, TakeBalanced, AddBalanced,
             ClearBalanced, FreshBalanced, FindLocalBalanced, PushBalanced,
             CountBalanced, ElsewhereBalanced
          DEF Next, Elsewhere
<1> QED BY <1>1, <1>2 DEF Ledger

LEMMA InitBooks == Init => Books
<1> SUFFICES ASSUME Init PROVE Books
  OBVIOUS
<1>1. \A t \in Thread : CountOK(t)
  BY DEF Init, CountOK
<1>2. ASSUME NEW s \in SlabIdx PROVE Balanced(s)
  <2>1. Counting(s) = {} /\ Listed(s) = {} /\ Owed(s) = 0
    BY DEF Init, Counting, Listed, Owed
  <2> QED BY <2>1, FS_EmptySet DEF Init, Balanced
<1> QED BY <1>1, <1>2, InitMappings DEF Books, Mappings, Ledger

LEMMA BooksAlways == Spec => []Books
<1>1. Books /\ [Next]_vars => Books'
  BY TypeStep, ControlStep, TwiceStep, LedgerStep DEF Books, IInv
<1> QED BY InitBooks, <1>1, PTL DEF Spec

\* A slab nobody owns whose counters promise a mapping has one.
LEMMA PromiseKept ==
  ASSUME Books, NEW s \in SlabIdx, owner[s] = None, NumFree(s) > 0
  PROVE  Listed(s) \cup Untouched(s) # {}
<1> USE DEF Books, IInv
<1>1. bump[s] \in Nat /\ bump[s] <= SlabCapacity /\ Owed(s) = 0
  BY SizeAssumption DEF TypeOK, Owed
<1>2. SUFFICES ASSUME Listed(s) = {}, Untouched(s) = {} PROVE FALSE
  OBVIOUS
<1>3. nlocal[s] + nremote[s] <= 0
  <2>1. Cardinality(Listed(s)) = 0
    BY <1>2, FS_EmptySet
  <2> QED BY <1>1, <2>1, Finite DEF Ledger, Balanced, TypeOK
<1>4. SlabCapacity - bump[s] = 0
  <2>1. Cardinality(Untouched(s)) = SlabCapacity - bump[s]
    BY <1>1, BetweenSize, SizeAssumption DEF Untouched
  <2> QED BY <1>2, <2>1, FS_EmptySet
<1> QED BY <1>3, <1>4 DEF NumFree, TypeOK

-----------------------------------------------------------------------------
(***************************************************************************)
(* The second alloc() of new_mapping finds a mapping.                      *)
(***************************************************************************)
Retrying(t) ==
  /\ pc[t] \in {"idle", "find", "push", "count"} => ~second[t]
  /\ second[t] /\ pc[t] = "install" =>
       Listed(got[t]) \cup Untouched(got[t]) # {}
  /\ second[t] /\ pc[t] = "alloc" =>
       Listed(slab[t]) \cup Untouched(slab[t]) # {}
  /\ second[t] /\ pc[t] \in {"add", "clear"} => local[slab[t]] # {}
  /\ pc[t] # "null"

\* What is on the lists of a slab a thread owns stays there while others run.
LEMMA OthersKeep ==
  ASSUME Books, NEW t \in Thread, NEW u \in Thread \ {t}, NEW s \in SlabIdx,
         owner[s] = t, NewMapping(u) \/ AllocPop(u) \/ AllocExtend(u)
           \/ SwapTake(u) \/ SwapAdd(u) \/ SwapClearHit(u) \/ SwapClearMiss(u)
           \/ SkipSlab(u) \/ TakeSlab(u) \/ EndScan(u)
           \/ FreshSlab(u) \/ GrowFails(u) \/ InstallSlab(u)
           \/ Put(u) \/ FindLocal(u) \/ FindRemote(u) \/ FindWild(u)
           \/ Push(u) \/ Count(u)
  PROVE  /\ local'[s] = local[s] /\ remote[s] \subseteq remote'[s]
         /\ bump'[s] = bump[s]
         /\ slab'[t] = slab[t] /\ got'[t] = got[t] /\ second'[t] = second[t]
         /\ pc'[t] = pc[t]
<1> USE DEF Books, IInv, TypeOK, table, vector, lists, locals
<1>1. CASE AllocPop(u) \/ AllocExtend(u) \/ SwapTake(u) \/ SwapAdd(u)
             \/ SwapClearHit(u) \/ SwapClearMiss(u)
  <2>1. slab[u] \in SlabIdx /\ slab[u] # s
    BY <1>1 DEF AllocPop, AllocExtend, SwapTake, SwapAdd, SwapClearHit,
                SwapClearMiss, At, Control, PcOK, SlabsOK
  <2> QED BY <1>1, <2>1
          DEF AllocPop, AllocExtend, SwapTake, TakeRemote, SwapAdd, SwapClearHit,
              SwapClearMiss, Pop, Goto
<1>2. CASE FreshSlab(u)
  <2>1. nslabs # s
    BY ThreadAssumption, SizeAssumption DEF Control, FreshOK, SlabIdx
  <2> QED BY <1>2, <2>1 DEF FreshSlab, Goto
<1>3. CASE FindLocal(u)
  BY <1>3, SlabOfHandle DEF FindLocal, Goto
<1>4. CASE Push(u)
  BY <1>4 DEF Push, Goto
<1>5. CASE NewMapping(u) \/ SkipSlab(u) \/ TakeSlab(u) \/ EndScan(u)
             \/ GrowFails(u) \/ InstallSlab(u) \/ Put(u) \/ FindRemote(u)
             \/ FindWild(u) \/ Count(u)
  BY <1>5 DEF NewMapping, SkipSlab, TakeSlab, EndScan, GrowFails, InstallSlab,
              Put, FindRemote, FindWild, Count, Goto
<1> QED BY <1>1, <1>2, <1>3, <1>4, <1>5

\* And of a thread that owns no slab that matters here, only it changes where
\* it is.
LEMMA OthersLeave ==
  ASSUME Books, NEW t \in Thread, NEW u \in Thread \ {t},
         NewMapping(u) \/ AllocPop(u) \/ AllocExtend(u)
           \/ SwapTake(u) \/ SwapAdd(u) \/ SwapClearHit(u) \/ SwapClearMiss(u)
           \/ SkipSlab(u) \/ TakeSlab(u) \/ EndScan(u)
           \/ FreshSlab(u) \/ GrowFails(u) \/ InstallSlab(u)
           \/ Put(u) \/ FindLocal(u) \/ FindRemote(u) \/ FindWild(u)
           \/ Push(u) \/ Count(u)
  PROVE  second'[t] = second[t] /\ pc'[t] = pc[t]
BY DEF Books, IInv, TypeOK, table, vector, lists, locals,
       NewMapping, AllocPop, AllocExtend, SwapTake, SwapAdd, SwapClearHit,
       SwapClearMiss, Pop, SkipSlab, TakeSlab, EndScan, FreshSlab, GrowFails,
       InstallSlab, Put, FindLocal, FindRemote, FindWild, Push, Count, Goto

LEMMA RetryStep ==
  ASSUME Books, [Next]_vars, NEW t \in Thread, Retrying(t)
  PROVE  Retrying(t)'
<1> USE DEF Books, IInv, TypeOK
<1>1. CASE UNCHANGED vars
  BY <1>1 DEF vars, table, lists, locals, Retrying, Listed, Untouched
<1>2. ASSUME NEW u \in Thread \ {t},
             NewMapping(u) \/ AllocPop(u) \/ AllocExtend(u)
           \/ SwapTake(u) \/ SwapAdd(u) \/ SwapClearHit(u) \/ SwapClearMiss(u)
           \/ SkipSlab(u) \/ TakeSlab(u) \/ EndScan(u)
           \/ FreshSlab(u) \/ GrowFails(u) \/ InstallSlab(u)
           \/ Put(u) \/ FindLocal(u) \/ FindRemote(u) \/ FindWild(u)
           \/ Push(u) \/ Count(u)
      PROVE  Retrying(t)'
  <2>1. second'[t] = second[t] /\ pc'[t] = pc[t]
    BY <1>2, OthersLeave
  <2>2. CASE pc[t] = "install"
    <3>1. got[t] \in SlabIdx /\ owner[got[t]] = t
      BY <2>2 DEF Control, PcOK, SlabsOK
    <3>2. /\ local'[got[t]] = local[got[t]]
          /\ remote[got[t]] \subseteq remote'[got[t]]
          /\ bump'[got[t]] = bump[got[t]] /\ got'[t] = got[t]
      BY <1>2, <3>1, OthersKeep
    <3> QED BY <2>1, <2>2, <3>2 DEF Retrying, Listed, Untouched
  <2>3. CASE pc[t] \in {"alloc", "add", "clear"}
    <3>1. slab[t] \in SlabIdx /\ owner[slab[t]] = t
      BY <2>3 DEF Control, PcOK, SlabsOK
    <3>2. /\ local'[slab[t]] = local[slab[t]]
          /\ remote[slab[t]] \subseteq remote'[slab[t]]
          /\ bump'[slab[t]] = bump[slab[t]] /\ slab'[t] = slab[t]
      BY <1>2, <3>1, OthersKeep
    <3> QED BY <2>1, <2>3, <3>2 DEF Retrying, Listed, Untouched
  <2>4. CASE pc[t] \notin {"install", "alloc", "add", "clear"}
    BY <2>1, <2>4 DEF Retrying
  <2> QED BY <2>2, <2>3, <2>4
<1>3. ASSUME \/ NewMapping(t) \/ SkipSlab(t) \/ EndScan(t) \/ GrowFails(t)
             \/ SwapAdd(t) \/ SwapClearMiss(t) \/ Put(t) \/ FindLocal(t)
             \/ FindRemote(t) \/ FindWild(t) \/ Push(t) \/ Count(t)
      PROVE  Retrying(t)'
  <2>1. CASE NewMapping(t) \/ SkipSlab(t) \/ EndScan(t) \/ GrowFails(t) \/ SwapAdd(t)
    BY <2>1 DEF NewMapping, SkipSlab, EndScan, GrowFails, SwapAdd, Scans, At, Goto,
                lists, locals, Retrying
  <2>2. CASE SwapClearMiss(t)
    BY <2>2 DEF SwapClearMiss, At, Goto, lists, locals, Retrying
  <2>3. CASE Put(t) \/ FindLocal(t) \/ FindRemote(t) \/ FindWild(t) \/ Push(t) \/ Count(t)
    BY <2>3 DEF Put, FindLocal, FindRemote, FindWild, Push, Count, At, Goto,
                lists, locals, Retrying
  <2> QED BY <1>3, <2>1, <2>2, <2>3, Zenon
<1>4. ASSUME AllocPop(t) \/ AllocExtend(t) \/ SwapClearHit(t)
      PROVE  Retrying(t)'
  BY <1>4 DEF AllocPop, AllocExtend, SwapClearHit, Pop, At, Goto, Retrying
<1>5. ASSUME SwapTake(t) PROVE Retrying(t)'
  <2>1. /\ slab[t] \in SlabIdx /\ local[slab[t]] = {}
        /\ bump[slab[t]] = SlabCapacity
    BY <1>5 DEF SwapTake, At, Control, PcOK
  <2>2. Untouched(slab[t]) = {}
    BY <2>1, SizeAssumption DEF Untouched, Between
  <2>3. second[t] => remote[slab[t]] # {}
    BY <1>5, <2>1, <2>2 DEF SwapTake, At, Retrying, Listed
  <2> QED BY <1>5, <2>1, <2>3 DEF SwapTake, TakeRemote, At, Goto, locals, Retrying
<1>6. ASSUME TakeSlab(t) PROVE Retrying(t)'
  <2>1. scan \in SlabIdx /\ owner[scan] = None /\ NumFree(scan) > 0
    BY <1>6, SizeAssumption DEF TakeSlab, Usable, SlabIdx
  <2>2. Listed(scan) \cup Untouched(scan) # {}
    BY <2>1, PromiseKept
  <2> QED BY <1>6, <2>2 DEF TakeSlab, Scans, At, Goto, lists, Retrying, Listed,
                            Untouched
<1>7. ASSUME FreshSlab(t) PROVE Retrying(t)'
  <2>1. nslabs \in SlabIdx
    BY <1>7, SizeAssumption DEF FreshSlab, SlabIdx
  <2>2. bump'[nslabs] = 0 /\ got'[t] = nslabs /\ pc'[t] = "install"
    BY <1>7, <2>1 DEF FreshSlab, Goto
  <2>3. <<nslabs, 1>> \in {nslabs} \X ((bump'[nslabs] + 1) .. SlabCapacity)
    BY <2>2, SizeAssumption
  <2> QED BY <2>2, <2>3 DEF Retrying, Untouched, Between
<1>8. ASSUME InstallSlab(t) PROVE Retrying(t)'
  BY <1>8 DEF InstallSlab, At, Goto, lists, Retrying, Listed, Untouched
<1> QED BY <1>1, <1>2, <1>3, <1>4, <1>5, <1>6, <1>7, <1>8 DEF Next

\* ThreadCache.cpp:232-234, "This BETTER work!": the slab new_slab has just
\* returned has a mapping, although the counters it was chosen by are written
\* without a lock and lose increments (ShardedFreeList.hpp:67-76).
THEOREM NewSlabWorks == Spec => []NewSlabHasMapping
<1>1. Init => \A t \in Thread : Retrying(t)
  BY DEF Init, Retrying
<1>2. Books /\ (\A t \in Thread : Retrying(t)) /\ [Next]_vars
        => (\A t \in Thread : Retrying(t))'
  BY RetryStep
<1>3. (\A t \in Thread : Retrying(t)) => NewSlabHasMapping
  BY DEF Retrying, NewSlabHasMapping
<1> QED BY BooksAlways, <1>1, <1>2, <1>3, PTL DEF Spec
=============================================================================
