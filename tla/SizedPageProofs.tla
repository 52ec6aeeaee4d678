-------------------------- MODULE SizedPageProofs ---------------------------
(***************************************************************************)
(* Proofs about SizedPage for any number of slots and handles.             *)
(***************************************************************************)
EXTENDS SizedPage, TLAPS

\* While no compaction is under way (SizedPage.cpp:25-55, 224-282).
ListsOK ==
  /\ \A s \in local \cup remote : IsFree(s) /\ s < bump
  /\ \A s \in Slot : s >= bump => IsFree(s)
  /\ local \cap remote = {}
  /\ \A s, t \in Lost : s = t

\* The two-finger walk of compact() (SizedPage.cpp:145-204): the slots left of
\* the left finger are full.  To the right of the right finger there are only
\* pinned objects, the last of which is last_object, and gaps, which are on the
\* local list if they are on this side of it.
WalkOK ==
  /\ left <= right
  /\ \A s \in Slot : s < left => ~IsFree(s)
  /\ remote = {}
  /\ \A s \in local : IsFree(s) /\ s > right
  /\ \A s \in Slot : s > right /\ ~IsFree(s) => Pinned(s)
  /\ last = None => local = {} /\ \A s \in Slot : s > right => IsFree(s)
  /\ last # None => /\ last > right /\ ~IsFree(last)
                    /\ \A s \in local : s < last
                    /\ \A s \in Slot : s > last => IsFree(s)
                    /\ \A s \in Slot : right < s /\ s < last /\ IsFree(s)
                                         => s \in local

IInv == /\ TypeOK
        /\ HandlesIntact
        /\ pc # "compact" => ListsOK
        /\ pc = "compact" => WalkOK

USE CapacityAssumption, SlotAssumption, MappingAssumption
    DEF Slot, lists, fingers

-----------------------------------------------------------------------------
LEMMA InitIInv == Init => IInv
BY DEF Init, IInv, TypeOK, HandlesIntact, ListsOK, Lost, Live, IsFree

\* A slot an allocation takes is free, and what is lost is lost already.
TakeOK(s, released) ==
  /\ IsFree(s)
  /\ s < bump' /\ s \notin remote' /\ s \notin local' \ released
  /\ bump' \in 0 .. Capacity /\ bump <= bump'
  /\ local' \subseteq Slot \cup released /\ released \subseteq local'
  /\ remote' \subseteq remote
  /\ \A x \in local' \ released : IsFree(x) /\ x < bump' /\ x \notin remote'
  /\ \A x \in Slot : x < bump' /\ x # s /\ x \notin local' \cup remote'
       => x < bump /\ x \notin local \cup remote

LEMMA TakeFacts ==
  ASSUME TypeOK, ListsOK, NEW s \in Slot, NEW released, Take(s, released)
  PROVE  TakeOK(s, released)
<1> USE DEF TypeOK, ListsOK
<1>1. CASE s \in local /\ local' = (local \ {s}) \cup released
           /\ UNCHANGED <<remote, bump>>
  <2>1. IsFree(s) /\ bump' \in 0 .. Capacity /\ bump <= bump' /\ s < bump'
    BY <1>1
  <2>2. s \notin remote' /\ s \notin local' \ released
    BY <1>1
  <2>3. /\ local' \subseteq Slot \cup released /\ released \subseteq local'
        /\ remote' \subseteq remote
    BY <1>1
  <2>4. \A x \in local' \ released : IsFree(x) /\ x < bump' /\ x \notin remote'
    BY <1>1
  <2>5. \A x \in Slot : x < bump' /\ x # s /\ x \notin local' \cup remote'
          => x < bump /\ x \notin local \cup remote
    BY <1>1
  <2> QED BY <2>1, <2>2, <2>3, <2>4, <2>5 DEF TakeOK
<1>2. CASE LET end == IF bump + Chunk > Capacity THEN Capacity ELSE bump + Chunk
           IN  /\ local = {} /\ s \in bump .. end - 1
               /\ local' = ((bump .. end - 1) \ {s}) \cup released
               /\ bump' = end
               /\ UNCHANGED remote
  <2>1. IsFree(s) /\ bump' \in 0 .. Capacity /\ bump <= bump' /\ s < bump'
    BY <1>2, ChunkAssumption
  <2>2. s \notin remote' /\ s \notin local' \ released
    BY <1>2, ChunkAssumption
  <2>3. /\ local' \subseteq Slot \cup released /\ released \subseteq local'
        /\ remote' \subseteq remote
    BY <1>2, ChunkAssumption
  <2>4. \A x \in local' \ released : IsFree(x) /\ x < bump' /\ x \notin remote'
    BY <1>2, ChunkAssumption
  <2>5. \A x \in Slot : x < bump' /\ x # s /\ x \notin local' \cup remote'
          => x < bump /\ x \notin local \cup remote
    BY <1>2, ChunkAssumption
  <2> QED BY <2>1, <2>2, <2>3, <2>4, <2>5 DEF TakeOK
<1>3. CASE /\ local = {} /\ bump = Capacity /\ s \in remote
           /\ local' = (remote \ {s}) \cup released
           /\ remote' = {}
           /\ UNCHANGED bump
  <2>1. IsFree(s) /\ bump' \in 0 .. Capacity /\ bump <= bump' /\ s < bump'
    BY <1>3
  <2>2. s \notin remote' /\ s \notin local' \ released
    BY <1>3
  <2>3. /\ local' \subseteq Slot \cup released /\ released \subseteq local'
        /\ remote' \subseteq remote
    BY <1>3
  <2>4. \A x \in local' \ released : IsFree(x) /\ x < bump' /\ x \notin remote'
    BY <1>3
  <2>5. \A x \in Slot : x < bump' /\ x # s /\ x \notin local' \cup remote'
          => x < bump /\ x \notin local \cup remote
    BY <1>3
  <2> QED BY <2>1, <2>2, <2>3, <2>4, <2>5 DEF TakeOK
<1> QED BY <1>1, <1>2, <1>3 DEF TakeOK, Take

LEMMA HallocStep ==
  ASSUME IInv, NEW m \in Mapping, Halloc(m) PROVE IInv'
<1>1. PICK s \in Slot : /\ Take(s, {})
                        /\ header' = [header EXCEPT ![s] = m]
                        /\ ptr'    = [ptr EXCEPT ![m] = s]
                        /\ mem'    = [mem EXCEPT ![s] = m]
  BY DEF Halloc
<1>2. /\ pc = "run" /\ ptr[m] = None /\ TypeOK /\ HandlesIntact /\ ListsOK
      /\ UNCHANGED <<pinned, pc, left, right, last>>
  BY DEF Halloc, IInv
<1>3. TakeOK(s, {})
  BY <1>1, <1>2, TakeFacts
<1>4. TypeOK'
  BY <1>1, <1>2, <1>3 DEF TakeOK, TypeOK
<1>5. HandlesIntact'
  BY <1>1, <1>2, <1>3 DEF TakeOK, HandlesIntact, Live, IsFree, TypeOK
<1>6. ListsOK'
  BY <1>1, <1>2, <1>3 DEF TakeOK, ListsOK, Lost, IsFree, TypeOK
<1> QED BY <1>2, <1>4, <1>5, <1>6 DEF IInv

LEMMA HfreeStep ==
  ASSUME IInv, NEW m \in Mapping, Hfree(m) PROVE IInv'
<1>1. /\ pc = "run" /\ TypeOK /\ HandlesIntact /\ ListsOK
      /\ ptr[m] \in Slot /\ header[ptr[m]] = m
      /\ header' = [header EXCEPT ![ptr[m]] = None]
      /\ ptr' = [ptr EXCEPT ![m] = None]
      /\ \/ local' = local \cup {ptr[m]} /\ UNCHANGED remote
         \/ remote' = remote \cup {ptr[m]} /\ UNCHANGED local
      /\ UNCHANGED <<mem, bump, pinned, pc, left, right, last>>
  BY DEF Hfree, IInv, TypeOK, HandlesIntact, Live
<1>2. /\ ptr[m] \notin local \cup remote /\ ptr[m] < bump
  BY <1>1 DEF ListsOK, IsFree, TypeOK
<1>3. TypeOK'
  BY <1>1 DEF TypeOK
<1>4. HandlesIntact'
  BY <1>1 DEF HandlesIntact, Live, IsFree, TypeOK
<1>5. ListsOK'
  <2>1. \A s \in Slot : header'[s] = IF s = ptr[m] THEN None ELSE header[s]
    BY <1>1 DEF TypeOK
  <2>2. local' \cup remote' = local \cup remote \cup {ptr[m]}
    BY <1>1
  <2>3. Lost' \subseteq Lost
    BY <1>1, <2>1, <2>2 DEF Lost, IsFree
  <2>4. \A s \in local' \cup remote' : IsFree(s)' /\ s < bump'
    BY <1>1, <1>2, <2>1, <2>2 DEF ListsOK, IsFree, TypeOK
  <2>5. \A s \in Slot : s >= bump' => IsFree(s)'
    BY <1>1, <2>1 DEF ListsOK, IsFree
  <2>6. local' \cap remote' = {}
    BY <1>1, <1>2 DEF ListsOK
  <2> QED BY <1>1, <2>3, <2>4, <2>5, <2>6 DEF ListsOK
<1> QED BY <1>1, <1>3, <1>4, <1>5 DEF IInv

LEMMA HreallocStep ==
  ASSUME IInv, NEW m \in Mapping, Hrealloc(m) PROVE IInv'
<1> DEFINE r == ptr[m]
<1>1. PICK s \in Slot : /\ Take(s, {r})
                        /\ header' = [header EXCEPT ![s] = m, ![r] = None]
                        /\ mem'    = [mem EXCEPT ![s] = mem[r]]
                        /\ ptr'    = [ptr EXCEPT ![m] = s]
  BY DEF Hrealloc
<1>2. /\ pc = "run" /\ TypeOK /\ HandlesIntact /\ ListsOK
      /\ r \in Slot /\ header[r] = m /\ mem[r] = m
      /\ UNCHANGED <<pinned, pc, left, right, last>>
  BY DEF Hrealloc, IInv, TypeOK, HandlesIntact, Live
<1>3. TakeOK(s, {r})
  BY <1>1, <1>2, TakeFacts
<1>4. s # r /\ r \notin local \cup remote /\ r < bump
  BY <1>2, <1>3 DEF TakeOK, ListsOK, IsFree, TypeOK
<1>5. TypeOK'
  BY <1>1, <1>2, <1>3 DEF TakeOK, TypeOK
<1>6. HandlesIntact'
  BY <1>1, <1>2, <1>3, <1>4 DEF TakeOK, HandlesIntact, Live, IsFree, TypeOK
<1>7. ListsOK'
  BY <1>1, <1>2, <1>3, <1>4 DEF TakeOK, ListsOK, Lost, IsFree, TypeOK
<1> QED BY <1>2, <1>5, <1>6, <1>7 DEF IInv

-----------------------------------------------------------------------------
(***************************************************************************)
(* compact().                                                              *)
(***************************************************************************)

LEMMA StartStep == ASSUME IInv, StartCompact PROVE IInv'
BY DEF IInv, StartCompact, ResetLists, TypeOK, HandlesIntact, WalkOK, Live,
       IsFree

\* The steps that only look at the page, and move a finger.
LEMMA SkipStep ==
  ASSUME IInv, SkipLive \/ SkipFree \/ SkipPinned PROVE IInv'
<1>1. /\ pc = "compact" /\ right > left /\ TypeOK /\ HandlesIntact /\ WalkOK
      /\ UNCHANGED <<header, ptr, mem, remote, bump, pinned, pc>>
  BY DEF SkipLive, SkipFree, SkipPinned, Compacting, IInv
<1>2. HandlesIntact'
  BY <1>1 DEF HandlesIntact, Live, IsFree
<1>3. CASE SkipLive
  <2>1. ~IsFree(left) /\ left' = left + 1 /\ UNCHANGED <<local, right, last>>
    BY <1>3 DEF SkipLive
  <2>2. TypeOK'
    BY <1>1, <2>1 DEF TypeOK
  <2>3. WalkOK'
    BY <1>1, <2>1 DEF WalkOK, TypeOK, IsFree, Pinned
  <2> QED BY <1>1, <1>2, <2>2, <2>3 DEF IInv
<1>4. CASE SkipFree
  <2>1. /\ IsFree(right) /\ right' = right - 1 /\ UNCHANGED <<left, last>>
        /\ local' = IF last # None THEN local \cup {right} ELSE local
    BY <1>4 DEF SkipFree, Gaps, RightMoves
  <2>2. TypeOK'
    BY <1>1, <2>1 DEF TypeOK
  <2>3. WalkOK'
    BY <1>1, <2>1 DEF WalkOK, TypeOK, IsFree, Pinned
  <2> QED BY <1>1, <1>2, <2>2, <2>3 DEF IInv
<1>5. CASE SkipPinned
  <2>1. /\ ~IsFree(right) /\ Pinned(right) /\ right' = right - 1
        /\ last' = IF last = None THEN right ELSE last
        /\ UNCHANGED <<left, local>>
    BY <1>5 DEF SkipPinned, RightMoves
  <2>2. TypeOK'
    BY <1>1, <2>1 DEF TypeOK
  <2>3. WalkOK'
    BY <1>1, <2>1 DEF WalkOK, TypeOK, IsFree, Pinned
  <2> QED BY <1>1, <1>2, <2>2, <2>3 DEF IInv
<1> QED BY <1>3, <1>4, <1>5

LEMMA MoveStep == ASSUME IInv, Move PROVE IInv'
<1>1. /\ pc = "compact" /\ right > left /\ TypeOK /\ HandlesIntact /\ WalkOK
      /\ IsFree(left) /\ ~IsFree(right)
      /\ mem'    = [mem EXCEPT ![left] = mem[right], ![right] = None]
      /\ ptr'    = [ptr EXCEPT ![header[right]] = left]
      /\ header' = [header EXCEPT ![left] = header[right], ![right] = None]
      /\ UNCHANGED <<local, remote, bump, pinned, pc, left, right, last>>
  BY DEF Move, Compacting, IInv
<1>2. header[right] \in Mapping /\ ptr[header[right]] = right
  BY <1>1 DEF TypeOK, HandlesIntact, IsFree
<1>3. TypeOK'
  BY <1>1, <1>2 DEF TypeOK
<1>4. HandlesIntact'
  BY <1>1, <1>2 DEF HandlesIntact, Live, IsFree, TypeOK
<1>5. WalkOK'
  BY <1>1, <1>2 DEF WalkOK, TypeOK, IsFree, Pinned
<1> QED BY <1>1, <1>3, <1>4, <1>5 DEF IInv

LEMMA EndStep == ASSUME IInv, EndCompact PROVE IInv'
<1>1. /\ pc = "compact" /\ left = right /\ TypeOK /\ HandlesIntact /\ WalkOK
      /\ pc' = "run" /\ pinned' = {}
      /\ bump' = (IF last = None THEN right ELSE last) + 1
      /\ UNCHANGED <<header, ptr, mem, local, remote, left, right, last>>
  BY DEF EndCompact, BumpStart, IInv, WalkOK, TypeOK
<1>2. TypeOK'
  BY <1>1 DEF TypeOK
<1>3. HandlesIntact'
  BY <1>1 DEF HandlesIntact, Live, IsFree
<1>4. ListsOK'
  <2>1. Lost' \subseteq {right}
    BY <1>1 DEF Lost, WalkOK, TypeOK, IsFree
  <2>2. \A s \in local' \cup remote' : IsFree(s)' /\ s < bump'
    BY <1>1 DEF WalkOK, TypeOK, IsFree
  <2>3. \A s \in Slot : s >= bump' => IsFree(s)'
    BY <1>1 DEF WalkOK, TypeOK, IsFree
  <2> QED BY <1>1, <2>1, <2>2, <2>3 DEF ListsOK, WalkOK
<1> QED BY <1>1, <1>2, <1>3, <1>4 DEF IInv

-----------------------------------------------------------------------------
(***************************************************************************)
(* jumble().                                                               *)
(***************************************************************************)

LEMMA JumbleMoves ==
  ASSUME IInv, StartJumble \/ JumbleRight \/ JumbleLeft \/ EndJumble
  PROVE  IInv'
<1>1. /\ pc # "compact" /\ TypeOK /\ HandlesIntact /\ ListsOK
      /\ UNCHANGED <<header, ptr, mem, local, remote, bump, last>>
      /\ pc' \in {"run", "jumble"} /\ pinned' \subseteq Mapping
      /\ left' \in Slot /\ right' \in Slot
  BY DEF StartJumble, JumbleRight, JumbleLeft, EndJumble, Jumbling, RightMoves,
         Live, IInv, TypeOK
<1>2. HandlesIntact' /\ ListsOK'
  BY <1>1 DEF HandlesIntact, Live, IsFree, ListsOK, Lost
<1>3. TypeOK'
  BY <1>1 DEF TypeOK
<1> QED BY <1>1, <1>2, <1>3 DEF IInv

LEMMA JumbleSwapStep == ASSUME IInv, JumbleSwap PROVE IInv'
<1>1. /\ pc = "jumble" /\ right > left /\ TypeOK /\ HandlesIntact /\ ListsOK
      /\ ~IsFree(left) /\ ~IsFree(right)
      /\ mem'    = [mem EXCEPT ![left] = mem[right], ![right] = mem[left]]
      /\ ptr'    = [ptr EXCEPT ![header[right]] = left, ![header[left]] = right]
      /\ header' = [header EXCEPT ![left] = header[right],
                                  ![right] = header[left]]
      /\ left' = left + 1 /\ right' = right - 1
      /\ UNCHANGED <<local, remote, bump, pinned, pc, last>>
  BY DEF JumbleSwap, Jumbling, Stuck, IInv
<1>2. /\ header[right] \in Mapping /\ ptr[header[right]] = right
      /\ header[left] \in Mapping /\ ptr[header[left]] = left
      /\ left # right /\ left \in Slot /\ right \in Slot
  BY <1>1 DEF TypeOK, HandlesIntact, IsFree
<1>3. TypeOK'
  <2>1. left' \in Slot /\ right' \in Slot
    BY <1>1, <1>2
  <2>2. /\ header' \in [Slot -> Mapping \cup {None}]
        /\ mem' \in [Slot -> Mapping \cup {None}]
        /\ ptr' \in [Mapping -> Slot \cup {None}]
    BY <1>1, <1>2 DEF TypeOK
  <2> QED BY <1>1, <2>1, <2>2 DEF TypeOK
<1>4. HandlesIntact'
  BY <1>1, <1>2 DEF HandlesIntact, Live, IsFree, TypeOK
<1>5. \A s \in Slot : IsFree(s)' <=> IsFree(s)
  BY <1>1, <1>2 DEF IsFree, TypeOK
<1>6. ListsOK'
  BY <1>1, <1>5 DEF ListsOK, Lost, TypeOK
<1> QED BY <1>1, <1>3, <1>4, <1>6 DEF IInv

-----------------------------------------------------------------------------
LEMMA StutterStep == ASSUME IInv, UNCHANGED vars PROVE IInv'
BY DEF vars, IInv, TypeOK, HandlesIntact, ListsOK, Lost, Live, IsFree, WalkOK,
       Pinned

LEMMA Inductive == Spec => []IInv
<1>1. IInv /\ [Next]_vars => IInv'
  BY HallocStep, HfreeStep, HreallocStep, StartStep, SkipStep, MoveStep, EndStep,
     JumbleMoves, JumbleSwapStep, StutterStep DEF Next, CompactStep, JumbleStep
<1> QED BY InitIInv, <1>1, PTL DEF Spec

\* Every variable keeps its type: in particular both fingers of compact and
\* jumble stay within the page (SizedPage.cpp:145, 232), and so does the bump
\* pointer compact computes (SizedPage.cpp:206-214).
THEOREM TypeCorrect == Spec => []TypeOK
<1>1. IInv => TypeOK
  BY DEF IInv
<1> QED BY Inductive, <1>1, PTL

\* Whatever calls and walks come in whatever order, a handle leads to its own
\* object and an object's header to its own handle (SizedPage.cpp:25-55,
\* 182-203, 250-278).
THEOREM HandlesStayIntact == Spec => []HandlesIntact
<1>1. IInv => HandlesIntact
  BY DEF IInv
<1> QED BY Inductive, <1>1, PTL

\* The free list and the bump pointer compact() leaves behind
\* (SizedPage.cpp:156-162, 206-218) never lead to an object.
THEOREM FreeStaysFree == Spec => []FreeIsFree
<1>1. IInv => FreeIsFree
  BY DEF IInv, FreeIsFree, ListsOK, TypeOK
<1> QED BY Inductive, <1>1, PTL

\* However often a page is compacted, and whatever is pinned, at most one of
\* its free slots is out of the allocator's reach (SizedPage.cpp:206-214).
THEOREM OneLostAtMost == Spec => []AtMostOneLost
<1>1. IInv => AtMostOneLost
  BY DEF IInv, AtMostOneLost, ListsOK
<1> QED BY Inductive, <1>1, PTL

\* When the fingers of compact() have met (SizedPage.cpp:145), what is left on
\* the right is pinned.
THEOREM CompactionCompletes == Spec => []Compacted
<1>1. IInv => Compacted
  BY DEF IInv, Compacted, WalkOK, TypeOK, Pinned
<1> QED BY Inductive, <1>1, PTL

\* The tests of compact() and jumble() for pinned mappings
\* (SizedPage.cpp:171, 239-247) keep every pinned object where it is.
THEOREM PinnedStayPut == Spec => PinnedStay
<1>1. IInv /\ [Next]_vars
        => [pc # "run" => \A m \in pinned : ptr'[m] = ptr[m]]_vars
  <2> SUFFICES ASSUME IInv, [Next]_vars, pc # "run", NEW m \in pinned
               PROVE  ptr'[m] = ptr[m]
    OBVIOUS
  <2>1. CASE Move
    <3>1. header[right] # m
      BY <2>1 DEF Move, Pinned
    <3> QED BY <2>1, <3>1 DEF Move, IInv, TypeOK
  <2>2. CASE JumbleSwap
    <3>1. header[right] # m /\ header[left] # m
      BY <2>2 DEF JumbleSwap, Stuck, Pinned
    <3> QED BY <2>2, <3>1 DEF JumbleSwap, IInv, TypeOK
  <2>3. CASE ~Move /\ ~JumbleSwap
    BY <2>3 DEF Next, CompactStep, JumbleStep, Halloc, Hfree, Hrealloc,
                StartCompact, SkipLive, SkipFree, SkipPinned, EndCompact,
                StartJumble, JumbleRight, JumbleLeft, EndJumble, vars
  <2> QED BY <2>1, <2>2, <2>3
<1> QED BY Inductive, <1>1, PTL DEF Spec, PinnedStay
=============================================================================
