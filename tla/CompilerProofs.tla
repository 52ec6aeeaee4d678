--------------------------- MODULE CompilerProofs ---------------------------
(***************************************************************************)
(* Proofs about Translation and CompiledCode, for any program that meets   *)
(* FunctionAssumption: every cycle of a compiled function has a poll, and, *)
(* in functions without switches that may return from every block, what    *)
(* loads, stores and external calls use is the address the object has.     *)
(***************************************************************************)
EXTENDS CompiledCode, DataLemmas, FiniteSetTheorems

-----------------------------------------------------------------------------
(***************************************************************************)
(* Closures: the least set that holds start and is closed.                 *)
(***************************************************************************)

\* A table is the function it was made from.
LEMMA TableIs == ASSUME NEW g PROVE Table(g) = g
BY DEF Table

\* What Closure computes is the least set that holds start and is closed.
Closed(before, T) == \A y \in T : before[y] \subseteq T
Least(start, before) ==
  {x \in DOMAIN before :
     \A T \in SUBSET DOMAIN before : start \subseteq T /\ Closed(before, T) => x \in T}
Graph(before) ==
  IsFiniteSet(DOMAIN before) /\ \A x \in DOMAIN before : before[x] \subseteq DOMAIN before

\* The recursion of Closure stops, and stops at the least closed set.
LEMMA ClosureIs ==
  ASSUME NEW before, Graph(before), NEW start \in SUBSET DOMAIN before
  PROVE  Closure(start, before) = Least(start, before)
<1> DEFINE D == DOMAIN before
           More(S) == S \cup UNION {before[x] : x \in S}
           Solves(G) == G = [S \in SUBSET D |-> IF More(S) = S THEN S ELSE G[More(S)]]
           F == [S \in SUBSET D |-> Least(S, before)]
           Grow == CHOOSE G : Solves(G)
<1>1. \A S \in SUBSET D : More(S) \in SUBSET D /\ S \subseteq More(S)
  BY DEF Graph
<1>2. ASSUME NEW S \in SUBSET D
      PROVE  Least(S, before) = IF More(S) = S THEN S ELSE Least(More(S), before)
  <2>1. CASE More(S) = S
    <3>1. Closed(before, S)
      BY <2>1 DEF Closed
    <3> QED BY <2>1, <3>1 DEF Least
  <2>2. CASE More(S) # S
    <3>1. ASSUME NEW T \in SUBSET D, Closed(before, T) PROVE S \subseteq T <=> More(S) \subseteq T
      BY <3>1 DEF Closed
    <3>2. Least(S, before) = Least(More(S), before)
      BY <3>1, <1>1, Zenon DEF Least
    <3> QED BY <2>2, <3>2
  <2> QED BY <2>1, <2>2
<1>3. Solves(F)
  <2>1. \A S \in SUBSET D : F[S] = IF More(S) = S THEN S ELSE F[More(S)]
    BY <1>1, <1>2
  <2> HIDE DEF More
  <2> QED BY <2>1, Zenon
<1>4. Solves(Grow)
  BY <1>3, Zenon
<1>5. Closure(start, before) = Grow[start]
  <2>1. start \cup DOMAIN before = D
    OBVIOUS
  <2> QED BY <2>1, Zenon DEF Closure
<1> DEFINE Wrong == {n \in Nat : \E S \in SUBSET D : Grow[S] # Least(S, before)
                                       /\ n = Cardinality(D) - Cardinality(S)}
<1> HIDE DEF Grow
<1>6. IsFiniteSet(D) /\ Cardinality(D) \in Nat
  BY FS_CardinalityType DEF Graph
<1>7. \A S \in SUBSET D : Grow[S] = IF More(S) = S THEN S ELSE Grow[More(S)]
  <2> HIDE DEF More
  <2> QED BY <1>4, Zenon
<1>8. \A S \in SUBSET D : IsFiniteSet(S) /\ Cardinality(S) \in Nat /\ Cardinality(S) <= Cardinality(D)
  BY <1>6, FS_Subset, FS_CardinalityType
<1>9. Wrong = {}
  <2> SUFFICES ASSUME Wrong # {} PROVE FALSE
    OBVIOUS
  <2>1. PICK n \in Wrong : \A m \in Wrong : n <= m
    <3>1. Wrong \subseteq Nat
      OBVIOUS
    <3> QED BY <3>1, LeastElement
  <2>2. PICK S \in SUBSET D : Grow[S] # Least(S, before) /\ n = Cardinality(D) - Cardinality(S)
    OBVIOUS
  <2> DEFINE M == More(S)
  <2>3. M # S /\ M \in SUBSET D /\ S \subseteq M
    BY <1>1, <1>2, <1>7, <2>2
  <2> HIDE DEF More, M
  <2>4. Grow[M] # Least(M, before)
    BY <1>2, <1>7, <2>2, <2>3 DEF M
  <2>5. Cardinality(S) < Cardinality(M)
    BY <1>8, <2>3, FS_Subset
  <2>6. Cardinality(D) - Cardinality(M) \in Nat /\ Cardinality(D) - Cardinality(M) < n
    BY <1>8, <2>2, <2>3, <2>5, <1>6
  <2>7. Cardinality(D) - Cardinality(M) \in Wrong
    BY <2>3, <2>4, <2>6
  <2> QED BY <2>1, <2>6, <2>7
<1>10. Grow[start] = Least(start, before)
  <2> SUFFICES ASSUME Grow[start] # Least(start, before) PROVE FALSE
    OBVIOUS
  <2>1. Cardinality(D) - Cardinality(start) \in Nat
    BY <1>6, <1>8
  <2> QED BY <1>9, <2>1
<1> QED BY <1>5, <1>10

\* A closure has its start in it, is closed, and stays in the graph.
LEMMA ClosureProps ==
  ASSUME NEW before, Graph(before), NEW start \in SUBSET DOMAIN before
  PROVE  /\ start \subseteq Closure(start, before)
         /\ Closure(start, before) \subseteq DOMAIN before
         /\ \A x \in Closure(start, before) : before[x] \subseteq Closure(start, before)
<1>1. Closure(start, before) = Least(start, before)
  BY ClosureIs
<1>2. \A x \in Least(start, before) : before[x] \subseteq Least(start, before)
  BY DEF Least, Closed, Graph
<1> QED BY <1>1, <1>2 DEF Least

\* Whatever is closed and holds start holds the closure.
LEMMA ClosureLeast ==
  ASSUME NEW before, Graph(before), NEW start \in SUBSET DOMAIN before,
         NEW T, start \subseteq T, \A y \in T \cap DOMAIN before : before[y] \subseteq T
  PROVE  Closure(start, before) \subseteq T
<1>1. Closure(start, before) = Least(start, before)
  BY ClosureIs
<1>2. T \cap DOMAIN before \in SUBSET DOMAIN before
  OBVIOUS
<1>3. start \subseteq T \cap DOMAIN before /\ Closed(before, T \cap DOMAIN before)
  BY DEF Closed, Graph
<1> QED BY <1>1, <1>2, <1>3 DEF Least

-----------------------------------------------------------------------------
(***************************************************************************)
(* Blocks, points, dominance and natural loops, as the code reads them off *)
(* DominatorTree and LoopInfo.                                             *)
(***************************************************************************)

\* Blocks are numbered from 1; points are pairs.
LEMMA BlocksAre ==
  ASSUME NEW f, Wellformed(f)
  PROVE  /\ Blocks(f) = 1 .. Len(f.code) /\ 1 \in Blocks(f) /\ IsFiniteSet(Blocks(f))
         /\ \A b \in Blocks(f) : /\ b \in Nat /\ Len(f.code[b]) \in Nat
                                 /\ DOMAIN f.code[b] = 1 .. Len(f.code[b])
<1>1. f.code \in Seq(Seq({At(f, p) : p \in Body(f)})) /\ f.code # <<>>
  BY DEF Wellformed
<1>2. Len(f.code) \in Nat /\ DOMAIN f.code = 1 .. Len(f.code)
      /\ \A b \in 1 .. Len(f.code) : f.code[b] \in Seq({At(f, p) : p \in Body(f)})
  BY <1>1, LenProperties, ElementOfSeq
<1>3. Len(f.code) # 0
  BY <1>1, EmptySeq
<1>4. IsFiniteSet(1 .. Len(f.code))
  BY <1>2, FS_Interval
<1>5. \A b \in 1 .. Len(f.code) : Len(f.code[b]) \in Nat /\ DOMAIN f.code[b] = 1 .. Len(f.code[b])
  BY <1>2, LenProperties
<1> QED BY <1>2, <1>3, <1>4, <1>5 DEF Blocks

\* A point is a block and a position in it, the terminator's included.
LEMMA PointsAre ==
  ASSUME NEW f, Wellformed(f)
  PROVE  /\ \A p : p \in Points(f) <=>
                     /\ p = <<p[1], p[2]>> /\ p[1] \in Blocks(f)
                     /\ p[2] \in 1 .. Len(f.code[p[1]]) + 1
         /\ \A p : p \in Body(f) <=> p = <<p[1], p[2]>> /\ p[1] \in Blocks(f) /\ p[2] \in 1 .. Len(f.code[p[1]])
<1>0. /\ Blocks(f) = 1 .. Len(f.code) /\ 1 \in Blocks(f)
      /\ \A b \in Blocks(f) : /\ b \in Nat /\ Len(f.code[b]) \in Nat
                              /\ DOMAIN f.code[b] = 1 .. Len(f.code[b])
  BY BlocksAre
<1>1. ASSUME NEW p
      PROVE  p \in Body(f) <=> p = <<p[1], p[2]>> /\ p[1] \in Blocks(f) /\ p[2] \in 1 .. Len(f.code[p[1]])
  BY <1>0 DEF Body
<1>2. ASSUME NEW p
      PROVE  p \in Points(f) <=>
                     /\ p = <<p[1], p[2]>> /\ p[1] \in Blocks(f)
                     /\ p[2] \in 1 .. Len(f.code[p[1]]) + 1
  <2>1. ASSUME p \in Points(f)
        PROVE  /\ p = <<p[1], p[2]>> /\ p[1] \in Blocks(f)
               /\ p[2] \in 1 .. Len(f.code[p[1]]) + 1
    BY <1>0, <1>1, <2>1 DEF Points, Term
  <2>2. ASSUME p = <<p[1], p[2]>>, p[1] \in Blocks(f), p[2] \in 1 .. Len(f.code[p[1]]) + 1
        PROVE  p \in Points(f)
    <3>1. p[2] \in 1 .. Len(f.code[p[1]]) \/ p[2] = Len(f.code[p[1]]) + 1
      BY <1>0, <2>2
    <3> QED BY <1>1, <2>2, <3>1, Zenon DEF Points, Term
  <2> QED BY <2>1, <2>2
<1> QED BY <1>1, <1>2

\* The graphs the analyses walk.
LEMMA SuccsGraph ==
  ASSUME NEW f, Wellformed(f), NEW D
  PROVE  /\ Graph([x \in Blocks(f) |-> Succs(f, x) \ D])
         /\ Graph([x \in Blocks(f) |-> Succs(f, x)])
         /\ Graph([x \in Blocks(f) |-> Forward(f, x)])
         /\ Graph([x \in Blocks(f) |-> Preds(f, x) \ D])
         /\ Graph([x \in Blocks(f) |-> Preds(f, x)])
<1>1. IsFiniteSet(Blocks(f)) /\ \A b \in Blocks(f) : Succs(f, b) \subseteq Blocks(f) /\ Preds(f, b) \subseteq Blocks(f)
  BY BlocksAre DEF Wellformed, Preds
<1> QED BY <1>1 DEF Graph, Forward

\* The blocks control reaches without passing b.
Around(f, b) == Closure({1} \ {b}, [x \in Blocks(f) |-> Succs(f, x) \ {b}])

\* Around(f, b) is what the entry reaches without going through b.
LEMMA AroundIs ==
  ASSUME NEW f, Wellformed(f), NEW b
  PROVE  /\ Around(f, b) \subseteq Blocks(f) \ {b}
         /\ b # 1 => 1 \in Around(f, b)
         /\ \A x \in Around(f, b) : \A s \in Succs(f, x) : s # b => s \in Around(f, b)
         /\ \A T : /\ b # 1 => 1 \in T
                   /\ \A x \in T \cap Around(f, b) : \A s \in Succs(f, x) : s # b => s \in T
                   => Around(f, b) \subseteq T
<1> DEFINE before == [x \in Blocks(f) |-> Succs(f, x) \ {b}]
           start == {1} \ {b}
<1>1. Graph(before) /\ DOMAIN before = Blocks(f)
  BY SuccsGraph
<1>2. start \in SUBSET DOMAIN before
  BY BlocksAre
<1>3. Around(f, b) = Closure(start, before)
  BY DEF Around
<1>7. \A x \in Blocks(f) : before[x] = Succs(f, x) \ {b}
  OBVIOUS
<1>8. start = {1} \ {b}
  OBVIOUS
<1> HIDE DEF before, start
<1>4. /\ start \subseteq Around(f, b) /\ Around(f, b) \subseteq Blocks(f)
      /\ \A x \in Around(f, b) : before[x] \subseteq Around(f, b)
  BY <1>1, <1>2, <1>3, ClosureProps
<1>5. b \notin Around(f, b)
  <2>1. \A y \in (Blocks(f) \ {b}) \cap DOMAIN before : before[y] \subseteq Blocks(f) \ {b}
    BY <1>7 DEF Wellformed
  <2>3. start \subseteq Blocks(f) \ {b}
    BY <1>1, <1>2, <1>8
  <2>2. Closure(start, before) \subseteq Blocks(f) \ {b}
    BY <1>1, <1>2, <2>1, <2>3, ClosureLeast
  <2> QED BY <1>3, <2>2
<1>6. ASSUME NEW T, b # 1 => 1 \in T,
             \A x \in T \cap Around(f, b) : \A s \in Succs(f, x) : s # b => s \in T
      PROVE  Around(f, b) \subseteq T
  <2> DEFINE U == T \cap Around(f, b)
  <2>1. \A y \in U \cap DOMAIN before : before[y] \subseteq U
    BY <1>1, <1>4, <1>6, <1>7
  <2>2. start \subseteq U
    BY <1>4, <1>6, <1>8
  <2> HIDE DEF U
  <2>3. Closure(start, before) \subseteq U
    BY <1>1, <1>2, <2>1, <2>2, ClosureLeast
  <2> QED BY <1>3, <2>3 DEF U
<1> QED BY <1>1, <1>4, <1>5, <1>6, <1>7, <1>8

\* Control reaches every block.
LEMMA AllReached ==
  ASSUME NEW f, Wellformed(f), NEW T, 1 \in T,
         \A x \in T \cap Blocks(f) : \A s \in Succs(f, x) : s \in T
  PROVE  Blocks(f) \subseteq T
<1> DEFINE before == [x \in Blocks(f) |-> Succs(f, x)]
<1>1. Graph(before) /\ {1} \in SUBSET DOMAIN before
  BY SuccsGraph, BlocksAre
<1>2. \A y \in T \cap DOMAIN before : before[y] \subseteq T
  OBVIOUS
<1>3. Closure({1}, before) \subseteq T
  BY <1>1, <1>2, ClosureLeast
<1> QED BY <1>3 DEF Wellformed

\* Dominance is an order, and the dominators of a block are a chain.
LEMMA DominatesAre ==
  ASSUME NEW f, NEW b, NEW c
  PROVE  Dominates(f, b, c) <=> c \notin Around(f, b)
BY DEF Dominates, Around

LEMMA DomRefl == ASSUME NEW f, Wellformed(f), NEW b PROVE Dominates(f, b, b)
BY DominatesAre, AroundIs

\* Dominance is an order ...
LEMMA DomTrans ==
  ASSUME NEW f, Wellformed(f), NEW a, NEW b, NEW c, Dominates(f, a, b), Dominates(f, b, c)
  PROVE  Dominates(f, a, c)
<1>1. b \notin Around(f, a) /\ c \notin Around(f, b)
  BY DominatesAre
<1>2. CASE b = 1
  <2>1. a = 1
    BY <1>1, <1>2, AroundIs
  <2> QED BY <1>1, <1>2, <2>1, DominatesAre
<1>3. CASE b # 1
  <2>1. Around(f, a) \subseteq Around(f, b)
    <3>1. a # 1 => 1 \in Around(f, b)
      BY <1>3, AroundIs
    <3>2. \A x \in Around(f, b) \cap Around(f, a) : \A s \in Succs(f, x) : s # a => s \in Around(f, b)
      BY <1>1, AroundIs
    <3> QED BY <3>1, <3>2, AroundIs
  <2> QED BY <1>1, <2>1, DominatesAre
<1> QED BY <1>2, <1>3

\* ... of the blocks ...
LEMMA DomAnti ==
  ASSUME NEW f, Wellformed(f), NEW a \in Blocks(f), NEW b \in Blocks(f),
         Dominates(f, a, b), Dominates(f, b, a)
  PROVE  a = b
<1> SUFFICES ASSUME a # b PROVE FALSE
  OBVIOUS
<1>1. b \notin Around(f, a) /\ a \notin Around(f, b)
  BY DominatesAre
<1>2. a # 1 /\ b # 1
  BY <1>1, AroundIs
<1> DEFINE T == Around(f, a) \cap Around(f, b)
<1>3. 1 \in T
  BY <1>2, AroundIs
<1>4. \A x \in T \cap Blocks(f) : \A s \in Succs(f, x) : s \in T
  BY <1>1, AroundIs
<1>5. a \in T
  BY <1>3, <1>4, AllReached
<1> QED BY <1>1, <1>5

\* ... in which the dominators of a block are a chain.
LEMMA DomChain ==
  ASSUME NEW f, Wellformed(f), NEW a, NEW b, NEW x \in Blocks(f),
         Dominates(f, a, x), Dominates(f, b, x)
  PROVE  Dominates(f, a, b) \/ Dominates(f, b, a)
<1> SUFFICES ASSUME b \in Around(f, a), a \in Around(f, b) PROVE FALSE
  BY DominatesAre
<1>1. x \notin Around(f, a) /\ x \notin Around(f, b)
  BY DominatesAre
<1> DEFINE T == Around(f, a) \cup Around(f, b)
<1>2. 1 \in T
  BY AroundIs
<1>3. \A y \in T \cap Blocks(f) : \A s \in Succs(f, y) : s \in T
  BY AroundIs
<1>4. x \in T
  BY <1>2, <1>3, AllReached
<1> QED BY <1>1, <1>4

\* What dominates a block and is not it dominates the block's predecessors.
LEMMA DomPreds ==
  ASSUME NEW f, Wellformed(f), NEW a, NEW b, NEW c \in Preds(f, b), Dominates(f, a, b), a # b
  PROVE  Dominates(f, a, c)
BY DominatesAre, AroundIs DEF Preds

\* A loop holds its header and latches, and the predecessors of what else is in
\* it; its header dominates it.
LEMMA LoopIs ==
  ASSUME NEW f, Wellformed(f), NEW h \in Blocks(f)
  PROVE  /\ h \in Loop(f, h) /\ Loop(f, h) \subseteq Blocks(f) /\ Latches(f, h) \subseteq Loop(f, h)
         /\ \A x \in Loop(f, h) : x # h => Preds(f, x) \subseteq Loop(f, h)
         /\ \A T : /\ h \in T /\ Latches(f, h) \subseteq T
                   /\ \A x \in T \cap Loop(f, h) : x # h => Preds(f, x) \subseteq T
                   => Loop(f, h) \subseteq T
<1> DEFINE before == [x \in Blocks(f) |-> Preds(f, x) \ {h}]
           start == Latches(f, h) \ {h}
           C == Closure(start, before)
<1>1. Graph(before) /\ start \in SUBSET DOMAIN before
  BY SuccsGraph DEF Latches, Preds
<1>2. Loop(f, h) = {h} \cup C
  BY DEF Loop
<1>3. \A x \in Blocks(f) : before[x] = Preds(f, x) \ {h}
  OBVIOUS
<1>4. DOMAIN before = Blocks(f)
  OBVIOUS
<1> HIDE DEF before, C
<1>5. start \subseteq C /\ C \subseteq Blocks(f) /\ \A x \in C : before[x] \subseteq C
  BY <1>1, <1>4, ClosureProps DEF C
<1>6. ASSUME NEW T, h \in T, Latches(f, h) \subseteq T,
             \A x \in T \cap Loop(f, h) : x # h => Preds(f, x) \subseteq T
      PROVE  Loop(f, h) \subseteq T
  <2> DEFINE U == (T \cap C) \ {h}
  <2>1. start \subseteq U
    BY <1>5, <1>6
  <2>2. \A y \in U \cap DOMAIN before : before[y] \subseteq U
    BY <1>2, <1>3, <1>4, <1>5, <1>6
  <2> HIDE DEF U, start
  <2>3. C \subseteq U
    BY <1>1, <2>1, <2>2, ClosureLeast DEF C
  <2> QED BY <1>2, <1>6, <2>3 DEF U
<1> QED BY <1>2, <1>3, <1>5, <1>6

\* The header dominates the blocks of its loop.
LEMMA LoopDom ==
  ASSUME NEW f, Wellformed(f), NEW h \in Blocks(f), NEW x \in Loop(f, h)
  PROVE  Dominates(f, h, x)
<1> DEFINE T == {y \in Blocks(f) : Dominates(f, h, y)}
<1>1. h \in T /\ Latches(f, h) \subseteq T
  BY DomRefl DEF Latches, Preds
<1>2. \A y \in T \cap Loop(f, h) : y # h => Preds(f, y) \subseteq T
  BY DomPreds DEF Preds
<1>3. Loop(f, h) \subseteq T
  BY <1>1, <1>2, LoopIs
<1> QED BY <1>3

\* Between the header of a loop and a block of it, in the order of dominance, all
\* blocks are in the loop.
LEMMA LoopHas ==
  ASSUME NEW f, Wellformed(f), NEW h \in Blocks(f), NEW k \in Blocks(f), NEW x \in Loop(f, h),
         x # h, Dominates(f, h, k), Dominates(f, k, x)
  PROVE  k \in Loop(f, h)
<1> SUFFICES ASSUME k \notin Loop(f, h) PROVE FALSE
  OBVIOUS
<1>1. h # k
  BY LoopIs
<1>2. h \in Around(f, k)
  BY <1>1, DomAnti, DominatesAre
<1> DEFINE T == {y \in Blocks(f) : y \in Loop(f, h) => y \in Around(f, k)}
<1>3. 1 \in T
  <2> SUFFICES ASSUME 1 \in Loop(f, h) PROVE 1 \in Around(f, k)
    BY BlocksAre
  <2>1. Dominates(f, h, 1)
    BY LoopDom
  <2>2. h = 1
    BY <2>1, AroundIs, DominatesAre
  <2> QED BY <1>2, <2>2
<1>4. \A y \in T \cap Blocks(f) : \A s \in Succs(f, y) : s \in T
  <2> SUFFICES ASSUME NEW y \in T, NEW s \in Succs(f, y), s \in Loop(f, h) PROVE s \in Around(f, k)
    BY DEF Wellformed
  <2>1. CASE s = h
    BY <1>2, <2>1
  <2>2. CASE s # h
    <3>1. y \in Loop(f, h)
      BY <2>2, LoopIs DEF Preds
    <3> QED BY <3>1, AroundIs
  <2> QED BY <2>1, <2>2
<1>6. x \in Blocks(f)
  BY LoopIs
<1>5. x \in T
  <2> HIDE DEF T
  <2> QED BY <1>3, <1>4, <1>6, AllReached
<1> QED BY <1>5, DominatesAre

\* Two loops that meet are one inside the other.
LEMMA LoopNest ==
  ASSUME NEW f, Wellformed(f), NEW h \in Blocks(f), NEW k \in Blocks(f),
         NEW x \in Loop(f, h) \cap Loop(f, k), Dominates(f, h, k)
  PROVE  Loop(f, k) \subseteq Loop(f, h)
<1>1. CASE h = k
  BY <1>1
<1>2. CASE h # k
  <2>1. ~Dominates(f, k, h)
    BY <1>2, DomAnti
  <2>2. k \in Loop(f, h)
    <3>1. Dominates(f, k, x)
      BY LoopDom
    <3>2. x # h
      BY <2>1, <3>1
    <3> QED BY <3>1, <3>2, LoopHas
  <2>3. Latches(f, k) \subseteq Loop(f, h)
    BY <1>2, <2>2, LoopIs DEF Latches
  <2>4. \A y \in Loop(f, h) \cap Loop(f, k) : y # k => Preds(f, y) \subseteq Loop(f, h)
    <3> SUFFICES ASSUME NEW y \in Loop(f, h) \cap Loop(f, k), y # k PROVE Preds(f, y) \subseteq Loop(f, h)
      OBVIOUS
    <3>1. y # h
      BY <2>1, LoopDom
    <3> QED BY <3>1, LoopIs
  <2> QED BY <2>2, <2>3, <2>4, LoopIs
<1> QED BY <1>1, <1>2

\* Of loops around one block one is around all the others.
LEMMA OutermostIn ==
  ASSUME NEW f, Wellformed(f), NEW loops \in SUBSET Blocks(f), loops # {},
         NEW x, \A h \in loops : x \in Loop(f, h)
  PROVE  Outermost(f, loops) \in loops
<1>1. \A h \in Blocks(f) : IsFiniteSet(Loop(f, h)) /\ Cardinality(Loop(f, h)) \in Nat
                           /\ Cardinality(Loop(f, h)) \in 0 .. Cardinality(Blocks(f))
                           /\ Cardinality(Blocks(f)) \in Nat
  BY LoopIs, BlocksAre, FS_Subset, FS_CardinalityType
<1> DEFINE Sizes == {Cardinality(Loop(f, h)) : h \in loops}
<1>2. PICK m \in Sizes : \A k \in Sizes : k <= m
  <2>1. Sizes \subseteq 0 .. Cardinality(Blocks(f)) /\ Sizes # {} /\ Cardinality(Blocks(f)) \in Nat
    BY <1>1
  <2> QED BY <2>1, GreatestElement
<1>3. PICK h \in loops : Cardinality(Loop(f, h)) = m
  OBVIOUS
<1>4. ASSUME NEW k \in loops PROVE Loop(f, k) \subseteq Loop(f, h)
  <2>1. x \in Loop(f, h) \cap Loop(f, k) /\ x \in Blocks(f) /\ h \in Blocks(f) /\ k \in Blocks(f)
    BY LoopIs
  <2>2. Dominates(f, h, k) \/ Dominates(f, k, h)
    BY <2>1, LoopDom, DomChain
  <2>3. Loop(f, k) \subseteq Loop(f, h) \/ Loop(f, h) \subseteq Loop(f, k)
    BY <2>1, <2>2, LoopNest
  <2>4. Cardinality(Loop(f, k)) <= Cardinality(Loop(f, h))
    BY <1>2, <1>3
  <2>5. CASE Loop(f, h) \subseteq Loop(f, k)
    <3>1. Loop(f, h) # Loop(f, k) => Cardinality(Loop(f, h)) < Cardinality(Loop(f, k))
      BY <1>1, <2>1, <2>5, FS_Subset
    <3>2. Cardinality(Loop(f, h)) \in Nat /\ Cardinality(Loop(f, k)) \in Nat
      BY <1>1, <2>1
    <3> QED BY <2>4, <3>1, <3>2
  <2> QED BY <2>3, <2>5
<1> QED BY <1>4, Zenon DEF Outermost

-----------------------------------------------------------------------------
(***************************************************************************)
(* The blocks of the function after translation, and how control goes      *)
(* between them.                                                           *)
(***************************************************************************)

\* Short sequences, which the provers do not put together by themselves.
LEMMA Concat1 == ASSUME NEW u PROVE <<u>> \o <<>> = <<u>>
BY ConcatEmptySeq

LEMMA Concat2 == ASSUME NEW u, NEW v PROVE <<u>> \o <<v>> = <<u, v>> /\ <<u, v>> \o <<>> = <<u, v>>
<1> DEFINE S == {u, v}
<1>1. /\ <<u>> \in Seq(S) /\ <<v>> \in Seq(S) /\ <<u, v>> \in Seq(S)
      /\ Len(<<u>>) = 1 /\ Len(<<v>>) = 1 /\ Len(<<u, v>>) = 2
  OBVIOUS
<1>2. /\ <<u>> \o <<v>> \in Seq(S) /\ Len(<<u>> \o <<v>>) = 2
      /\ \A i \in 1 .. 2 : (<<u>> \o <<v>>)[i] = IF i <= 1 THEN <<u>>[i] ELSE <<v>>[i - 1]
  BY <1>1, ConcatProperties
<1>3. \A i \in 1 .. 2 : (<<u>> \o <<v>>)[i] = <<u, v>>[i]
  BY <1>2
<1> QED BY <1>1, <1>2, <1>3, SeqEqual, ConcatEmptySeq

LEMMA Concat3 ==
  ASSUME NEW u, NEW v, NEW w PROVE <<u, v>> \o <<w>> = <<u, v, w>> /\ <<u, v, w>> \o <<>> = <<u, v, w>>
<1> DEFINE S == {u, v, w}
<1>1. /\ <<u, v>> \in Seq(S) /\ <<w>> \in Seq(S) /\ <<u, v, w>> \in Seq(S)
      /\ Len(<<u, v>>) = 2 /\ Len(<<w>>) = 1 /\ Len(<<u, v, w>>) = 3
  OBVIOUS
<1>2. /\ <<u, v>> \o <<w>> \in Seq(S) /\ Len(<<u, v>> \o <<w>>) = 3
      /\ \A i \in 1 .. 3 : (<<u, v>> \o <<w>>)[i] = IF i <= 2 THEN <<u, v>>[i] ELSE <<w>>[i - 2]
  BY <1>1, ConcatProperties
<1>3. \A i \in 1 .. 3 : (<<u, v>> \o <<w>>)[i] = <<u, v, w>>[i]
  BY <1>2
<1> QED BY <1>1, <1>2, <1>3, SeqEqual, ConcatEmptySeq

LEMMA Concat4 == ASSUME NEW u, NEW v, NEW w, NEW x PROVE <<u, v, w>> \o <<x>> = <<u, v, w, x>>
<1> DEFINE S == {u, v, w, x}
<1>1. /\ <<u, v, w>> \in Seq(S) /\ <<x>> \in Seq(S) /\ <<u, v, w, x>> \in Seq(S)
      /\ Len(<<u, v, w>>) = 3 /\ Len(<<x>>) = 1 /\ Len(<<u, v, w, x>>) = 4
  OBVIOUS
<1>2. /\ <<u, v, w>> \o <<x>> \in Seq(S) /\ Len(<<u, v, w>> \o <<x>>) = 4
      /\ \A i \in 1 .. 4 : (<<u, v, w>> \o <<x>>)[i] = IF i <= 3 THEN <<u, v, w>>[i] ELSE <<x>>[i - 3]
  BY <1>1, ConcatProperties
<1>3. \A i \in 1 .. 4 : (<<u, v, w>> \o <<x>>)[i] = <<u, v, w, x>>[i]
  BY <1>2
<1> QED BY <1>1, <1>2, <1>3, SeqEqual

\* The blocks from b to c, spelt out.
LEMMA WayIs ==
  ASSUME NEW f, NEW t, NEW alive, NEW b, NEW c
  PROVE  Way(f, t, alive, b, c) =
           IF ReleasedOn(f, t, alive, b, c) # {}
           THEN IF Polled(f, b, c) THEN <<<<b>>, <<b, c, "release">>, <<b, c, "poll">>, <<c>>>>
                ELSE <<<<b>>, <<b, c, "release">>, <<c>>>>
           ELSE IF Polled(f, b, c) THEN <<<<b>>, <<b, c, "poll">>, <<c>>>>
                ELSE <<<<b>>, <<c>>>>
<1> DEFINE s == <<b>>
           r == <<b, c, "release">>
           p == <<b, c, "poll">>
           e == <<c>>
<1>1. /\ (<<s>> \o <<r>> \o <<p>>) \o <<e>> = <<s, r, p, e>>
      /\ (<<s>> \o <<r>> \o <<>>) \o <<e>> = <<s, r, e>>
      /\ (<<s>> \o <<>> \o <<p>>) \o <<e>> = <<s, p, e>>
      /\ (<<s>> \o <<>> \o <<>>) \o <<e>> = <<s, e>>
  <2> HIDE DEF s, r, p, e
  <2>1. /\ <<s>> \o <<r>> = <<s, r>> /\ <<s>> \o <<>> = <<s>> /\ <<s>> \o <<p>> = <<s, p>>
        /\ <<s>> \o <<e>> = <<s, e>>
    BY Concat1, Concat2, Zenon
  <2>2. /\ <<s, r>> \o <<p>> = <<s, r, p>> /\ <<s, r>> \o <<>> = <<s, r>>
        /\ <<s, r>> \o <<e>> = <<s, r, e>> /\ <<s, p>> \o <<e>> = <<s, p, e>>
    BY Concat2, Concat3, Zenon
  <2>3. <<s, r, p>> \o <<e>> = <<s, r, p, e>>
    BY Concat4, Zenon
  <2> QED BY <2>1, <2>2, <2>3, Zenon
<1> QED BY <1>1, Zenon DEF Way

\* The blocks and the edges of the function after translation.
IsBlock(f, t, alive, x) ==
  \/ \E b \in Blocks(f) : x = <<b>>
  \/ \E b \in Blocks(f) : \E c \in Succs(f, b) :
       \/ ReleasedOn(f, t, alive, b, c) # {} /\ x = <<b, c, "release">>
       \/ Polled(f, b, c) /\ x = <<b, c, "poll">>
Goes(f, t, alive, x, y) ==
  \E b \in Blocks(f) : \E c \in Succs(f, b) :
    LET rel == ReleasedOn(f, t, alive, b, c) # {}
        pol == Polled(f, b, c)
    IN  \/ /\ x = <<b>>
           /\ y = IF rel THEN <<b, c, "release">> ELSE IF pol THEN <<b, c, "poll">> ELSE <<c>>
        \/ rel /\ x = <<b, c, "release">> /\ y = IF pol THEN <<b, c, "poll">> ELSE <<c>>
        \/ pol /\ x = <<b, c, "poll">> /\ y = <<c>>

\* x comes right before y in w.
Adjacent(w, x, y) == \E k \in 1 .. Len(w) - 1 : w[k] = x /\ y = w[k + 1]

\* What is next to what in a short sequence.
LEMMA Adjacent2 == ASSUME NEW u, NEW v, NEW x, NEW y PROVE Adjacent(<<u, v>>, x, y) <=> x = u /\ y = v
<1>1. \A k : k \in 1 .. Len(<<u, v>>) - 1 <=> k = 1
  OBVIOUS
<1>2. <<u, v>>[1] = u /\ <<u, v>>[1 + 1] = v
  OBVIOUS
<1> QED BY <1>1, <1>2, Zenon DEF Adjacent

LEMMA Adjacent3 ==
  ASSUME NEW u, NEW v, NEW w, NEW x, NEW y
  PROVE  Adjacent(<<u, v, w>>, x, y) <=> (x = u /\ y = v) \/ (x = v /\ y = w)
<1>1. \A k : k \in 1 .. Len(<<u, v, w>>) - 1 <=> k = 1 \/ k = 2
  OBVIOUS
<1>2. <<u, v, w>>[1] = u /\ <<u, v, w>>[1 + 1] = v /\ <<u, v, w>>[2] = v /\ <<u, v, w>>[2 + 1] = w
  OBVIOUS
<1> QED BY <1>1, <1>2, Zenon DEF Adjacent

LEMMA Adjacent4 ==
  ASSUME NEW u, NEW v, NEW w, NEW z, NEW x, NEW y
  PROVE  Adjacent(<<u, v, w, z>>, x, y) <=> (x = u /\ y = v) \/ (x = v /\ y = w) \/ (x = w /\ y = z)
<1>1. \A k : k \in 1 .. Len(<<u, v, w, z>>) - 1 <=> k = 1 \/ k = 2 \/ k = 3
  OBVIOUS
<1>2. /\ <<u, v, w, z>>[1] = u /\ <<u, v, w, z>>[1 + 1] = v /\ <<u, v, w, z>>[2] = v
      /\ <<u, v, w, z>>[2 + 1] = w /\ <<u, v, w, z>>[3] = w /\ <<u, v, w, z>>[3 + 1] = z
  OBVIOUS
<1> QED BY <1>1, <1>2, Zenon DEF Adjacent

LEMMA ToSet2 == ASSUME NEW u, NEW v PROVE ToSet(<<u, v>>) = {u, v}
BY DEF ToSet
LEMMA ToSet3 == ASSUME NEW u, NEW v, NEW w PROVE ToSet(<<u, v, w>>) = {u, v, w}
BY DEF ToSet
LEMMA ToSet4 == ASSUME NEW u, NEW v, NEW w, NEW x PROVE ToSet(<<u, v, w, x>>) = {u, v, w, x}
BY DEF ToSet

\* Laid(f, t, alive) has these blocks, and control goes like this between them.
LEMMA LaidIs ==
  ASSUME NEW f, NEW t, NEW alive, \A b \in Blocks(f) : Succs(f, b) \subseteq Blocks(f)
  PROVE  LET g == Laid(f, t, alive)
         IN  /\ \A x : x \in DOMAIN g.code <=> IsBlock(f, t, alive, x)
             /\ DOMAIN g.next = DOMAIN g.code
             /\ \A x \in DOMAIN g.code : \A y : y \in g.next[x] <=> Goes(f, t, alive, x, y)
             /\ \A x \in DOMAIN g.code :
                  g.code[x] = IF Len(x) = 1 THEN BlockCode(f, t, alive, x[1])
                              ELSE IF x[3] = "poll" THEN <<Ins("poll", None, None)>>
                              ELSE All(f, "release", ReleasedOn(f, t, alive, x[1], x[2]))
<1> DEFINE g     == Laid(f, t, alive)
           W(b, c) == Way(f, t, alive, b, c)
           ways  == UNION {{Way(f, t, alive, b, c) : c \in Succs(f, b)} : b \in Blocks(f)}
           every == {<<b>> : b \in Blocks(f)} \cup UNION {ToSet(w) : w \in ways}
           code == [b \in every |->
                  IF Len(b) = 1 THEN BlockCode(f, t, alive, b[1])
                  ELSE IF b[3] = "poll" THEN <<Ins("poll", None, None)>>
                  ELSE All(f, "release", ReleasedOn(f, t, alive, b[1], b[2]))]
           next == [b \in every |->
                  UNION {{w[k + 1] : k \in {j \in 1 .. Len(w) - 1 : w[j] = b}} : w \in ways}]
<1>1. g.code = code /\ g.next = next
  BY TableIs, Zenon DEF Laid
<1>2. ASSUME NEW b \in Blocks(f), NEW c \in Succs(f, b), NEW x
      PROVE  x \in ToSet(W(b, c)) <=>
               \/ x = <<b>> \/ x = <<c>>
               \/ ReleasedOn(f, t, alive, b, c) # {} /\ x = <<b, c, "release">>
               \/ Polled(f, b, c) /\ x = <<b, c, "poll">>
  <2> DEFINE s == <<b>>
             r == <<b, c, "release">>
             p == <<b, c, "poll">>
             e == <<c>>
             R == ReleasedOn(f, t, alive, b, c) # {}
             P == Polled(f, b, c)
  <2>0. W(b, c) = IF R THEN IF P THEN <<s, r, p, e>> ELSE <<s, r, e>>
                  ELSE IF P THEN <<s, p, e>> ELSE <<s, e>>
    BY WayIs
  <2> HIDE DEF s, r, p, e, W
  <2>1. ToSet(W(b, c)) = IF R THEN IF P THEN {s, r, p, e} ELSE {s, r, e}
                         ELSE IF P THEN {s, p, e} ELSE {s, e}
    <3> HIDE DEF R, P
    <3>1. /\ ToSet(<<s, r, p, e>>) = {s, r, p, e} /\ ToSet(<<s, r, e>>) = {s, r, e}
          /\ ToSet(<<s, p, e>>) = {s, p, e} /\ ToSet(<<s, e>>) = {s, e}
      <4>1. ToSet(<<s, r, p, e>>) = {s, r, p, e}
        BY ToSet4
      <4>2. ToSet(<<s, r, e>>) = {s, r, e} /\ ToSet(<<s, p, e>>) = {s, p, e}
        BY ToSet3
      <4>3. ToSet(<<s, e>>) = {s, e}
        BY ToSet2
      <4> QED BY <4>1, <4>2, <4>3, Zenon
    <3>2. CASE R /\ P
      BY <2>0, <3>1, <3>2
    <3>3. CASE R /\ ~P
      BY <2>0, <3>1, <3>3
    <3>4. CASE ~R /\ P
      BY <2>0, <3>1, <3>4
    <3>5. CASE ~R /\ ~P
      BY <2>0, <3>1, <3>5
    <3> QED BY <3>2, <3>3, <3>4, <3>5
  <2>2. x \in ToSet(W(b, c)) <=> x = s \/ x = e \/ (R /\ x = r) \/ (P /\ x = p)
    <3> HIDE DEF R, P
    <3> QED BY <2>1
  <2> QED BY <2>2, Zenon DEF s, r, p, e
<1>8. ASSUME NEW w PROVE w \in ways <=> \E b \in Blocks(f) : \E c \in Succs(f, b) : w = W(b, c)
  OBVIOUS
<1>3. ASSUME NEW x PROVE x \in every <=> IsBlock(f, t, alive, x)
  <2>1. x \in every <=> \/ \E b \in Blocks(f) : x = <<b>>
                        \/ \E b \in Blocks(f) : \E c \in Succs(f, b) : x \in ToSet(W(b, c))
    <3> HIDE DEF ways, W
    <3>1. x \in every <=> (\E b \in Blocks(f) : x = <<b>>) \/ \E w \in ways : x \in ToSet(w)
      OBVIOUS
    <3> QED BY <1>8, <3>1, Zenon
  <2> HIDE DEF W, every
  <2> QED BY <1>2, <2>1 DEF IsBlock
<1>4. ASSUME NEW b \in Blocks(f), NEW c \in Succs(f, b), NEW x, NEW y
      PROVE  Adjacent(W(b, c), x, y) <=>
             LET rel == ReleasedOn(f, t, alive, b, c) # {}
                 pol == Polled(f, b, c)
             IN  \/ /\ x = <<b>>
                    /\ y = IF rel THEN <<b, c, "release">> ELSE IF pol THEN <<b, c, "poll">> ELSE <<c>>
                 \/ rel /\ x = <<b, c, "release">> /\ y = IF pol THEN <<b, c, "poll">> ELSE <<c>>
                 \/ pol /\ x = <<b, c, "poll">> /\ y = <<c>>
  <2> DEFINE s == <<b>>
             r == <<b, c, "release">>
             p == <<b, c, "poll">>
             e == <<c>>
             R == ReleasedOn(f, t, alive, b, c) # {}
             P == Polled(f, b, c)
  <2>0. W(b, c) = IF R THEN IF P THEN <<s, r, p, e>> ELSE <<s, r, e>>
                  ELSE IF P THEN <<s, p, e>> ELSE <<s, e>>
    BY WayIs
  <2> HIDE DEF s, r, p, e, W
  <2>1. Adjacent(W(b, c), x, y) <=>
          IF R THEN IF P THEN (x = s /\ y = r) \/ (x = r /\ y = p) \/ (x = p /\ y = e)
                    ELSE (x = s /\ y = r) \/ (x = r /\ y = e)
          ELSE IF P THEN (x = s /\ y = p) \/ (x = p /\ y = e) ELSE x = s /\ y = e
    <3> HIDE DEF R, P
    <3>1. CASE R /\ P
      <4>1. W(b, c) = <<s, r, p, e>>
        BY <2>0, <3>1
      <4>2. Adjacent(W(b, c), x, y) <=> Adjacent(<<s, r, p, e>>, x, y)
        BY <4>1, Zenon
      <4> QED BY <3>1, <4>2, Adjacent4
    <3>2. CASE R /\ ~P
      <4>1. W(b, c) = <<s, r, e>>
        BY <2>0, <3>2
      <4>2. Adjacent(W(b, c), x, y) <=> Adjacent(<<s, r, e>>, x, y)
        BY <4>1, Zenon
      <4> QED BY <3>2, <4>2, Adjacent3
    <3>3. CASE ~R /\ P
      <4>1. W(b, c) = <<s, p, e>>
        BY <2>0, <3>3
      <4>2. Adjacent(W(b, c), x, y) <=> Adjacent(<<s, p, e>>, x, y)
        BY <4>1, Zenon
      <4> QED BY <3>3, <4>2, Adjacent3
    <3>4. CASE ~R /\ ~P
      <4>1. W(b, c) = <<s, e>>
        BY <2>0, <3>4
      <4>2. Adjacent(W(b, c), x, y) <=> Adjacent(<<s, e>>, x, y)
        BY <4>1, Zenon
      <4> QED BY <3>4, <4>2, Adjacent2
    <3> QED BY <3>1, <3>2, <3>3, <3>4, Zenon
  <2> QED BY <2>1, Zenon DEF s, r, p, e
<1>5. ASSUME NEW x \in every, NEW y PROVE y \in next[x] <=> Goes(f, t, alive, x, y)
  <2>1. y \in next[x] <=> \E b \in Blocks(f) : \E c \in Succs(f, b) :
          Adjacent(W(b, c), x, y)
    <3> HIDE DEF every, ways, W
    <3>2. next[x] = UNION {{w[k + 1] : k \in {j \in 1 .. Len(w) - 1 : w[j] = x}} : w \in ways}
      BY Zenon
    <3>1. y \in next[x] <=> \E w \in ways : Adjacent(w, x, y)
      BY <3>2 DEF Adjacent
    <3> HIDE DEF next
    <3> QED BY <1>8, <3>1
  <2> HIDE DEF W, next, every
  <2> QED BY <1>4, <2>1 DEF Goes
<1>6. DOMAIN code = every /\ DOMAIN next = every
  OBVIOUS
<1>7. \A x \in every : code[x] = IF Len(x) = 1 THEN BlockCode(f, t, alive, x[1])
                              ELSE IF x[3] = "poll" THEN <<Ins("poll", None, None)>>
                              ELSE All(f, "release", ReleasedOn(f, t, alive, x[1], x[2]))
  OBVIOUS
<1> HIDE DEF code, next, every
<1> QED BY <1>1, <1>3, <1>5, <1>6, <1>7, Zenon

\* The image of a finite set is finite.
LEMMA ImageFinite ==
  ASSUME NEW h, NEW D, h = [x \in D |-> h[x]], IsFiniteSet(D)
  PROVE  IsFiniteSet({h[x] : x \in D})
<1> DEFINE T == {h[x] : x \in D}
<1>1. h \in Surjection(D, T)
  BY DEF Surjection
<1> QED BY <1>1, FS_Surjection

\* There are finitely many of them.
LEMMA LaidFinite ==
  ASSUME NEW f, Wellformed(f), NEW t, NEW alive
  PROVE  /\ IsFiniteSet(DOMAIN Laid(f, t, alive).code)
         /\ \A b \in Blocks(f) : Succs(f, b) \subseteq Blocks(f)
<1> DEFINE B == Blocks(f)
           o == [b \in B |-> <<b>>]
           r == [e \in B \X B |-> <<e[1], e[2], "release">>]
           p == [e \in B \X B |-> <<e[1], e[2], "poll">>]
           All3 == {o[b] : b \in B} \cup {r[e] : e \in B \X B} \cup {p[e] : e \in B \X B}
<1>1. IsFiniteSet(B) /\ IsFiniteSet(B \X B) /\ \A b \in B : Succs(f, b) \subseteq B
  BY BlocksAre, FS_Product DEF Wellformed
<1>2. IsFiniteSet(All3)
  <2>1. IsFiniteSet({o[b] : b \in B}) /\ IsFiniteSet({r[e] : e \in B \X B}) /\ IsFiniteSet({p[e] : e \in B \X B})
    BY <1>1, ImageFinite
  <2> QED BY <2>1, FS_Union
<1>3. \A x : IsBlock(f, t, alive, x) => x \in All3
  <2> SUFFICES ASSUME NEW x, IsBlock(f, t, alive, x) PROVE x \in All3
    OBVIOUS
  <2>1. CASE \E b \in B : x = <<b>>
    <3>1. PICK b \in B : x = <<b>>
      BY <2>1
    <3>2. x = o[b]
      BY <3>1
    <3> QED BY <3>2
  <2>2. CASE \E b \in B : \E c \in Succs(f, b) : x = <<b, c, "release">> \/ x = <<b, c, "poll">>
    <3>10. PICK b \in B : \E c \in Succs(f, b) : x = <<b, c, "release">> \/ x = <<b, c, "poll">>
      BY <2>2
    <3>1. PICK c \in Succs(f, b) : x = <<b, c, "release">> \/ x = <<b, c, "poll">>
      BY <3>10
    <3>2. <<b, c>> \in B \X B /\ r[<<b, c>>] = <<b, c, "release">> /\ p[<<b, c>>] = <<b, c, "poll">>
      BY <1>1
    <3> QED BY <3>1, <3>2
  <2> QED BY <2>1, <2>2 DEF IsBlock
<1>4. DOMAIN Laid(f, t, alive).code \subseteq All3
  BY <1>1, <1>3, LaidIs
<1> QED BY <1>1, <1>2, <1>4, FS_Subset

\* A way without polls goes forward in a reducible function, so it never returns.
LEMMA CyclesPoll ==
  ASSUME NEW f, Wellformed(f), Reducible(f), NEW t, NEW alive, NEW c,
         c.code = Laid(f, t, alive).code, c.next = Laid(f, t, alive).next
  PROVE  \A b \in PollFree(c) :
           b \notin Closure(c.next[b] \cap PollFree(c),
                            [x \in PollFree(c) |-> c.next[x] \cap PollFree(c)])
<1> DEFINE g == Laid(f, t, alive)
           P == PollFree(c)
           before == [x \in P |-> c.next[x] \cap P]
           F(b) == Closure(Forward(f, b), [x \in Blocks(f) |-> Forward(f, x)])
<1>1. P = {b \in DOMAIN g.code : \A i \in DOMAIN g.code[b] : g.code[b][i].op # "poll"}
  BY DEF PollFree
<1>2. /\ IsFiniteSet(DOMAIN g.code) /\ \A b \in Blocks(f) : Succs(f, b) \subseteq Blocks(f)
      /\ \A x : x \in DOMAIN g.code <=> IsBlock(f, t, alive, x)
      /\ \A x \in DOMAIN g.code : \A y : y \in g.next[x] <=> Goes(f, t, alive, x, y)
      /\ \A x \in DOMAIN g.code : Len(x) # 1 /\ x[3] = "poll" => g.code[x] = <<Ins("poll", None, None)>>
  <2>1. IsFiniteSet(DOMAIN g.code) /\ \A b \in Blocks(f) : Succs(f, b) \subseteq Blocks(f)
    BY LaidFinite
  <2> HIDE DEF g
  <2> QED BY <2>1, LaidIs DEF g
<1>11. c.next = g.next
  OBVIOUS
<1> HIDE DEF g
<1>3. \A a, d : <<a, d, "poll">> \notin P
  <2> SUFFICES ASSUME NEW a, NEW d, <<a, d, "poll">> \in P PROVE FALSE
    OBVIOUS
  <2>1. g.code[<<a, d, "poll">>] = <<Ins("poll", None, None)>>
    <3>1. Len(<<a, d, "poll">>) # 1 /\ <<a, d, "poll">>[3] = "poll"
      OBVIOUS
    <3> QED BY <1>1, <1>2, <3>1
  <2>2. <<Ins("poll", None, None)>>[1].op = "poll" /\ 1 \in DOMAIN <<Ins("poll", None, None)>>
    BY DEF Ins
  <2> QED BY <1>1, <2>1, <2>2
<1>4. \A x \in P : before[x] = g.next[x] \cap P
  BY <1>11
<1>5. Graph(before) /\ DOMAIN before = P
  BY <1>1, <1>2, FS_Subset DEF Graph
<1> HIDE DEF before, P
<1>6. ASSUME NEW b \in Blocks(f)
      PROVE  /\ Forward(f, b) \subseteq F(b) /\ F(b) \subseteq Blocks(f)
             /\ \A x \in F(b) : Forward(f, x) \subseteq F(b)
             /\ b \notin F(b)
  <2> DEFINE fw == [x \in Blocks(f) |-> Forward(f, x)]
  <2>1. Graph(fw)
    BY SuccsGraph
  <2>2. Forward(f, b) \in SUBSET DOMAIN fw
    BY <1>2 DEF Forward
  <2>3. \A x \in Blocks(f) : fw[x] = Forward(f, x)
    OBVIOUS
  <2>4. DOMAIN fw = Blocks(f)
    OBVIOUS
  <2>5. b \notin F(b)
    BY DEF Reducible
  <2> HIDE DEF fw
  <2>6. /\ Forward(f, b) \subseteq Closure(Forward(f, b), fw)
        /\ Closure(Forward(f, b), fw) \subseteq Blocks(f)
        /\ \A x \in Closure(Forward(f, b), fw) : fw[x] \subseteq Closure(Forward(f, b), fw)
    BY <2>1, <2>2, <2>4, ClosureProps
  <2>7. Closure(Forward(f, b), fw) = F(b)
    BY DEF fw
  <2> HIDE DEF F
  <2> QED BY <2>3, <2>5, <2>6, <2>7
<1> HIDE DEF F
<1>7. ASSUME NEW b \in Blocks(f)
      PROVE  LET T == {<<d>> : d \in F(b)} \cup UNION {{<<d, e, "release">> : e \in Blocks(f)} : d \in F(b) \cup {b}}
             IN  /\ <<b>> \in P => g.next[<<b>>] \cap P \subseteq T
                 /\ \A y \in T \cap P : g.next[y] \cap P \subseteq T
  <2> DEFINE T == {<<d>> : d \in F(b)} \cup UNION {{<<d, e, "release">> : e \in Blocks(f)} : d \in F(b) \cup {b}}
  <2>1. ASSUME NEW d \in F(b) \cup {b}, <<d>> \in P, NEW y \in g.next[<<d>>] \cap P PROVE y \in T
    <3>1. Goes(f, t, alive, <<d>>, y)
      BY <1>1, <1>2, <2>1 DEF P
    <3>20. PICK a \in Blocks(f) : \E e \in Succs(f, a) :
            <<d>> = <<a>> /\ y = IF ReleasedOn(f, t, alive, a, e) # {} THEN <<a, e, "release">>
                                 ELSE IF Polled(f, a, e) THEN <<a, e, "poll">> ELSE <<e>>
      BY <3>1 DEF Goes
    <3>2. PICK e \in Succs(f, a) :
            <<d>> = <<a>> /\ y = IF ReleasedOn(f, t, alive, a, e) # {} THEN <<a, e, "release">>
                                 ELSE IF Polled(f, a, e) THEN <<a, e, "poll">> ELSE <<e>>
      BY <3>20
    <3>3. d = a /\ e \in Blocks(f)
      BY <1>2, <3>2
    <3>4. CASE y = <<a, e, "release">>
      BY <3>3, <3>4
    <3>5. CASE y = <<a, e, "poll">>
      BY <1>3, <3>5
    <3>6. CASE y = <<e>> /\ ~Polled(f, a, e)
      <4>1. e \in Forward(f, d)
        BY <3>2, <3>3, <3>6 DEF Forward, Polled
      <4>2. e \in F(b)
        BY <1>6, <4>1
      <4> QED BY <3>6, <4>2
    <3> QED BY <3>2, <3>4, <3>5, <3>6
  <2>2. ASSUME NEW d \in F(b) \cup {b}, NEW e \in Blocks(f), <<d, e, "release">> \in P,
               NEW y \in g.next[<<d, e, "release">>] \cap P PROVE y \in T
    <3>1. Goes(f, t, alive, <<d, e, "release">>, y)
      BY <1>1, <1>2, <2>2 DEF P
    <3>20. PICK a \in Blocks(f) : \E n \in Succs(f, a) :
            <<d, e, "release">> = <<a, n, "release">>
            /\ y = IF Polled(f, a, n) THEN <<a, n, "poll">> ELSE <<n>>
      BY <3>1 DEF Goes
    <3>2. PICK n \in Succs(f, a) :
            <<d, e, "release">> = <<a, n, "release">>
            /\ y = IF Polled(f, a, n) THEN <<a, n, "poll">> ELSE <<n>>
      BY <3>20
    <3>3. d = a /\ e = n
      BY <3>2
    <3>5. CASE y = <<a, n, "poll">>
      BY <1>3, <3>5
    <3>6. CASE y = <<n>> /\ ~Polled(f, a, n)
      <4>1. n \in Forward(f, d)
        BY <3>2, <3>3, <3>6 DEF Forward, Polled
      <4>2. n \in F(b)
        BY <1>6, <4>1
      <4> QED BY <3>6, <4>2
    <3> QED BY <3>2, <3>5, <3>6
  <2>3. <<b>> \in P => g.next[<<b>>] \cap P \subseteq T
    BY <2>1
  <2>4. \A y \in T \cap P : g.next[y] \cap P \subseteq T
    BY <2>1, <2>2
  <2> QED BY <2>3, <2>4
<1>8. ASSUME NEW b \in P PROVE b \notin Closure(g.next[b] \cap P, before)
  <2>0. g.next[b] \cap P \in SUBSET DOMAIN before
    BY <1>5
  <2>1. CASE \E a \in Blocks(f) : b = <<a>>
    <3>1. PICK a \in Blocks(f) : b = <<a>>
      BY <2>1
    <3> DEFINE T == {<<d>> : d \in F(a)} \cup UNION {{<<d, e, "release">> : e \in Blocks(f)} : d \in F(a) \cup {a}}
    <3>2. g.next[b] \cap P \subseteq T /\ \A y \in T \cap P : g.next[y] \cap P \subseteq T
      BY <1>7, <3>1
    <3>3. b \notin T
      BY <1>6, <3>1
    <3> HIDE DEF T
    <3>4. Closure(g.next[b] \cap P, before) \subseteq T
      BY <1>4, <1>5, <2>0, <3>2, ClosureLeast
    <3> QED BY <3>3, <3>4
  <2>2. CASE \E a \in Blocks(f) : \E n \in Succs(f, a) : b = <<a, n, "release">>
    <3>10. PICK a \in Blocks(f) : \E n \in Succs(f, a) : b = <<a, n, "release">>
      BY <2>2
    <3>1. PICK n \in Succs(f, a) : b = <<a, n, "release">>
      BY <3>10
    <3>2. n \in Blocks(f)
      BY <1>2
    <3> DEFINE T == {<<d>> : d \in F(n)} \cup UNION {{<<d, e, "release">> : e \in Blocks(f)} : d \in F(n) \cup {n}}
               U == IF Polled(f, a, n) THEN {} ELSE T \cup {<<n>>}
    <3>3. (<<n>> \in P => g.next[<<n>>] \cap P \subseteq T) /\ \A y \in T \cap P : g.next[y] \cap P \subseteq T
      BY <1>7, <3>2
    <3>4. \A y \in g.next[b] \cap P : ~Polled(f, a, n) /\ y = <<n>>
      <4> SUFFICES ASSUME NEW y \in g.next[b] \cap P PROVE ~Polled(f, a, n) /\ y = <<n>>
        OBVIOUS
      <4>1. Goes(f, t, alive, b, y)
        BY <1>1, <1>2 DEF P
      <4>20. PICK d \in Blocks(f) : \E e \in Succs(f, d) :
              <<a, n, "release">> = <<d, e, "release">>
              /\ y = IF Polled(f, d, e) THEN <<d, e, "poll">> ELSE <<e>>
        BY <3>1, <4>1 DEF Goes
      <4>2. PICK e \in Succs(f, d) :
              <<a, n, "release">> = <<d, e, "release">>
              /\ y = IF Polled(f, d, e) THEN <<d, e, "poll">> ELSE <<e>>
        BY <4>20
      <4>3. a = d /\ n = e
        BY <4>2
      <4> QED BY <1>3, <4>2, <4>3
    <3>5. b \notin U
      <4> SUFFICES ASSUME ~Polled(f, a, n), b \in T PROVE FALSE
        BY <3>1
      <4>1. n \in Forward(f, a)
        BY DEF Forward, Polled
      <4>2. a \in F(n) \cup {n}
        BY <3>1
      <4>3. n \in F(n)
        BY <1>6, <3>2, <4>1, <4>2
      <4> QED BY <1>6, <3>2, <4>3
    <3>6. g.next[b] \cap P \subseteq U /\ \A y \in U \cap P : g.next[y] \cap P \subseteq U
      <4> HIDE DEF T
      <4> QED BY <3>3, <3>4
    <3> HIDE DEF U
    <3>7. Closure(g.next[b] \cap P, before) \subseteq U
      BY <1>4, <1>5, <2>0, <3>6, ClosureLeast
    <3> QED BY <3>5, <3>7
  <2>3. \A a, n : b # <<a, n, "poll">>
    BY <1>3
  <2> QED BY <1>1, <1>2, <2>1, <2>2, <2>3 DEF IsBlock, P
<1> QED BY <1>8, <1>11 DEF before, P

\* No cycle of the blocks a compiled function runs through is without a poll
\* (PlaceBackedgeSafepoints polls on the edges from latches to headers).
THEOREM PollsOnEveryCycle == CodeSpec => []EveryCyclePolls
<1> DEFINE Inside == fn \in DOMAIN Function
<1>1. CodeInit => Inside
  BY DEF CodeInit
<1>2. Inside /\ [CodeNext]_codeVars => Inside'
  BY DEF CodeNext, codeVars, Define, Translate, Release, Statepoint, Jump
<1>3. Inside => EveryCyclePolls
  <2> SUFFICES ASSUME Inside PROVE EveryCyclePolls
    OBVIOUS
  <2> DEFINE f == Function[fn]
             t == Forest(f)
             alive == Alive(f, t)
             g == Laid(f, t, alive)
  <2>1. Wellformed(f) /\ Reducible(f)
    BY FunctionAssumption DEF Range
  <2>2. Code = Lowered(g)
    <3>1. Compiled = [n \in DOMAIN Function |-> Compile(Function[n])]
      BY TableIs, Zenon DEF Compiled
    <3> QED BY <3>1 DEF Code, Compile, Instrument, Translated
  <2>3. Code = [code |-> g.code, next |-> g.next, cell |-> Cells(g), trs |-> Translations(g)]
    BY <2>2, Zenon DEF Lowered
  <2>4. Code.code = g.code /\ Code.next = g.next
    BY <2>3
  <2> HIDE DEF f, t, alive
  <2>5. \A b \in PollFree(Code) :
          b \notin Closure(Code.next[b] \cap PollFree(Code),
                           [x \in PollFree(Code) |-> Code.next[x] \cap PollFree(Code)])
    <3> HIDE DEF g
    <3> DEFINE c == Code
    <3>1. c.code = Laid(f, t, alive).code /\ c.next = Laid(f, t, alive).next
      BY <2>4 DEF g
    <3> HIDE DEF c
    <3>2. \A b \in PollFree(c) :
            b \notin Closure(c.next[b] \cap PollFree(c),
                             [x \in PollFree(c) |-> c.next[x] \cap PollFree(c)])
      BY <2>1, <3>1, CyclesPoll
    <3> QED BY <3>2 DEF c
  <2> QED BY <2>5, Zenon DEF EveryCyclePolls
<1> QED BY <1>1, <1>2, <1>3, PTL DEF CodeSpec

-----------------------------------------------------------------------------
(***************************************************************************)
(* The translation forest: every translation is made at a point that       *)
(* all its users are reached through, after the pointer it is made from.   *)
(***************************************************************************)

\* Precedence is a strict order on the points, and <<1, 1>> is the first.
LEMMA PrecTrans ==
  ASSUME NEW f, Wellformed(f), NEW p \in Points(f), NEW q \in Points(f), NEW r \in Points(f),
         Precedes(f, p, q), Precedes(f, q, r)
  PROVE  Precedes(f, p, r)
<1>1. /\ p[1] \in Blocks(f) /\ q[1] \in Blocks(f) /\ r[1] \in Blocks(f)
      /\ p[2] \in Nat /\ q[2] \in Nat /\ r[2] \in Nat
  BY PointsAre, BlocksAre
<1>2. CASE p[1] = q[1] /\ q[1] = r[1]
  BY <1>1, <1>2 DEF Precedes
<1>3. CASE p[1] = q[1] /\ q[1] # r[1]
  BY <1>3 DEF Precedes
<1>4. CASE p[1] # q[1] /\ q[1] = r[1]
  BY <1>4 DEF Precedes
<1>5. CASE p[1] # q[1] /\ q[1] # r[1]
  <2>1. Dominates(f, p[1], q[1]) /\ Dominates(f, q[1], r[1])
    BY <1>5 DEF Precedes
  <2>2. p[1] # r[1]
    BY <1>1, <1>5, <2>1, DomAnti
  <2>3. Dominates(f, p[1], r[1])
    BY <1>1, <2>1, DomTrans
  <2> QED BY <2>2, <2>3 DEF Precedes
<1> QED BY <1>2, <1>3, <1>4, <1>5

\* No instruction precedes itself.
LEMMA PrecIrr ==
  ASSUME NEW f, Wellformed(f), NEW p \in Points(f) PROVE ~Precedes(f, p, p)
<1>1. p[2] \in Nat
  BY PointsAre, BlocksAre
<1> QED BY <1>1 DEF Precedes

\* The first point of a function.
LEMMA FirstPoint ==
  ASSUME NEW f, Wellformed(f)
  PROVE  /\ <<1, 1>> \in Points(f)
         /\ \A p \in Points(f) : ~Precedes(f, p, <<1, 1>>)
         /\ \A p \in Points(f) : p = <<1, 1>> \/ Precedes(f, <<1, 1>>, p)
<1>1. <<1, 1>> \in Points(f)
  BY PointsAre, BlocksAre
<1>2. ASSUME NEW p \in Points(f) PROVE ~Precedes(f, p, <<1, 1>>)
  <2>1. p[2] \in Nat /\ ~(p[2] < 1)
    BY PointsAre, BlocksAre
  <2>2. p[1] # 1 => ~Dominates(f, p[1], 1)
    BY AroundIs, DominatesAre
  <2> QED BY <2>1, <2>2 DEF Precedes
<1>3. ASSUME NEW p \in Points(f) PROVE p = <<1, 1>> \/ Precedes(f, <<1, 1>>, p)
  <2>1. p = <<p[1], p[2]>> /\ p[2] \in Nat /\ p[2] >= 1
    BY PointsAre, BlocksAre
  <2>2. Dominates(f, 1, p[1])
    <3>1. Around(f, 1) \subseteq {}
      BY AroundIs
    <3> QED BY <3>1, DominatesAre
  <2>3. CASE p[1] = 1
    <3>1. p[2] = 1 \/ 1 < p[2]
      BY <2>1
    <3> QED BY <2>1, <2>3, <3>1 DEF Precedes
  <2>4. CASE p[1] # 1
    BY <2>2, <2>4 DEF Precedes
  <2> QED BY <2>3, <2>4
<1> QED BY <1>1, <1>2, <1>3

\* There are finitely many instructions.
LEMMA BodyFinite ==
  ASSUME NEW f, Wellformed(f) PROVE IsFiniteSet(Body(f)) /\ Body(f) \subseteq Points(f)
<1> DEFINE row(b) == [i \in DOMAIN f.code[b] |-> <<b, i>>]
           rows == [b \in Blocks(f) |-> {<<b, i>> : i \in DOMAIN f.code[b]}]
<1>1. IsFiniteSet(Blocks(f)) /\ \A b \in Blocks(f) : IsFiniteSet(DOMAIN f.code[b])
  BY BlocksAre, FS_Interval
<1>2. ASSUME NEW b \in Blocks(f) PROVE IsFiniteSet(rows[b])
  <2>1. IsFiniteSet({row(b)[i] : i \in DOMAIN f.code[b]})
    BY <1>1, ImageFinite
  <2>2. {row(b)[i] : i \in DOMAIN f.code[b]} = rows[b]
    OBVIOUS
  <2> QED BY <2>1, <2>2
<1>3. IsFiniteSet({rows[b] : b \in Blocks(f)})
  BY <1>1, ImageFinite
<1>4. Body(f) = UNION {rows[b] : b \in Blocks(f)}
  BY DEF Body
<1> HIDE DEF rows
<1>5. IsFiniteSet(Body(f))
  BY <1>2, <1>3, <1>4, FS_UNION
<1> QED BY <1>5 DEF Points

\* A set of points has one that none of the others precedes.
LEMMA FirstExists ==
  ASSUME NEW f, Wellformed(f), NEW S \in SUBSET Body(f), S # {}
  PROVE  \E d \in S : \A e \in S : ~Precedes(f, e, d)
<1> DEFINE Ahead(d) == {x \in S : Precedes(f, x, d)}
           Counts == {Cardinality(Ahead(d)) : d \in S}
<1>1. IsFiniteSet(S)
  BY BodyFinite, FS_Subset
<1>2. \A d : IsFiniteSet(Ahead(d)) /\ Cardinality(Ahead(d)) \in Nat
  <2> SUFFICES ASSUME NEW d PROVE IsFiniteSet(Ahead(d)) /\ Cardinality(Ahead(d)) \in Nat
    OBVIOUS
  <2>1. Ahead(d) \in SUBSET S
    OBVIOUS
  <2> HIDE DEF Ahead
  <2> QED BY <1>1, <2>1, FS_Subset, FS_CardinalityType
<1>3. PICK n \in Counts : \A m \in Counts : n <= m
  <2>1. Counts \subseteq Nat /\ Counts # {}
    <3> HIDE DEF Ahead
    <3> QED BY <1>2
  <2> HIDE DEF Counts
  <2> QED BY <2>1, LeastElement
<1>4. PICK d \in S : n = Cardinality(Ahead(d))
  OBVIOUS
<1>5. ASSUME NEW e \in S, Precedes(f, e, d) PROVE FALSE
  <2>1. Ahead(e) \subseteq Ahead(d)
    <3> SUFFICES ASSUME NEW x \in S, Precedes(f, x, e) PROVE Precedes(f, x, d)
      OBVIOUS
    <3> QED BY <1>5, PrecTrans, BodyFinite
  <2>2. e \in Ahead(d) /\ e \notin Ahead(e)
    BY <1>5, PrecIrr, BodyFinite
  <2>3. Ahead(e) \in SUBSET Ahead(d) /\ Ahead(e) # Ahead(d)
    BY <2>1, <2>2
  <2>4. Cardinality(Ahead(e)) \in Counts
    OBVIOUS
  <2> HIDE DEF Ahead, Counts
  <2>5. Cardinality(Ahead(e)) <= Cardinality(Ahead(d)) /\ Cardinality(Ahead(e)) # Cardinality(Ahead(d))
    BY <1>2, <2>3, FS_Subset
  <2>6. n <= Cardinality(Ahead(e))
    BY <1>3, <2>4
  <2> QED BY <1>2, <1>4, <2>5, <2>6
<1> QED BY <1>5

-----------------------------------------------------------------------------
\* What the assumptions say of one function.
Sound(f) == Wellformed(f) /\ SSA(f)

\* The one definition of a pointer comes before what uses it; the flow graph
\* leads backwards.
LEMMA DefIs ==
  ASSUME NEW f, Sound(f), NEW p \in Body(f), At(f, p).ptr \notin f.args, At(f, p).ptr # None
  PROVE  LET d == Def(f, At(f, p).ptr)
         IN  /\ d \in Body(f) /\ At(f, d).val = At(f, p).ptr /\ Precedes(f, d, p)
             /\ \A e \in Body(f) : At(f, e).val = At(f, p).ptr => e = d
<1> DEFINE v == At(f, p).ptr
           d == Def(f, v)
<1>1. PICK e \in Body(f) : At(f, e).val = v /\ Precedes(f, e, p)
  BY DEF Sound, SSA
<1>2. d = CHOOSE x \in Body(f) : At(f, x).val = v
  BY DEF Def
<1>3. d \in Body(f) /\ At(f, d).val = v
  <2> HIDE DEF d, v
  <2> QED BY <1>1, <1>2
<1>4. \A x \in Body(f) : At(f, x).val = v => x = d
  <2> HIDE DEF d
  <2> QED BY <1>3 DEF Sound, SSA
<1>5. e = d
  BY <1>1, <1>4
<1> QED BY <1>1, <1>3, <1>4, <1>5

\* The parent of an instruction is the gep its pointer comes from, which precedes it.
LEMMA ParentIs ==
  ASSUME NEW f, Sound(f)
  PROVE  /\ Graph(Parent(f))
         /\ DOMAIN Parent(f) = {q \in Body(f) : At(f, q).ptr # None}
         /\ \A q \in DOMAIN Parent(f) : \A d \in Parent(f)[q] :
              Precedes(f, d, q) /\ At(f, d).op = "gep"
         /\ \A q \in DOMAIN Parent(f) :
              Parent(f)[q] = {} <=> IsSource(f, At(f, q).ptr)
         /\ \A q \in DOMAIN Parent(f) : \A r \in DOMAIN Parent(f) :
              At(f, q).ptr = At(f, r).ptr => Parent(f)[q] = Parent(f)[r]
<1> DEFINE D == {q \in Body(f) : At(f, q).ptr # None}
<1>1. DOMAIN Parent(f) = D
  BY DEF Parent
<1>2. \A q \in D : Parent(f)[q] = IF IsSource(f, At(f, q).ptr) THEN {} ELSE {Def(f, At(f, q).ptr)}
  BY DEF Parent
<1>3. ASSUME NEW q \in D, ~IsSource(f, At(f, q).ptr)
      PROVE  /\ Def(f, At(f, q).ptr) \in D /\ Precedes(f, Def(f, At(f, q).ptr), q)
             /\ At(f, Def(f, At(f, q).ptr)).op = "gep"
  <2>1. At(f, q).ptr \notin f.args /\ At(f, Def(f, At(f, q).ptr)).op = "gep"
    BY <1>3 DEF IsSource
  <2>2. Def(f, At(f, q).ptr) \in Body(f) /\ Precedes(f, Def(f, At(f, q).ptr), q)
    BY <2>1, DefIs
  <2>3. At(f, Def(f, At(f, q).ptr)).ptr # None
    BY <2>1, <2>2 DEF Sound, Wellformed, Shaped
  <2> QED BY <2>1, <2>2, <2>3
<1>4. IsFiniteSet(D)
  <2>1. IsFiniteSet(Body(f)) /\ D \in SUBSET Body(f)
    BY BodyFinite DEF Sound
  <2> QED BY <2>1, FS_Subset
<1> HIDE DEF D
<1>5. Graph(Parent(f))
  BY <1>1, <1>2, <1>3, <1>4 DEF Graph
<1>6. \A q \in D : \A d \in Parent(f)[q] : Precedes(f, d, q) /\ At(f, d).op = "gep"
  BY <1>2, <1>3
<1> QED BY <1>1, <1>2, <1>5, <1>6 DEF D

\* The nodes are instructions with a pointer, and contain their parents.
LEMMA NodesAre ==
  ASSUME NEW f, Sound(f)
  PROVE  /\ Nodes(f) \subseteq DOMAIN Parent(f)
         /\ Sinks(f) \subseteq Nodes(f)
         /\ \A n \in Nodes(f) : /\ n \in Body(f) /\ At(f, n).ptr # None /\ At(f, n).op \in {"use", "gep"}
                                /\ Parent(f)[n] \subseteq Nodes(f)
<1>1. Graph(Parent(f)) /\ DOMAIN Parent(f) = {q \in Body(f) : At(f, q).ptr # None}
  BY ParentIs
<1>2. Sinks(f) \in SUBSET DOMAIN Parent(f)
  BY <1>1 DEF Sinks, Sound, Wellformed, Shaped
<1>3. /\ Sinks(f) \subseteq Nodes(f) /\ Nodes(f) \subseteq DOMAIN Parent(f)
      /\ \A n \in Nodes(f) : Parent(f)[n] \subseteq Nodes(f)
  BY <1>1, <1>2, ClosureProps DEF Nodes
<1> DEFINE T == {q \in Body(f) : At(f, q).op \in {"use", "gep"}}
<1>4. Sinks(f) \subseteq T /\ \A y \in T \cap DOMAIN Parent(f) : Parent(f)[y] \subseteq T
  <2>1. \A y \in DOMAIN Parent(f) : \A d \in Parent(f)[y] : d \in Body(f) /\ At(f, d).op = "gep"
    BY <1>1, ParentIs DEF Graph
  <2> QED BY <2>1 DEF Sinks
<1>5. Nodes(f) \subseteq T
  <2> HIDE DEF T
  <2> QED BY <1>1, <1>2, <1>4, ClosureLeast DEF Nodes
<1> QED BY <1>1, <1>3, <1>5

\* A node's way up to the root's child.
LEMMA ChildIs ==
  ASSUME NEW f, Sound(f), NEW p \in Nodes(f)
  PROVE  /\ Child(f, p) \in Nodes(f) /\ Parent(f)[Child(f, p)] = {}
         /\ Child(f, p) = p \/ Precedes(f, Child(f, p), p)
         /\ Parent(f)[p] = {} => Child(f, p) = p
<1> DEFINE C == Closure({p}, Parent(f))
<1>1. Graph(Parent(f)) /\ {p} \in SUBSET DOMAIN Parent(f) /\ DOMAIN Parent(f) \subseteq Body(f)
  BY ParentIs, NodesAre
<1>2. p \in C /\ C \subseteq DOMAIN Parent(f) /\ \A x \in C : Parent(f)[x] \subseteq C
  BY <1>1, ClosureProps
<1>3. C \subseteq Nodes(f)
  BY <1>1, NodesAre, ClosureLeast
<1> DEFINE T == {x \in Body(f) : x = p \/ Precedes(f, x, p)}
<1>4. C \subseteq T
  <2>1. {p} \subseteq T
    BY <1>1
  <2>2. \A y \in T \cap DOMAIN Parent(f) : Parent(f)[y] \subseteq T
    <3> SUFFICES ASSUME NEW y \in T \cap DOMAIN Parent(f), NEW d \in Parent(f)[y] PROVE d \in T
      OBVIOUS
    <3>1. d \in Body(f) /\ Precedes(f, d, y)
      BY <1>1, ParentIs DEF Graph
    <3>2. y \in Points(f) /\ d \in Points(f) /\ p \in Points(f)
      BY <1>1, <3>1, BodyFinite DEF Sound
    <3>3. Precedes(f, d, p)
      BY <3>1, <3>2, PrecTrans DEF Sound
    <3> QED BY <3>1, <3>3
  <2> HIDE DEF T
  <2> QED BY <1>1, <2>1, <2>2, ClosureLeast
<1>5. ASSUME Parent(f)[p] = {} PROVE C \subseteq {p}
  BY <1>1, <1>5, ClosureLeast
<1> HIDE DEF C
<1>6. \E c \in C : Parent(f)[c] = {}
  <2>1. PICK c \in C : \A e \in C : ~Precedes(f, e, c)
    BY <1>1, <1>2, FirstExists DEF Sound
  <2>2. \A d \in Parent(f)[c] : FALSE
    BY <1>2, <2>1, ParentIs
  <2> QED BY <2>2
<1>7. Child(f, p) \in C /\ Parent(f)[Child(f, p)] = {}
  BY <1>6 DEF Child, C
<1> QED BY <1>3, <1>4, <1>5, <1>7

\* The translation a child uses belongs to it or to a sibling before it.
LEMMA LeaderIs ==
  ASSUME NEW f, Sound(f), NEW c \in Nodes(f)
  PROVE  LET l == Leader(f, c)
         IN  /\ l \in Nodes(f) /\ At(f, l).ptr = At(f, c).ptr /\ (l = c \/ Precedes(f, l, c))
             /\ \A e \in Children(f, At(f, c).ptr) : e = c \/ Precedes(f, e, c) => ~Precedes(f, e, l)
<1> DEFINE S == {d \in Children(f, At(f, c).ptr) : d = c \/ Precedes(f, d, c)}
<1>1. c \in S /\ S \subseteq Nodes(f) /\ S \in SUBSET Body(f)
  BY NodesAre DEF Children
<1>2. \E d \in S : \A e \in S : ~Precedes(f, e, d)
  <2> HIDE DEF S
  <2> QED BY <1>1, FirstExists DEF Sound
<1>3. Leader(f, c) = CHOOSE d \in S : \A e \in S : ~Precedes(f, e, d)
  BY DEF Leader, First
<1>4. Leader(f, c) \in S /\ \A e \in S : ~Precedes(f, e, Leader(f, c))
  <2> HIDE DEF S
  <2> QED BY <1>2, <1>3
<1> QED BY <1>1, <1>4 DEF Children

\* Every node uses a translation, which is made at or before the node and after
\* the pointer it is made from, however far it is hoisted.
LEMMA OwnerIs ==
  ASSUME NEW f, Sound(f)
  PROVE  LET t == Forest(f)
         IN  /\ t.owner = [p \in Nodes(f) |-> Leader(f, Child(f, p))]
             /\ t.birth = [l \in Range(t.owner) |-> TranslateBefore(f, l)]
             /\ DOMAIN t.owner = Nodes(f) /\ DOMAIN t.birth = Range(t.owner)
             /\ DOMAIN t.birth \subseteq Nodes(f)
             /\ \A p \in Nodes(f) : /\ t.owner[p] \in DOMAIN t.birth
                                    /\ t.owner[p] = p \/ Precedes(f, t.owner[p], p)
             /\ \A l \in DOMAIN t.birth : t.owner[l] = l
<1> DEFINE t == Forest(f)
           owner == [p \in Nodes(f) |-> Leader(f, Child(f, p))]
           birth == [l \in Range(owner) |-> TranslateBefore(f, l)]
<1>1. t = [owner |-> owner, birth |-> birth]
  BY TableIs, Zenon DEF Forest, Births
<1>2. t.owner = owner /\ t.birth = birth
  BY <1>1
<1>3. \A p \in Nodes(f) : owner[p] = Leader(f, Child(f, p))
  OBVIOUS
<1>4. DOMAIN owner = Nodes(f) /\ DOMAIN birth = Range(owner)
  OBVIOUS
<1> HIDE DEF owner, birth
<1>5. \A p \in Nodes(f) : owner[p] \in Range(owner)
  BY <1>4 DEF Range
<1>6. ASSUME NEW p \in Nodes(f)
      PROVE  /\ owner[p] \in Nodes(f) /\ (owner[p] = p \/ Precedes(f, owner[p], p))
             /\ owner[p] \in Nodes(f) => owner[owner[p]] = owner[p]
  <2> DEFINE k == Child(f, p)
             l == Leader(f, k)
  <2>1. k \in Nodes(f) /\ Parent(f)[k] = {} /\ (k = p \/ Precedes(f, k, p))
    BY ChildIs
  <2>2. /\ l \in Nodes(f) /\ At(f, l).ptr = At(f, k).ptr /\ (l = k \/ Precedes(f, l, k))
        /\ \A e \in Children(f, At(f, k).ptr) : e = k \/ Precedes(f, e, k) => ~Precedes(f, e, l)
    BY <2>1, LeaderIs
  <2>3. owner[p] = l
    BY <1>3
  <2> HIDE DEF k, l
  <2>4. p \in Points(f) /\ k \in Points(f) /\ l \in Points(f) /\ \A n \in Nodes(f) : n \in Points(f)
    BY <2>1, <2>2, NodesAre, BodyFinite DEF Sound
  <2>5. l = p \/ Precedes(f, l, p)
    BY <2>1, <2>2, <2>4, PrecTrans DEF Sound
  <2>6. Parent(f)[l] = {}
    BY <2>1, <2>2, NodesAre, ParentIs
  <2>7. Child(f, l) = l
    BY <2>2, <2>6, ChildIs
  <2>8. Leader(f, l) = l
    <3>1. /\ Leader(f, l) \in Nodes(f) /\ At(f, Leader(f, l)).ptr = At(f, l).ptr
          /\ (Leader(f, l) = l \/ Precedes(f, Leader(f, l), l))
      BY <2>2, LeaderIs
    <3>2. Leader(f, l) \in Children(f, At(f, k).ptr)
      BY <2>2, <3>1 DEF Children
    <3>3. SUFFICES ASSUME Precedes(f, Leader(f, l), l) PROVE FALSE
      BY <3>1
    <3>4. Leader(f, l) = k \/ Precedes(f, Leader(f, l), k)
      BY <2>2, <2>4, <3>1, <3>3, PrecTrans DEF Sound
    <3> QED BY <2>2, <3>2, <3>3, <3>4
  <2>9. owner[l] = l
    BY <1>3, <2>2, <2>7, <2>8
  <2> QED BY <2>2, <2>3, <2>5, <2>9
<1>7. Range(owner) \subseteq Nodes(f)
  BY <1>4, <1>6 DEF Range
<1>8. \A l \in Range(owner) : owner[l] = l
  BY <1>4, <1>6 DEF Range
<1>9. t.owner = [p \in Nodes(f) |-> Leader(f, Child(f, p))]
  BY <1>2 DEF owner
<1>10. t.birth = [l \in Range(t.owner) |-> TranslateBefore(f, l)]
  BY <1>2 DEF birth
<1> HIDE DEF t
<1> QED BY <1>2, <1>4, <1>5, <1>6, <1>7, <1>8, <1>9, <1>10 DEF t

\* Hoisted in front of a loop, a translation still dominates its user, and its
\* pointer's definition it.
LEMMA HoistIs ==
  ASSUME NEW f, Wellformed(f), NEW c \in Points(f), NEW h \in Headers(f), c[1] \in Loop(f, h)
  PROVE  \/ Hoist(f, h, c) = c
         \/ /\ Hoist(f, h, c) \in Points(f) \ Body(f) /\ Precedes(f, Hoist(f, h, c), c)
            /\ \A d \in Points(f) :
                 Precedes(f, d, c) /\ d[1] \notin Loop(f, h) /\ d \in Body(f) => Precedes(f, d, Hoist(f, h, c))
<1> SUFFICES ASSUME Cardinality(Entries(f, h)) = 1, Hoist(f, h, c) = Term(f, Max(Entries(f, h)))
             PROVE  /\ Hoist(f, h, c) \in Points(f) \ Body(f) /\ Precedes(f, Hoist(f, h, c), c)
                    /\ \A d \in Points(f) :
                         Precedes(f, d, c) /\ d[1] \notin Loop(f, h) /\ d \in Body(f)
                         => Precedes(f, d, Hoist(f, h, c))
  BY DEF Hoist
<1>0. h \in Blocks(f) /\ c[1] \in Blocks(f)
  BY PointsAre DEF Headers
<1>1. PICK e : Entries(f, h) = {e}
  <2>1. Entries(f, h) \in SUBSET Blocks(f)
    BY DEF Entries, Preds
  <2>2. IsFiniteSet(Entries(f, h))
    BY <2>1, BlocksAre, FS_Subset
  <2> QED BY <2>2, FS_Singleton
<1>2. e \in Blocks(f) /\ e \in Nat /\ e \in Preds(f, h) /\ e \notin Loop(f, h)
  BY <1>1, BlocksAre DEF Entries, Preds
<1>3. Max(Entries(f, h)) = e
  <2>1. {e} \subseteq Nat /\ e \in {e} /\ \A k \in {e} : k <= e
    BY <1>2
  <2> QED BY <1>1, <2>1, MaxIs
<1>4. Hoist(f, h, c) = <<e, Len(f.code[e]) + 1>>
  BY <1>3 DEF Term
<1>5. Hoist(f, h, c) \in Points(f) \ Body(f)
  BY <1>2, <1>4, PointsAre, BlocksAre
<1>6. \A x \in Preds(f, h) : x = e \/ Dominates(f, h, x)
  BY <1>0, <1>1, LoopDom DEF Entries
<1>7. Dominates(f, e, h)
  <2> SUFFICES ASSUME h \in Around(f, e) PROVE FALSE
    BY DominatesAre
  <2> DEFINE T == {y \in Around(f, e) : ~Dominates(f, h, y)}
  <2>1. e # 1 => 1 \in T
    <3>1. h # 1
      BY <1>2 DEF Preds, Wellformed
    <3>2. ~Dominates(f, h, 1)
      BY <3>1, AroundIs, DominatesAre
    <3> QED BY <3>2, AroundIs
  <2>2. \A y \in T \cap Around(f, e) : \A s \in Succs(f, y) : s # e => s \in T
    <3> SUFFICES ASSUME NEW y \in T, NEW s \in Succs(f, y), s # e, Dominates(f, h, s) PROVE FALSE
      BY AroundIs
    <3>1. y \in Preds(f, s) /\ y # e
      BY AroundIs DEF Preds
    <3>2. CASE s = h
      BY <1>6, <3>1, <3>2
    <3>3. CASE s # h
      BY <3>1, <3>3, DomPreds
    <3> QED BY <3>2, <3>3
  <2>3. h \in T
    <3> HIDE DEF T
    <3> QED BY <2>1, <2>2, AroundIs
  <2> QED BY <2>3, DomRefl
<1>8. Dominates(f, e, c[1]) /\ e # c[1]
  BY <1>0, <1>2, <1>7, LoopDom, DomTrans
<1>9. Precedes(f, Hoist(f, h, c), c)
  BY <1>4, <1>8 DEF Precedes
<1>10. ASSUME NEW d \in Points(f), Precedes(f, d, c), d[1] \notin Loop(f, h), d \in Body(f)
       PROVE  Precedes(f, d, Hoist(f, h, c))
  <2>1. d[1] \in Blocks(f) /\ d[1] # c[1]
    BY <1>10, PointsAre
  <2>2. Dominates(f, d[1], c[1])
    BY <1>10, <2>1 DEF Precedes
  <2>3. d[1] # h
    BY <1>0, <1>10, LoopIs
  <2>4. Dominates(f, d[1], h)
    <3> SUFFICES ASSUME ~Dominates(f, d[1], h) PROVE FALSE
      OBVIOUS
    <3>1. Dominates(f, h, d[1])
      BY <1>0, <2>1, <2>2, LoopDom, DomChain
    <3>2. c[1] # h
      BY <2>2
    <3> QED BY <1>0, <1>10, <2>1, <2>2, <3>1, <3>2, LoopHas
  <2>5. Dominates(f, d[1], e)
    BY <1>2, <2>3, <2>4, DomPreds
  <2>6. CASE d[1] = e
    <3>1. d[2] \in Nat /\ d[2] <= Len(f.code[e]) /\ Len(f.code[e]) \in Nat
      BY <1>2, <1>10, <2>6, PointsAre, BlocksAre
    <3> QED BY <1>4, <2>6, <3>1 DEF Precedes
  <2>7. CASE d[1] # e
    BY <1>4, <2>5, <2>7 DEF Precedes
  <2> QED BY <2>6, <2>7
<1> QED BY <1>5, <1>9, <1>10

\* Where a translation is made.
LEMMA BirthIs ==
  ASSUME NEW f, Sound(f), NEW c \in Nodes(f)
  PROVE  LET b == TranslateBefore(f, c)
         IN  /\ b \in Points(f) /\ (b = c \/ Precedes(f, b, c))
             /\ b \in Body(f) => b = c \/ (b = <<1, 1>> /\ At(f, c).ptr \in f.args)
             /\ At(f, c).ptr \notin f.args => Precedes(f, Def(f, At(f, c).ptr), b)
             /\ At(f, c).ptr \in f.args => b = <<1, 1>>
<1>1. c \in Body(f) /\ c \in Points(f) /\ At(f, c).ptr # None
  BY NodesAre, BodyFinite DEF Sound
<1>2. CASE At(f, c).ptr \in f.args
  BY <1>1, <1>2, FirstPoint DEF TranslateBefore, Sound
<1>3. CASE At(f, c).ptr \notin f.args
  <2> DEFINE d == Def(f, At(f, c).ptr)
             loops == LoopsBetween(f, d, c)
             h == Outermost(f, loops)
  <2>1. d \in Body(f) /\ d \in Points(f) /\ Precedes(f, d, c)
    BY <1>1, <1>3, DefIs, BodyFinite DEF Sound
  <2>2. TranslateBefore(f, c) = IF loops = {} THEN c ELSE Hoist(f, h, c)
    BY <1>3 DEF TranslateBefore, LiftFrom
  <2>3. CASE loops = {}
    BY <1>1, <1>3, <2>1, <2>2, <2>3
  <2>4. CASE loops # {}
    <3>1. loops \in SUBSET Blocks(f) /\ \A k \in loops : c[1] \in Loop(f, k)
      BY DEF LoopsBetween, Headers
    <3>2. h \in loops
      <4> HIDE DEF loops
      <4> QED BY <2>4, <3>1, OutermostIn DEF Sound
    <3>3. h \in Headers(f) /\ c[1] \in Loop(f, h) /\ d[1] \notin Loop(f, h)
      BY <3>2 DEF LoopsBetween
    <3> HIDE DEF h, d, loops
    <3>4. \/ Hoist(f, h, c) = c
          \/ /\ Hoist(f, h, c) \in Points(f) \ Body(f) /\ Precedes(f, Hoist(f, h, c), c)
             /\ Precedes(f, d, Hoist(f, h, c))
      BY <1>1, <2>1, <3>3, HoistIs DEF Sound
    <3> QED BY <1>1, <1>3, <2>1, <2>2, <2>4, <3>4 DEF d
  <2> QED BY <2>3, <2>4
<1> QED BY <1>2, <1>3

\* What the proofs need of the forest.
LEMMA ForestIs ==
  ASSUME NEW f, Sound(f)
  PROVE  LET t == Forest(f)
         IN  /\ DOMAIN t.owner = Nodes(f) /\ DOMAIN t.birth \subseteq Nodes(f)
             /\ \A l \in DOMAIN t.birth : t.birth[l] \in Points(f)
             /\ \A p \in Nodes(f) : /\ t.owner[p] \in DOMAIN t.birth
                                    /\ \/ t.birth[t.owner[p]] = p
                                       \/ Precedes(f, t.birth[t.owner[p]], p)
                                    /\ BornAt(t, p) # {} => t.birth[t.owner[p]] = p
             /\ \A l \in DOMAIN t.birth :
                  At(f, l).ptr \notin f.args => Precedes(f, Def(f, At(f, l).ptr), t.birth[l])
<1> DEFINE t == Forest(f)
<1>1. /\ t.birth = [l \in Range(t.owner) |-> TranslateBefore(f, l)]
      /\ DOMAIN t.owner = Nodes(f) /\ DOMAIN t.birth = Range(t.owner)
      /\ DOMAIN t.birth \subseteq Nodes(f)
      /\ \A p \in Nodes(f) : /\ t.owner[p] \in DOMAIN t.birth
                             /\ t.owner[p] = p \/ Precedes(f, t.owner[p], p)
      /\ \A l \in DOMAIN t.birth : t.owner[l] = l
  BY OwnerIs
<1>5. t.owner = [p \in Nodes(f) |-> Leader(f, Child(f, p))]
  BY OwnerIs
<1>2. \A l \in DOMAIN t.birth : t.birth[l] = TranslateBefore(f, l)
  BY <1>1
<1> HIDE DEF t
<1>3. \A p \in Nodes(f) : p \in Points(f) /\ p \in Body(f)
  BY NodesAre, BodyFinite DEF Sound
<1>4. ASSUME NEW p \in Nodes(f)
      PROVE  \/ t.birth[t.owner[p]] = p
             \/ Precedes(f, t.birth[t.owner[p]], p)
  <2> DEFINE l == t.owner[p]
             b == TranslateBefore(f, l)
  <2>1. l \in Nodes(f) /\ (l = p \/ Precedes(f, l, p)) /\ t.birth[l] = b
    BY <1>1, <1>2
  <2>2. b \in Points(f) /\ (b = l \/ Precedes(f, b, l))
    BY <2>1, BirthIs
  <2> HIDE DEF l, b
  <2>3. b = p \/ Precedes(f, b, p)
    BY <1>3, <2>1, <2>2, PrecTrans DEF Sound
  <2> QED BY <2>1, <2>3 DEF l
<1>6. ASSUME NEW p \in Nodes(f), BornAt(t, p) # {}
      PROVE  t.birth[t.owner[p]] = p
  <2>1. PICK l \in DOMAIN t.birth : TranslateBefore(f, l) = p
    BY <1>2, <1>6 DEF BornAt
  <2>2. l \in Nodes(f) /\ (p = l \/ p = <<1, 1>>)
    BY <1>1, <1>3, <2>1, BirthIs
  <2>3. CASE p = l
    BY <1>1, <1>2, <2>1, <2>3
  <2>4. CASE p = <<1, 1>>
    <3>1. \A q \in Points(f) : ~Precedes(f, q, p)
      BY <2>4, FirstPoint DEF Sound
    <3>2. t.owner[p] = p /\ p \in DOMAIN t.birth
      BY <1>1, <1>3, <3>1
    <3>3. t.birth[p] \in Points(f) /\ (t.birth[p] = p \/ Precedes(f, t.birth[p], p))
      BY <1>1, <1>2, <3>2, BirthIs
    <3> QED BY <3>1, <3>2, <3>3
  <2> QED BY <2>2, <2>3, <2>4
<1>7. \A l \in DOMAIN t.birth : t.birth[l] \in Points(f)
                                /\ (At(f, l).ptr \notin f.args => Precedes(f, Def(f, At(f, l).ptr), t.birth[l]))
  BY <1>1, <1>2, BirthIs
<1> QED BY <1>1, <1>4, <1>6, <1>7 DEF t

\* What the forest t of f promises to those who use it.
Forested(f, t) ==
  /\ DOMAIN t.owner = Nodes(f) /\ DOMAIN t.birth \subseteq Nodes(f)
  /\ \A l \in DOMAIN t.birth : t.birth[l] \in Points(f)
  /\ \A p \in Nodes(f) : /\ t.owner[p] \in DOMAIN t.birth
                         /\ t.birth[t.owner[p]] = p \/ Precedes(f, t.birth[t.owner[p]], p)
                         /\ BornAt(t, p) # {} => t.birth[t.owner[p]] = p
  /\ \A l \in DOMAIN t.birth :
       At(f, l).ptr \notin f.args => Precedes(f, Def(f, At(f, l).ptr), t.birth[l])
  /\ \A n \in Nodes(f) : /\ n \in Body(f) /\ n \in Points(f)
                         /\ At(f, n).ptr # None /\ At(f, n).op \in {"use", "gep"}

\* The forest the compiler computes keeps that promise.
LEMMA ForestIsForested == ASSUME NEW f, Sound(f) PROVE Forested(f, Forest(f))
BY ForestIs, NodesAre, BodyFinite DEF Forested, Sound

\* Of several translations made before one instruction the last is kept alive by
\* it, and their user keeps it too.
LEMMA PointsFinite == ASSUME NEW f, Wellformed(f) PROVE IsFiniteSet(Points(f))
<1> DEFINE ends == [b \in Blocks(f) |-> Term(f, b)]
<1>1. IsFiniteSet({ends[b] : b \in Blocks(f)})
  BY BlocksAre, ImageFinite
<1>2. {ends[b] : b \in Blocks(f)} = {Term(f, b) : b \in Blocks(f)}
  OBVIOUS
<1> QED BY <1>1, <1>2, BodyFinite, FS_Union DEF Points

\* Of the translations that are made at one point there is a last one.
LEMMA LatestExists ==
  ASSUME NEW f, Wellformed(f), NEW S \in SUBSET Points(f), S # {}
  PROVE  \E l \in S : \A m \in S \ {l} : Later(l, m)
<1> DEFINE Rows == {p[1] : p \in S}
<1>1. \A p \in S : /\ p = <<p[1], p[2]>> /\ p[1] \in Blocks(f) /\ p[1] \in Nat
                   /\ p[2] \in 1 .. Len(f.code[p[1]]) + 1 /\ p[2] \in Nat /\ Len(f.code[p[1]]) \in Nat
  BY PointsAre, BlocksAre
<1>2. PICK b \in Rows : \A c \in Rows : c <= b
  <2>1. Len(f.code) \in Nat /\ Blocks(f) = 1 .. Len(f.code)
    BY BlocksAre, LenProperties DEF Wellformed
  <2>2. Rows \subseteq 0 .. Len(f.code) /\ Rows # {}
    BY <1>1, <2>1
  <2> HIDE DEF Rows
  <2> QED BY <2>1, <2>2, GreatestElement
<1> DEFINE Cols == {p[2] : p \in {q \in S : q[1] = b}}
<1>3. PICK i \in Cols : \A j \in Cols : j <= i
  <2>1. Len(f.code[b]) + 1 \in Nat
    BY <1>1
  <2>2. Cols \subseteq 0 .. Len(f.code[b]) + 1 /\ Cols # {}
    BY <1>1
  <2> HIDE DEF Cols
  <2> QED BY <2>1, <2>2, GreatestElement
<1>4. PICK l \in S : l[1] = b /\ l[2] = i
  OBVIOUS
<1>5. ASSUME NEW m \in S \ {l} PROVE Later(l, m)
  <2>1. m[1] <= b
    BY <1>2
  <2>2. CASE m[1] = b
    <3>1. m[2] <= i
      BY <1>3, <2>2
    <3>2. m[2] # l[2]
      BY <1>1, <1>4, <2>2
    <3> QED BY <1>1, <1>4, <2>2, <3>1, <3>2 DEF Later
  <2>3. CASE m[1] # b
    BY <1>1, <1>4, <2>1, <2>3 DEF Later
  <2> QED BY <2>2, <2>3
<1> QED BY <1>5

\* An instruction keeps the translation it uses alive, or the last one made before it.
LEMMA KeepsIs ==
  ASSUME NEW f, Sound(f), NEW t, Forested(f, t), NEW p \in Points(f), NEW l \in DOMAIN t.birth,
         Keeps(t, p) = l
  PROVE  t.birth[l] = p \/ (p \in Nodes(f) /\ t.owner[p] = l)
<1>1. CASE BornAt(t, p) # {}
  <2>1. BornAt(t, p) \in SUBSET Points(f)
    BY DEF BornAt, Forested
  <2>2. Keeps(t, p) \in BornAt(t, p)
    BY <1>1, <2>1, LatestExists DEF Keeps, Sound
  <2> QED BY <2>2 DEF BornAt
<1>2. CASE BornAt(t, p) = {}
  <2>1. l # None
    BY DEF Forested, Sound, Wellformed
  <2> QED BY <1>2, <2>1 DEF Keeps, Forested
<1> QED BY <1>1, <1>2

\* The control flow the dataflow follows is the program's.
Direct(f) == f.switches = {}

\* The dataflow goes backwards along control, if there are no switches.
LEMMA BeforeIs ==
  ASSUME NEW f, Sound(f), Direct(f), NEW q \in Points(f)
  PROVE  /\ Before(f, q) \subseteq Points(f)
         /\ q[2] > 1 => Before(f, q) = {<<q[1], q[2] - 1>>}
         /\ q[2] = 1 => Before(f, q) = {Term(f, a) : a \in Preds(f, q[1])}
         /\ \A p \in Points(f) : q \in After(f, p) <=> p \in Before(f, q)
<1>1. /\ q = <<q[1], q[2]>> /\ q[1] \in Blocks(f) /\ q[2] \in 1 .. Len(f.code[q[1]]) + 1
      /\ \A b \in Blocks(f) : Len(f.code[b]) \in Nat
  BY PointsAre, BlocksAre DEF Sound
<1>2. \A a : Flows(f, a) = Succs(f, a)
  BY DEF Flows, Direct
<1>3. q[2] > 1 => Before(f, q) = {<<q[1], q[2] - 1>>}
  BY DEF Before
<1>4. q[2] = 1 => Before(f, q) = {Term(f, a) : a \in Preds(f, q[1])}
  BY <1>2 DEF Before, Preds
<1>5. CASE q[2] > 1
  <2>1. <<q[1], q[2] - 1>> \in Points(f)
    BY <1>1, <1>5, PointsAre DEF Sound
  <2>2. ASSUME NEW p \in Points(f) PROVE q \in After(f, p) <=> p = <<q[1], q[2] - 1>>
    <3>1. p = <<p[1], p[2]>> /\ p[1] \in Blocks(f) /\ p[2] \in 1 .. Len(f.code[p[1]]) + 1
      BY PointsAre DEF Sound
    <3>2. CASE p = Term(f, p[1])
      <4>1. q \notin After(f, p)
        BY <1>5, <3>2 DEF After
      <4>2. p # <<q[1], q[2] - 1>>
        <5> SUFFICES ASSUME p = <<q[1], q[2] - 1>> PROVE FALSE
          OBVIOUS
        <5>1. q[2] - 1 = Len(f.code[q[1]]) + 1
          BY <3>2 DEF Term
        <5> QED BY <1>1, <5>1
      <4> QED BY <4>1, <4>2
    <3>3. CASE p # Term(f, p[1])
      <4>1. After(f, p) = {<<p[1], p[2] + 1>>}
        BY <3>3 DEF After
      <4>2. q = <<p[1], p[2] + 1>> <=> p = <<q[1], q[2] - 1>>
        BY <1>1, <3>1
      <4> QED BY <4>1, <4>2
    <3> QED BY <3>2, <3>3
  <2> QED BY <1>3, <1>5, <2>1, <2>2
<1>6. CASE q[2] = 1
  <2>1. Before(f, q) \subseteq Points(f)
    BY <1>4, <1>6 DEF Preds, Points
  <2>2. ASSUME NEW p \in Points(f) PROVE q \in After(f, p) <=> p \in Before(f, q)
    <3>1. p = <<p[1], p[2]>> /\ p[1] \in Blocks(f) /\ p[2] \in 1 .. Len(f.code[p[1]]) + 1
      BY PointsAre DEF Sound
    <3>2. CASE p = Term(f, p[1])
      <4>1. After(f, p) = {<<c, 1>> : c \in Succs(f, p[1])}
        BY <1>2, <3>2 DEF After
      <4>2. q \in After(f, p) <=> q[1] \in Succs(f, p[1])
        BY <1>1, <1>6, <4>1
      <4>3. p \in Before(f, q) <=> p[1] \in Preds(f, q[1])
        <5>1. \A a : p = Term(f, a) => p[1] = a
          BY DEF Term
        <5> QED BY <1>4, <1>6, <3>2, <5>1
      <4> QED BY <3>1, <4>2, <4>3 DEF Preds
    <3>3. CASE p # Term(f, p[1])
      <4>1. q \notin After(f, p)
        <5>1. After(f, p) = {<<p[1], p[2] + 1>>}
          BY <3>3 DEF After
        <5>2. p[2] + 1 # 1
          BY <3>1
        <5> QED BY <1>6, <5>1, <5>2
      <4>2. p \notin Before(f, q)
        <5>1. \A a : p = Term(f, a) => p[1] = a
          BY DEF Term
        <5> QED BY <1>4, <1>6, <3>3, <5>1
      <4> QED BY <4>1, <4>2
    <3> QED BY <3>2, <3>3
  <2> QED BY <1>4, <1>6, <2>1, <2>2
<1> QED BY <1>1, <1>5, <1>6

\* Alive is the least solution of the dataflow equations.
LEMMA AliveIs ==
  ASSUME NEW f, Sound(f), Direct(f), NEW t, Forested(f, t)
  PROVE  LET alive == Alive(f, t)
         IN  /\ DOMAIN alive = DOMAIN t.birth
             /\ \A l \in DOMAIN t.birth :
                  /\ alive[l] \subseteq Points(f)
                  /\ \A p \in Points(f) : Keeps(t, p) = l => p \in alive[l]
                  /\ \A q \in alive[l] : q # t.birth[l] => Before(f, q) \subseteq alive[l]
                  /\ \A T : /\ \A p \in Points(f) : Keeps(t, p) = l => p \in T
                            /\ \A q \in T \cap Points(f) : q # t.birth[l] => Before(f, q) \subseteq T
                            => alive[l] \subseteq T
<1> DEFINE alive == Alive(f, t)
           start(l) == {p \in Points(f) : Keeps(t, p) = l}
           before(l) == [p \in Points(f) |-> IF p = t.birth[l] THEN {} ELSE Before(f, p)]
           cl == [l \in DOMAIN t.birth |-> Closure(start(l), before(l))]
<1>1. alive = cl
  BY TableIs, Zenon DEF Alive
<1>2. ASSUME NEW l \in DOMAIN t.birth
      PROVE  /\ cl[l] \subseteq Points(f)
             /\ \A p \in Points(f) : Keeps(t, p) = l => p \in cl[l]
             /\ \A q \in cl[l] : q # t.birth[l] => Before(f, q) \subseteq cl[l]
             /\ \A T : /\ \A p \in Points(f) : Keeps(t, p) = l => p \in T
                       /\ \A q \in T \cap Points(f) : q # t.birth[l] => Before(f, q) \subseteq T
                       => cl[l] \subseteq T
  <2> DEFINE bf == before(l)
             st == start(l)
             C == Closure(st, bf)
  <2>1. DOMAIN bf = Points(f) /\ \A p \in Points(f) : bf[p] = IF p = t.birth[l] THEN {} ELSE Before(f, p)
    OBVIOUS
  <2>2. st \in SUBSET DOMAIN bf /\ \A p : p \in st <=> p \in Points(f) /\ Keeps(t, p) = l
    OBVIOUS
  <2>3. cl[l] = C
    OBVIOUS
  <2> HIDE DEF bf, st, cl
  <2>4. Graph(bf)
    BY <2>1, PointsFinite, BeforeIs DEF Graph, Sound
  <2>5. st \subseteq C /\ C \subseteq Points(f) /\ \A q \in C : bf[q] \subseteq C
    BY <2>1, <2>2, <2>4, ClosureProps
  <2>6. ASSUME NEW T, \A p \in Points(f) : Keeps(t, p) = l => p \in T,
               \A q \in T \cap Points(f) : q # t.birth[l] => Before(f, q) \subseteq T
        PROVE  C \subseteq T
    <3>1. st \subseteq T /\ \A q \in T \cap DOMAIN bf : bf[q] \subseteq T
      BY <2>1, <2>2, <2>6
    <3> QED BY <2>2, <2>4, <3>1, ClosureLeast
  <2> HIDE DEF C
  <2> QED BY <2>1, <2>2, <2>3, <2>5, <2>6
<1>3. DOMAIN cl = DOMAIN t.birth
  OBVIOUS
<1> HIDE DEF cl
<1> QED BY <1>1, <1>2, <1>3

\* What the proofs need of the liveness analysis.
Lively(f, t, alive) ==
  /\ DOMAIN alive = DOMAIN t.birth
  /\ \A l \in DOMAIN t.birth :
       /\ alive[l] \subseteq Points(f)
       /\ \A q \in alive[l] : q = t.birth[l] \/ Precedes(f, t.birth[l], q)
       /\ \A q \in alive[l] : q # t.birth[l] => Before(f, q) \subseteq alive[l]
       /\ \A b \in Blocks(f) : Term(f, b) \in alive[l] /\ t.birth[l] # Term(f, b)
                                 => l \in Out(f, t, alive, Term(f, b))
  /\ \A p \in Nodes(f) : t.birth[t.owner[p]] = p \/ p \in alive[t.owner[p]]

\* Nothing is alive before it is made, and what is alive at the end of a block is
\* so at the start of one after it.
LEMMA AliveIsLively ==
  ASSUME NEW f, Sound(f), Direct(f), NEW t, Forested(f, t)
  PROVE  Lively(f, t, Alive(f, t))
<1> DEFINE alive == Alive(f, t)
<1>1. /\ DOMAIN alive = DOMAIN t.birth
      /\ \A l \in DOMAIN t.birth :
           /\ alive[l] \subseteq Points(f)
           /\ \A p \in Points(f) : Keeps(t, p) = l => p \in alive[l]
           /\ \A q \in alive[l] : q # t.birth[l] => Before(f, q) \subseteq alive[l]
           /\ \A T : /\ \A p \in Points(f) : Keeps(t, p) = l => p \in T
                     /\ \A q \in T \cap Points(f) : q # t.birth[l] => Before(f, q) \subseteq T
                     => alive[l] \subseteq T
  BY AliveIs
<1> HIDE DEF alive
<1>2. ASSUME NEW l \in DOMAIN t.birth, NEW q \in alive[l]
      PROVE  q = t.birth[l] \/ Precedes(f, t.birth[l], q)
  <2> DEFINE T == {x \in Points(f) : x = t.birth[l] \/ Precedes(f, t.birth[l], x)}
  <2>1. \A p \in Points(f) : Keeps(t, p) = l => p \in T
    BY KeepsIs DEF Forested
  <2>2. ASSUME NEW y \in T \cap Points(f), y # t.birth[l], NEW x \in Before(f, y) PROVE x \in T
    <3> DEFINE o == t.birth[l]
    <3>0. o \in Points(f) /\ Precedes(f, o, y) /\ x \in Points(f)
      BY <2>2, BeforeIs DEF Forested
    <3> HIDE DEF o
    <3>1. /\ \A p \in {o, x, y} : p = <<p[1], p[2]>> /\ p[1] \in Blocks(f) /\ p[2] \in 1 .. Len(f.code[p[1]]) + 1
          /\ \A b \in Blocks(f) : Len(f.code[b]) \in Nat
      BY <3>0, PointsAre, BlocksAre DEF Sound
    <3>2. CASE y[2] > 1
      <4>1. x = <<y[1], y[2] - 1>>
        BY <3>2, <2>2, BeforeIs
      <4>2. CASE o[1] = y[1]
        <5>1. o[2] < y[2]
          BY <3>0, <4>2 DEF Precedes
        <5>2. o[2] = y[2] - 1 \/ o[2] < y[2] - 1
          BY <3>1, <5>1
        <5> QED BY <3>0, <3>1, <4>1, <4>2, <5>2 DEF Precedes, o
      <4>3. CASE o[1] # y[1]
        BY <3>0, <4>1, <4>3 DEF Precedes, o
      <4> QED BY <4>2, <4>3
    <3>3. CASE y[2] = 1
      <4>1. PICK a \in Preds(f, y[1]) : x = Term(f, a)
        BY <2>2, <3>3, BeforeIs
      <4>2. o[1] # y[1]
        BY <3>0, <3>1, <3>3 DEF Precedes
      <4>3. Dominates(f, o[1], a)
        BY <3>0, <4>2, DomPreds DEF Precedes, Sound
      <4>4. CASE o[1] = a
        <5>1. o[2] = Len(f.code[a]) + 1 \/ o[2] < Len(f.code[a]) + 1
          BY <3>1, <4>4
        <5> QED BY <3>0, <3>1, <4>1, <4>4, <5>1 DEF Precedes, Term, o
      <4>5. CASE o[1] # a
        BY <3>0, <4>1, <4>3, <4>5 DEF Precedes, Term, o
      <4> QED BY <4>4, <4>5
    <3> QED BY <3>1, <3>2, <3>3
  <2> HIDE DEF T
  <2>3. alive[l] \subseteq T
    BY <1>1, <2>1, <2>2
  <2> QED BY <2>3 DEF T
<1>3. ASSUME NEW l \in DOMAIN t.birth, NEW b \in Blocks(f), Term(f, b) \in alive[l], t.birth[l] # Term(f, b),
             l \notin Out(f, t, alive, Term(f, b))
      PROVE  FALSE
  <2> DEFINE e == Term(f, b)
             T == alive[l] \ {e}
  <2>0. e \in Points(f) /\ e[1] = b
    BY DEF Points, Term
  <2>1. \A p \in Points(f) : Keeps(t, p) = l => p \in T
    <3>1. e \notin Body(f)
      BY PointsAre, BlocksAre DEF Sound, Term
    <3>2. Keeps(t, e) # l
      BY <1>3, <2>0, <3>1, KeepsIs DEF Forested
    <3> QED BY <1>1, <3>2
  <2>2. ASSUME NEW y \in T \cap Points(f), y # t.birth[l], NEW x \in Before(f, y) PROVE x \in T
    <3>1. x \in alive[l]
      BY <1>1, <2>2
    <3>2. ASSUME x = e PROVE FALSE
      <4>1. y \in After(f, e)
        BY <2>0, <2>2, <3>2, BeforeIs
      <4>2. l \in Out(f, t, alive, e)
        BY <1>1, <2>2, <4>1 DEF Out, Comes
      <4> QED BY <1>3, <4>2
    <3> QED BY <3>1, <3>2
  <2> HIDE DEF T
  <2>3. alive[l] \subseteq T
    BY <1>1, <2>1, <2>2
  <2> QED BY <1>3, <2>3 DEF T
<1>4. ASSUME NEW p \in Nodes(f), t.birth[t.owner[p]] # p PROVE p \in alive[t.owner[p]]
  <2>1. BornAt(t, p) = {} /\ t.owner[p] \in DOMAIN t.birth /\ p \in Points(f) /\ p \in DOMAIN t.owner
    BY <1>4 DEF Forested
  <2>2. Keeps(t, p) = t.owner[p]
    BY <2>1 DEF Keeps
  <2> QED BY <1>1, <2>1, <2>2
<1>5. Lively(f, t, alive)
  BY <1>1, <1>2, <1>3, <1>4 DEF Lively
<1> QED BY <1>5 DEF alive

-----------------------------------------------------------------------------
(***************************************************************************)
(* Where translations are alive, and where they are released.              *)
(***************************************************************************)

\* An analysis that has been made of a function without switches.
Analysed(f, t, alive) == Sound(f) /\ Direct(f) /\ Forested(f, t) /\ Lively(f, t, alive)

\* Points of a block, and those after them.
LEMMA PointIs ==
  ASSUME NEW f, Sound(f), NEW b \in Blocks(f), NEW i \in 1 .. Len(f.code[b]) + 1
  PROVE  <<b, i>> \in Points(f) /\ <<b, i>>[1] = b /\ <<b, i>>[2] = i
<1>1. <<b, i>>[1] = b /\ <<b, i>>[2] = i
  OBVIOUS
<1> QED BY <1>1, PointsAre DEF Sound

\* The points behind a point.
LEMMA AfterIs ==
  ASSUME NEW f, Sound(f), Direct(f), NEW b \in Blocks(f)
  PROVE  /\ \A i \in 1 .. Len(f.code[b]) : After(f, <<b, i>>) = {<<b, i + 1>>}
         /\ After(f, Term(f, b)) = {<<c, 1>> : c \in Succs(f, b)}
<1>1. Len(f.code[b]) \in Nat
  BY BlocksAre DEF Sound
<1>2. ASSUME NEW i \in 1 .. Len(f.code[b]) PROVE After(f, <<b, i>>) = {<<b, i + 1>>}
  <2>1. <<b, i>>[1] = b /\ <<b, i>>[2] = i /\ i # Len(f.code[b]) + 1
    BY <1>1
  <2>2. <<b, i>> # Term(f, b)
    BY <2>1 DEF Term
  <2> QED BY <2>1, <2>2 DEF After
<1>3. Term(f, b)[1] = b /\ Flows(f, b) = Succs(f, b)
  BY DEF Term, Flows, Direct
<1> QED BY <1>2, <1>3 DEF After

\* Within a block, alive is what is alive further down and made further up.
LEMMA AliveBack ==
  ASSUME NEW f, NEW t, NEW alive, Analysed(f, t, alive), NEW l \in DOMAIN t.birth,
         NEW b \in Blocks(f), NEW j \in 1 .. Len(f.code[b]) + 1, NEW i \in 1 .. j,
         <<b, j>> \in alive[l], \A k \in i + 1 .. j : t.birth[l] # <<b, k>>
  PROVE  <<b, i>> \in alive[l]
<1> DEFINE T == {k \in i .. j : <<b, k>> \in alive[l]}
<1>0. Len(f.code[b]) \in Nat
  BY BlocksAre DEF Analysed, Sound
<1>1. PICK m \in T : \A k \in T : m <= k
  <2>1. T \subseteq Nat /\ j \in T
    BY <1>0
  <2> HIDE DEF T
  <2> QED BY <2>1, LeastElement
<1>2. CASE m = i
  BY <1>2
<1>3. CASE m # i
  <2>1. m \in i + 1 .. j /\ m \in 1 .. Len(f.code[b]) + 1 /\ m > 1 /\ m - 1 \in i .. j /\ ~(m <= m - 1)
    BY <1>0, <1>3
  <2>2. <<b, m>> \in alive[l] /\ t.birth[l] # <<b, m>>
    BY <2>1
  <2>3. Before(f, <<b, m>>) = {<<b, m - 1>>}
    BY <2>1, PointIs, BeforeIs DEF Analysed
  <2>4. <<b, m - 1>> \in alive[l]
    BY <2>2, <2>3 DEF Analysed, Lively
  <2> QED BY <1>1, <2>1, <2>4
<1> QED BY <1>2, <1>3

\* What is alive in a block is alive at its end or released in it.
LEMMA AliveOn ==
  ASSUME NEW f, NEW t, NEW alive, Analysed(f, t, alive), NEW l \in DOMAIN t.birth,
         NEW b \in Blocks(f), NEW i \in 1 .. Len(f.code[b]) + 1,
         <<b, i>> \in alive[l], t.birth[l] # Term(f, b)
  PROVE  \/ l \in Out(f, t, alive, Term(f, b))
         \/ \E j \in 1 .. Len(f.code[b]) : l \in ReleasedAfter(f, t, alive, <<b, j>>)
<1> DEFINE T == {k \in 1 .. Len(f.code[b]) + 1 : <<b, k>> \in alive[l]}
<1>0. Len(f.code[b]) \in Nat
  BY BlocksAre DEF Analysed, Sound
<1>1. PICK m \in T : \A k \in T : k <= m
  <2>1. T \subseteq 0 .. Len(f.code[b]) + 1 /\ i \in T /\ Len(f.code[b]) + 1 \in Nat
    BY <1>0
  <2> HIDE DEF T
  <2> QED BY <2>1, GreatestElement
<1>2. CASE m = Len(f.code[b]) + 1
  <2>1. Term(f, b) \in alive[l]
    BY <1>2 DEF Term
  <2> QED BY <2>1 DEF Analysed, Lively
<1>3. CASE m # Len(f.code[b]) + 1
  <2>1. m \in 1 .. Len(f.code[b]) /\ m + 1 \in 1 .. Len(f.code[b]) + 1 /\ ~(m + 1 <= m)
    BY <1>0, <1>3
  <2>2. <<b, m + 1>> \notin alive[l] /\ <<b, m>> \in alive[l]
    BY <1>1, <2>1
  <2>3. After(f, <<b, m>>) = {<<b, m + 1>>}
    BY <2>1, AfterIs DEF Analysed
  <2>4. l \notin Out(f, t, alive, <<b, m>>)
    BY <2>2, <2>3 DEF Out, Comes
  <2>5. l \in In(alive, <<b, m>>)
    BY <2>2 DEF In, Analysed, Lively
  <2> QED BY <2>1, <2>4, <2>5 DEF ReleasedAfter
<1> QED BY <1>2, <1>3

\* What the terminator of a block leaves alive.
LEMMA OutIs ==
  ASSUME NEW f, NEW t, NEW alive, Analysed(f, t, alive), NEW l, NEW b \in Blocks(f)
  PROVE  l \in Out(f, t, alive, Term(f, b)) <=>
           l \in DOMAIN t.birth /\ \E c \in Succs(f, b) : Comes(t, alive, l, <<c, 1>>)
<1>1. After(f, Term(f, b)) = {<<c, 1>> : c \in Succs(f, b)} /\ DOMAIN alive = DOMAIN t.birth
  BY AfterIs DEF Analysed, Lively
<1>2. l \in Out(f, t, alive, Term(f, b)) <=>
        l \in DOMAIN alive /\ \E q \in After(f, Term(f, b)) : Comes(t, alive, l, q)
  BY DEF Out
<1>3. (\E q \in After(f, Term(f, b)) : Comes(t, alive, l, q))
        <=> \E c \in Succs(f, b) : Comes(t, alive, l, <<c, 1>>)
  BY <1>1
<1> QED BY <1>1, <1>2, <1>3

\* A translation that comes into a block has been made in one that dominates it.
LEMMA ComesIs ==
  ASSUME NEW f, NEW t, NEW alive, Analysed(f, t, alive), NEW l \in DOMAIN t.birth,
         NEW c \in Blocks(f), Comes(t, alive, l, <<c, 1>>)
  PROVE  /\ t.birth[l][1] # c /\ Dominates(f, t.birth[l][1], c)
         /\ \A b \in Preds(f, c) : /\ Dominates(f, t.birth[l][1], b)
                                   /\ Term(f, b) \in alive[l]
                                   /\ l \in Out(f, t, alive, Term(f, b))
<1> DEFINE o == t.birth[l]
<1>0. Len(f.code[c]) \in Nat /\ 1 \in 1 .. Len(f.code[c]) + 1
  BY BlocksAre DEF Analysed, Sound
<1>1. o \in Points(f) /\ o[2] \in Nat /\ ~(o[2] < 1) /\ o[1] \in Blocks(f)
  <2>1. o \in Points(f)
    BY DEF Analysed, Forested
  <2> QED BY <2>1, PointsAre, BlocksAre DEF Analysed, Sound
<1>2. Precedes(f, o, <<c, 1>>) /\ <<c, 1>> \in alive[l] /\ o # <<c, 1>>
  BY DEF Comes, Analysed, Lively
<1> HIDE DEF o
<1>3. o[1] # c /\ Dominates(f, o[1], c)
  BY <1>1, <1>2 DEF Precedes
<1>4. ASSUME NEW b \in Preds(f, c)
      PROVE  Dominates(f, o[1], b) /\ Term(f, b) \in alive[l] /\ l \in Out(f, t, alive, Term(f, b))
  <2>0. b \in Blocks(f) /\ c \in Succs(f, b)
    BY DEF Preds
  <2>1. Dominates(f, o[1], b)
    BY <1>3, DomPreds DEF Analysed, Sound
  <2>2. Before(f, <<c, 1>>) = {Term(f, a) : a \in Preds(f, c)}
    BY <1>0, PointIs, BeforeIs DEF Analysed
  <2>3. Term(f, b) \in alive[l]
    BY <1>2, <2>2 DEF Analysed, Lively, o
  <2>4. l \in Out(f, t, alive, Term(f, b))
    BY <2>0, OutIs
  <2> QED BY <2>1, <2>3, <2>4
<1> QED BY <1>3, <1>4 DEF o

\* What is released is not alive any more, unless it is made again.
LEMMA ReleasedIs ==
  ASSUME NEW f, NEW t, NEW alive, Analysed(f, t, alive), NEW b \in Blocks(f),
         NEW i \in 1 .. Len(f.code[b]), NEW l \in ReleasedAfter(f, t, alive, <<b, i>>)
  PROVE  /\ l \in DOMAIN t.birth
         /\ t.birth[l] = <<b, i>> \/ Precedes(f, t.birth[l], <<b, i>>)
         /\ \A j \in i + 1 .. Len(f.code[b]) + 1 : t.birth[l] # <<b, j>> /\ <<b, j>> \notin alive[l]
         /\ l \notin Out(f, t, alive, Term(f, b))
<1>0. Len(f.code[b]) \in Nat /\ i \in 1 .. Len(f.code[b]) + 1 /\ i + 1 \in 1 .. Len(f.code[b]) + 1
  BY BlocksAre DEF Analysed, Sound
<1>1. l \in DOMAIN t.birth /\ <<b, i>> \in alive[l] /\ l \notin Out(f, t, alive, <<b, i>>)
  BY DEF ReleasedAfter, In, Analysed, Lively
<1>2. ~Comes(t, alive, l, <<b, i + 1>>)
  BY <1>1, AfterIs DEF Out, Analysed, Lively
<1>3. t.birth[l] = <<b, i>> \/ Precedes(f, t.birth[l], <<b, i>>)
  BY <1>1 DEF Analysed, Lively
<1>4. ASSUME NEW j \in i + 1 .. Len(f.code[b]) + 1 PROVE t.birth[l] # <<b, j>>
  BY <1>0, <1>3 DEF Precedes
<1>5. ASSUME NEW j \in i + 1 .. Len(f.code[b]) + 1, <<b, j>> \in alive[l] PROVE FALSE
  <2>1. j \in 1 .. Len(f.code[b]) + 1 /\ i + 1 \in 1 .. j /\ \A k \in (i + 1) + 1 .. j : k \in i + 1 .. Len(f.code[b]) + 1
    BY <1>0
  <2>2. <<b, i + 1>> \in alive[l]
    BY <1>1, <1>4, <1>5, <2>1, AliveBack
  <2>3. i + 1 \in i + 1 .. Len(f.code[b]) + 1
    BY <1>0
  <2> QED BY <1>2, <1>4, <2>2, <2>3 DEF Comes
<1>6. l \notin Out(f, t, alive, Term(f, b))
  <2> SUFFICES ASSUME l \in Out(f, t, alive, Term(f, b)) PROVE FALSE
    OBVIOUS
  <2>1. PICK c \in Succs(f, b) : Comes(t, alive, l, <<c, 1>>)
    BY OutIs
  <2>2. c \in Blocks(f) /\ b \in Preds(f, c)
    BY LaidFinite DEF Preds, Analysed, Sound
  <2>3. Term(f, b) \in alive[l]
    BY <1>1, <2>1, <2>2, ComesIs
  <2>4. Len(f.code[b]) + 1 \in i + 1 .. Len(f.code[b]) + 1
    BY <1>0
  <2> QED BY <1>5, <2>3, <2>4 DEF Term
<1> QED BY <1>1, <1>3, <1>4, <1>5, <1>6

-----------------------------------------------------------------------------
(***************************************************************************)
(* The code of a block: what stands for each instruction, in order.        *)
(***************************************************************************)

\* A set in a row.
LEMMA RowOf ==
  ASSUME NEW S, IsFiniteSet(S)
  PROVE  /\ Cardinality(S) \in Nat /\ DOMAIN SetToSeq(S) = 1 .. Cardinality(S)
         /\ \A i \in DOMAIN SetToSeq(S) : SetToSeq(S)[i] \in S
         /\ \A l \in S : \E i \in DOMAIN SetToSeq(S) : SetToSeq(S)[i] = l
         /\ \A i, j \in DOMAIN SetToSeq(S) : SetToSeq(S)[i] = SetToSeq(S)[j] => i = j
         /\ SetToSeq(S) \in Seq(S)
<1> DEFINE n == Cardinality(S)
           s == SetToSeq(S)
<1>1. n \in Nat /\ ExistsBijection(1 .. n, S)
  BY FS_CardinalityType
<1>2. \E h \in [1 .. n -> S] : IsInjective(h)
  BY <1>1 DEF ExistsBijection, Bijection, Injection, IsInjective
<1>3. s \in [1 .. n -> S] /\ IsInjective(s)
  BY <1>2, Zenon DEF SetToSeq
<1>4. s \in Injection(1 .. n, S) /\ Cardinality(1 .. n) = n
  BY <1>1, <1>3, FS_Interval DEF Injection
<1>5. s \in Surjection(1 .. n, S)
  <2> HIDE DEF s
  <2> QED BY <1>4, FS_Injection
<1>6. DOMAIN s = 1 .. n /\ \A i \in 1 .. n : s[i] \in S
  BY <1>3
<1>7. \A l \in S : \E i \in 1 .. n : s[i] = l
  BY <1>5 DEF Surjection
<1>8. \A i, j \in DOMAIN s : s[i] = s[j] => i = j
  BY <1>3, Zenon DEF IsInjective
<1>9. s \in Seq(S)
  BY <1>1, <1>3
<1> HIDE DEF s, n
<1> QED BY <1>1, <1>6, <1>7, <1>8, <1>9 DEF s, n

\* The instructions that are emitted.
LEMMA InsIs ==
  ASSUME NEW op, NEW val, NEW tr
  PROVE  Ins(op, val, tr).op = op /\ Ins(op, val, tr).val = val /\ Ins(op, val, tr).tr = tr
BY DEF Ins

\* The translations of a finite set, each of them once.
LEMMA AllIs ==
  ASSUME NEW f, NEW op, NEW S, IsFiniteSet(S)
  PROVE  /\ Cardinality(S) \in Nat /\ DOMAIN All(f, op, S) = 1 .. Cardinality(S)
         /\ All(f, op, S) = [i \in 1 .. Cardinality(S) |-> All(f, op, S)[i]]
         /\ \A i \in DOMAIN All(f, op, S) :
              \E l \in S : All(f, op, S)[i] = Ins(op, At(f, l).ptr, l)
         /\ \A l \in S : \E i \in DOMAIN All(f, op, S) : All(f, op, S)[i] = Ins(op, At(f, l).ptr, l)
         /\ \A i, j \in DOMAIN All(f, op, S) : All(f, op, S)[i].tr = All(f, op, S)[j].tr => i = j
<1> DEFINE o == SetToSeq(S)
           a == All(f, op, S)
<1>1. a = [k \in DOMAIN o |-> Ins(op, At(f, o[k]).ptr, o[k])]
  BY DEF All
<1>2. /\ Cardinality(S) \in Nat /\ DOMAIN o = 1 .. Cardinality(S)
      /\ \A i \in DOMAIN o : o[i] \in S
      /\ \A l \in S : \E i \in DOMAIN o : o[i] = l
      /\ \A i, j \in DOMAIN o : o[i] = o[j] => i = j
  BY RowOf
<1>3. DOMAIN a = 1 .. Cardinality(S) /\ \A i \in DOMAIN o : a[i] = Ins(op, At(f, o[i]).ptr, o[i])
  BY <1>1, <1>2
<1>4. a = [i \in 1 .. Cardinality(S) |-> a[i]]
  BY <1>1, <1>2
<1> HIDE DEF a, o
<1>5. \A i \in DOMAIN o : a[i].tr = o[i]
  BY <1>3, InsIs
<1> QED BY <1>2, <1>3, <1>4, <1>5 DEF a

\* What stands for one instruction.
LEMMA EmittedIs ==
  ASSUME NEW f, NEW t, Forested(f, t), NEW p
  PROVE  /\ At(f, p).op = "ext" =>
              Emitted(f, t, p) = <<Ins("translate", At(f, p).ptr, p), Ins("ext", At(f, p).ptr, p)>>
         /\ At(f, p).op # "ext" =>
              Emitted(f, t, p) =
                <<Ins(At(f, p).op, At(f, p).val, IF p \in DOMAIN t.owner THEN t.owner[p] ELSE None)>>
<1>1. CASE At(f, p).op = "ext"
  BY <1>1 DEF Emitted, Forested
<1>2. CASE At(f, p).op # "ext" /\ p \in DOMAIN t.owner
  BY <1>2 DEF Emitted
<1>3. CASE At(f, p).op # "ext" /\ p \notin DOMAIN t.owner
  BY <1>3 DEF Emitted
<1> QED BY <1>1, <1>2, <1>3

\* s is seg[3], seg[4], ..., seg[top] one after the other: position k belongs to
\* number K[k], and number x comes after position O[x].
Spread(s, seg, K, O, top) ==
  /\ \A k \in 1 .. Len(s) : /\ K[k] \in 3 .. top /\ k - O[K[k]] \in DOMAIN seg[K[k]]
                            /\ s[k] = seg[K[k]][k - O[K[k]]]
  /\ \A x \in 3 .. top : /\ O[x] \in Nat
                         /\ \A i \in DOMAIN seg[x] : O[x] + i \in 1 .. Len(s) /\ K[O[x] + i] = x
  /\ \A j, k \in 1 .. Len(s) : j <= k => K[j] <= K[k]

\* One more part goes behind the others.
LEMMA SpreadMore ==
  ASSUME NEW I, NEW s \in Seq(I), NEW seg, NEW K, NEW O, NEW top \in Nat, top >= 2,
         Spread(s, seg, K, O, top), seg[top + 1] \in Seq(I)
  PROVE  /\ s \o seg[top + 1] \in Seq(I)
         /\ \E L, P : Spread(s \o seg[top + 1], seg, L, P, top + 1)
<1> DEFINE u == seg[top + 1]
           n == Len(s)
           r == s \o u
           L == [k \in 1 .. n + Len(u) |-> IF k <= n THEN K[k] ELSE top + 1]
           P == [x \in 3 .. top + 1 |-> IF x = top + 1 THEN n ELSE O[x]]
<1>1. /\ n \in Nat /\ Len(u) \in Nat /\ DOMAIN u = 1 .. Len(u)
      /\ r \in Seq(I) /\ Len(r) = n + Len(u)
      /\ \A k \in 1 .. n + Len(u) : r[k] = IF k <= n THEN s[k] ELSE u[k - n]
  BY LenProperties, ConcatProperties
<1>2. \A k \in 1 .. n + Len(u) : L[k] = IF k <= n THEN K[k] ELSE top + 1
  OBVIOUS
<1>3. \A x \in 3 .. top + 1 : P[x] = IF x = top + 1 THEN n ELSE O[x]
  OBVIOUS
<1>4. /\ \A k \in 1 .. n : K[k] \in 3 .. top /\ k - O[K[k]] \in DOMAIN seg[K[k]] /\ s[k] = seg[K[k]][k - O[K[k]]]
      /\ \A x \in 3 .. top : /\ O[x] \in Nat
                             /\ \A i \in DOMAIN seg[x] : O[x] + i \in 1 .. n /\ K[O[x] + i] = x
      /\ \A j, k \in 1 .. n : j <= k => K[j] <= K[k]
  BY DEF Spread
<1>5. seg[top + 1] = u
  OBVIOUS
<1> HIDE DEF u, n, r, L, P
<1>6. ASSUME NEW k \in 1 .. n + Len(u)
      PROVE  L[k] \in 3 .. top + 1 /\ k - P[L[k]] \in DOMAIN seg[L[k]] /\ r[k] = seg[L[k]][k - P[L[k]]]
  <2>1. CASE k <= n
    <3>1. k \in 1 .. n /\ L[k] = K[k] /\ r[k] = s[k] /\ K[k] \in 3 .. top
      BY <1>1, <1>2, <1>4, <2>1
    <3>2. P[K[k]] = O[K[k]]
      BY <1>3, <3>1
    <3> QED BY <1>4, <3>1, <3>2
  <2>2. CASE ~(k <= n)
    <3>1. k - n \in 1 .. Len(u) /\ L[k] = top + 1 /\ r[k] = u[k - n] /\ P[top + 1] = n
      BY <1>1, <1>2, <1>3, <2>2
    <3> QED BY <1>1, <1>5, <3>1
  <2> QED BY <2>1, <2>2
<1>7. ASSUME NEW x \in 3 .. top + 1
      PROVE  P[x] \in Nat /\ \A i \in DOMAIN seg[x] : P[x] + i \in 1 .. n + Len(u) /\ L[P[x] + i] = x
  <2>1. CASE x = top + 1
    <3>1. P[x] = n
      BY <1>3, <2>1
    <3>2. ASSUME NEW i \in 1 .. Len(u) PROVE n + i \in 1 .. n + Len(u) /\ L[n + i] = x
      BY <1>1, <1>2, <2>1
    <3> QED BY <1>1, <1>5, <2>1, <3>1, <3>2
  <2>2. CASE x # top + 1
    <3>1. x \in 3 .. top /\ P[x] = O[x]
      BY <1>3, <2>2
    <3>2. ASSUME NEW i \in DOMAIN seg[x] PROVE O[x] + i \in 1 .. n + Len(u) /\ L[O[x] + i] = x
      <4>1. O[x] + i \in 1 .. n /\ K[O[x] + i] = x
        BY <1>4, <3>1
      <4> QED BY <1>1, <1>2, <4>1
    <3> QED BY <1>4, <3>1, <3>2
  <2> QED BY <2>1, <2>2
<1>8. ASSUME NEW j \in 1 .. n + Len(u), NEW k \in 1 .. n + Len(u), j <= k PROVE L[j] <= L[k]
  <2>1. CASE k <= n
    BY <1>1, <1>2, <1>4, <1>8, <2>1
  <2>2. CASE ~(k <= n)
    <3>1. L[k] = top + 1 /\ L[j] \in 3 .. top + 1
      BY <1>2, <1>6, <2>2
    <3> QED BY <3>1
  <2> QED BY <2>1, <2>2
<1>9. Spread(r, seg, L, P, top + 1)
  BY <1>1, <1>6, <1>7, <1>8 DEF Spread
<1> QED BY <1>1, <1>9 DEF r, u

\* The code of block b in parts: for the nth instruction, the translations that
\* start there, the instruction and the releases after it.
Segments(f, t, alive, b) ==
  [x \in 3 .. 3 * Len(f.code[b]) + 3 |->
     IF x % 3 = 0 THEN All(f, "translate", BornAt(t, <<b, x \div 3>>))
     ELSE IF x % 3 = 1 THEN Emitted(f, t, <<b, x \div 3>>)
     ELSE All(f, "release", ReleasedAfter(f, t, alive, <<b, x \div 3>>))]

\* The parts are finite sequences of instructions.
LEMMA SegmentsAre ==
  ASSUME NEW f, NEW t, NEW alive, NEW b, Len(f.code[b]) \in Nat, NEW n \in 1 .. Len(f.code[b]) + 1
  PROVE  LET seg == Segments(f, t, alive, b)
         IN  /\ seg[3 * n] = All(f, "translate", BornAt(t, <<b, n>>))
             /\ n # Len(f.code[b]) + 1 =>
                  /\ seg[3 * n + 1] = Emitted(f, t, <<b, n>>)
                  /\ seg[3 * n + 2] = All(f, "release", ReleasedAfter(f, t, alive, <<b, n>>))
<1>1. /\ 3 * n \in 3 .. 3 * Len(f.code[b]) + 3 /\ (3 * n) % 3 = 0 /\ (3 * n) \div 3 = n
      /\ n # Len(f.code[b]) + 1 =>
           /\ 3 * n + 1 \in 3 .. 3 * Len(f.code[b]) + 3 /\ (3 * n + 1) % 3 = 1 /\ (3 * n + 1) \div 3 = n
           /\ 3 * n + 2 \in 3 .. 3 * Len(f.code[b]) + 3 /\ (3 * n + 2) % 3 = 2 /\ (3 * n + 2) \div 3 = n
  OBVIOUS
<1> DEFINE seg == Segments(f, t, alive, b)
<1>2. \A x \in 3 .. 3 * Len(f.code[b]) + 3 :
        /\ x % 3 = 0 => seg[x] = All(f, "translate", BornAt(t, <<b, x \div 3>>))
        /\ x % 3 = 1 => seg[x] = Emitted(f, t, <<b, x \div 3>>)
        /\ x % 3 = 2 => seg[x] = All(f, "release", ReleasedAfter(f, t, alive, <<b, x \div 3>>))
  BY DEF Segments
<1> HIDE DEF seg
<1>3. seg[3 * n] = All(f, "translate", BornAt(t, <<b, n>>))
  BY <1>1, <1>2, Zenon
<1>4. CASE n # Len(f.code[b]) + 1
  BY <1>1, <1>2, <1>3, <1>4, Zenon DEF seg
<1>5. CASE n = Len(f.code[b]) + 1
  BY <1>3, <1>5, Zenon DEF seg
<1> QED BY <1>4, <1>5

LEMMA SegmentsFinite ==
  ASSUME NEW f, NEW t, NEW alive, Analysed(f, t, alive)
  PROVE  /\ IsFiniteSet(DOMAIN t.birth)
         /\ \A p : /\ IsFiniteSet(BornAt(t, p)) /\ BornAt(t, p) \subseteq DOMAIN t.birth
                   /\ IsFiniteSet(ReleasedAfter(f, t, alive, p))
                   /\ ReleasedAfter(f, t, alive, p) \subseteq DOMAIN t.birth
         /\ \A b, c : /\ IsFiniteSet(ReleasedOn(f, t, alive, b, c))
                      /\ ReleasedOn(f, t, alive, b, c) \subseteq DOMAIN t.birth
<1>1. DOMAIN t.birth \in SUBSET Body(f)
  BY DEF Analysed, Forested
<1>2. IsFiniteSet(DOMAIN t.birth)
  BY <1>1, BodyFinite, FS_Subset DEF Analysed, Sound
<1>3. /\ \A p : BornAt(t, p) \in SUBSET DOMAIN t.birth
      /\ \A p : ReleasedAfter(f, t, alive, p) \in SUBSET DOMAIN t.birth
      /\ \A b, c : ReleasedOn(f, t, alive, b, c) \in SUBSET DOMAIN t.birth
  BY DEF BornAt, ReleasedAfter, ReleasedOn, In, Analysed, Lively
<1> QED BY <1>2, <1>3, FS_Subset

\* The instructions of block b.
Instructions(f, t, alive, b) ==
  UNION {{Segments(f, t, alive, b)[x][i] : i \in DOMAIN Segments(f, t, alive, b)[x]} :
            x \in 3 .. 3 * Len(f.code[b]) + 3}

LEMMA SequenceIs ==
  ASSUME NEW s, NEW n \in Nat, s = [i \in 1 .. n |-> s[i]], NEW I, \A i \in 1 .. n : s[i] \in I
  PROVE  s \in Seq(I)
<1>1. s \in [1 .. n -> I]
  OBVIOUS
<1> QED BY <1>1, SeqDef

IsRow(s) == \E n \in Nat : s = [i \in 1 .. n |-> s[i]]

LEMMA SegmentsSeq ==
  ASSUME NEW f, NEW t, NEW alive, Analysed(f, t, alive), NEW b \in Blocks(f),
         NEW x \in 3 .. 3 * Len(f.code[b]) + 3
  PROVE  Segments(f, t, alive, b)[x] \in Seq(Instructions(f, t, alive, b))
<1> DEFINE seg == Segments(f, t, alive, b)
           I   == Instructions(f, t, alive, b)
           L   == Len(f.code[b])
<1>1. \A i \in DOMAIN seg[x] : seg[x][i] \in I
  BY DEF Instructions
<1>2. seg[x] \in { All(f, "translate", BornAt(t, <<b, x \div 3>>)), Emitted(f, t, <<b, x \div 3>>),
                   All(f, "release", ReleasedAfter(f, t, alive, <<b, x \div 3>>)) }
  BY DEF Segments
<1>3. IsRow(seg[x])
  <2> HIDE DEF seg
  <2>1. ASSUME NEW op, NEW S, IsFiniteSet(S) PROVE IsRow(All(f, op, S))
    BY <2>1, AllIs DEF IsRow
  <2>2. IsRow(Emitted(f, t, <<b, x \div 3>>))
    <3> DEFINE p == <<b, x \div 3>>
    <3> HIDE DEF p
    <3>0. Forested(f, t)
      BY DEF Analysed
    <3>1. CASE At(f, p).op = "ext"
      <4>1. Emitted(f, t, p) = [i \in 1 .. 2 |-> Emitted(f, t, p)[i]]
        BY <3>0, <3>1, EmittedIs
      <4> QED BY <4>1 DEF p, IsRow
    <3>2. CASE At(f, p).op # "ext"
      <4>1. Emitted(f, t, p) = [i \in 1 .. 1 |-> Emitted(f, t, p)[i]]
        BY <3>0, <3>2, EmittedIs
      <4> QED BY <4>1 DEF p, IsRow
    <3> QED BY <3>1, <3>2
  <2>3. IsRow(All(f, "translate", BornAt(t, <<b, x \div 3>>)))
    BY <2>1, SegmentsFinite
  <2>4. IsRow(All(f, "release", ReleasedAfter(f, t, alive, <<b, x \div 3>>)))
    BY <2>1, SegmentsFinite
  <2> QED BY <1>2, <2>2, <2>3, <2>4
<1> HIDE DEF seg, I
<1>4. PICK n \in Nat : seg[x] = [i \in 1 .. n |-> seg[x][i]]
  BY <1>3 DEF IsRow
<1>5. DOMAIN seg[x] = 1 .. n
  BY <1>4
<1>6. seg[x] \in Seq(I)
  BY <1>1, <1>4, <1>5, SequenceIs
<1> QED BY <1>6 DEF seg, I

\* The code of a block is its parts, one behind the other.
LEMMA BlockSpread ==
  ASSUME NEW f, NEW t, NEW alive, Analysed(f, t, alive), NEW b \in Blocks(f)
  PROVE  /\ BlockCode(f, t, alive, b) \in Seq(Instructions(f, t, alive, b))
         /\ \E K, O : Spread(BlockCode(f, t, alive, b), Segments(f, t, alive, b), K, O,
                             3 * Len(f.code[b]) + 3)
<1> DEFINE L   == Len(f.code[b])
           seg == Segments(f, t, alive, b)
           I   == Instructions(f, t, alive, b)
           V   == [i \in 0 .. L |-> {s \in Seq(I) : \E K, O : Spread(s, seg, K, O, 3 * i + 2)}]
           Row(s, i) == s \o All(f, "translate", BornAt(t, <<b, i>>)) \o Emitted(f, t, <<b, i>>)
                          \o All(f, "release", ReleasedAfter(f, t, alive, <<b, i>>))
           step == [i \in 1 .. L |-> [s \in Seq(I) |-> Row(s, i)]]
           Solves(U) == U = [i \in 0 .. L |-> IF i = 0 THEN <<>> ELSE Row(U[i - 1], i)]
           Upto == CHOOSE U : Solves(U)
<1>1. L \in Nat /\ L + 1 \in 1 .. L + 1
  BY BlocksAre DEF Analysed, Sound
<1>2. BlockCode(f, t, alive, b) = Upto[L] \o All(f, "translate", BornAt(t, <<b, L + 1>>))
  BY Zenon DEF BlockCode, Term
<1>3. \A x \in 3 .. 3 * L + 3 : seg[x] \in Seq(I)
  BY SegmentsSeq
<1>20. \A n \in 1 .. L + 1 :
         /\ seg[3 * n] = All(f, "translate", BornAt(t, <<b, n>>))
         /\ n # L + 1 => /\ seg[3 * n + 1] = Emitted(f, t, <<b, n>>)
                         /\ seg[3 * n + 2] = All(f, "release", ReleasedAfter(f, t, alive, <<b, n>>))
  BY <1>1, SegmentsAre
<1>4. ASSUME NEW i \in 1 .. L, NEW s
      PROVE  Row(s, i) = ((s \o seg[3 * i]) \o seg[3 * i + 1]) \o seg[3 * i + 2]
  <2>1. i \in 1 .. L + 1 /\ i # L + 1
    BY <1>1
  <2>2. /\ seg[3 * i] = All(f, "translate", BornAt(t, <<b, i>>))
        /\ seg[3 * i + 1] = Emitted(f, t, <<b, i>>)
        /\ seg[3 * i + 2] = All(f, "release", ReleasedAfter(f, t, alive, <<b, i>>))
    BY <1>20, <2>1
  <2> HIDE DEF seg
  <2> QED BY <2>2, Zenon
<1>5. seg[3 * L + 3] = All(f, "translate", BornAt(t, <<b, L + 1>>))
  <2>1. 3 * (L + 1) = 3 * L + 3
    BY <1>1
  <2>2. seg[3 * (L + 1)] = All(f, "translate", BornAt(t, <<b, L + 1>>))
    BY <1>1, <1>20
  <2> QED BY <2>1, <2>2
<1>6. \A i \in 0 .. L : V[i] = {s \in Seq(I) : \E K, O : Spread(s, seg, K, O, 3 * i + 2)}
  OBVIOUS
<1>7. \A i \in 1 .. L : \A s \in Seq(I) : step[i][s] = Row(s, i)
  OBVIOUS
<1> HIDE DEF V, step, Row, seg, I, L
<1>8. <<>> \in V[0]
  <2>1. <<>> \in Seq(I) /\ Len(<<>>) = 0
    BY EmptySeq
  <2>2. Spread(<<>>, seg, <<>>, <<>>, 3 * 0 + 2)
    BY DEF Spread
  <2>3. 0 \in 0 .. L
    BY <1>1
  <2> QED BY <1>6, <2>1, <2>2, <2>3
<1>9. ASSUME NEW i \in 1 .. L, NEW s \in V[i - 1] PROVE Row(s, i) \in V[i]
  <2>0. i \in 0 .. L /\ i - 1 \in 0 .. L /\ 3 * (i - 1) + 2 \in Nat /\ 3 * (i - 1) + 2 >= 2
        /\ (3 * (i - 1) + 2) + 1 = 3 * i /\ 3 * i \in Nat /\ 3 * i >= 2 /\ 3 * i + 1 \in Nat /\ 3 * i + 1 >= 2
        /\ (3 * i + 1) + 1 = 3 * i + 2
        /\ 3 * i \in 3 .. 3 * L + 3 /\ 3 * i + 1 \in 3 .. 3 * L + 3 /\ 3 * i + 2 \in 3 .. 3 * L + 3
    BY <1>1
  <2>1. s \in Seq(I) /\ \E K, O : Spread(s, seg, K, O, 3 * (i - 1) + 2)
    BY <1>6, <2>0
  <2>2. s \o seg[3 * i] \in Seq(I) /\ \E K, O : Spread(s \o seg[3 * i], seg, K, O, 3 * i)
    BY <1>3, <2>0, <2>1, SpreadMore
  <2>3. /\ (s \o seg[3 * i]) \o seg[3 * i + 1] \in Seq(I)
        /\ \E K, O : Spread((s \o seg[3 * i]) \o seg[3 * i + 1], seg, K, O, 3 * i + 1)
    BY <1>3, <2>0, <2>2, SpreadMore
  <2>4. /\ ((s \o seg[3 * i]) \o seg[3 * i + 1]) \o seg[3 * i + 2] \in Seq(I)
        /\ \E K, O : Spread(((s \o seg[3 * i]) \o seg[3 * i + 1]) \o seg[3 * i + 2], seg, K, O, 3 * i + 2)
    BY <1>3, <2>0, <2>3, SpreadMore
  <2>5. Row(s, i) \in Seq(I) /\ \E K, O : Spread(Row(s, i), seg, K, O, 3 * i + 2)
    BY <1>4, <2>4
  <2> QED BY <1>6, <2>0, <2>5
<1>10. \A i \in 1 .. L : i \in 0 .. L /\ i - 1 \in 0 .. L /\ i # 0
  BY <1>1
<1>11. \A i \in 1 .. L : \A s \in V[i - 1] : step[i][s] \in V[i] /\ step[i][s] = Row(s, i)
  <2> SUFFICES ASSUME NEW i \in 1 .. L, NEW s \in V[i - 1]
               PROVE  step[i][s] \in V[i] /\ step[i][s] = Row(s, i)
    OBVIOUS
  <2>1. s \in Seq(I)
    BY <1>6, <1>10
  <2>2. step[i][s] = Row(s, i)
    BY <1>7, <2>1, Zenon
  <2> QED BY <1>9, <2>2, Zenon
<1>12. PICK U : Leads(U, L, <<>>, step) /\ \A i \in 0 .. L : U[i] \in V[i]
  BY <1>1, <1>8, <1>11, Recursion, Zenon
<1>13. Solves(U)
  <2>1. \A i \in 0 .. L : U[i] = IF i = 0 THEN <<>> ELSE Row(U[i - 1], i)
    <3> SUFFICES ASSUME NEW i \in 0 .. L PROVE U[i] = IF i = 0 THEN <<>> ELSE Row(U[i - 1], i)
      OBVIOUS
    <3>1. i # 0 => i \in 1 .. L
      BY <1>1
    <3>2. U[0] = <<>>
      BY <1>12 DEF Leads
    <3>3. i # 0 => U[i] = step[i][U[i - 1]] /\ U[i - 1] \in V[i - 1]
      BY <1>10, <1>12, <3>1, Zenon DEF Leads
    <3>4. i # 0 => U[i] = Row(U[i - 1], i)
      BY <1>11, <3>1, <3>3, Zenon
    <3> QED BY <3>2, <3>4, Zenon
  <2>2. U = [i \in 0 .. L |-> U[i]]
    BY <1>12, Zenon DEF Leads
  <2> QED BY <2>1, <2>2, Zenon
<1>14. Solves(Upto)
  BY <1>13, Zenon
<1> HIDE DEF Upto
<1>15. Follows(Upto, U, L, <<>>, step)
  <2>1. \A i \in 0 .. L : Upto[i] = IF i = 0 THEN <<>> ELSE Row(Upto[i - 1], i)
    BY <1>14, Zenon
  <2>2. 0 \in 0 .. L
    BY <1>1
  <2>3. \A i \in 1 .. L : Upto[i - 1] = U[i - 1] => Upto[i] = step[i][U[i - 1]]
    <3> SUFFICES ASSUME NEW i \in 1 .. L, Upto[i - 1] = U[i - 1] PROVE Upto[i] = step[i][U[i - 1]]
      OBVIOUS
    <3>1. Upto[i] = Row(U[i - 1], i)
      BY <1>10, <2>1, Zenon
    <3>2. U[i - 1] \in V[i - 1]
      BY <1>10, <1>12, Zenon
    <3> QED BY <1>11, <3>1, <3>2, Zenon
  <2> QED BY <2>1, <2>2, <2>3, Zenon DEF Follows
<1>16. L \in 0 .. L /\ 3 * L + 2 \in Nat /\ 3 * L + 2 >= 2 /\ (3 * L + 2) + 1 = 3 * L + 3
       /\ 3 * L + 3 \in 3 .. 3 * L + 3
  BY <1>1
<1>17. Upto[L] = U[L]
  <2>1. Leads(U, L, <<>>, step)
    BY <1>12
  <2>2. \A i \in 0 .. L : Upto[i] = U[i]
    BY <1>1, <1>15, <2>1, RecursionOnce
  <2> QED BY <1>16, <2>2
<1>18. Upto[L] \in Seq(I) /\ \E K, O : Spread(Upto[L], seg, K, O, 3 * L + 2)
  <2>1. Upto[L] \in V[L]
    BY <1>12, <1>16, <1>17, Zenon
  <2> QED BY <1>6, <1>16, <2>1
<1>19. Upto[L] \o seg[3 * L + 3] \in Seq(I) /\ \E K, O : Spread(Upto[L] \o seg[3 * L + 3], seg, K, O, 3 * L + 3)
  BY <1>3, <1>16, <1>18, SpreadMore
<1> QED BY <1>2, <1>5, <1>19 DEF L, seg, I

\* What code C of block b holds at position k comes from instruction N[k]: a
\* translation that starts there (P[k] = 0), the instruction itself (1) or a
\* release after it (2).
StartsHere(f, t, b, C, N, P, k) ==
  \E l \in BornAt(t, <<b, N[k]>>) : C[k] = Ins("translate", At(f, l).ptr, l)
EndsHere(f, t, alive, b, C, N, P, k) ==
  \E l \in ReleasedAfter(f, t, alive, <<b, N[k]>>) : C[k] = Ins("release", At(f, l).ptr, l)
Plain(f, t, b, C, N, P, k) ==
  LET p == <<b, N[k]>>
  IN  /\ At(f, p).op # "ext"
      /\ C[k] = Ins(At(f, p).op, At(f, p).val, IF p \in DOMAIN t.owner THEN t.owner[p] ELSE None)
      /\ \A j \in DOMAIN C : P[j] = 1 /\ N[j] = N[k] => j = k
Passing(f, b, C, N, P, k) ==
  LET p == <<b, N[k]>>
  IN  /\ At(f, p).op = "ext"
      /\ k \in DOMAIN C /\ k + 1 \in DOMAIN C
      /\ C[k] = Ins("translate", At(f, p).ptr, p) /\ C[k + 1] = Ins("ext", At(f, p).ptr, p)
      /\ N[k + 1] = N[k] /\ P[k] = 1 /\ P[k + 1] = 1
      /\ \A j \in DOMAIN C : P[j] = 1 /\ N[j] = N[k] => j = k \/ j = k + 1
Rows(f, t, alive, b, C, N, P) ==
  /\ Len(C) \in Nat /\ DOMAIN C = 1 .. Len(C)
  /\ \A k \in DOMAIN C :
       /\ N[k] \in 1 .. Len(f.code[b]) + 1 /\ P[k] \in 0 .. 2
       /\ P[k] # 0 => N[k] \in 1 .. Len(f.code[b])
       /\ P[k] = 0 => StartsHere(f, t, b, C, N, P, k)
       /\ P[k] = 1 => \/ Plain(f, t, b, C, N, P, k)
                      \/ Passing(f, b, C, N, P, k)
                      \/ Passing(f, b, C, N, P, k - 1) /\ N[k - 1] = N[k]
       /\ P[k] = 2 => EndsHere(f, t, alive, b, C, N, P, k)
  /\ \A j, k \in DOMAIN C : j < k => N[j] < N[k] \/ (N[j] = N[k] /\ P[j] <= P[k])
  /\ \A n \in 1 .. Len(f.code[b]) + 1 : \A l \in BornAt(t, <<b, n>>) :
       \E k \in DOMAIN C : N[k] = n /\ P[k] = 0 /\ C[k] = Ins("translate", At(f, l).ptr, l)
  /\ \A n \in 1 .. Len(f.code[b]) : \A l \in ReleasedAfter(f, t, alive, <<b, n>>) :
       \E k \in DOMAIN C : N[k] = n /\ P[k] = 2 /\ C[k] = Ins("release", At(f, l).ptr, l)
  /\ \A j, k \in DOMAIN C : P[j] = 0 /\ P[k] = 0 /\ N[j] = N[k] /\ C[j].tr = C[k].tr => j = k

\* Every block has such rows.
LEMMA RowsExist ==
  ASSUME NEW f, NEW t, NEW alive, Analysed(f, t, alive), NEW b \in Blocks(f)
  PROVE  \E N, P : Rows(f, t, alive, b, BlockCode(f, t, alive, b), N, P)
<1> DEFINE C   == BlockCode(f, t, alive, b)
           L   == Len(f.code[b])
           seg == Segments(f, t, alive, b)
<1>1. C \in Seq(Instructions(f, t, alive, b)) /\ \E K, O : Spread(C, seg, K, O, 3 * L + 3)
  BY BlockSpread
<1>2. L \in Nat
  BY BlocksAre DEF Analysed, Sound
<1>3. Len(C) \in Nat /\ DOMAIN C = 1 .. Len(C)
  BY <1>1, LenProperties
<1> HIDE DEF C
<1>40. PICK K : \E O : Spread(C, seg, K, O, 3 * L + 3)
  BY <1>1
<1>4. PICK O : Spread(C, seg, K, O, 3 * L + 3)
  BY <1>40
<1> DEFINE N == [k \in DOMAIN C |-> K[k] \div 3]
           P == [k \in DOMAIN C |-> K[k] % 3]
           D == DOMAIN C
<1>20. \A n \in 1 .. L + 1 :
         /\ seg[3 * n] = All(f, "translate", BornAt(t, <<b, n>>))
         /\ n # L + 1 => /\ seg[3 * n + 1] = Emitted(f, t, <<b, n>>)
                         /\ seg[3 * n + 2] = All(f, "release", ReleasedAfter(f, t, alive, <<b, n>>))
  BY <1>2, SegmentsAre
<1> HIDE DEF seg
<1>5. /\ \A k \in D : /\ K[k] \in 3 .. 3 * L + 3 /\ k - O[K[k]] \in DOMAIN seg[K[k]]
                      /\ C[k] = seg[K[k]][k - O[K[k]]]
      /\ \A x \in 3 .. 3 * L + 3 : /\ O[x] \in Nat
                                   /\ \A i \in DOMAIN seg[x] : O[x] + i \in D /\ K[O[x] + i] = x
      /\ \A j, k \in D : j <= k => K[j] <= K[k]
  BY <1>3, <1>4 DEF Spread
<1>6. \A k \in D : N[k] = K[k] \div 3 /\ P[k] = K[k] % 3
  OBVIOUS
<1> HIDE DEF N, P
<1>7. ASSUME NEW k \in D
      PROVE  /\ K[k] = 3 * N[k] + P[k] /\ N[k] \in 1 .. L + 1 /\ P[k] \in 0 .. 2
             /\ P[k] # 0 => N[k] \in 1 .. L
  <2>1. K[k] \in 3 .. 3 * L + 3
    BY <1>5
  <2> HIDE DEF L
  <2> QED BY <1>2, <1>6, <2>1
<1>8. ASSUME NEW j \in D, NEW k \in D, j < k
      PROVE  N[j] < N[k] \/ (N[j] = N[k] /\ P[j] <= P[k])
  <2>1. K[j] <= K[k]
    BY <1>3, <1>5, <1>8
  <2> HIDE DEF L, D
  <2> QED BY <1>2, <1>7, <2>1
<1>9. \A n \in 1 .. L + 1 : \A p \in 0 .. 2 : 3 * n + p \in Nat /\ (3 * n + p) \div 3 = n /\ (3 * n + p) % 3 = p
  <2> HIDE DEF L
  <2> QED BY <1>2
<1>10. \A n \in 1 .. L + 1 : 3 * n \in 3 .. 3 * L + 3
                             /\ (n # L + 1 => 3 * n + 1 \in 3 .. 3 * L + 3 /\ 3 * n + 2 \in 3 .. 3 * L + 3)
  <2> HIDE DEF L
  <2> QED BY <1>2
<1>30. \A n \in 1 .. L : n \in 1 .. L + 1 /\ n # L + 1
  <2> HIDE DEF L
  <2> QED BY <1>2
<1> HIDE DEF D
<1>11. ASSUME NEW k \in D, P[k] = 0
       PROVE  \E l \in BornAt(t, <<b, N[k]>>) : C[k] = Ins("translate", At(f, l).ptr, l)
  <2>1. K[k] = 3 * N[k] /\ N[k] \in 1 .. L + 1
    <3> HIDE DEF L
    <3> QED BY <1>2, <1>7, <1>11
  <2>2. seg[K[k]] = All(f, "translate", BornAt(t, <<b, N[k]>>)) /\ IsFiniteSet(BornAt(t, <<b, N[k]>>))
    BY <1>20, <2>1, SegmentsFinite
  <2> QED BY <1>5, <2>2, AllIs
<1>12. ASSUME NEW k \in D, P[k] = 2
       PROVE  \E l \in ReleasedAfter(f, t, alive, <<b, N[k]>>) : C[k] = Ins("release", At(f, l).ptr, l)
  <2>1. K[k] = 3 * N[k] + 2 /\ N[k] \in 1 .. L + 1 /\ N[k] # L + 1
    <3> HIDE DEF L
    <3> QED BY <1>2, <1>7, <1>12
  <2>2. /\ seg[K[k]] = All(f, "release", ReleasedAfter(f, t, alive, <<b, N[k]>>))
        /\ IsFiniteSet(ReleasedAfter(f, t, alive, <<b, N[k]>>))
    BY <1>20, <2>1, SegmentsFinite
  <2> QED BY <1>5, <2>2, AllIs
<1>13. ASSUME NEW n \in 1 .. L + 1, NEW l \in BornAt(t, <<b, n>>)
       PROVE  \E k \in D : N[k] = n /\ P[k] = 0 /\ C[k] = Ins("translate", At(f, l).ptr, l)
  <2>1. /\ seg[3 * n] = All(f, "translate", BornAt(t, <<b, n>>)) /\ IsFiniteSet(BornAt(t, <<b, n>>))
        /\ 3 * n \in 3 .. 3 * L + 3
    BY <1>10, <1>20, SegmentsFinite
  <2>2. PICK i \in DOMAIN seg[3 * n] : seg[3 * n][i] = Ins("translate", At(f, l).ptr, l)
    BY <2>1, AllIs
  <2>30. i \in Int
    BY <2>1, AllIs
  <2>3. O[3 * n] \in Nat /\ O[3 * n] + i \in D /\ K[O[3 * n] + i] = 3 * n /\ (O[3 * n] + i) - O[3 * n] = i
    BY <1>5, <2>1, <2>30
  <2>4. C[O[3 * n] + i] = seg[3 * n][i]
    BY <1>5, <2>3
  <2>5. (3 * n) \div 3 = n /\ (3 * n) % 3 = 0
    <3> HIDE DEF L
    <3> QED BY <1>2
  <2>6. N[O[3 * n] + i] = n /\ P[O[3 * n] + i] = 0
    BY <1>6, <2>3, <2>5
  <2> QED BY <2>2, <2>3, <2>4, <2>6
<1>14. ASSUME NEW n \in 1 .. L, NEW l \in ReleasedAfter(f, t, alive, <<b, n>>)
       PROVE  \E k \in D : N[k] = n /\ P[k] = 2 /\ C[k] = Ins("release", At(f, l).ptr, l)
  <2> DEFINE x == 3 * n + 2
  <2>1. /\ seg[x] = All(f, "release", ReleasedAfter(f, t, alive, <<b, n>>))
        /\ IsFiniteSet(ReleasedAfter(f, t, alive, <<b, n>>))
        /\ x \in 3 .. 3 * L + 3 /\ x \div 3 = n /\ x % 3 = 2
    BY <1>9, <1>10, <1>20, <1>30, SegmentsFinite
  <2> HIDE DEF x
  <2>2. PICK i \in DOMAIN seg[x] : seg[x][i] = Ins("release", At(f, l).ptr, l)
    BY <2>1, AllIs
  <2>30. i \in Int
    BY <2>1, AllIs
  <2>3. O[x] \in Nat /\ O[x] + i \in D /\ K[O[x] + i] = x /\ (O[x] + i) - O[x] = i
    BY <1>5, <2>1, <2>30
  <2>4. C[O[x] + i] = seg[x][i]
    BY <1>5, <2>3
  <2>6. N[O[x] + i] = n /\ P[O[x] + i] = 2
    BY <1>6, <2>1, <2>3
  <2> QED BY <2>2, <2>3, <2>4, <2>6
<1>15. ASSUME NEW j \in D, NEW k \in D, P[j] = 0, P[k] = 0, N[j] = N[k], C[j].tr = C[k].tr PROVE j = k
  <2> DEFINE x == K[k]
  <2>1. x = 3 * N[k] /\ K[j] = x /\ N[k] \in 1 .. L + 1
    <3> HIDE DEF L
    <3> QED BY <1>2, <1>7, <1>15
  <2>2. seg[x] = All(f, "translate", BornAt(t, <<b, N[k]>>)) /\ IsFiniteSet(BornAt(t, <<b, N[k]>>))
        /\ x \in 3 .. 3 * L + 3
    BY <1>10, <1>20, <2>1, SegmentsFinite
  <2>3. /\ j - O[x] \in DOMAIN seg[x] /\ k - O[x] \in DOMAIN seg[x] /\ O[x] \in Nat
        /\ C[j] = seg[x][j - O[x]] /\ C[k] = seg[x][k - O[x]]
    BY <1>5, <2>1, <2>2
  <2> HIDE DEF x
  <2>4. j - O[x] = k - O[x]
    BY <1>15, <2>2, <2>3, AllIs
  <2> QED BY <1>3, <2>3, <2>4 DEF D
<1>16. ASSUME NEW k \in D, P[k] = 1
       PROVE  \/ Plain(f, t, b, C, N, P, k) \/ Passing(f, b, C, N, P, k)
              \/ Passing(f, b, C, N, P, k - 1) /\ N[k - 1] = N[k]
  <2> DEFINE p == <<b, N[k]>>
             x == K[k]
             o == O[x]
  <2>1. x = 3 * N[k] + 1 /\ N[k] \in 1 .. L + 1 /\ N[k] # L + 1
    <3> HIDE DEF L
    <3> QED BY <1>2, <1>7, <1>16
  <2>2. seg[x] = Emitted(f, t, p) /\ x \in 3 .. 3 * L + 3
    BY <1>10, <1>20, <2>1
  <2>3. \A j \in D : P[j] = 1 /\ N[j] = N[k] => K[j] = x
    <3> HIDE DEF L, x
    <3> QED BY <1>7, <2>1
  <2>4. \A i \in DOMAIN seg[x] : o + i \in D /\ K[o + i] = x
    BY <1>5, <2>2
  <2>5. \A j \in D : K[j] = x => j - o \in DOMAIN seg[x] /\ C[j] = seg[x][j - o]
    BY <1>5
  <2>6. o \in Nat /\ k \in Nat /\ \A j \in D : j \in Nat
    BY <1>3, <1>5, <2>2 DEF D
  <2>7. \A j \in D : K[j] = x => N[j] = N[k] /\ P[j] = 1
    BY <1>6, <1>16
  <2>8. Forested(f, t)
    BY DEF Analysed
  <2> HIDE DEF x, o
  <2>9. K[k] = x
    BY DEF x
  <2>10. CASE At(f, p).op # "ext"
    <3>1. /\ DOMAIN seg[x] = {1}
          /\ seg[x][1] = Ins(At(f, p).op, At(f, p).val, IF p \in DOMAIN t.owner THEN t.owner[p] ELSE None)
      BY <2>2, <2>8, <2>10, EmittedIs
    <3>2. \A j \in D : K[j] = x => j - o = 1 /\ C[j] = seg[x][1]
      BY <2>5, <3>1
    <3>3. \A j \in D : K[j] = x => j = o + 1
      BY <2>6, <3>2
    <3>4. C[k] = seg[x][1] /\ \A j \in D : P[j] = 1 /\ N[j] = N[k] => j = k
      BY <2>3, <2>9, <3>2, <3>3
    <3> QED BY <2>10, <3>1, <3>4 DEF Plain, D
  <2>11. CASE At(f, p).op = "ext"
    <3>1. /\ DOMAIN seg[x] = {1, 2}
          /\ seg[x][1] = Ins("translate", At(f, p).ptr, p) /\ seg[x][2] = Ins("ext", At(f, p).ptr, p)
      BY <2>2, <2>8, <2>11, EmittedIs
    <3>20. \A j \in D : K[j] = x => j - o = 1 \/ j - o = 2
      BY <2>5, <3>1
    <3>2. \A j \in D : K[j] = x => j = o + 1 \/ j = o + 2
      BY <2>6, <3>20
    <3>3. o + 1 \in D /\ K[o + 1] = x /\ o + 2 \in D /\ K[o + 2] = x /\ (o + 1) - o = 1 /\ (o + 2) - o = 2
      BY <2>4, <2>6, <3>1
    <3>4. C[o + 1] = seg[x][1] /\ C[o + 2] = seg[x][2]
      BY <2>5, <3>3
    <3>5. N[o + 1] = N[k] /\ N[o + 2] = N[k] /\ P[o + 1] = 1 /\ P[o + 2] = 1 /\ (o + 1) + 1 = o + 2
      BY <2>6, <2>7, <3>3
    <3>6. \A j \in D : P[j] = 1 /\ N[j] = N[k] => j = o + 1 \/ j = (o + 1) + 1
      BY <2>3, <3>2, <3>5
    <3>7. Passing(f, b, C, N, P, o + 1)
      BY <2>11, <3>1, <3>3, <3>4, <3>5, <3>6 DEF Passing, D
    <3>8. k = o + 1 \/ (k - 1 = o + 1 /\ N[k - 1] = N[k])
      BY <2>6, <2>9, <3>2, <3>5
    <3> QED BY <3>7, <3>8
  <2> QED BY <2>10, <2>11
<1>17. Rows(f, t, alive, b, C, N, P)
  BY <1>3, <1>7, <1>8, <1>11, <1>12, <1>13, <1>14, <1>15, <1>16 DEF Rows, StartsHere, EndsHere, D
<1> QED BY <1>17 DEF C

\* What an instruction of the block is.
Kind(f, t, alive, b, C, N, P, k) ==
  LET p == <<b, N[k]>>
      l == C[k].tr
  IN  /\ P[k] # 0 => p \in Body(f)
      /\ P[k] = 0 => C[k].op = "translate" /\ C[k].val = At(f, l).ptr
                     /\ l \in DOMAIN t.birth /\ t.birth[l] = p
      /\ P[k] = 2 => C[k].op = "release" /\ l \in ReleasedAfter(f, t, alive, p)
      /\ P[k] = 1 =>
           \/ /\ C[k].op = At(f, p).op /\ C[k].val = At(f, p).val
              /\ C[k].op \in {"def", "use", "gep", "call"}
              /\ l # None => p \in Nodes(f) /\ l = t.owner[p]
              /\ Plain(f, t, b, C, N, P, k)
           \/ /\ C[k].op = "translate" /\ C[k].val = At(f, l).ptr /\ l = p
              /\ At(f, p).op = "ext" /\ Passing(f, b, C, N, P, k)
           \/ /\ C[k].op = "ext" /\ C[k].val = At(f, l).ptr /\ l = p
              /\ At(f, p).op = "ext" /\ Passing(f, b, C, N, P, k - 1) /\ N[k - 1] = N[k]

\* The rows tell what each instruction is.
LEMMA KindIs ==
  ASSUME NEW f, NEW t, NEW alive, Analysed(f, t, alive), NEW b \in Blocks(f),
         NEW C, NEW N, NEW P, Rows(f, t, alive, b, C, N, P), NEW k \in DOMAIN C
  PROVE  Kind(f, t, alive, b, C, N, P, k)
<1> DEFINE p == <<b, N[k]>>
           l == C[k].tr
<1>1. /\ N[k] \in 1 .. Len(f.code[b]) + 1 /\ P[k] \in 0 .. 2 /\ k \in Nat
      /\ P[k] # 0 => N[k] \in 1 .. Len(f.code[b])
  BY DEF Rows
<1>2. ASSUME P[k] # 0 PROVE p \in Body(f)
  <2>1. p[1] = b /\ p[2] = N[k] /\ p = <<p[1], p[2]>>
    OBVIOUS
  <2> HIDE DEF p
  <2> QED BY <1>1, <1>2, <2>1, PointsAre DEF Analysed, Sound
<1>3. ASSUME P[k] = 0
      PROVE  C[k].op = "translate" /\ C[k].val = At(f, l).ptr /\ l \in DOMAIN t.birth /\ t.birth[l] = p
  <2>1. PICK m \in BornAt(t, p) : C[k] = Ins("translate", At(f, m).ptr, m)
    BY <1>3 DEF Rows, StartsHere
  <2> HIDE DEF p
  <2> QED BY <2>1, InsIs DEF BornAt
<1>4. ASSUME P[k] = 2 PROVE C[k].op = "release" /\ l \in ReleasedAfter(f, t, alive, p)
  <2>1. PICK m \in ReleasedAfter(f, t, alive, p) : C[k] = Ins("release", At(f, m).ptr, m)
    BY <1>4 DEF Rows, EndsHere
  <2> HIDE DEF p
  <2> QED BY <2>1, InsIs
<1>5. ASSUME P[k] = 1, Plain(f, t, b, C, N, P, k)
      PROVE  /\ C[k].op = At(f, p).op /\ C[k].val = At(f, p).val
             /\ C[k].op \in {"def", "use", "gep", "call"}
             /\ l # None => p \in Nodes(f) /\ l = t.owner[p]
  <2>1. At(f, p).op # "ext"
        /\ C[k] = Ins(At(f, p).op, At(f, p).val, IF p \in DOMAIN t.owner THEN t.owner[p] ELSE None)
    BY <1>5 DEF Plain
  <2>2. At(f, p).op \in {"def", "use", "gep", "call", "ext"}
    BY <1>2, <1>5 DEF Analysed, Sound, Wellformed, Shaped
  <2>3. DOMAIN t.owner = Nodes(f)
    BY DEF Analysed, Forested
  <2> HIDE DEF p
  <2> QED BY <2>1, <2>2, <2>3, InsIs
<1>6. ASSUME Passing(f, b, C, N, P, k)
      PROVE  C[k].op = "translate" /\ C[k].val = At(f, l).ptr /\ l = p /\ At(f, p).op = "ext"
  <2>1. At(f, p).op = "ext" /\ C[k] = Ins("translate", At(f, p).ptr, p)
    BY <1>6 DEF Passing
  <2> HIDE DEF p
  <2> QED BY <2>1, InsIs
<1>7. ASSUME Passing(f, b, C, N, P, k - 1), N[k - 1] = N[k]
      PROVE  C[k].op = "ext" /\ C[k].val = At(f, l).ptr /\ l = p /\ At(f, p).op = "ext"
  <2>0. (k - 1) + 1 = k
    BY <1>1
  <2>1. At(f, p).op = "ext" /\ C[k] = Ins("ext", At(f, p).ptr, p)
    BY <1>7, <2>0 DEF Passing
  <2> HIDE DEF p
  <2> QED BY <2>1, InsIs
<1>8. P[k] = 1 => \/ Plain(f, t, b, C, N, P, k)
                  \/ Passing(f, b, C, N, P, k)
                  \/ Passing(f, b, C, N, P, k - 1) /\ N[k - 1] = N[k]
  BY DEF Rows
<1> HIDE DEF p, l
<1> QED BY <1>2, <1>3, <1>4, <1>5, <1>6, <1>7, <1>8 DEF Kind, p, l

\* A block makes a translation in one place.
LEMMA MadeOnce ==
  ASSUME NEW f, NEW t, NEW alive, Analysed(f, t, alive), NEW b \in Blocks(f),
         NEW C, NEW N, NEW P, Rows(f, t, alive, b, C, N, P), NEW j \in DOMAIN C, NEW k \in DOMAIN C,
         C[j].op = "translate", C[k].op = "translate", C[j].tr = C[k].tr
  PROVE  j = k
<1> DEFINE l == C[k].tr
<1>1. \A i \in {j, k} : \/ P[i] = 0 /\ l \in DOMAIN t.birth /\ t.birth[l] = <<b, N[i]>>
                        \/ P[i] = 1 /\ l = <<b, N[i]>> /\ At(f, l).op = "ext" /\ Passing(f, b, C, N, P, i)
  <2> SUFFICES ASSUME NEW i \in {j, k}
               PROVE  \/ P[i] = 0 /\ l \in DOMAIN t.birth /\ t.birth[l] = <<b, N[i]>>
                      \/ P[i] = 1 /\ l = <<b, N[i]>> /\ At(f, l).op = "ext" /\ Passing(f, b, C, N, P, i)
    OBVIOUS
  <2>1. i \in DOMAIN C /\ C[i].op = "translate" /\ C[i].tr = l
    OBVIOUS
  <2>2. P[i] \in 0 .. 2
    BY <2>1 DEF Rows
  <2>3. Kind(f, t, alive, b, C, N, P, i)
    BY <2>1, KindIs
  <2> HIDE DEF l
  <2> QED BY <2>1, <2>2, <2>3 DEF Kind
<1>2. l \in DOMAIN t.birth => At(f, l).op # "ext"
  <2> HIDE DEF l
  <2> QED BY DEF Analysed, Forested
<1>3. CASE P[j] = 0 /\ P[k] = 0
  <2>1. N[j] = N[k]
    BY <1>1, <1>3
  <2> QED BY <1>3, <2>1 DEF Rows
<1>4. CASE P[j] = 1 /\ P[k] = 1
  <2>1. N[j] = N[k] /\ Passing(f, b, C, N, P, j)
    BY <1>1, <1>4
  <2>2. k = j \/ k = j + 1
    BY <1>4, <2>1 DEF Passing
  <2>3. C[j + 1].op = "ext"
    BY <2>1, InsIs DEF Passing
  <2> QED BY <2>2, <2>3
<1> QED BY <1>1, <1>2, <1>3, <1>4

-----------------------------------------------------------------------------
(***************************************************************************)
(* Where a block still wants a translation, it is alive.                   *)
(***************************************************************************)

\* Code C makes l at position k.
Starts(C, k, l) == C[k].op = "translate" /\ C[k].tr = l
\* From position i on C uses l as it is, or leaves it to the blocks after it.
Wants(C, ends, l, i) ==
  \/ \E k \in DOMAIN C : /\ k >= i /\ C[k].op \in {"use", "ext"} /\ C[k].tr = l
                         /\ \A m \in DOMAIN C : i <= m /\ m < k => ~Starts(C, m, l)
  \/ ends /\ \A m \in DOMAIN C : i <= m => ~Starts(C, m, l)

\* Until then it is alive, what it is made from has been made, and it is not
\* released.
WantsExt(t, C, l, i) ==
  /\ l \notin DOMAIN t.birth /\ i \in DOMAIN C /\ C[i].op = "ext" /\ C[i].tr = l
  /\ i - 1 \in DOMAIN C /\ Starts(C, i - 1, l)
WantsAt(f, t, alive, b, C, N, P, l, i, n) ==
  /\ l \in DOMAIN t.birth
  /\ t.birth[l] = <<b, n>> \/ (Precedes(f, t.birth[l], <<b, n>>) /\ <<b, n>> \in alive[l])
  /\ \A j \in DOMAIN C : Starts(C, j, l) => j < i
  /\ \A j \in DOMAIN C : j < i /\ P[j] # 0 => N[j] < n

\* Translations of the forest are made where birth says, and in one place.
LEMMA StartsIs ==
  ASSUME NEW f, NEW t, NEW alive, Analysed(f, t, alive), NEW b \in Blocks(f),
         NEW C, NEW N, NEW P, Rows(f, t, alive, b, C, N, P), NEW l \in DOMAIN t.birth
  PROVE  /\ \A j \in DOMAIN C : Starts(C, j, l) => P[j] = 0 /\ t.birth[l] = <<b, N[j]>>
         /\ t.birth[l][1] = b =>
              \E j \in DOMAIN C : Starts(C, j, l) /\ P[j] = 0 /\ t.birth[l] = <<b, N[j]>>
<1>1. ASSUME NEW j \in DOMAIN C, Starts(C, j, l) PROVE P[j] = 0 /\ t.birth[l] = <<b, N[j]>>
  <2>1. Kind(f, t, alive, b, C, N, P, j) /\ P[j] \in 0 .. 2
    BY KindIs DEF Rows
  <2>2. At(f, l).op # "ext"
    BY DEF Analysed, Forested
  <2> QED BY <1>1, <2>1, <2>2 DEF Kind, Starts
<1>2. ASSUME t.birth[l][1] = b
      PROVE  \E j \in DOMAIN C : Starts(C, j, l) /\ P[j] = 0 /\ t.birth[l] = <<b, N[j]>>
  <2> DEFINE n == t.birth[l][2]
  <2>1. t.birth[l] = <<b, n>> /\ n \in 1 .. Len(f.code[b]) + 1
    <3>1. t.birth[l] \in Points(f)
      BY DEF Analysed, Forested
    <3> QED BY <1>2, <3>1, PointsAre DEF Analysed, Sound
  <2>2. l \in BornAt(t, <<b, n>>)
    BY <2>1 DEF BornAt
  <2> HIDE DEF n
  <2>3. PICK j \in DOMAIN C : N[j] = n /\ P[j] = 0 /\ C[j] = Ins("translate", At(f, l).ptr, l)
    BY <2>1, <2>2 DEF Rows
  <2> QED BY <2>1, <2>3, InsIs DEF Starts
<1> QED BY <1>1, <1>2

\* What a block still wants is alive, has been made, and is not released yet.
LEMMA WantsIs ==
  ASSUME NEW f, NEW t, NEW alive, Analysed(f, t, alive), NEW b \in Blocks(f),
         NEW C, NEW N, NEW P, Rows(f, t, alive, b, C, N, P), NEW l, l # None,
         NEW i \in 1 .. Len(C) + 1, Wants(C, l \in Out(f, t, alive, Term(f, b)), l, i)
  PROVE  \/ WantsExt(t, C, l, i)
         \/ \E n \in 1 .. Len(f.code[b]) + 1 : WantsAt(f, t, alive, b, C, N, P, l, i, n)
<1>0. /\ Len(f.code[b]) \in Nat /\ Len(C) \in Nat /\ DOMAIN C = 1 .. Len(C)
      /\ \A k \in DOMAIN C : N[k] \in 1 .. Len(f.code[b]) + 1 /\ P[k] \in 0 .. 2
                             /\ (P[k] # 0 => N[k] \in 1 .. Len(f.code[b]))
      /\ \A j, k \in DOMAIN C : j < k => N[j] < N[k] \/ (N[j] = N[k] /\ P[j] <= P[k])
  <2>1. Len(f.code[b]) \in Nat
    BY BlocksAre DEF Analysed, Sound
  <2> QED BY <2>1 DEF Rows
<1>1. ASSUME NEW k \in DOMAIN C, k >= i, C[k].op \in {"use", "ext"}, C[k].tr = l,
             \A m \in DOMAIN C : i <= m /\ m < k => ~Starts(C, m, l)
      PROVE  \/ WantsExt(t, C, l, i)
             \/ \E n \in 1 .. Len(f.code[b]) + 1 : WantsAt(f, t, alive, b, C, N, P, l, i, n)
  <2> DEFINE p == <<b, N[k]>>
  <2>1. Kind(f, t, alive, b, C, N, P, k) /\ P[k] \in 0 .. 2
    BY <1>0, KindIs
  <2>2. P[k] = 1
    BY <1>1, <2>1 DEF Kind
  <2>3. \/ p \in Nodes(f) /\ l = t.owner[p] /\ Plain(f, t, b, C, N, P, k)
        \/ /\ C[k].op = "ext" /\ l = p /\ At(f, p).op = "ext" /\ Passing(f, b, C, N, P, k - 1)
           /\ N[k - 1] = N[k]
    BY <1>1, <2>1, <2>2 DEF Kind
  <2>4. ASSUME C[k].op = "ext", l = p, At(f, p).op = "ext", Passing(f, b, C, N, P, k - 1), N[k - 1] = N[k]
        PROVE  WantsExt(t, C, l, i)
    <3> HIDE DEF p
    <3>1. k - 1 \in DOMAIN C /\ Starts(C, k - 1, l)
      BY <2>4, InsIs DEF Passing, Starts, p
    <3>2. k = i
      BY <1>0, <1>1, <3>1
    <3>3. l \notin DOMAIN t.birth
      BY <2>4 DEF Analysed, Forested
    <3> QED BY <1>1, <2>4, <3>1, <3>2, <3>3 DEF WantsExt
  <2>5. ASSUME p \in Nodes(f), l = t.owner[p], Plain(f, t, b, C, N, P, k)
        PROVE  WantsAt(f, t, alive, b, C, N, P, l, i, N[k])
    <3>1. /\ l \in DOMAIN t.birth /\ (t.birth[l] = p \/ Precedes(f, t.birth[l], p))
          /\ t.birth[l] = p \/ p \in alive[l]
      BY <2>5 DEF Analysed, Forested, Lively
    <3>2. ASSUME NEW j \in DOMAIN C, Starts(C, j, l) PROVE j < i
      <4>1. P[j] = 0 /\ t.birth[l] = <<b, N[j]>>
        BY <3>1, <3>2, StartsIs
      <4>2. N[j] <= N[k]
        <5>1. CASE t.birth[l] = p
          BY <1>0, <4>1, <5>1
        <5>2. CASE Precedes(f, t.birth[l], p)
          BY <1>0, <4>1, <5>2 DEF Precedes
        <5> QED BY <3>1, <5>1, <5>2
      <4>3. j < k
        BY <1>0, <2>2, <4>1, <4>2
      <4> QED BY <1>0, <1>1, <3>2, <4>3
    <3>3. ASSUME NEW j \in DOMAIN C, j < i, P[j] # 0 PROVE N[j] < N[k]
      <4>1. j < k /\ P[j] \in 1 .. 2
        BY <1>0, <1>1, <3>3
      <4>2. P[j] = 1 => N[j] # N[k]
        <5>1. \A m \in DOMAIN C : P[m] = 1 /\ N[m] = N[k] => m = k
          BY <2>5, Zenon DEF Plain
        <5> QED BY <1>0, <4>1, <5>1
      <4> QED BY <1>0, <2>2, <4>1, <4>2
    <3> QED BY <3>1, <3>2, <3>3 DEF WantsAt
  <2> QED BY <1>0, <2>3, <2>4, <2>5
<1>2. ASSUME l \in Out(f, t, alive, Term(f, b)), \A m \in DOMAIN C : i <= m => ~Starts(C, m, l)
      PROVE  WantsAt(f, t, alive, b, C, N, P, l, i, Len(f.code[b]) + 1)
  <2>1. PICK c \in Succs(f, b) : Comes(t, alive, l, <<c, 1>>)
    BY <1>2, OutIs
  <2>2. c \in Blocks(f) /\ b \in Preds(f, c) /\ l \in DOMAIN t.birth
    BY <1>2, LaidFinite, OutIs DEF Preds, Analysed, Sound
  <2>3. Term(f, b) \in alive[l]
    BY <2>1, <2>2, ComesIs
  <2>4. t.birth[l] = Term(f, b) \/ Precedes(f, t.birth[l], Term(f, b))
    BY <2>2, <2>3 DEF Analysed, Lively
  <2>5. \A j \in DOMAIN C : Starts(C, j, l) => j < i
    BY <1>0, <1>2
  <2>6. \A j \in DOMAIN C : P[j] # 0 => N[j] < Len(f.code[b]) + 1
    BY <1>0
  <2> QED BY <2>2, <2>3, <2>4, <2>5, <2>6 DEF WantsAt, Term
<1>3. Len(f.code[b]) + 1 \in 1 .. Len(f.code[b]) + 1
  BY <1>0
<1>4. CASE l \in Out(f, t, alive, Term(f, b)) /\ \A m \in DOMAIN C : i <= m => ~Starts(C, m, l)
  BY <1>2, <1>3, <1>4
<1>5. CASE ~(l \in Out(f, t, alive, Term(f, b)) /\ \A m \in DOMAIN C : i <= m => ~Starts(C, m, l))
  <2>1. PICK k \in DOMAIN C : /\ k >= i /\ C[k].op \in {"use", "ext"} /\ C[k].tr = l
                              /\ \A m \in DOMAIN C : i <= m /\ m < k => ~Starts(C, m, l)
    BY <1>5 DEF Wants
  <2> QED BY <1>1, <2>1
<1> QED BY <1>4, <1>5

\* What it wants from its start comes from the blocks before.
LEMMA WantsStart ==
  ASSUME NEW f, NEW t, NEW alive, Analysed(f, t, alive), NEW b \in Blocks(f),
         NEW C, NEW N, NEW P, Rows(f, t, alive, b, C, N, P), NEW l, l # None,
         Wants(C, l \in Out(f, t, alive, Term(f, b)), l, 1)
  PROVE  l \in DOMAIN t.birth /\ Comes(t, alive, l, <<b, 1>>)
<1>1. Len(C) \in Nat /\ DOMAIN C = 1 .. Len(C) /\ 1 \in 1 .. Len(C) + 1
  BY DEF Rows
<1>2. ~WantsExt(t, C, l, 1)
  BY <1>1 DEF WantsExt
<1>3. PICK n \in 1 .. Len(f.code[b]) + 1 : WantsAt(f, t, alive, b, C, N, P, l, 1, n)
  BY <1>1, <1>2, WantsIs
<1>4. l \in DOMAIN t.birth /\ \A j \in DOMAIN C : ~Starts(C, j, l)
  BY <1>1, <1>3 DEF WantsAt
<1>5. t.birth[l][1] # b
  BY <1>4, StartsIs
<1>6. \A k : t.birth[l] # <<b, k>>
  BY <1>5
<1>7. <<b, n>> \in alive[l]
  BY <1>3, <1>6 DEF WantsAt
<1>8. 1 \in 1 .. n
  OBVIOUS
<1>9. <<b, 1>> \in alive[l]
  BY <1>4, <1>6, <1>7, <1>8, AliveBack
<1> QED BY <1>4, <1>6, <1>9 DEF Comes

\* The block makes it, releases it, or passes it on.
LEMMA WantsLive ==
  ASSUME NEW f, NEW t, NEW alive, Analysed(f, t, alive), NEW b \in Blocks(f),
         NEW C, NEW N, NEW P, Rows(f, t, alive, b, C, N, P), NEW l, l # None,
         NEW i \in 1 .. Len(C) + 1, Wants(C, l \in Out(f, t, alive, Term(f, b)), l, i)
  PROVE  \/ \E j \in DOMAIN C : Starts(C, j, l)
         \/ \E j \in DOMAIN C : C[j].op = "release" /\ C[j].tr = l
         \/ l \in Out(f, t, alive, Term(f, b))
<1>1. CASE WantsExt(t, C, l, i)
  BY <1>1 DEF WantsExt
<1>2. CASE ~WantsExt(t, C, l, i)
  <2>1. PICK n \in 1 .. Len(f.code[b]) + 1 : WantsAt(f, t, alive, b, C, N, P, l, i, n)
    BY <1>2, WantsIs
  <2>2. l \in DOMAIN t.birth
    BY <2>1 DEF WantsAt
  <2>3. CASE t.birth[l][1] = b
    BY <2>2, <2>3, StartsIs
  <2>4. CASE t.birth[l][1] # b
    <3>1. <<b, n>> \in alive[l]
      BY <2>1, <2>4 DEF WantsAt
    <3>2. t.birth[l] # Term(f, b)
      BY <2>4 DEF Term
    <3>3. CASE l \in Out(f, t, alive, Term(f, b))
      BY <3>3
    <3>4. CASE \E j \in 1 .. Len(f.code[b]) : l \in ReleasedAfter(f, t, alive, <<b, j>>)
      <4>1. \E k \in DOMAIN C : C[k] = Ins("release", At(f, l).ptr, l)
        BY <3>4 DEF Rows
      <4> QED BY <4>1, InsIs
    <3> QED BY <2>2, <3>1, <3>2, <3>3, <3>4, AliveOn
  <2> QED BY <2>3, <2>4
<1> QED BY <1>1, <1>2

\* Behind a statepoint.
LEMMA WantsPast ==
  ASSUME NEW f, NEW t, NEW alive, Analysed(f, t, alive), NEW b \in Blocks(f),
         NEW C, NEW N, NEW P, Rows(f, t, alive, b, C, N, P), NEW l, l # None,
         NEW i \in DOMAIN C, C[i].op \in {"call", "ext"},
         Wants(C, l \in Out(f, t, alive, Term(f, b)), l, i + 1)
  PROVE  /\ \A j \in DOMAIN C : Starts(C, j, l) => j < i
         /\ \A j \in DOMAIN C : C[j].op = "release" /\ C[j].tr = l => i < j
<1>1. /\ Len(C) \in Nat /\ DOMAIN C = 1 .. Len(C) /\ i + 1 \in 1 .. Len(C) + 1 /\ (i + 1) - 1 = i
      /\ \A k \in DOMAIN C : P[k] \in 0 .. 2 /\ (P[k] # 0 => N[k] \in 1 .. Len(f.code[b]))
  BY DEF Rows
<1>2. ~WantsExt(t, C, l, i + 1)
  BY <1>1 DEF WantsExt, Starts
<1>3. PICK n \in 1 .. Len(f.code[b]) + 1 : WantsAt(f, t, alive, b, C, N, P, l, i + 1, n)
  BY <1>1, <1>2, WantsIs
<1>4. ASSUME NEW j \in DOMAIN C, Starts(C, j, l) PROVE j < i
  <2>1. j < i + 1
    BY <1>3, <1>4 DEF WantsAt
  <2>2. j # i
    BY <1>4 DEF Starts
  <2> QED BY <1>1, <2>1, <2>2
<1>5. ASSUME NEW j \in DOMAIN C, C[j].op = "release", C[j].tr = l, ~(i < j) PROVE FALSE
  <2>1. Kind(f, t, alive, b, C, N, P, j) /\ P[j] \in 0 .. 2
    BY <1>1, KindIs
  <2>2. P[j] = 2 /\ l \in ReleasedAfter(f, t, alive, <<b, N[j]>>)
    BY <1>5, <2>1 DEF Kind
  <2>3. N[j] < n
    <3>1. j < i + 1
      BY <1>1, <1>5
    <3> QED BY <1>3, <2>2, <3>1 DEF WantsAt
  <2>4. N[j] \in 1 .. Len(f.code[b]) /\ n \in N[j] + 1 .. Len(f.code[b]) + 1
    BY <1>1, <2>2, <2>3
  <2>5. t.birth[l] # <<b, n>> /\ <<b, n>> \notin alive[l]
    BY <2>2, <2>4, ReleasedIs
  <2> QED BY <1>3, <2>5 DEF WantsAt
<1> QED BY <1>4, <1>5

\* What is made of a pointer is not needed when the pointer is defined.
LEMMA WantsDefined ==
  ASSUME NEW f, NEW t, NEW alive, Analysed(f, t, alive), NEW b \in Blocks(f),
         NEW C, NEW N, NEW P, Rows(f, t, alive, b, C, N, P), NEW l, l # None,
         NEW i \in DOMAIN C, C[i].op \in {"def", "use", "gep"}, C[i].val # None, C[i].val = At(f, l).ptr
  PROVE  ~Wants(C, l \in Out(f, t, alive, Term(f, b)), l, i + 1)
<1> SUFFICES ASSUME Wants(C, l \in Out(f, t, alive, Term(f, b)), l, i + 1) PROVE FALSE
  OBVIOUS
<1> DEFINE d == <<b, N[i]>>
           v == At(f, l).ptr
<1>1. /\ Len(C) \in Nat /\ DOMAIN C = 1 .. Len(C) /\ i + 1 \in 1 .. Len(C) + 1 /\ (i + 1) - 1 = i
      /\ \A k \in DOMAIN C : /\ N[k] \in 1 .. Len(f.code[b]) + 1 /\ P[k] \in 0 .. 2
                             /\ (P[k] # 0 => N[k] \in 1 .. Len(f.code[b]))
      /\ \A j, k \in DOMAIN C : j < k => N[j] < N[k] \/ (N[j] = N[k] /\ P[j] <= P[k])
  BY DEF Rows
<1>2. ~WantsExt(t, C, l, i + 1)
  BY <1>1 DEF WantsExt, Starts
<1>3. PICK n \in 1 .. Len(f.code[b]) + 1 : WantsAt(f, t, alive, b, C, N, P, l, i + 1, n)
  BY <1>1, <1>2, WantsIs
<1>4. l \in DOMAIN t.birth
  BY <1>3 DEF WantsAt
<1>5. Kind(f, t, alive, b, C, N, P, i)
  BY KindIs
<1>6. P[i] = 1 /\ d \in Body(f) /\ At(f, d).val = v
  BY <1>1, <1>5 DEF Kind
<1>7. v \notin f.args /\ v # None
  BY <1>6 DEF Analysed, Sound, SSA
<1>8. l \in Body(f)
  BY <1>4 DEF Analysed, Forested
<1> HIDE DEF d, v
<1>9. Def(f, v) = d
  BY <1>6, <1>7, <1>8, DefIs DEF Analysed, v
<1>10. Precedes(f, d, t.birth[l])
  BY <1>4, <1>7, <1>9 DEF Analysed, Forested, v
<1>11. d[1] = b /\ d[2] = N[i] /\ N[i] < n
  BY <1>1, <1>3, <1>6 DEF WantsAt, d
<1>12. CASE t.birth[l][1] = b
  <2>1. PICK j \in DOMAIN C : Starts(C, j, l) /\ P[j] = 0 /\ t.birth[l] = <<b, N[j]>>
    BY <1>4, <1>12, StartsIs
  <2>2. N[i] < N[j]
    BY <1>10, <1>11, <2>1 DEF Precedes
  <2>3. j < i + 1 /\ j # i
    BY <1>3, <2>1 DEF WantsAt, Starts
  <2> QED BY <1>1, <2>2, <2>3
<1>13. CASE t.birth[l][1] # b
  <2>1. Precedes(f, t.birth[l], <<b, n>>)
    BY <1>3, <1>13 DEF WantsAt
  <2>2. Dominates(f, t.birth[l][1], b) /\ Dominates(f, b, t.birth[l][1])
    BY <1>10, <1>11, <1>13, <2>1 DEF Precedes
  <2>3. t.birth[l][1] \in Blocks(f)
    BY <1>4, PointsAre DEF Analysed, Forested, Sound
  <2> QED BY <1>13, <2>2, <2>3, DomAnti DEF Analysed, Sound
<1> QED BY <1>12, <1>13

\* An external call.
LEMMA PassingIs ==
  ASSUME NEW f, NEW t, NEW alive, Analysed(f, t, alive), NEW b \in Blocks(f),
         NEW C, NEW N, NEW P, Rows(f, t, alive, b, C, N, P),
         NEW i \in DOMAIN C, C[i].op = "ext"
  PROVE  /\ C[i].tr \notin DOMAIN t.birth /\ C[i].tr \in Body(f) /\ At(f, C[i].tr).op = "ext"
         /\ i - 1 \in DOMAIN C /\ Starts(C, i - 1, C[i].tr)
         /\ \A j \in DOMAIN C : ~(C[j].op = "release" /\ C[j].tr = C[i].tr)
<1> DEFINE l == C[i].tr
<1>1. \A k \in DOMAIN C : P[k] \in 0 .. 2
  BY DEF Rows
<1>2. Kind(f, t, alive, b, C, N, P, i)
  BY KindIs
<1>3. P[i] = 1 /\ <<b, N[i]>> \in Body(f)
  BY <1>1, <1>2 DEF Kind
<1>4. l = <<b, N[i]>> /\ At(f, l).op = "ext" /\ Passing(f, b, C, N, P, i - 1) /\ N[i - 1] = N[i]
  BY <1>2, <1>3 DEF Kind
<1> HIDE DEF l
<1>5. l \notin DOMAIN t.birth
  BY <1>4 DEF Analysed, Forested
<1>6. i - 1 \in DOMAIN C /\ Starts(C, i - 1, l)
  BY <1>4, InsIs DEF Passing, Starts
<1>7. ASSUME NEW j \in DOMAIN C, C[j].op = "release", C[j].tr = l PROVE FALSE
  <2>1. Kind(f, t, alive, b, C, N, P, j)
    BY KindIs
  <2>2. l \in ReleasedAfter(f, t, alive, <<b, N[j]>>)
    BY <1>1, <1>7, <2>1 DEF Kind
  <2> QED BY <1>5, <2>2, SegmentsFinite
<1> QED BY <1>3, <1>4, <1>5, <1>6, <1>7 DEF l

-----------------------------------------------------------------------------
(***************************************************************************)
(* What extractTranslations finds in the function: its translations, where *)
(* each one is made, and the blocks it is live in.                         *)
(***************************************************************************)

\* g is the function after translation, escapes and polls.
Emits(f, t, alive, g) == Analysed(f, t, alive) /\ g = Laid(f, t, alive)

\* The blocks of g, their code, and how control goes.
LEMMA CodeIs ==
  ASSUME NEW f, NEW t, NEW alive, NEW g, Emits(f, t, alive, g)
  PROVE  /\ IsFiniteSet(DOMAIN g.code) /\ DOMAIN g.next = DOMAIN g.code
         /\ \A b \in Blocks(f) : Succs(f, b) \subseteq Blocks(f)
         /\ \A x : x \in DOMAIN g.code <=> IsBlock(f, t, alive, x)
         /\ \A x \in DOMAIN g.code : \A y : y \in g.next[x] <=> Goes(f, t, alive, x, y)
         /\ \A b \in Blocks(f) : <<b>> \in DOMAIN g.code /\ g.code[<<b>>] = BlockCode(f, t, alive, b)
         /\ \A x \in DOMAIN g.code : \A b, c :
              /\ x = <<b, c, "poll">> => g.code[x] = <<Ins("poll", None, None)>>
              /\ x = <<b, c, "release">> =>
                   g.code[x] = All(f, "release", ReleasedOn(f, t, alive, b, c))
<1>1. IsFiniteSet(DOMAIN g.code) /\ \A b \in Blocks(f) : Succs(f, b) \subseteq Blocks(f)
  BY LaidFinite DEF Emits, Analysed, Sound
<1>2. /\ \A x : x \in DOMAIN g.code <=> IsBlock(f, t, alive, x)
      /\ DOMAIN g.next = DOMAIN g.code
      /\ \A x \in DOMAIN g.code : \A y : y \in g.next[x] <=> Goes(f, t, alive, x, y)
      /\ \A x \in DOMAIN g.code :
           g.code[x] = IF Len(x) = 1 THEN BlockCode(f, t, alive, x[1])
                       ELSE IF x[3] = "poll" THEN <<Ins("poll", None, None)>>
                       ELSE All(f, "release", ReleasedOn(f, t, alive, x[1], x[2]))
  BY <1>1, LaidIs DEF Emits
<1>3. ASSUME NEW b \in Blocks(f)
      PROVE  <<b>> \in DOMAIN g.code /\ g.code[<<b>>] = BlockCode(f, t, alive, b)
  <2>1. <<b>> \in DOMAIN g.code
    BY <1>2 DEF IsBlock
  <2>2. Len(<<b>>) = 1 /\ <<b>>[1] = b
    OBVIOUS
  <2> QED BY <1>2, <2>1, <2>2
<1>4. ASSUME NEW x \in DOMAIN g.code, NEW b, NEW c, x = <<b, c, "poll">>
      PROVE  g.code[x] = <<Ins("poll", None, None)>>
  <2>1. Len(x) # 1 /\ x[3] = "poll"
    BY <1>4
  <2> QED BY <1>2, <2>1
<1>5. ASSUME NEW x \in DOMAIN g.code, NEW b, NEW c, x = <<b, c, "release">>
      PROVE  g.code[x] = All(f, "release", ReleasedOn(f, t, alive, b, c))
  <2>1. Len(x) # 1 /\ x[3] # "poll" /\ x[1] = b /\ x[2] = c
    BY <1>5
  <2> QED BY <1>2, <2>1
<1> QED BY <1>1, <1>2, <1>3, <1>4, <1>5

\* What is in the blocks on the edges.
LEMMA EdgeIs ==
  ASSUME NEW f, NEW t, NEW alive, NEW g, Emits(f, t, alive, g), NEW x \in DOMAIN g.code, NEW b, NEW c
  PROVE  /\ x = <<b, c, "poll">> =>
              DOMAIN g.code[x] = {1} /\ g.code[x][1] = Ins("poll", None, None)
         /\ x = <<b, c, "release">> =>
              /\ \E n \in Nat : DOMAIN g.code[x] = 1 .. n
              /\ \A k \in DOMAIN g.code[x] :
                   g.code[x][k].op = "release" /\ g.code[x][k].tr \in DOMAIN t.birth
              /\ \A l \in ReleasedOn(f, t, alive, b, c) : \E k \in DOMAIN g.code[x] : g.code[x][k].tr = l
<1> DEFINE C == g.code[x]
<1>1. ASSUME x = <<b, c, "poll">>
      PROVE  DOMAIN C = {1} /\ C[1] = Ins("poll", None, None)
  <2>1. C = <<Ins("poll", None, None)>>
    BY <1>1, CodeIs
  <2>2. DOMAIN <<Ins("poll", None, None)>> = {1} /\ <<Ins("poll", None, None)>>[1] = Ins("poll", None, None)
    OBVIOUS
  <2> HIDE DEF C
  <2> QED BY <2>1, <2>2, Zenon
<1>2. ASSUME x = <<b, c, "release">>
      PROVE  /\ \E n \in Nat : DOMAIN C = 1 .. n
             /\ \A k \in DOMAIN C : C[k].op = "release" /\ C[k].tr \in DOMAIN t.birth
             /\ \A l \in ReleasedOn(f, t, alive, b, c) : \E k \in DOMAIN C : C[k].tr = l
  <2> DEFINE S == ReleasedOn(f, t, alive, b, c)
  <2>1. C = All(f, "release", S)
    BY <1>2, CodeIs
  <2>2. IsFiniteSet(S) /\ S \subseteq DOMAIN t.birth
    BY SegmentsFinite DEF Emits
  <2> HIDE DEF C, S
  <2>3. /\ \E n \in Nat : DOMAIN C = 1 .. n
        /\ \A i \in DOMAIN C : \E l \in S : C[i] = Ins("release", At(f, l).ptr, l)
        /\ \A l \in S : \E i \in DOMAIN C : C[i] = Ins("release", At(f, l).ptr, l)
    BY <2>1, <2>2, AllIs
  <2>4. /\ \A i \in DOMAIN C : C[i].op = "release" /\ C[i].tr \in DOMAIN t.birth
        /\ \A l \in S : \E i \in DOMAIN C : C[i].tr = l
    BY <2>2, <2>3, InsIs
  <2> QED BY <2>3, <2>4 DEF S
<1> QED BY <1>1, <1>2

\* Where instructions of a kind are.
LEMMA WhereIs ==
  ASSUME NEW g, NEW ops, NEW p
  PROVE  p \in Where(g, ops) <=>
           /\ p = <<p[1], p[2]>> /\ p[1] \in DOMAIN g.code /\ p[2] \in DOMAIN g.code[p[1]]
           /\ g.code[p[1]][p[2]].op \in ops
BY DEF Where

\* All translations are in the blocks of f.
LEMMA StartsAt ==
  ASSUME NEW f, NEW t, NEW alive, NEW g, Emits(f, t, alive, g),
         NEW x \in DOMAIN g.code, NEW k \in DOMAIN g.code[x], NEW l, Starts(g.code[x], k, l)
  PROVE  \E b \in Blocks(f) : /\ x = <<b>>
                              /\ l \in DOMAIN t.birth => t.birth[l][1] = b
                              /\ l \notin DOMAIN t.birth => l[1] = b
<1>1. IsBlock(f, t, alive, x)
  BY CodeIs
<1>2. ASSUME NEW b, NEW c PROVE x # <<b, c, "poll">> /\ x # <<b, c, "release">>
  <2>1. ASSUME x = <<b, c, "poll">> PROVE FALSE
    <3>1. k = 1 /\ g.code[x][1] = Ins("poll", None, None)
      BY <2>1, EdgeIs
    <3> QED BY <3>1, InsIs DEF Starts
  <2>2. ASSUME x = <<b, c, "release">> PROVE FALSE
    <3>1. g.code[x][k].op = "release"
      BY <2>2, EdgeIs
    <3> QED BY <3>1 DEF Starts
  <2> QED BY <2>1, <2>2
<1>3. PICK b \in Blocks(f) : x = <<b>>
  BY <1>1, <1>2 DEF IsBlock
<1>4. g.code[x] = BlockCode(f, t, alive, b)
  BY <1>3, CodeIs
<1>50. PICK N : \E P : Rows(f, t, alive, b, g.code[x], N, P)
  BY <1>4, RowsExist DEF Emits
<1>5. PICK P : Rows(f, t, alive, b, g.code[x], N, P)
  BY <1>50
<1>6. ASSUME l \in DOMAIN t.birth PROVE t.birth[l][1] = b
  <2>1. t.birth[l] = <<b, N[k]>>
    BY <1>5, <1>6, StartsIs DEF Emits
  <2> QED BY <2>1
<1>7. ASSUME l \notin DOMAIN t.birth PROVE l[1] = b
  <2>1. Kind(f, t, alive, b, g.code[x], N, P, k) /\ P[k] \in 0 .. 2
    BY <1>5, KindIs DEF Emits, Rows
  <2>2. l = <<b, N[k]>>
    BY <1>7, <2>1 DEF Kind, Starts
  <2> QED BY <2>2
<1> QED BY <1>3, <1>6, <1>7

\* Each translation is made in one place, which extractTranslations finds.
LEMMA BirthAt ==
  ASSUME NEW f, NEW t, NEW alive, NEW g, Emits(f, t, alive, g),
         NEW x \in DOMAIN g.code, NEW k \in DOMAIN g.code[x], NEW l, Starts(g.code[x], k, l)
  PROVE  Birth(g, l) = <<x, k>> /\ l \in Translations(g)
<1> DEFINE W == Where(g, {"translate"})
<1>1. <<x, k>> \in W /\ Ofs(g, <<x, k>>).tr = l
  BY WhereIs DEF Starts, Ofs
<1>2. ASSUME NEW p \in W, Ofs(g, p).tr = l PROVE p = <<x, k>>
  <2>1. p = <<p[1], p[2]>> /\ p[1] \in DOMAIN g.code /\ p[2] \in DOMAIN g.code[p[1]]
        /\ Starts(g.code[p[1]], p[2], l)
    BY <1>2, WhereIs DEF Starts, Ofs
  <2>2. PICK b \in Blocks(f) : /\ x = <<b>>
                               /\ l \in DOMAIN t.birth => t.birth[l][1] = b
                               /\ l \notin DOMAIN t.birth => l[1] = b
    BY StartsAt
  <2>3. PICK c \in Blocks(f) : /\ p[1] = <<c>>
                               /\ l \in DOMAIN t.birth => t.birth[l][1] = c
                               /\ l \notin DOMAIN t.birth => l[1] = c
    BY <2>1, StartsAt
  <2>4. p[1] = x
    BY <2>2, <2>3
  <2>5. g.code[x] = BlockCode(f, t, alive, b)
    BY <2>2, CodeIs
  <2>60. PICK N : \E P : Rows(f, t, alive, b, g.code[x], N, P)
    BY <2>5, RowsExist DEF Emits
  <2>6. PICK P : Rows(f, t, alive, b, g.code[x], N, P)
    BY <2>60
  <2>7. p[2] = k
    BY <2>1, <2>4, <2>6, MadeOnce DEF Starts, Emits
  <2> QED BY <2>1, <2>4, <2>7
<1> HIDE DEF W
<1>3. (CHOOSE p \in W : Ofs(g, p).tr = l) = <<x, k>>
  BY <1>1, <1>2
<1>4. l \in Translations(g)
  BY <1>1 DEF Translations, W
<1> QED BY <1>3, <1>4 DEF Birth, W

\* liveBlocks goes back from the releases to the place it is made in.
LEMMA LiveIs ==
  ASSUME NEW g, IsFiniteSet(DOMAIN g.code), NEW l
  PROVE  /\ Birth(g, l)[1] \in LiveBlocks(g, l)
         /\ \A p \in Deaths(g, l) : p[1] \in LiveBlocks(g, l)
         /\ \A x \in DOMAIN g.code : \A y \in DOMAIN g.code :
              y \in g.next[x] /\ y \in LiveBlocks(g, l) /\ y # Birth(g, l)[1] => x \in LiveBlocks(g, l)
<1> DEFINE born  == Birth(g, l)[1]
           dying == {p[1] : p \in Deaths(g, l)}
           before == [c \in DOMAIN g.code |-> {b \in DOMAIN g.code \ {born} : c \in g.next[b]}]
           K == Closure(dying \ {born}, before)
<1>1. LiveBlocks(g, l) = {born} \cup dying \cup K
  BY DEF LiveBlocks
<1>2. Graph(before) /\ dying \ {born} \in SUBSET DOMAIN before
  <2>1. dying \subseteq DOMAIN g.code
    BY WhereIs DEF Deaths
  <2>2. DOMAIN before = DOMAIN g.code /\ \A c \in DOMAIN g.code : before[c] \subseteq DOMAIN g.code
    OBVIOUS
  <2> HIDE DEF before, dying
  <2> QED BY <2>1, <2>2 DEF Graph
<1>3. dying \ {born} \subseteq K /\ \A c \in K : before[c] \subseteq K
  <2> HIDE DEF before, dying, born
  <2> QED BY <1>2, ClosureProps
<1>4. \A c \in DOMAIN g.code : before[c] = {b \in DOMAIN g.code \ {born} : c \in g.next[b]}
  OBVIOUS
<1>5. \A p \in Deaths(g, l) : p[1] \in dying
  OBVIOUS
<1> HIDE DEF K, before, dying, born
<1>6. ASSUME NEW x \in DOMAIN g.code, NEW y \in DOMAIN g.code, y \in g.next[x],
             y \in LiveBlocks(g, l), y # born
      PROVE  x \in LiveBlocks(g, l)
  <2>1. y \in K
    BY <1>1, <1>3, <1>6
  <2> QED BY <1>1, <1>3, <1>4, <1>6, <2>1
<1> QED BY <1>1, <1>5, <1>6 DEF born

\* What is needed at position i of block x, until l is made anew.
Leaving(f, t, alive, x, l) ==
  IF Len(x) = 1 THEN l \in Out(f, t, alive, Term(f, x[1]))
  ELSE l \in DOMAIN t.birth /\ Comes(t, alive, l, <<x[2], 1>>)
Needed(f, t, alive, c, l, x, i) == Wants(c.code[x], Leaving(f, t, alive, x, l), l, i)

\* A property that goes from a block to its predecessors holds of all blocks if
\* the blocks that return have it.
LEMMA ReturnsAre ==
  ASSUME NEW f, Wellformed(f), Returns(f), NEW T,
         \A b \in Blocks(f) : Succs(f, b) = {} => b \in T,
         \A y \in T \cap Blocks(f) : Preds(f, y) \subseteq T
  PROVE  Blocks(f) \subseteq T
<1> DEFINE before == [x \in Blocks(f) |-> Preds(f, x)]
           start == {b \in Blocks(f) : Succs(f, b) = {}}
<1>1. Graph(before) /\ start \in SUBSET DOMAIN before
  BY BlocksAre DEF Graph, Preds
<1>2. start \subseteq T /\ \A y \in T \cap DOMAIN before : before[y] \subseteq T
  OBVIOUS
<1>3. Closure(start, before) = Blocks(f)
  BY DEF Returns
<1> HIDE DEF start, before
<1> QED BY <1>1, <1>2, <1>3, ClosureLeast

\* Translations of the forest are made in the block of their birth.
LEMMA MadeIn ==
  ASSUME NEW f, NEW t, NEW alive, NEW g, Emits(f, t, alive, g), NEW l \in DOMAIN t.birth
  PROVE  /\ t.birth[l][1] \in Blocks(f) /\ Birth(g, l)[1] = <<t.birth[l][1]>>
         /\ l \in Translations(g)
<1> DEFINE b == t.birth[l][1]
<1>1. b \in Blocks(f)
  <2>1. t.birth[l] \in Points(f)
    BY DEF Emits, Analysed, Forested
  <2> QED BY <2>1, PointsAre DEF Emits, Analysed, Sound
<1>2. <<b>> \in DOMAIN g.code /\ g.code[<<b>>] = BlockCode(f, t, alive, b)
  BY <1>1, CodeIs
<1>30. PICK N : \E P : Rows(f, t, alive, b, g.code[<<b>>], N, P)
  BY <1>1, <1>2, RowsExist DEF Emits
<1>3. PICK P : Rows(f, t, alive, b, g.code[<<b>>], N, P)
  BY <1>30
<1>4. PICK k \in DOMAIN g.code[<<b>>] : Starts(g.code[<<b>>], k, l)
  BY <1>1, <1>3, StartsIs DEF Emits
<1>5. Birth(g, l) = <<<<b>>, k>> /\ l \in Translations(g)
  BY <1>2, <1>4, BirthAt
<1> QED BY <1>1, <1>5

\* Liveness goes back over an edge and the blocks that have been put on it.
LEMMA EdgeLive ==
  ASSUME NEW f, NEW t, NEW alive, NEW g, Emits(f, t, alive, g), NEW l \in DOMAIN t.birth,
         NEW b \in Blocks(f), NEW c \in Succs(f, b), Comes(t, alive, l, <<c, 1>>),
         <<c>> \in LiveBlocks(g, l)
  PROVE  /\ <<b>> \in LiveBlocks(g, l)
         /\ Polled(f, b, c) => <<b, c, "poll">> \in LiveBlocks(g, l)
         /\ ReleasedOn(f, t, alive, b, c) # {} => <<b, c, "release">> \in LiveBlocks(g, l)
<1> DEFINE p == <<b, c, "poll">>
           r == <<b, c, "release">>
           e == <<c>>
           s == <<b>>
           pol == Polled(f, b, c)
           rel == ReleasedOn(f, t, alive, b, c) # {}
           LB == LiveBlocks(g, l)
           born == Birth(g, l)[1]
           D == DOMAIN g.code
<1>1. c \in Blocks(f) /\ e \in D /\ s \in D
  BY CodeIs
<1>2. born = <<t.birth[l][1]>> /\ t.birth[l][1] # c
  BY <1>1, MadeIn, ComesIs DEF Emits
<1>3. e # born /\ p # born /\ r # born
  BY <1>2
<1>4. /\ pol => p \in D /\ e \in g.next[p]
      /\ rel => r \in D /\ (IF pol THEN p ELSE e) \in g.next[r]
      /\ (IF rel THEN r ELSE IF pol THEN p ELSE e) \in g.next[s]
  <2>1. pol => p \in D
    BY CodeIs DEF IsBlock
  <2>2. rel => r \in D
    BY CodeIs DEF IsBlock
  <2>3. pol => Goes(f, t, alive, p, e)
    BY DEF Goes
  <2>4. rel => Goes(f, t, alive, r, IF pol THEN p ELSE e)
    BY DEF Goes
  <2>5. Goes(f, t, alive, s, IF rel THEN r ELSE IF pol THEN p ELSE e)
    BY DEF Goes
  <2> HIDE DEF pol, rel, p, r, e, s, D
  <2> QED BY <1>1, <2>1, <2>2, <2>3, <2>4, <2>5, CodeIs DEF D
<1>5. \A x \in D : \A y \in D : y \in g.next[x] /\ y \in LB /\ y # born => x \in LB
  BY CodeIs, LiveIs
<1>6. e \in LB
  OBVIOUS
<1> HIDE DEF pol, rel, p, r, e, s, D, LB, born
<1>7. pol => p \in LB
  BY <1>1, <1>3, <1>4, <1>5, <1>6
<1>8. rel => r \in LB
  BY <1>1, <1>3, <1>4, <1>5, <1>6, <1>7
<1>9. s \in LB
  BY <1>1, <1>3, <1>4, <1>5, <1>6, <1>7, <1>8
<1> QED BY <1>7, <1>8, <1>9 DEF pol, rel, p, r, s, LB

\* A block with a release of l in it.
LEMMA DeathLive ==
  ASSUME NEW f, NEW t, NEW alive, NEW g, Emits(f, t, alive, g), NEW l,
         NEW x \in DOMAIN g.code, NEW k \in DOMAIN g.code[x],
         g.code[x][k].op = "release", g.code[x][k].tr = l
  PROVE  x \in LiveBlocks(g, l) /\ <<x, k>> \in Deaths(g, l)
<1>1. <<x, k>>[1] = x /\ <<x, k>>[2] = k
  OBVIOUS
<1>2. <<x, k>> \in Deaths(g, l)
  BY <1>1, WhereIs DEF Deaths, Ofs
<1>3. \A p \in Deaths(g, l) : p[1] \in LiveBlocks(g, l)
  BY CodeIs, LiveIs
<1> QED BY <1>1, <1>2, <1>3

\* What comes alive into a block has the block in its liveBlocks, and what leaves
\* one alive too: from every block control may get to one that releases it.
LEMMA ComesLive ==
  ASSUME NEW f, NEW t, NEW alive, NEW g, Emits(f, t, alive, g), NEW l \in DOMAIN t.birth,
         NEW c \in Blocks(f), Comes(t, alive, l, <<c, 1>>),
         l \in Out(f, t, alive, Term(f, c)) => <<c>> \in LiveBlocks(g, l)
  PROVE  <<c>> \in LiveBlocks(g, l)
<1>1. <<c, 1>> \in alive[l] /\ t.birth[l] # Term(f, c) /\ 1 \in 1 .. Len(f.code[c]) + 1
  <2>1. t.birth[l][1] # c
    BY ComesIs DEF Emits
  <2>2. Len(f.code[c]) \in Nat
    BY BlocksAre DEF Emits, Analysed, Sound
  <2> QED BY <2>1, <2>2 DEF Comes, Term
<1>2. \/ l \in Out(f, t, alive, Term(f, c))
      \/ \E j \in 1 .. Len(f.code[c]) : l \in ReleasedAfter(f, t, alive, <<c, j>>)
  BY <1>1, AliveOn DEF Emits
<1>3. ASSUME NEW j \in 1 .. Len(f.code[c]), l \in ReleasedAfter(f, t, alive, <<c, j>>)
      PROVE  <<c>> \in LiveBlocks(g, l)
  <2>1. <<c>> \in DOMAIN g.code /\ g.code[<<c>>] = BlockCode(f, t, alive, c)
    BY CodeIs
  <2>20. PICK N : \E P : Rows(f, t, alive, c, g.code[<<c>>], N, P)
    BY <2>1, RowsExist DEF Emits
  <2>2. PICK P : Rows(f, t, alive, c, g.code[<<c>>], N, P)
    BY <2>20
  <2>3. PICK k \in DOMAIN g.code[<<c>>] : g.code[<<c>>][k] = Ins("release", At(f, l).ptr, l)
    BY <1>3, <2>2 DEF Rows
  <2> DEFINE x == <<c>>
  <2>4. x \in DOMAIN g.code /\ g.code[x][k].op = "release" /\ g.code[x][k].tr = l
    BY <2>1, <2>3, InsIs
  <2> HIDE DEF x
  <2>5. x \in LiveBlocks(g, l)
    BY <2>3, <2>4, DeathLive DEF x
  <2> QED BY <2>5 DEF x
<1> QED BY <1>2, <1>3

\* What is alive at the end of a block has a release ahead, and the analysis comes
\* back from it: the blocks that return have nothing alive.
LEMMA OutLive ==
  ASSUME NEW f, NEW t, NEW alive, NEW g, Emits(f, t, alive, g), Returns(f), NEW l \in DOMAIN t.birth,
         NEW b \in Blocks(f), l \in Out(f, t, alive, Term(f, b))
  PROVE  <<b>> \in LiveBlocks(g, l)
<1> DEFINE T == {x \in Blocks(f) : l \in Out(f, t, alive, Term(f, x)) => <<x>> \in LiveBlocks(g, l)}
<1>1. ASSUME NEW x \in Blocks(f), Succs(f, x) = {} PROVE x \in T
  BY <1>1, OutIs DEF Emits
<1>2. ASSUME NEW y \in T, NEW x \in Preds(f, y) PROVE x \in T
  <2>0. x \in Blocks(f) /\ y \in Succs(f, x) /\ y \in Blocks(f)
    BY DEF Preds
  <2> SUFFICES ASSUME l \in Out(f, t, alive, Term(f, x)) PROVE <<x>> \in LiveBlocks(g, l)
    BY <2>0
  <2>1. CASE Comes(t, alive, l, <<y, 1>>)
    <3>1. <<y>> \in LiveBlocks(g, l)
      BY <2>0, <2>1, ComesLive
    <3> QED BY <2>0, <2>1, <3>1, EdgeLive
  <2>2. CASE ~Comes(t, alive, l, <<y, 1>>)
    <3> DEFINE r == <<x, y, "release">>
    <3>1. PICK c \in Succs(f, x) : Comes(t, alive, l, <<c, 1>>)
      BY <2>0, OutIs DEF Emits
    <3>2. c \in Blocks(f) /\ x \in Preds(f, c)
      BY <2>0, CodeIs DEF Preds
    <3>3. Term(f, x) \in alive[l]
      BY <3>1, <3>2, ComesIs DEF Emits
    <3>4. l \in ReleasedOn(f, t, alive, x, y)
      BY <2>2, <3>3 DEF ReleasedOn, In, Emits, Analysed, Lively, Direct
    <3>5. r \in DOMAIN g.code /\ <<x>> \in DOMAIN g.code
      BY <2>0, <3>4, CodeIs DEF IsBlock
    <3>6. r \in g.next[<<x>>]
      <4>1. Goes(f, t, alive, <<x>>, r)
        BY <2>0, <3>4 DEF Goes
      <4> HIDE DEF r
      <4> QED BY <3>5, <4>1, CodeIs
    <3>7. PICK k \in DOMAIN g.code[r] : g.code[r][k].tr = l /\ g.code[r][k].op = "release"
      BY <3>4, <3>5, EdgeIs
    <3>8. r # Birth(g, l)[1]
      BY MadeIn
    <3> HIDE DEF r
    <3>9. r \in LiveBlocks(g, l)
      BY <3>5, <3>7, DeathLive
    <3> QED BY <3>5, <3>6, <3>8, <3>9, CodeIs, LiveIs
  <2> QED BY <2>1, <2>2
<1>3. T \subseteq Blocks(f)
  OBVIOUS
<1> HIDE DEF T
<1>4. Blocks(f) \subseteq T
  BY <1>1, <1>2, ReturnsAre DEF Emits, Analysed, Sound
<1> QED BY <1>4 DEF T

\* Where it is needed, a translation is in the set of live blocks.
LEMMA NeededLive ==
  ASSUME NEW f, NEW t, NEW alive, NEW g, Emits(f, t, alive, g), Returns(f), NEW l, l # None,
         NEW x \in DOMAIN g.code, NEW i \in 1 .. Len(g.code[x]) + 1, Needed(f, t, alive, g, l, x, i)
  PROVE  x \in LiveBlocks(g, l)
<1>1. CASE \E b \in Blocks(f) : x = <<b>>
  <2>1. PICK b \in Blocks(f) : x = <<b>>
    BY <1>1
  <2>2. g.code[x] = BlockCode(f, t, alive, b) /\ Len(x) = 1 /\ x[1] = b
    BY <2>1, CodeIs
  <2>30. PICK N : \E P : Rows(f, t, alive, b, g.code[x], N, P)
    BY <2>2, RowsExist DEF Emits
  <2>3. PICK P : Rows(f, t, alive, b, g.code[x], N, P)
    BY <2>30
  <2>4. Wants(g.code[x], l \in Out(f, t, alive, Term(f, b)), l, i)
    BY <2>2 DEF Needed, Leaving
  <2>5. \/ \E j \in DOMAIN g.code[x] : Starts(g.code[x], j, l)
        \/ \E j \in DOMAIN g.code[x] : g.code[x][j].op = "release" /\ g.code[x][j].tr = l
        \/ l \in Out(f, t, alive, Term(f, b))
    BY <2>3, <2>4, WantsLive DEF Emits
  <2>6. ASSUME NEW j \in DOMAIN g.code[x], Starts(g.code[x], j, l) PROVE x \in LiveBlocks(g, l)
    <3>1. Birth(g, l)[1] = x
      BY <2>6, BirthAt
    <3>2. Birth(g, l)[1] \in LiveBlocks(g, l)
      BY CodeIs, LiveIs
    <3> QED BY <3>1, <3>2
  <2>7. ASSUME l \in Out(f, t, alive, Term(f, b)) PROVE x \in LiveBlocks(g, l)
    BY <2>1, <2>7, OutIs, OutLive DEF Emits
  <2> QED BY <2>5, <2>6, <2>7, DeathLive
<1>2. ASSUME NEW b \in Blocks(f), NEW c \in Succs(f, b),
             \/ ReleasedOn(f, t, alive, b, c) # {} /\ x = <<b, c, "release">>
             \/ Polled(f, b, c) /\ x = <<b, c, "poll">>
      PROVE  x \in LiveBlocks(g, l)
  <2>1. Len(x) = 3 /\ x[2] = c
    BY <1>2
  <2>2. \A k \in DOMAIN g.code[x] : g.code[x][k].op \in {"poll", "release"}
    <3>1. CASE x = <<b, c, "release">>
      BY <3>1, EdgeIs
    <3>2. CASE x = <<b, c, "poll">>
      <4>1. DOMAIN g.code[x] = {1} /\ g.code[x][1] = Ins("poll", None, None)
        BY <3>2, EdgeIs
      <4> QED BY <4>1, InsIs
    <3> QED BY <1>2, <3>1, <3>2
  <2>3. Leaving(f, t, alive, x, l)
    BY <2>2 DEF Needed, Wants
  <2>4. l \in DOMAIN t.birth /\ Comes(t, alive, l, <<c, 1>>)
    BY <2>1, <2>3 DEF Leaving
  <2>5. c \in Blocks(f)
    BY CodeIs
  <2>6. <<c>> \in LiveBlocks(g, l)
    BY <2>4, <2>5, OutLive, ComesLive
  <2> QED BY <1>2, <2>4, <2>6, EdgeLive
<1>3. IsBlock(f, t, alive, x)
  BY CodeIs
<1> QED BY <1>1, <1>2, <1>3 DEF IsBlock

\* The code of a block is a sequence.
LEMMA BlockLen ==
  ASSUME NEW f, NEW t, NEW alive, NEW g, Emits(f, t, alive, g), NEW x \in DOMAIN g.code
  PROVE  Len(g.code[x]) \in Nat /\ DOMAIN g.code[x] = 1 .. Len(g.code[x])
<1> DEFINE C == g.code[x]
<1>1. CASE \E b \in Blocks(f) : x = <<b>>
  <2>1. PICK b \in Blocks(f) : x = <<b>>
    BY <1>1
  <2>2. C = BlockCode(f, t, alive, b)
    BY <2>1, CodeIs
  <2>30. PICK N : \E P : Rows(f, t, alive, b, C, N, P)
    BY <2>2, RowsExist DEF Emits
  <2> HIDE DEF C
  <2> QED BY <2>30 DEF Rows, C
<1>2. ASSUME NEW b, NEW c, x = <<b, c, "poll">> PROVE Len(C) \in Nat /\ DOMAIN C = 1 .. Len(C)
  <2>1. C = <<Ins("poll", None, None)>>
    BY <1>2, CodeIs
  <2> HIDE DEF C
  <2> QED BY <2>1
<1>3. ASSUME NEW b, NEW c, x = <<b, c, "release">> PROVE Len(C) \in Nat /\ DOMAIN C = 1 .. Len(C)
  <2> DEFINE S == ReleasedOn(f, t, alive, b, c)
  <2>1. C = All(f, "release", S)
    BY <1>3, CodeIs
  <2>2. IsFiniteSet(S)
    BY SegmentsFinite DEF Emits
  <2> HIDE DEF C, S
  <2>3. IsRow(All(f, "release", S))
    BY <2>2, AllIs DEF IsRow
  <2>4. IsRow(C)
    BY <2>1, <2>3
  <2>5. PICK n \in Nat : C = [i \in 1 .. n |-> C[i]]
    BY <2>4 DEF IsRow
  <2>6. C \in Seq({C[i] : i \in 1 .. n})
    BY <2>5, SequenceIs
  <2> QED BY <2>6
<1>4. IsBlock(f, t, alive, x)
  BY CodeIs
<1> QED BY <1>1, <1>2, <1>3, <1>4 DEF IsBlock

\* A translation is made from a pointer, by an instruction of f.
LEMMA BornIs ==
  ASSUME NEW f, NEW t, NEW alive, NEW g, Emits(f, t, alive, g), NEW l \in Translations(g)
  PROVE  \E x \in DOMAIN g.code : \E k \in DOMAIN g.code[x] :
           Starts(g.code[x], k, l) /\ Birth(g, l) = <<x, k>>
<1>1. PICK p \in Where(g, {"translate"}) : Ofs(g, p).tr = l
  BY DEF Translations
<1>2. p[1] \in DOMAIN g.code /\ p[2] \in DOMAIN g.code[p[1]] /\ Starts(g.code[p[1]], p[2], l)
  BY <1>1, WhereIs DEF Starts, Ofs
<1> QED BY <1>2, BirthAt

\* A translation is an instruction with a pointer.
LEMMA TrIs ==
  ASSUME NEW f, NEW t, NEW alive, NEW g, Emits(f, t, alive, g), NEW l \in Translations(g)
  PROVE  l # None /\ l \in Body(f) /\ At(f, l).ptr # None
<1>1. PICK x \in DOMAIN g.code : \E k \in DOMAIN g.code[x] : Starts(g.code[x], k, l)
  BY BornIs
<1>2. PICK k \in DOMAIN g.code[x] : Starts(g.code[x], k, l)
  BY <1>1
<1>3. PICK b \in Blocks(f) : /\ x = <<b>>
                             /\ l \in DOMAIN t.birth => t.birth[l][1] = b
                             /\ l \notin DOMAIN t.birth => l[1] = b
  BY <1>2, StartsAt
<1>4. g.code[x] = BlockCode(f, t, alive, b)
  BY <1>3, CodeIs
<1>50. PICK N : \E P : Rows(f, t, alive, b, g.code[x], N, P)
  BY <1>4, RowsExist DEF Emits
<1>5. PICK P : Rows(f, t, alive, b, g.code[x], N, P)
  BY <1>50
<1>6. Kind(f, t, alive, b, g.code[x], N, P, k) /\ P[k] \in 0 .. 2
  BY <1>5, KindIs DEF Rows, Emits
<1>7. l \in DOMAIN t.birth \/ (l \in Body(f) /\ At(f, l).op = "ext")
  BY <1>2, <1>6 DEF Kind, Starts
<1>8. l \in Body(f) /\ At(f, l).ptr # None
  <2>1. CASE l \in DOMAIN t.birth
    BY <2>1 DEF Emits, Analysed, Forested
  <2>2. CASE l \in Body(f) /\ At(f, l).op = "ext"
    BY <2>2 DEF Emits, Analysed, Sound, Wellformed, Shaped
  <2> QED BY <1>7, <2>1, <2>2
<1>9. l # None
  BY <1>8, BodyFinite DEF Emits, Analysed, Sound, Wellformed
<1> QED BY <1>8, <1>9

\* The translations a statepoint must keep in place are tracked.
LEMMA TrackedAt ==
  ASSUME NEW f, NEW t, NEW alive, NEW g, Emits(f, t, alive, g), Returns(f), NEW l \in Translations(g),
         NEW x \in DOMAIN g.code, NEW i \in DOMAIN g.code[x], g.code[x][i].op \in {"call", "ext", "poll"},
         Needed(f, t, alive, g, l, x, i + 1) \/ (g.code[x][i].op = "ext" /\ g.code[x][i].tr = l)
  PROVE  l \in MustTrack(g)
<1> DEFINE C == g.code[x]
<1>0. Len(C) \in Nat /\ DOMAIN C = 1 .. Len(C) /\ i + 1 \in 1 .. Len(C) + 1
  BY BlockLen
<1>1. PICK y \in DOMAIN g.code : \E k \in DOMAIN g.code[y] :
           Starts(g.code[y], k, l) /\ Birth(g, l) = <<y, k>>
  BY BornIs
<1>2. PICK k \in DOMAIN g.code[y] : Starts(g.code[y], k, l) /\ Birth(g, l) = <<y, k>>
  BY <1>1
<1>3. l # None
  BY TrIs
<1>4. /\ x \in LiveBlocks(g, l) /\ (x = y => k < i)
      /\ \A j \in DOMAIN C : C[j].op = "release" /\ C[j].tr = l => i < j
  <2>1. CASE \E b \in Blocks(f) : x = <<b>>
    <3>1. PICK b \in Blocks(f) : x = <<b>>
      BY <2>1
    <3>2. C = BlockCode(f, t, alive, b) /\ Len(x) = 1 /\ x[1] = b
      BY <3>1, CodeIs
    <3>30. PICK N : \E P : Rows(f, t, alive, b, C, N, P)
      BY <3>2, RowsExist DEF Emits
    <3>3. PICK P : Rows(f, t, alive, b, C, N, P)
      BY <3>30
    <3>4. C[i].op \in {"call", "ext"}
      <4>1. Kind(f, t, alive, b, C, N, P, i) /\ P[i] \in 0 .. 2
        BY <3>3, KindIs DEF Rows, Emits
      <4> QED BY <4>1 DEF Kind
    <3>5. ASSUME Needed(f, t, alive, g, l, x, i + 1)
          PROVE  /\ x \in LiveBlocks(g, l) /\ (x = y => k < i)
                 /\ \A j \in DOMAIN C : C[j].op = "release" /\ C[j].tr = l => i < j
      <4>1. x \in LiveBlocks(g, l)
        BY <1>0, <1>3, <3>5, NeededLive
      <4>2. Wants(C, l \in Out(f, t, alive, Term(f, b)), l, i + 1)
        BY <3>2, <3>5 DEF Needed, Leaving
      <4>3. /\ \A j \in DOMAIN C : Starts(C, j, l) => j < i
            /\ \A j \in DOMAIN C : C[j].op = "release" /\ C[j].tr = l => i < j
        BY <1>3, <3>3, <3>4, <4>2, WantsPast DEF Emits
      <4> QED BY <1>2, <4>1, <4>3
    <3>6. ASSUME C[i].op = "ext", C[i].tr = l
          PROVE  /\ x \in LiveBlocks(g, l) /\ (x = y => k < i)
                 /\ \A j \in DOMAIN C : C[j].op = "release" /\ C[j].tr = l => i < j
      <4>1. /\ i - 1 \in DOMAIN C /\ Starts(C, i - 1, l)
            /\ \A j \in DOMAIN C : ~(C[j].op = "release" /\ C[j].tr = l)
        BY <3>3, <3>6, PassingIs DEF Emits
      <4>2. Birth(g, l) = <<x, i - 1>>
        BY <4>1, BirthAt
      <4>3. y = x /\ k = i - 1 /\ k < i
        BY <1>0, <1>2, <4>2
      <4>4. x \in LiveBlocks(g, l)
        <5>1. Birth(g, l)[1] = x
          BY <4>2
        <5> QED BY <5>1, CodeIs, LiveIs
      <4> QED BY <4>1, <4>3, <4>4
    <3> QED BY <3>5, <3>6
  <2>2. ASSUME NEW b \in Blocks(f), NEW c \in Succs(f, b), x = <<b, c, "poll">>
        PROVE  /\ x \in LiveBlocks(g, l) /\ (x = y => k < i)
               /\ \A j \in DOMAIN C : C[j].op = "release" /\ C[j].tr = l => i < j
    <3>1. DOMAIN C = {1} /\ C[1] = Ins("poll", None, None)
      BY <2>2, EdgeIs
    <3>2. C[1].op = "poll" /\ i = 1
      BY <3>1, InsIs
    <3>3. Needed(f, t, alive, g, l, x, i + 1)
      BY <3>2
    <3>4. x \in LiveBlocks(g, l)
      BY <1>0, <1>3, <3>3, NeededLive
    <3>5. x # y
      <4>1. \E a \in Blocks(f) : y = <<a>>
        BY <1>2, StartsAt
      <4> QED BY <2>2, <4>1
    <3> QED BY <3>1, <3>2, <3>4, <3>5
  <2>3. ASSUME NEW b \in Blocks(f), NEW c \in Succs(f, b), x = <<b, c, "release">> PROVE FALSE
    BY <2>3, EdgeIs
  <2>4. IsBlock(f, t, alive, x)
    BY CodeIs
  <2> QED BY <2>1, <2>2, <2>3, <2>4 DEF IsBlock
<1>5. IsLive(g, l, <<x, i>>)
  <2>1. \A d \in Deaths(g, l) : d[1] = x => i < d[2]
    BY <1>4, WhereIs DEF Deaths, Ofs
  <2>2. <<x, i>>[1] = x /\ <<x, i>>[2] = i /\ Birth(g, l)[1] = y /\ Birth(g, l)[2] = k
    BY <1>2
  <2> QED BY <1>4, <2>1, <2>2 DEF IsLive, Unreleased
<1>6. <<x, i>> \in Statepoints(g)
  <2>1. <<x, i>>[1] = x /\ <<x, i>>[2] = i
    OBVIOUS
  <2> QED BY <2>1, WhereIs DEF Statepoints
<1> QED BY <1>5, <1>6 DEF MustTrack

-----------------------------------------------------------------------------
(***************************************************************************)
(* The cells of the pin set.                                               *)
(***************************************************************************)

\* k - 1 cells are not enough to take all of 0 .. k.
LEMMA CellLeft ==
  ASSUME NEW k \in Nat \ {0}, NEW s, NEW J \in SUBSET (1 .. k - 1)
  PROVE  Min((0 .. k) \ {s[j] : j \in J}) \in (0 .. k) \ {s[j] : j \in J}
<1> DEFINE h == [j \in 1 .. k - 1 |-> s[j]]
           T == {s[j] : j \in 1 .. k - 1}
           left == (0 .. k) \ {s[j] : j \in J}
<1>1. h \in Surjection(1 .. k - 1, T)
  <2>1. h \in [1 .. k - 1 -> T] /\ \A y \in T : \E j \in 1 .. k - 1 : h[j] = y
    OBVIOUS
  <2> HIDE DEF h, T
  <2> QED BY <2>1 DEF Surjection
<1>2. IsFiniteSet(1 .. k - 1) /\ Cardinality(1 .. k - 1) = k - 1
  <2>1. k - 1 \in Int /\ 1 \in Int
    OBVIOUS
  <2>2. IsFiniteSet(1 .. k - 1) /\ Cardinality(1 .. k - 1) = IF 1 > k - 1 THEN 0 ELSE (k - 1) - 1 + 1
    BY <2>1, FS_Interval
  <2> QED BY <2>2
<1>3. IsFiniteSet(0 .. k) /\ Cardinality(0 .. k) = k + 1
  <2>1. IsFiniteSet(0 .. k) /\ Cardinality(0 .. k) = IF 0 > k THEN 0 ELSE k - 0 + 1
    BY FS_Interval
  <2> QED BY <2>1
<1>4. {s[j] : j \in J} \subseteq T
  OBVIOUS
<1> HIDE DEF h, T
<1>5. IsFiniteSet(T) /\ Cardinality(T) <= k - 1
  BY <1>1, <1>2, FS_Surjection
<1>6. ~(0 .. k \subseteq T)
  <2> SUFFICES ASSUME 0 .. k \subseteq T PROVE FALSE
    OBVIOUS
  <2>1. Cardinality(0 .. k) <= Cardinality(T) /\ Cardinality(T) \in Nat
    BY <1>5, FS_Subset, FS_CardinalityType
  <2> QED BY <1>3, <1>5, <2>1
<1>7. left # {} /\ left \subseteq Nat
  <2> DEFINE used == {s[j] : j \in J}
  <2>1. used \subseteq T
    BY <1>4
  <2> HIDE DEF used
  <2>2. (0 .. k) \ used # {} /\ (0 .. k) \ used \subseteq Nat
    BY <1>6, <2>1
  <2> QED BY <2>2 DEF used
<1> HIDE DEF left
<1>8. Min(left) \in left
  BY <1>7, MinIn
<1> QED BY <1>8 DEF left

\* The greedy colouring gives translations that interfere different cells.
LEMMA ColoursAre ==
  ASSUME NEW g, NEW order, Len(order) \in Nat, DOMAIN order = 1 .. Len(order),
         \A j, k \in DOMAIN order : order[j] = order[k] => j = k
  PROVE  /\ DOMAIN Colours(g, order) = ToSet(order)
         /\ \A l, m \in ToSet(order) :
              l # m /\ Interfere(g, l, m) => Colours(g, order)[l] # Colours(g, order)[m]
<1> DEFINE L == Len(order)
           Proper(s, i) == \A j, k \in 1 .. i : j < k /\ Interfere(g, order[j], order[k]) => s[j] # s[k]
           V == [i \in 0 .. L |-> {s \in Seq(Nat) : Len(s) = i /\ Proper(s, i)}]
           Taken(s, i) == {s[j] : j \in {h \in 1 .. i - 1 : Interfere(g, order[h], order[i])}}
           More(s, i) == Append(s, Min(0 .. i \ Taken(s, i)))
           step == [i \in 1 .. L |-> [s \in Seq(Nat) |-> More(s, i)]]
           Solves(U) == U = [i \in 0 .. L |-> IF i = 0 THEN <<>> ELSE More(U[i - 1], i)]
           Paint == CHOOSE U : Solves(U)
<1>1. L \in Nat
  OBVIOUS
<1>2. Colours(g, order) =
        Table([l \in ToSet(order) |-> Paint[L][CHOOSE k \in DOMAIN order : order[k] = l]])
  BY Zenon DEF Colours
<1>6. \A i \in 0 .. L : \A s : s \in V[i] <=> s \in Seq(Nat) /\ Len(s) = i /\ Proper(s, i)
  OBVIOUS
<1>7. \A i \in 1 .. L : \A s \in Seq(Nat) : step[i][s] = More(s, i)
  OBVIOUS
<1>8. <<>> \in V[0]
  OBVIOUS
<1> HIDE DEF V, step, More, L, Proper
<1>9. ASSUME NEW i \in 1 .. L, NEW s \in V[i - 1] PROVE More(s, i) \in V[i]
  <2>1. i - 1 \in 0 .. L /\ i \in 0 .. L /\ i \in Nat \ {0}
    BY <1>1
  <2>2. s \in Seq(Nat) /\ Len(s) = i - 1 /\ Proper(s, i - 1)
    BY <1>6, <2>1
  <2> DEFINE c == Min(0 .. i \ Taken(s, i))
             r == Append(s, c)
  <2>3. c \in 0 .. i \ Taken(s, i)
    <3> DEFINE J == {h \in 1 .. i - 1 : Interfere(g, order[h], order[i])}
    <3>1. J \in SUBSET (1 .. i - 1)
      OBVIOUS
    <3> HIDE DEF J
    <3>2. Min((0 .. i) \ {s[j] : j \in J}) \in (0 .. i) \ {s[j] : j \in J}
      BY <2>1, <3>1, CellLeft
    <3> QED BY <3>2 DEF J
  <2>4. \A h \in 1 .. i - 1 : Interfere(g, order[h], order[i]) => c # s[h]
    BY <2>3
  <2>5. c \in Nat
    BY <2>1, <2>3
  <2> HIDE DEF c
  <2>6. r \in Seq(Nat) /\ Len(r) = i /\ r[i] = c /\ \A h \in 1 .. i - 1 : r[h] = s[h]
    BY <2>1, <2>2, <2>5
  <2>7. Proper(r, i)
    BY <2>1, <2>2, <2>4, <2>6 DEF Proper
  <2>8. r \in V[i]
    BY <1>6, <2>1, <2>6, <2>7
  <2> QED BY <2>8 DEF c, More
<1>10. \A i \in 1 .. L : i \in 0 .. L /\ i - 1 \in 0 .. L /\ i # 0
  BY <1>1
<1>11. \A i \in 1 .. L : \A s \in V[i - 1] : step[i][s] \in V[i] /\ step[i][s] = More(s, i)
  <2> SUFFICES ASSUME NEW i \in 1 .. L, NEW s \in V[i - 1]
               PROVE  step[i][s] \in V[i] /\ step[i][s] = More(s, i)
    OBVIOUS
  <2>1. s \in Seq(Nat)
    BY <1>6, <1>10
  <2>2. step[i][s] = More(s, i)
    BY <1>7, <2>1, Zenon
  <2>3. More(s, i) \in V[i]
    BY <1>9
  <2> QED BY <2>2, <2>3, Zenon
<1>12. PICK U : Leads(U, L, <<>>, step) /\ \A i \in 0 .. L : U[i] \in V[i]
  BY <1>1, <1>8, <1>11, Recursion, Zenon
<1>13. Solves(U)
  <2>1. \A i \in 0 .. L : U[i] = IF i = 0 THEN <<>> ELSE More(U[i - 1], i)
    <3> SUFFICES ASSUME NEW i \in 0 .. L PROVE U[i] = IF i = 0 THEN <<>> ELSE More(U[i - 1], i)
      OBVIOUS
    <3>1. i # 0 => i \in 1 .. L
      BY <1>1
    <3>2. U[0] = <<>>
      BY <1>12 DEF Leads
    <3>3. i # 0 => U[i] = step[i][U[i - 1]] /\ U[i - 1] \in V[i - 1]
      BY <1>10, <1>12, <3>1, Zenon DEF Leads
    <3>4. i # 0 => U[i] = More(U[i - 1], i)
      BY <1>11, <3>1, <3>3, Zenon
    <3> QED BY <3>2, <3>4, Zenon
  <2>2. U = [i \in 0 .. L |-> U[i]]
    BY <1>12, Zenon DEF Leads
  <2> QED BY <2>1, <2>2, Zenon
<1>14. Solves(Paint)
  BY <1>13, Zenon
<1> HIDE DEF Paint
<1>15. Follows(Paint, U, L, <<>>, step)
  <2>1. \A i \in 0 .. L : Paint[i] = IF i = 0 THEN <<>> ELSE More(Paint[i - 1], i)
    BY <1>14, Zenon
  <2>2. 0 \in 0 .. L
    BY <1>1
  <2>3. \A i \in 1 .. L : Paint[i - 1] = U[i - 1] => Paint[i] = step[i][U[i - 1]]
    <3> SUFFICES ASSUME NEW i \in 1 .. L, Paint[i - 1] = U[i - 1] PROVE Paint[i] = step[i][U[i - 1]]
      OBVIOUS
    <3>1. Paint[i] = More(U[i - 1], i)
      BY <1>10, <2>1, Zenon
    <3>2. U[i - 1] \in V[i - 1]
      BY <1>10, <1>12, Zenon
    <3> QED BY <1>11, <3>1, <3>2, Zenon
  <2> QED BY <2>1, <2>2, <2>3, Zenon DEF Follows
<1>16. L \in 0 .. L
  BY <1>1
<1>17. Paint[L] \in V[L]
  <2>1. \A i \in 0 .. L : Paint[i] = U[i]
    BY <1>1, <1>12, <1>15, RecursionOnce
  <2> QED BY <1>12, <1>16, <2>1, Zenon
<1>18. Proper(Paint[L], L)
  BY <1>6, <1>16, <1>17
<1> DEFINE place(l) == CHOOSE k \in DOMAIN order : order[k] = l
           table == [l \in ToSet(order) |-> Paint[L][place(l)]]
<1>19. \A l \in ToSet(order) : place(l) \in 1 .. L /\ order[place(l)] = l
  BY DEF ToSet, L
<1>20. Colours(g, order) = table
  BY <1>2, TableIs
<1>21. DOMAIN table = ToSet(order) /\ \A l \in ToSet(order) : table[l] = Paint[L][place(l)]
  OBVIOUS
<1> HIDE DEF place, table
<1>22. ASSUME NEW l \in ToSet(order), NEW m \in ToSet(order), l # m, Interfere(g, l, m)
       PROVE  table[l] # table[m]
  <2>1. /\ place(l) \in 1 .. L /\ place(m) \in 1 .. L /\ order[place(l)] = l /\ order[place(m)] = m
        /\ place(l) # place(m)
    BY <1>19, <1>22
  <2>2. Interfere(g, m, l)
    BY <1>22 DEF Interfere
  <2>3. Paint[L][place(l)] # Paint[L][place(m)]
    <3>1. CASE place(l) < place(m)
      BY <1>18, <1>22, <2>1, <3>1 DEF Proper
    <3>2. CASE place(m) < place(l)
      BY <1>18, <2>1, <2>2, <3>2 DEF Proper
    <3> QED BY <1>1, <2>1, <3>1, <3>2
  <2> QED BY <1>21, <2>3
<1> QED BY <1>20, <1>21, <1>22

\* Cells are given to the translations that are tracked.
LEMMA CellsAre ==
  ASSUME NEW f, NEW t, NEW alive, NEW g, Emits(f, t, alive, g)
  PROVE  /\ DOMAIN Cells(g) = MustTrack(g) /\ MustTrack(g) \subseteq Translations(g)
         /\ \A l, m \in MustTrack(g) : l # m /\ Interfere(g, l, m) => Cells(g)[l] # Cells(g)[m]
<1> DEFINE S == MustTrack(g)
           order == SetToSeq(S)
           n == Cardinality(S)
<1>1. S \subseteq Body(f)
  BY TrIs DEF MustTrack
<1>2. IsFiniteSet(S)
  BY <1>1, BodyFinite, FS_Subset DEF Emits, Analysed, Sound
<1>3. S \subseteq Translations(g)
  BY DEF MustTrack
<1> HIDE DEF S
<1>4. /\ n \in Nat /\ DOMAIN order = 1 .. n
      /\ \A i \in DOMAIN order : order[i] \in S
      /\ \A l \in S : \E i \in DOMAIN order : order[i] = l
      /\ \A i, j \in DOMAIN order : order[i] = order[j] => i = j
      /\ order \in Seq(S)
  BY <1>2, RowOf
<1> HIDE DEF order, n
<1>6. Len(order) \in Nat /\ DOMAIN order = 1 .. Len(order)
  BY <1>4
<1>7. ToSet(order) = S
  BY <1>4 DEF ToSet
<1>8. /\ DOMAIN Colours(g, order) = S
      /\ \A l, m \in S : l # m /\ Interfere(g, l, m) => Colours(g, order)[l] # Colours(g, order)[m]
  BY <1>4, <1>6, <1>7, ColoursAre
<1> QED BY <1>3, <1>8 DEF Cells, order, S

-----------------------------------------------------------------------------
(***************************************************************************)
(* The thread in the function.                                             *)
(***************************************************************************)

\* What is not a poll or a release is in a block of f.
LEMMA InBlock ==
  ASSUME NEW f, NEW t, NEW alive, NEW g, Emits(f, t, alive, g), NEW x \in DOMAIN g.code,
         NEW i \in DOMAIN g.code[x], g.code[x][i].op \notin {"poll", "release"}
  PROVE  \E b \in Blocks(f) : /\ x = <<b>> /\ Len(x) = 1 /\ x[1] = b
                              /\ \E N : \E P : Rows(f, t, alive, b, g.code[x], N, P)
<1>1. IsBlock(f, t, alive, x)
  BY CodeIs
<1>2. ASSUME NEW b, NEW c PROVE x # <<b, c, "poll">> /\ x # <<b, c, "release">>
  <2>1. ASSUME x = <<b, c, "poll">> PROVE FALSE
    <3>1. i = 1 /\ g.code[x][1] = Ins("poll", None, None)
      BY <2>1, EdgeIs
    <3> QED BY <3>1, InsIs
  <2>2. ASSUME x = <<b, c, "release">> PROVE FALSE
    BY <2>2, EdgeIs
  <2> QED BY <2>1, <2>2
<1>3. PICK b \in Blocks(f) : x = <<b>>
  BY <1>1, <1>2 DEF IsBlock
<1>4. g.code[x] = BlockCode(f, t, alive, b)
  BY <1>3, CodeIs
<1>5. \E N : \E P : Rows(f, t, alive, b, g.code[x], N, P)
  BY <1>4, RowsExist DEF Emits
<1> QED BY <1>3, <1>5

\* The instructions that use a translation as it is.
LEMMA UsedIs ==
  ASSUME NEW f, NEW t, NEW alive, NEW g, Emits(f, t, alive, g), NEW x \in DOMAIN g.code,
         NEW i \in DOMAIN g.code[x], g.code[x][i].op \in {"use", "ext"}
  PROVE  LET l == g.code[x][i].tr
         IN  /\ l # None => l \in Translations(g) /\ Needed(f, t, alive, g, l, x, i)
             /\ g.code[x][i].op = "ext" => l # None
<1> DEFINE C == g.code[x]
           l == C[i].tr
<1>1. PICK b \in Blocks(f) : \E N : \E P : Rows(f, t, alive, b, C, N, P)
  BY InBlock
<1>20. PICK N : \E P : Rows(f, t, alive, b, C, N, P)
  BY <1>1
<1>2. PICK P : Rows(f, t, alive, b, C, N, P)
  BY <1>20
<1>3. C[i].op = "ext" => l \in Translations(g)
  <2> SUFFICES ASSUME C[i].op = "ext" PROVE l \in Translations(g)
    OBVIOUS
  <2>1. i - 1 \in DOMAIN C /\ Starts(C, i - 1, l)
    BY <1>2, PassingIs DEF Emits
  <2> QED BY <2>1, BirthAt
<1>4. C[i].op = "use" /\ l # None => l \in Translations(g)
  <2> SUFFICES ASSUME C[i].op = "use", l # None PROVE l \in Translations(g)
    OBVIOUS
  <2>1. Kind(f, t, alive, b, C, N, P, i) /\ P[i] \in 0 .. 2
    BY <1>2, KindIs DEF Rows, Emits
  <2>2. <<b, N[i]>> \in Nodes(f) /\ l = t.owner[<<b, N[i]>>]
    BY <2>1 DEF Kind
  <2>3. l \in DOMAIN t.birth
    BY <2>2 DEF Emits, Analysed, Forested
  <2> QED BY <2>3, MadeIn
<1>5. i \in Nat
  BY BlockLen
<1> HIDE DEF l
<1>6. Needed(f, t, alive, g, l, x, i)
  <2>1. i >= i /\ \A m \in DOMAIN C : ~(i <= m /\ m < i)
    BY <1>5, BlockLen
  <2> QED BY <2>1 DEF Needed, Wants, l
<1>7. C[i].op = "ext" => l # None
  BY <1>3, TrIs
<1> QED BY <1>3, <1>4, <1>6, <1>7 DEF l

\* The instructions that make one.
LEMMA MakesIs ==
  ASSUME NEW f, NEW t, NEW alive, NEW g, Emits(f, t, alive, g), NEW x \in DOMAIN g.code,
         NEW i \in DOMAIN g.code[x], g.code[x][i].op = "translate"
  PROVE  LET l == g.code[x][i].tr
         IN  l \in Translations(g) /\ g.code[x][i].val = At(f, l).ptr /\ x \in LiveBlocks(g, l)
<1> DEFINE C == g.code[x]
           l == C[i].tr
<1>1. PICK b \in Blocks(f) : \E N : \E P : Rows(f, t, alive, b, C, N, P)
  BY InBlock
<1>20. PICK N : \E P : Rows(f, t, alive, b, C, N, P)
  BY <1>1
<1>2. PICK P : Rows(f, t, alive, b, C, N, P)
  BY <1>20
<1>3. Kind(f, t, alive, b, C, N, P, i) /\ P[i] \in 0 .. 2
  BY <1>2, KindIs DEF Rows, Emits
<1>4. C[i].val = At(f, l).ptr
  BY <1>3 DEF Kind
<1>5. Birth(g, l) = <<x, i>> /\ l \in Translations(g)
  BY BirthAt DEF Starts
<1>6. x \in LiveBlocks(g, l)
  <2>1. Birth(g, l)[1] = x
    BY <1>5
  <2> QED BY <2>1, CodeIs, LiveIs
<1> QED BY <1>4, <1>5, <1>6

\* The instructions that give a pointer another value.
LEMMA DefinesIs ==
  ASSUME NEW f, NEW t, NEW alive, NEW g, Emits(f, t, alive, g), NEW x \in DOMAIN g.code,
         NEW i \in DOMAIN g.code[x], g.code[x][i].op \in {"def", "use", "gep"}, g.code[x][i].val # None,
         NEW l, l # None, g.code[x][i].val = At(f, l).ptr
  PROVE  ~Needed(f, t, alive, g, l, x, i + 1)
<1> DEFINE C == g.code[x]
<1>1. PICK b \in Blocks(f) : /\ x = <<b>> /\ Len(x) = 1 /\ x[1] = b
                             /\ \E N : \E P : Rows(f, t, alive, b, C, N, P)
  BY InBlock
<1>20. PICK N : \E P : Rows(f, t, alive, b, C, N, P)
  BY <1>1
<1>2. PICK P : Rows(f, t, alive, b, C, N, P)
  BY <1>20
<1>3. ~Wants(C, l \in Out(f, t, alive, Term(f, b)), l, i + 1)
  BY <1>2, WantsDefined DEF Emits
<1> QED BY <1>1, <1>3 DEF Needed, Leaving

\* Needed behind an instruction, or in the next block, and needed before.
LEMMA NeededBack ==
  ASSUME NEW f, NEW t, NEW alive, NEW g, Emits(f, t, alive, g), NEW x \in DOMAIN g.code,
         NEW i \in DOMAIN g.code[x], NEW l, Needed(f, t, alive, g, l, x, i + 1),
         ~Starts(g.code[x], i, l)
  PROVE  Needed(f, t, alive, g, l, x, i)
<1>1. /\ i \in Nat /\ \A m \in DOMAIN g.code[x] : m \in Nat
  BY BlockLen
<1>2. \A m \in DOMAIN g.code[x] : /\ i <= m => m = i \/ i + 1 <= m
                                  /\ m >= i + 1 => m >= i
  BY <1>1
<1> QED BY <1>2 DEF Needed, Wants

\* What is needed in the next block is needed at the end of this one.
LEMMA NeededFrom ==
  ASSUME NEW f, NEW t, NEW alive, NEW g, Emits(f, t, alive, g), NEW x \in DOMAIN g.code,
         NEW i \in 1 .. Len(g.code[x]) + 1, i \notin DOMAIN g.code[x],
         NEW y \in g.next[x], NEW l, l # None, Needed(f, t, alive, g, l, y, 1)
  PROVE  /\ y \in DOMAIN g.code
         /\ Needed(f, t, alive, g, l, x, i)
<1> DEFINE At1(c) == l \in DOMAIN t.birth /\ Comes(t, alive, l, <<c, 1>>)
<1>1. ASSUME NEW c \in Blocks(f), y = <<c>> PROVE y \in DOMAIN g.code /\ At1(c)
  <2>1. /\ y \in DOMAIN g.code /\ g.code[y] = BlockCode(f, t, alive, c) /\ Len(y) = 1 /\ y[1] = c
    BY <1>1, CodeIs
  <2>20. PICK N : \E P : Rows(f, t, alive, c, g.code[y], N, P)
    BY <2>1, RowsExist DEF Emits
  <2>2. PICK P : Rows(f, t, alive, c, g.code[y], N, P)
    BY <2>20
  <2>3. Wants(g.code[y], l \in Out(f, t, alive, Term(f, c)), l, 1)
    BY <2>1 DEF Needed, Leaving
  <2> QED BY <2>1, <2>2, <2>3, WantsStart DEF Emits
<1>2. ASSUME NEW b \in Blocks(f), NEW c \in Succs(f, b),
             \/ ReleasedOn(f, t, alive, b, c) # {} /\ y = <<b, c, "release">>
             \/ Polled(f, b, c) /\ y = <<b, c, "poll">>
      PROVE  y \in DOMAIN g.code /\ At1(c)
  <2>0. y \in DOMAIN g.code /\ Len(y) = 3 /\ y[2] = c
    BY <1>2, CodeIs DEF IsBlock
  <2>1. \A k \in DOMAIN g.code[y] : g.code[y][k].op \in {"poll", "release"}
    <3>1. CASE y = <<b, c, "release">>
      BY <2>0, <3>1, EdgeIs
    <3>2. CASE y = <<b, c, "poll">>
      <4>1. DOMAIN g.code[y] = {1} /\ g.code[y][1] = Ins("poll", None, None)
        BY <2>0, <3>2, EdgeIs
      <4> QED BY <4>1, InsIs
    <3> QED BY <1>2, <3>1, <3>2
  <2>2. Leaving(f, t, alive, y, l)
    BY <2>1 DEF Needed, Wants
  <2> QED BY <2>0, <2>2 DEF Leaving
<1>3. PICK b \in Blocks(f) : \E c \in Succs(f, b) :
        LET rel == ReleasedOn(f, t, alive, b, c) # {}
            pol == Polled(f, b, c)
        IN  \/ /\ x = <<b>>
               /\ y = IF rel THEN <<b, c, "release">> ELSE IF pol THEN <<b, c, "poll">> ELSE <<c>>
            \/ rel /\ x = <<b, c, "release">> /\ y = IF pol THEN <<b, c, "poll">> ELSE <<c>>
            \/ pol /\ x = <<b, c, "poll">> /\ y = <<c>>
  <2>1. Goes(f, t, alive, x, y)
    BY CodeIs
  <2> QED BY <2>1, Zenon DEF Goes
<1>4. PICK c \in Succs(f, b) :
        /\ \/ x = <<b>>
           \/ x = <<b, c, "release">>
           \/ x = <<b, c, "poll">>
        /\ \/ ReleasedOn(f, t, alive, b, c) # {} /\ y = <<b, c, "release">>
           \/ Polled(f, b, c) /\ y = <<b, c, "poll">>
           \/ y = <<c>>
  BY <1>3
<1>5. c \in Blocks(f) /\ b \in Preds(f, c)
  BY CodeIs DEF Preds
<1>6. y \in DOMAIN g.code /\ At1(c)
  BY <1>1, <1>2, <1>4, <1>5
<1>7. Leaving(f, t, alive, x, l)
  <2>1. CASE x = <<b>>
    <3>1. Len(x) = 1 /\ x[1] = b
      BY <2>1
    <3>2. l \in Out(f, t, alive, Term(f, b))
      BY <1>5, <1>6, ComesIs DEF Emits
    <3> QED BY <3>1, <3>2 DEF Leaving
  <2>2. CASE x = <<b, c, "release">> \/ x = <<b, c, "poll">>
    <3>1. Len(x) # 1 /\ x[2] = c
      BY <2>2
    <3> QED BY <1>6, <3>1 DEF Leaving
  <2> QED BY <1>4, <2>1, <2>2
<1>8. \A m \in DOMAIN g.code[x] : ~(i <= m)
  BY BlockLen
<1> QED BY <1>6, <1>7, <1>8 DEF Needed, Wants

\* Nothing is needed at the start of the function.
LEMMA NeededFirst ==
  ASSUME NEW f, NEW t, NEW alive, NEW g, Emits(f, t, alive, g), NEW l, l # None
  PROVE  <<1>> \in DOMAIN g.code /\ ~Needed(f, t, alive, g, l, <<1>>, 1)
<1>0. 1 \in Blocks(f)
  BY BlocksAre DEF Emits, Analysed, Sound
<1> DEFINE x == <<1>>
<1>1. x \in DOMAIN g.code /\ g.code[x] = BlockCode(f, t, alive, 1) /\ Len(x) = 1 /\ x[1] = 1
  BY <1>0, CodeIs
<1> HIDE DEF x
<1>20. PICK N : \E P : Rows(f, t, alive, 1, g.code[x], N, P)
  BY <1>0, <1>1, RowsExist DEF Emits
<1>2. PICK P : Rows(f, t, alive, 1, g.code[x], N, P)
  BY <1>20
<1>3. ASSUME Needed(f, t, alive, g, l, x, 1) PROVE FALSE
  <2>1. Wants(g.code[x], l \in Out(f, t, alive, Term(f, 1)), l, 1)
    BY <1>1, <1>3 DEF Needed, Leaving
  <2>2. l \in DOMAIN t.birth /\ Comes(t, alive, l, <<1, 1>>)
    BY <1>0, <1>2, <2>1, WantsStart DEF Emits
  <2>3. t.birth[l][1] # 1 /\ Dominates(f, t.birth[l][1], 1)
    BY <1>0, <2>2, ComesIs DEF Emits
  <2>4. t.birth[l] \in Points(f) /\ Precedes(f, t.birth[l], <<1, 1>>)
    BY <2>2, <2>3 DEF Precedes, Emits, Analysed, Forested
  <2> QED BY <2>4, FirstPoint DEF Emits, Analysed, Sound
<1> QED BY <1>1, <1>3 DEF x

ForestOf(f) == Forest(f)
AliveOf(f)  == Alive(f, Forest(f))

\* Compiling a function emits what the lemmas above are about.
LEMMA CompiledIs ==
  ASSUME NEW f, Sound(f), Direct(f)
  PROVE  /\ Emits(f, ForestOf(f), AliveOf(f), Instrument(f))
         /\ Compile(f).code = Instrument(f).code /\ Compile(f).next = Instrument(f).next
         /\ Compile(f).trs = Translations(Instrument(f)) /\ Compile(f).cell = Cells(Instrument(f))
<1>1. Emits(f, ForestOf(f), AliveOf(f), Instrument(f))
  BY ForestIsForested, AliveIsLively DEF Emits, Analysed, Instrument, Translated, ForestOf, AliveOf
<1> QED BY <1>1 DEF Compile, Lowered

\* The functions that no switch is in and that always may return.
Checked == \A f \in Range(Function) : f.switches = {} /\ Returns(f)

\* What the assumptions say of the function the thread is in.
LEMMA SourceIs ==
  ASSUME Checked, NEW n \in DOMAIN Function
  PROVE  /\ Sound(Function[n]) /\ Direct(Function[n]) /\ Returns(Function[n])
         /\ Compiled[n] = Compile(Function[n]) /\ DOMAIN Compiled = DOMAIN Function
<1>1. Function[n] \in Range(Function)
  BY DEF Range
<1>2. Compiled = [m \in DOMAIN Function |-> Compile(Function[m])]
  BY TableIs, Zenon DEF Compiled
<1> QED BY <1>1, <1>2, FunctionAssumption DEF Checked, Sound, Direct

\* At instruction p of function f the thread still needs translation l.
Due(f, l, p) == Needed(f, ForestOf(f), AliveOf(f), Instrument(f), l, p[1], p[2])

\* A translation that is still needed is good, and so is the cell that keeps it.
Kept ==
  \A l \in Translations(Instrument(Source)) :
    Due(Source, l, at) =>
      /\ base[l] = "good"
      /\ l \in MustTrack(Instrument(Source)) => cell[Cells(Instrument(Source))[l]] = At(Source, l).ptr
InPlace ==
  /\ fn \in DOMAIN Function
  /\ at = <<at[1], at[2]>> /\ at[1] \in DOMAIN Instrument(Source).code
  /\ at[2] \in 1 .. Len(Instrument(Source).code[at[1]]) + 1
  /\ DOMAIN base = Translations(Instrument(Source))
  /\ DOMAIN cell = Range(Cells(Instrument(Source)))
CodeInv == InPlace /\ Kept

\* The facts a step needs about the function the thread is in.
LEMMA CodeAt ==
  ASSUME Checked, InPlace
  PROVE  LET f == Source
             g == Instrument(Source)
         IN  /\ Sound(f) /\ Returns(f) /\ Emits(f, ForestOf(f), AliveOf(f), g)
             /\ Code.code = g.code /\ Code.next = g.next /\ Code.trs = Translations(g)
             /\ Code.cell = Cells(g)
             /\ Len(g.code[at[1]]) \in Nat /\ DOMAIN g.code[at[1]] = 1 .. Len(g.code[at[1]])
             /\ Executing <=> at[2] \in DOMAIN g.code[at[1]]
             /\ Here = g.code[at[1]][at[2]]
             /\ DOMAIN Cells(g) = MustTrack(g) /\ MustTrack(g) \subseteq Translations(g)
             /\ \A l \in MustTrack(g) : Cells(g)[l] \in DOMAIN cell
<1>1. /\ Sound(Source) /\ Direct(Source) /\ Returns(Source) /\ Code = Compile(Source)
  BY SourceIs DEF InPlace, Source, Code
<1>2. /\ Emits(Source, ForestOf(Source), AliveOf(Source), Instrument(Source))
      /\ Code.code = Instrument(Source).code /\ Code.next = Instrument(Source).next
      /\ Code.trs = Translations(Instrument(Source)) /\ Code.cell = Cells(Instrument(Source))
  BY <1>1, CompiledIs
<1>3. DOMAIN Cells(Instrument(Source)) = MustTrack(Instrument(Source))
      /\ MustTrack(Instrument(Source)) \subseteq Translations(Instrument(Source))
  BY <1>2, CellsAre
<1>4. \A l \in MustTrack(Instrument(Source)) : Cells(Instrument(Source))[l] \in DOMAIN cell
  BY <1>3 DEF InPlace, Range
<1>5. /\ Len(Instrument(Source).code[at[1]]) \in Nat
      /\ DOMAIN Instrument(Source).code[at[1]] = 1 .. Len(Instrument(Source).code[at[1]])
  BY <1>2, BlockLen DEF InPlace
<1>6. /\ Executing <=> at[2] \in DOMAIN Instrument(Source).code[at[1]]
      /\ Here = Instrument(Source).code[at[1]][at[2]]
  BY <1>2 DEF Executing, Here
<1> QED BY <1>1, <1>2, <1>3, <1>4, <1>5, <1>6

\* The invariant holds at the start and says what UsesFresh does.
LEMMA CodeStart == ASSUME Checked, CodeInit PROVE CodeInv
<1> DEFINE f == Source
           g == Instrument(Source)
<1>1. fn \in DOMAIN Function /\ at = <<<<1>>, 1>>
  BY DEF CodeInit
<1>2. Sound(f) /\ Direct(f) /\ Returns(f) /\ Code = Compile(f)
  BY <1>1, SourceIs DEF Source, Code
<1>3. Emits(f, ForestOf(f), AliveOf(f), g) /\ Code.trs = Translations(g) /\ Code.cell = Cells(g)
  BY <1>2, CompiledIs
<1>4. DOMAIN base = Translations(g) /\ DOMAIN cell = Range(Cells(g))
  BY <1>3 DEF CodeInit
<1>5. <<1>> \in DOMAIN g.code /\ \A l \in Translations(g) : ~Due(f, l, at)
  BY <1>1, <1>2, <1>3, NeededFirst, TrIs DEF Due
<1>6. 1 \in 1 .. Len(g.code[<<1>>]) + 1
  BY <1>3, <1>5, BlockLen
<1>7. at[1] = <<1>> /\ at[2] = 1 /\ at = <<at[1], at[2]>>
  BY <1>1
<1> QED BY <1>1, <1>4, <1>5, <1>6, <1>7 DEF CodeInv, InPlace, Kept

\* The invariant gives the property.
LEMMA CodeFresh == ASSUME Checked, CodeInv PROVE UsesFresh
<1> DEFINE f == Source
           g == Instrument(Source)
           l == Here.tr
<1>1. /\ Emits(f, ForestOf(f), AliveOf(f), g) /\ Returns(f)
      /\ Executing <=> at[2] \in DOMAIN g.code[at[1]]
      /\ Here = g.code[at[1]][at[2]] /\ at[1] \in DOMAIN g.code
      /\ \A m \in MustTrack(g) : Cells(g)[m] \in DOMAIN cell
  BY CodeAt DEF CodeInv, InPlace
<1>2. SUFFICES ASSUME Executing, Here.op \in {"use", "ext"}
               PROVE  /\ l # None => base[l] = "good"
                      /\ Here.op = "ext" => l # None /\ At(f, l).ptr \in Pinned
  BY DEF UsesFresh
<1>3. /\ l # None => l \in Translations(g) /\ Due(f, l, at)
      /\ Here.op = "ext" => l # None
  BY <1>1, <1>2, UsedIs DEF Due
<1>4. l # None => /\ base[l] = "good"
                  /\ l \in MustTrack(g) => cell[Cells(g)[l]] = At(f, l).ptr
  BY <1>3 DEF CodeInv, Kept
<1>5. ASSUME Here.op = "ext" PROVE At(f, l).ptr \in Pinned
  <2>1. l \in MustTrack(g)
    BY <1>1, <1>2, <1>3, <1>5, TrackedAt
  <2>2. At(f, l).ptr # None
    BY <1>1, <1>3, <1>5, TrIs
  <2> QED BY <1>1, <1>3, <1>4, <1>5, <2>1, <2>2 DEF Pinned, Range
<1> QED BY <1>3, <1>4, <1>5

\* The next instruction is another one of the same function.
LEMMA CodeOn ==
  ASSUME Checked, CodeInv, Executing, Advance, fn' = fn
  PROVE  /\ Source' = Source /\ at' = <<at[1], at[2] + 1>> /\ at'[1] = at[1] /\ at'[2] = at[2] + 1
         /\ at'[2] \in 1 .. Len(Instrument(Source).code[at[1]]) + 1
         /\ \A l : Due(Source, l, at') /\ ~(Here.op = "translate" /\ Here.tr = l) => Due(Source, l, at)
<1> DEFINE f == Source
           g == Instrument(Source)
<1>1. /\ Emits(f, ForestOf(f), AliveOf(f), g)
      /\ at[2] \in DOMAIN g.code[at[1]] /\ Here = g.code[at[1]][at[2]] /\ at[1] \in DOMAIN g.code
      /\ Len(g.code[at[1]]) \in Nat /\ DOMAIN g.code[at[1]] = 1 .. Len(g.code[at[1]])
  BY CodeAt DEF CodeInv, InPlace
<1>2. at' = <<at[1], at[2] + 1>> /\ at'[1] = at[1] /\ at'[2] = at[2] + 1
  BY DEF Advance
<1>3. Source' = Source
  BY DEF Source
<1>4. at'[2] \in 1 .. Len(g.code[at[1]]) + 1
  BY <1>1, <1>2
<1>5. ASSUME NEW l, Due(f, l, at'), ~(Here.op = "translate" /\ Here.tr = l) PROVE Due(f, l, at)
  <2>1. Needed(f, ForestOf(f), AliveOf(f), g, l, at[1], at[2] + 1)
    BY <1>2, <1>5 DEF Due
  <2>2. ~Starts(g.code[at[1]], at[2], l)
    BY <1>1, <1>5 DEF Starts
  <2> QED BY <1>1, <2>1, <2>2, NeededBack DEF Due
<1> QED BY <1>2, <1>3, <1>4, <1>5

\* A pointer that gets another value spoils no translation that is needed.
LEMMA DefineStep == ASSUME Checked, CodeInv, Define PROVE CodeInv'
<1> DEFINE f == Source
           g == Instrument(Source)
<1>1. /\ Emits(f, ForestOf(f), AliveOf(f), g) /\ at[1] \in DOMAIN g.code
      /\ at[2] \in DOMAIN g.code[at[1]] /\ Here = g.code[at[1]][at[2]]
      /\ \A l \in MustTrack(g) : Cells(g)[l] \in DOMAIN cell
  BY CodeAt DEF CodeInv, InPlace, Define
<1>2. /\ Source' = Source /\ at' = <<at[1], at[2] + 1>> /\ at'[1] = at[1] /\ at'[2] = at[2] + 1
      /\ at'[2] \in 1 .. Len(g.code[at[1]]) + 1
      /\ \A l : Due(f, l, at') => Due(f, l, at)
  <2>1. Here.op # "translate"
    BY DEF Define
  <2> QED BY <2>1, CodeOn DEF Define
<1>3. /\ DOMAIN base' = DOMAIN base /\ DOMAIN cell' = DOMAIN cell
      /\ \A l \in DOMAIN base : ~(Here.val # None /\ At(f, l).ptr = Here.val) => base'[l] = base[l]
      /\ \A c \in DOMAIN cell : ~(Here.val # None /\ cell[c] = Here.val) => cell'[c] = cell[c]
  BY DEF Define
<1>4. InPlace'
  BY <1>1, <1>2, <1>3 DEF CodeInv, InPlace, Define
<1>5. ASSUME NEW l \in Translations(g), Due(f, l, at')
      PROVE  base'[l] = "good" /\ (l \in MustTrack(g) => cell'[Cells(g)[l]] = At(f, l).ptr)
  <2>1. ~(Here.val # None /\ At(f, l).ptr = Here.val)
    <3> SUFFICES ASSUME Here.val # None, Here.val = At(f, l).ptr PROVE FALSE
      OBVIOUS
    <3>1. ~Needed(f, ForestOf(f), AliveOf(f), g, l, at[1], at[2] + 1)
      BY <1>1, DefinesIs, TrIs DEF Define
    <3> QED BY <1>2, <1>5, <3>1 DEF Due
  <2>2. base[l] = "good" /\ (l \in MustTrack(g) => cell[Cells(g)[l]] = At(f, l).ptr)
    BY <1>2, <1>5 DEF CodeInv, Kept
  <2>3. l \in DOMAIN base
    BY DEF CodeInv, InPlace
  <2> QED BY <1>1, <1>3, <2>1, <2>2, <2>3
<1>6. Kept'
  BY <1>2, <1>5 DEF Kept
<1> QED BY <1>4, <1>6 DEF CodeInv

\* A translation overwrites no cell of another one that is needed.
LEMMA TranslateStep == ASSUME Checked, CodeInv, Translate PROVE CodeInv'
<1> DEFINE f == Source
           g == Instrument(Source)
           m == Here.tr
<1>1. /\ Emits(f, ForestOf(f), AliveOf(f), g) /\ Returns(f) /\ at[1] \in DOMAIN g.code
      /\ at[2] \in DOMAIN g.code[at[1]] /\ Here = g.code[at[1]][at[2]]
      /\ Code.cell = Cells(g) /\ DOMAIN Cells(g) = MustTrack(g)
      /\ \A l \in MustTrack(g) : Cells(g)[l] \in DOMAIN cell
  BY CodeAt DEF CodeInv, InPlace, Translate
<1>2. /\ Source' = Source /\ at' = <<at[1], at[2] + 1>> /\ at'[1] = at[1] /\ at'[2] = at[2] + 1
      /\ at'[2] \in 1 .. Len(g.code[at[1]]) + 1
      /\ \A l : Due(f, l, at') /\ m # l => Due(f, l, at)
  BY CodeOn DEF Translate
<1>3. m \in Translations(g) /\ Here.val = At(f, m).ptr /\ at[1] \in LiveBlocks(g, m)
  <2> DEFINE i == g.code[at[1]][at[2]]
  <2>1. i.op = "translate"
    BY <1>1 DEF Translate
  <2>2. i.tr \in Translations(g) /\ i.val = At(f, i.tr).ptr /\ at[1] \in LiveBlocks(g, i.tr)
    BY <1>1, <2>1, MakesIs
  <2> QED BY <1>1, <2>2
<1>4. DOMAIN base = Translations(g)
  BY DEF CodeInv, InPlace
<1> HIDE DEF m
<1>5. /\ DOMAIN base' = DOMAIN base /\ base'[m] = "good"
      /\ \A l \in DOMAIN base : l # m => base'[l] = base[l]
  BY <1>3, <1>4 DEF Translate, m
<1>6. /\ DOMAIN cell' = DOMAIN cell
      /\ m \in MustTrack(g) => cell'[Cells(g)[m]] = At(f, m).ptr
      /\ \A c \in DOMAIN cell : ~(m \in MustTrack(g) /\ c = Cells(g)[m]) => cell'[c] = cell[c]
  BY <1>1, <1>3 DEF Translate, m
<1>7. InPlace'
  BY <1>1, <1>2, <1>5, <1>6 DEF CodeInv, InPlace, Translate
<1>8. ASSUME NEW l \in Translations(g), Due(f, l, at')
      PROVE  base'[l] = "good" /\ (l \in MustTrack(g) => cell'[Cells(g)[l]] = At(f, l).ptr)
  <2>1. CASE l = m
    BY <1>5, <1>6, <2>1
  <2>2. CASE l # m
    <3>1. base[l] = "good" /\ (l \in MustTrack(g) => cell[Cells(g)[l]] = At(f, l).ptr)
      BY <1>2, <1>8, <2>2 DEF CodeInv, Kept
    <3>2. at[1] \in LiveBlocks(g, l)
      BY <1>1, <1>2, <1>8, NeededLive, TrIs DEF Due
    <3>3. l \in MustTrack(g) /\ m \in MustTrack(g) => Cells(g)[l] # Cells(g)[m]
      BY <1>1, <1>3, <2>2, <3>2, CellsAre DEF Interfere
    <3> QED BY <1>1, <1>4, <1>5, <1>6, <2>2, <3>1, <3>3
  <2> QED BY <2>1, <2>2
<1>9. Kept'
  BY <1>2, <1>8 DEF Kept
<1> QED BY <1>7, <1>9 DEF CodeInv

\* A release changes nothing.
LEMMA ReleaseStep == ASSUME Checked, CodeInv, Release PROVE CodeInv'
<1> DEFINE f == Source
           g == Instrument(Source)
<1>1. /\ Source' = Source /\ at' = <<at[1], at[2] + 1>> /\ at'[1] = at[1] /\ at'[2] = at[2] + 1
      /\ at'[2] \in 1 .. Len(g.code[at[1]]) + 1
      /\ \A l : Due(f, l, at') => Due(f, l, at)
  <2>1. Here.op # "translate"
    BY DEF Release
  <2> QED BY <2>1, CodeOn DEF Release
<1>2. InPlace'
  BY <1>1 DEF CodeInv, InPlace, Release
<1>3. Kept'
  BY <1>1 DEF Kept, CodeInv, Release
<1> QED BY <1>2, <1>3 DEF CodeInv

\* What is needed after a statepoint has its handle in the pin set during it.
LEMMA StatepointStep == ASSUME Checked, CodeInv, Statepoint PROVE CodeInv'
<1> DEFINE f == Source
           g == Instrument(Source)
<1>1. /\ Emits(f, ForestOf(f), AliveOf(f), g) /\ Returns(f) /\ at[1] \in DOMAIN g.code
      /\ at[2] \in DOMAIN g.code[at[1]] /\ Here = g.code[at[1]][at[2]]
      /\ \A l \in MustTrack(g) : Cells(g)[l] \in DOMAIN cell
  BY CodeAt DEF CodeInv, InPlace, Statepoint
<1>2. /\ Source' = Source /\ at' = <<at[1], at[2] + 1>> /\ at'[1] = at[1] /\ at'[2] = at[2] + 1
      /\ at'[2] \in 1 .. Len(g.code[at[1]]) + 1
      /\ \A l : Due(f, l, at') => Due(f, l, at)
  <2>1. Here.op # "translate"
    BY DEF Statepoint
  <2> QED BY <2>1, CodeOn DEF Statepoint
<1>3. /\ DOMAIN base' = DOMAIN base /\ cell' = cell
      /\ \A l \in DOMAIN base : At(f, l).ptr \in Pinned => base'[l] = base[l]
  BY DEF Statepoint
<1>4. InPlace'
  BY <1>1, <1>2, <1>3 DEF CodeInv, InPlace, Statepoint
<1>5. ASSUME NEW l \in Translations(g), Due(f, l, at')
      PROVE  base'[l] = "good" /\ (l \in MustTrack(g) => cell'[Cells(g)[l]] = At(f, l).ptr)
  <2>1. base[l] = "good" /\ (l \in MustTrack(g) => cell[Cells(g)[l]] = At(f, l).ptr)
    BY <1>2, <1>5 DEF CodeInv, Kept
  <2>2. Needed(f, ForestOf(f), AliveOf(f), g, l, at[1], at[2] + 1)
    BY <1>2, <1>5 DEF Due
  <2>3. l \in MustTrack(g)
    BY <1>1, <2>2, TrackedAt DEF Statepoint
  <2>4. At(f, l).ptr # None
    BY <1>1, TrIs
  <2>5. At(f, l).ptr \in Pinned
    BY <1>1, <2>1, <2>3, <2>4 DEF Pinned, Range
  <2>6. l \in DOMAIN base
    BY DEF CodeInv, InPlace
  <2> QED BY <1>3, <2>1, <2>5, <2>6
<1>6. Kept'
  BY <1>2, <1>5 DEF Kept
<1> QED BY <1>4, <1>6 DEF CodeInv

\* What is needed in the next block was needed before the jump.
LEMMA JumpStep == ASSUME Checked, CodeInv, Jump PROVE CodeInv'
<1> DEFINE f == Source
           g == Instrument(Source)
<1>1. /\ Emits(f, ForestOf(f), AliveOf(f), g) /\ at[1] \in DOMAIN g.code
      /\ at[2] \in 1 .. Len(g.code[at[1]]) + 1 /\ at[2] \notin DOMAIN g.code[at[1]]
      /\ Code.next = g.next
  BY CodeAt DEF CodeInv, InPlace, Jump
<1>2. PICK y \in g.next[at[1]] : at' = <<y, 1>>
  BY <1>1 DEF Jump
<1>3. Source' = Source /\ UNCHANGED <<fn, base, cell>>
  BY DEF Jump, Source
<1>4. at'[1] = y /\ at'[2] = 1 /\ at' = <<at'[1], at'[2]>>
  BY <1>2
<1>5. y \in DOMAIN g.code
  <2>1. Goes(f, ForestOf(f), AliveOf(f), at[1], y)
    BY <1>1, <1>2, CodeIs
  <2>2. \E b \in Blocks(f) : \E c \in Succs(f, b) :
          \/ ReleasedOn(f, ForestOf(f), AliveOf(f), b, c) # {} /\ y = <<b, c, "release">>
          \/ Polled(f, b, c) /\ y = <<b, c, "poll">>
          \/ y = <<c>>
    BY <2>1 DEF Goes
  <2>3. IsBlock(f, ForestOf(f), AliveOf(f), y)
    BY <1>1, <2>2, CodeIs DEF IsBlock
  <2> QED BY <1>1, <2>3, CodeIs
<1>6. Len(g.code[y]) \in Nat
  BY <1>1, <1>5, BlockLen
<1>7. InPlace'
  BY <1>3, <1>4, <1>5, <1>6 DEF CodeInv, InPlace
<1>8. ASSUME NEW l \in Translations(g), Due(f, l, at') PROVE Due(f, l, at)
  <2>1. Needed(f, ForestOf(f), AliveOf(f), g, l, y, 1)
    BY <1>4, <1>8 DEF Due
  <2> QED BY <1>1, <1>2, <2>1, NeededFrom, TrIs DEF Due
<1>9. Kept'
  BY <1>3, <1>8 DEF Kept, CodeInv
<1> QED BY <1>7, <1>9 DEF CodeInv

\* Loads, stores and external calls of a compiled function use the address the
\* object has, whatever barriers do at its statepoints: where a translation is
\* made, how long it is alive, where it is released and which cell of the pin
\* set it shares agree (TranslationForest, extractTranslations, PinTracking).
\* The functions have no switch, and from each of their blocks control may get
\* to a return: of the others the runs code_switch and code_endless have
\* counterexamples.
THEOREM FreshCorrect ==
  ASSUME \A f \in Range(Function) : f.switches = {} /\ Returns(f)
  PROVE  CodeSpec => []UsesFresh
<1>0. Checked
  BY DEF Checked
<1>1. CodeInit => CodeInv
  BY <1>0, CodeStart
<1>2. CodeInv /\ [CodeNext]_codeVars => CodeInv'
  <2> SUFFICES ASSUME CodeInv, [CodeNext]_codeVars PROVE CodeInv'
    OBVIOUS
  <2>1. CASE UNCHANGED codeVars
    BY <2>1 DEF codeVars, CodeInv, InPlace, Kept, Source
  <2> QED
    BY <1>0, <2>1, DefineStep, TranslateStep, ReleaseStep, StatepointStep, JumpStep DEF CodeNext
<1>3. CodeInv => UsesFresh
  BY <1>0, CodeFresh
<1> QED BY <1>1, <1>2, <1>3, PTL DEF CodeSpec
=============================================================================
