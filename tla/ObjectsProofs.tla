--------------------------- MODULE ObjectsProofs ----------------------------
(***************************************************************************)
(* Proofs about LocalityPage and Objects, for any number of threads,       *)
(* objects, pages and regions and any sizes: who owns what, what a         *)
(* locality page looks like whatever calls are under way on it, what       *)
(* compaction does, and that objects keep what the program has written.    *)
(***************************************************************************)
EXTENDS Objects, DataLemmas, FiniteSetTheorems

-----------------------------------------------------------------------------
(***************************************************************************)
(* A page's entries and what they take.                                    *)
(***************************************************************************)
EntryType == [who : Obj \cup {None}, raw : Nat \cup {None}, allocated : BOOLEAN,
              size : Nat \ {0}]

\* What a list of entries is, entry by entry.
LEMMA EntryFacts ==
  ASSUME NEW mds \in Seq(EntryType)
  PROVE  /\ Len(mds) \in Nat /\ DOMAIN mds = 1 .. Len(mds)
         /\ mds = [i \in 1 .. Len(mds) |-> mds[i]]
         /\ (mds = <<>> <=> Len(mds) = 0)
         /\ \A i \in 1 .. Len(mds) :
              /\ mds[i] \in EntryType
              /\ mds[i].who \in Obj \cup {None} /\ mds[i].raw \in Nat \cup {None}
              /\ mds[i].allocated \in BOOLEAN /\ mds[i].size \in Nat
              /\ mds[i].size >= 1
<1>1. Len(mds) \in Nat /\ DOMAIN mds = 1 .. Len(mds)
  BY LenProperties
<1>2. \A i \in 1 .. Len(mds) : mds[i] \in EntryType
  BY ElementOfSeq
<1>3. mds = <<>> <=> Len(mds) = 0
  BY EmptySeq
<1>4. ASSUME NEW e \in EntryType
      PROVE  /\ e.who \in Obj \cup {None} /\ e.raw \in Nat \cup {None}
             /\ e.allocated \in BOOLEAN /\ e.size \in Nat /\ e.size >= 1
  BY DEF EntryType
<1>5. mds = [i \in 1 .. Len(mds) |-> mds[i]]
  BY <1>1, LenProperties
<1> QED BY <1>1, <1>2, <1>3, <1>4, <1>5

\* What entry i adds to the sum over S.
Part(mds, S, i) == IF i \in S THEN mds[i].size ELSE 0
TakenBy(f, mds, S) ==
  /\ f \in [0 .. Len(mds) -> Nat] /\ f[0] = 0
  /\ \A i \in 1 .. Len(mds) : /\ f[i - 1] \in Nat /\ f[i] \in Nat
                              /\ f[i] = f[i - 1] + Part(mds, S, i)

\* An entry adds a number to a sum.
LEMMA PartType ==
  ASSUME NEW mds \in Seq(EntryType), NEW S, NEW i \in 1 .. Len(mds)
  PROVE  Part(mds, S, i) \in Nat
BY EntryFacts DEF Part

\* The sum that Taken is, step by step: the recursion in it has one outcome.
LEMMA TakenIs ==
  ASSUME NEW mds \in Seq(EntryType), NEW S
  PROVE  \E f : TakenBy(f, mds, S) /\ Taken(mds, S) = f[Len(mds)]
<1> DEFINE n == Len(mds)
           step == [i \in 1 .. n |-> [v \in Nat |-> v + Part(mds, S, i)]]
           V == [i \in 0 .. n |-> Nat]
           Rec(F) == [i \in 0 .. n |->
                        IF i = 0 THEN 0
                        ELSE F[i - 1] + (IF i \in S THEN mds[i].size ELSE 0)]
           Sum == CHOOSE F : F = Rec(F)
<1>1. n \in Nat
  BY EntryFacts
<1>2. \A i \in 0 .. n : V[i] = Nat
  OBVIOUS
<1>3. \A i \in 1 .. n : \A v \in Nat : step[i][v] = v + Part(mds, S, i)
  OBVIOUS
<1>4. \A i \in 1 .. n : i \in 0 .. n /\ i - 1 \in 0 .. n /\ i # 0
  BY <1>1
<1> HIDE DEF V, step, n
<1>5. \A i \in 1 .. n : \A v \in V[i - 1] : step[i][v] \in V[i]
  <2> SUFFICES ASSUME NEW i \in 1 .. n, NEW v \in V[i - 1] PROVE step[i][v] \in V[i]
    OBVIOUS
  <2>1. v \in Nat /\ V[i] = Nat
    BY <1>2, <1>4
  <2>2. Part(mds, S, i) \in Nat
    BY PartType DEF n
  <2>3. step[i][v] = v + Part(mds, S, i)
    BY <1>3, <2>1
  <2> QED BY <2>1, <2>2, <2>3
<1>6. 0 \in V[0]
  BY <1>1, <1>2
<1>7. PICK f : Leads(f, n, 0, step) /\ \A i \in 0 .. n : f[i] \in V[i]
  BY <1>1, <1>5, <1>6, Recursion, Zenon
<1>8. \A i \in 0 .. n : f[i] \in Nat
  BY <1>2, <1>7
<1>9. \A i \in 1 .. n : f[i] = f[i - 1] + Part(mds, S, i)
  BY <1>3, <1>4, <1>7, <1>8, Zenon DEF Leads
<1>15. f = [i \in 0 .. n |-> f[i]]
  BY <1>7, Zenon DEF Leads
<1>10. f = Rec(f)
  <2>1. ASSUME NEW i \in 0 .. n
        PROVE  f[i] = IF i = 0 THEN 0
                      ELSE f[i - 1] + (IF i \in S THEN mds[i].size ELSE 0)
    <3>1. CASE i = 0
      BY <1>7, <3>1 DEF Leads
    <3>2. CASE i # 0
      <4>1. i \in 1 .. n
        BY <1>1, <3>2
      <4> QED BY <1>9, <3>2, <4>1, Zenon DEF Part
    <3> QED BY <3>1, <3>2
  <2> QED BY <1>15, <2>1, Zenon
<1>11. Sum = Rec(Sum)
  BY <1>10, Zenon
<1>12. Taken(mds, S) = Sum[n]
  BY DEF Taken, n
<1> HIDE DEF Sum
<1>13. \A i \in 0 .. n : Sum[i] = f[i]
  <2>1. Sum[0] = 0
    <3>1. 0 \in 0 .. n
      BY <1>1
    <3>2. \A i \in 0 .. n : Sum[i] = IF i = 0 THEN 0
                       ELSE Sum[i - 1] + (IF i \in S THEN mds[i].size ELSE 0)
      BY <1>11, Zenon
    <3> QED BY <3>1, <3>2
  <2>2. ASSUME NEW i \in 1 .. n, Sum[i - 1] = f[i - 1] PROVE Sum[i] = step[i][f[i - 1]]
    <3>1. Sum[i] = f[i - 1] + Part(mds, S, i)
      <4>1. Sum[i] = Sum[i - 1] + (IF i \in S THEN mds[i].size ELSE 0)
        BY <1>4, <1>11, Zenon
      <4> QED BY <2>2, <4>1, Zenon DEF Part
    <3>2. step[i][f[i - 1]] = f[i - 1] + Part(mds, S, i)
      BY <1>3, <1>4, <1>8, Zenon
    <3> QED BY <2>2, <3>1, <3>2
  <2>3. Follows(Sum, f, n, 0, step)
    BY <2>1, <2>2, Zenon DEF Follows
  <2>4. Leads(f, n, 0, step)
    BY <1>7
  <2> QED BY <1>1, <2>3, <2>4, RecursionOnce
<1>14. TakenBy(f, mds, S)
  <2>1. f \in [0 .. n -> Nat]
    BY <1>8, <1>15, Zenon
  <2> QED BY <1>4, <1>7, <1>8, <1>9, <2>1 DEF TakenBy, Leads, n
<1> QED BY <1>1, <1>12, <1>13, <1>14 DEF n

\* What entries take is a number.
LEMMA TakenType ==
  ASSUME NEW mds \in Seq(EntryType), NEW S PROVE Taken(mds, S) \in Nat
<1>1. PICK f : TakenBy(f, mds, S) /\ Taken(mds, S) = f[Len(mds)]
  BY TakenIs
<1>2. Len(mds) \in 0 .. Len(mds)
  BY EntryFacts
<1>3. f \in [0 .. Len(mds) -> Nat]
  BY <1>1 DEF TakenBy
<1> QED BY <1>1, <1>2, <1>3, Zenon

\* Sums over the same entries are the same.
LEMMA TakenSame ==
  ASSUME NEW mds \in Seq(EntryType), NEW new \in Seq(EntryType), Len(new) = Len(mds),
         NEW S, NEW T,
         \A i \in 1 .. Len(mds) : Part(new, T, i) = Part(mds, S, i)
  PROVE  Taken(new, T) = Taken(mds, S)
<1> DEFINE n == Len(mds)
<1>1. n \in Nat /\ Len(new) = n
  BY EntryFacts
<1>2. PICK f : TakenBy(f, mds, S) /\ Taken(mds, S) = f[n]
  BY TakenIs
<1>3. PICK g : TakenBy(g, new, T) /\ Taken(new, T) = g[n]
  BY <1>1, TakenIs
<1> HIDE DEF n
<1> DEFINE Wrong == {i \in 0 .. n : g[i] # f[i]}
<1>4. Wrong = {}
  <2> SUFFICES ASSUME Wrong # {} PROVE FALSE
    OBVIOUS
  <2>1. PICK i \in Wrong : \A k \in Wrong : i <= k
    <3>1. Wrong \subseteq Nat
      BY <1>1
    <3> QED BY <3>1, LeastElement
  <2>2. i \in 0 .. n /\ g[i] # f[i]
    OBVIOUS
  <2>3. i # 0
    BY <1>2, <1>3, <2>2 DEF TakenBy
  <2>4. i \in 1 .. n /\ i - 1 \in 0 .. n /\ ~(i <= i - 1)
    BY <1>1, <2>2, <2>3
  <2>5. g[i - 1] = f[i - 1]
    BY <2>1, <2>4
  <2>6. f[i] = f[i - 1] + Part(mds, S, i)
    BY <1>2, <2>4, Zenon DEF TakenBy, n
  <2>7. g[i] = g[i - 1] + Part(new, T, i)
    BY <1>1, <1>3, <2>4, Zenon DEF TakenBy
  <2>8. Part(new, T, i) = Part(mds, S, i)
    BY <2>4, Zenon DEF n
  <2> QED BY <2>2, <2>5, <2>6, <2>7, <2>8, Zenon
<1>5. n \in 0 .. n
  BY <1>1
<1> QED BY <1>2, <1>3, <1>4, <1>5, Zenon

\* The sum over all but the first k entries is the rest of the sum.
LEMMA TakenSplit ==
  ASSUME NEW mds \in Seq(EntryType), NEW new \in Seq(EntryType),
         Len(new) <= Len(mds), NEW S, NEW T,
         \A i \in 1 .. Len(new) : Part(new, T, i) = Part(mds, S, i)
  PROVE  Taken(mds, S) = Taken(new, T) + Taken(mds, S \cap (Len(new) + 1 .. Len(mds)))
<1> DEFINE n == Len(mds)
           k == Len(new)
           R == S \cap (Len(new) + 1 .. Len(mds))
<1>1. n \in Nat /\ k \in Nat /\ k <= n
  BY EntryFacts
<1>2. PICK f : TakenBy(f, mds, S) /\ Taken(mds, S) = f[n]
  BY TakenIs
<1>3. PICK g : TakenBy(g, new, T) /\ Taken(new, T) = g[k]
  BY TakenIs
<1>4. PICK r : TakenBy(r, mds, R) /\ Taken(mds, R) = r[n]
  BY TakenIs
<1> DEFINE Begin(i) == IF i <= k THEN g[i] ELSE g[k]
           Wrong == {i \in 0 .. n : f[i] # Begin(i) + r[i]}
<1>5. /\ f \in [0 .. n -> Nat] /\ f[0] = 0
      /\ \A i \in 1 .. n : f[i] = f[i - 1] + Part(mds, S, i)
  BY <1>2, Zenon DEF TakenBy
<1>6. /\ g \in [0 .. k -> Nat] /\ g[0] = 0
      /\ \A i \in 1 .. k : g[i] = g[i - 1] + Part(new, T, i)
  BY <1>3, Zenon DEF TakenBy
<1>7. /\ r \in [0 .. n -> Nat] /\ r[0] = 0
      /\ \A i \in 1 .. n : r[i] = r[i - 1] + Part(mds, R, i)
  BY <1>4, Zenon DEF TakenBy
<1>8. \A i \in 1 .. n : Part(mds, S, i) \in Nat
  BY PartType
<1>9. \A i \in 1 .. n : Part(mds, R, i) = IF i <= k THEN 0 ELSE Part(mds, S, i)
  BY <1>1 DEF Part
<1>10. \A i \in 1 .. k : Part(new, T, i) = Part(mds, S, i)
  OBVIOUS
<1> HIDE DEF n, k, R
<1>11. Wrong = {}
  <2> SUFFICES ASSUME Wrong # {} PROVE FALSE
    OBVIOUS
  <2>1. PICK i \in Wrong : \A j \in Wrong : i <= j
    <3>1. Wrong \subseteq Nat
      BY <1>1
    <3> QED BY <3>1, LeastElement
  <2>2. i \in 0 .. n /\ f[i] # Begin(i) + r[i]
    OBVIOUS
  <2>3. i # 0
    BY <1>1, <1>5, <1>6, <1>7, <2>2
  <2>4. i \in 1 .. n /\ i - 1 \in 0 .. n /\ ~(i <= i - 1)
    BY <1>1, <2>2, <2>3
  <2>5. f[i - 1] = Begin(i - 1) + r[i - 1]
    BY <2>1, <2>4
  <2>6. f[i] = f[i - 1] + Part(mds, S, i) /\ r[i] = r[i - 1] + Part(mds, R, i)
    BY <1>5, <1>7, <2>4, Zenon
  <2>7. f[i - 1] \in Nat /\ r[i - 1] \in Nat /\ Part(mds, S, i) \in Nat
    BY <1>5, <1>7, <1>8, <2>4
  <2>8. CASE i <= k
    <3>1. i \in 1 .. k /\ i - 1 \in 0 .. k /\ i - 1 <= k
      BY <1>1, <2>4, <2>8
    <3>2. g[i] = g[i - 1] + Part(mds, S, i)
      BY <1>6, <1>10, <3>1, Zenon
    <3>3. g[i - 1] \in Nat
      BY <1>6, <3>1
    <3>4. r[i] = r[i - 1] + 0
      BY <1>9, <2>4, <2>6, <2>8, Zenon
    <3> QED BY <2>2, <2>5, <2>6, <2>7, <2>8, <3>1, <3>2, <3>3, <3>4
  <2>9. CASE ~(i <= k)
    <3>1. i - 1 <= k => i - 1 = k
      BY <1>1, <2>4, <2>9
    <3>2. Begin(i - 1) = g[k] /\ Begin(i) = g[k] /\ g[k] \in Nat
      <4>1. k \in 0 .. k
        BY <1>1
      <4> QED BY <1>6, <2>9, <3>1, <4>1
    <3>3. r[i] = r[i - 1] + Part(mds, S, i)
      BY <1>9, <2>4, <2>6, <2>9, Zenon
    <3> HIDE DEF Begin
    <3> QED BY <2>2, <2>5, <2>6, <2>7, <3>2, <3>3
  <2> QED BY <2>8, <2>9
<1>12. n \in 0 .. n /\ k \in 0 .. k
  BY <1>1
<1>13. f[n] = Begin(n) + r[n] /\ Begin(n) = g[k]
  <2>1. f[n] = Begin(n) + r[n]
    BY <1>11, <1>12
  <2>2. n <= k => n = k
    BY <1>1
  <2> QED BY <2>1, <2>2
<1> QED BY <1>2, <1>3, <1>4, <1>13 DEF R

\* No entries take nothing.
LEMMA TakenNone ==
  ASSUME NEW mds \in Seq(EntryType), NEW S, S \cap (1 .. Len(mds)) = {}
  PROVE  Taken(mds, S) = 0
<1> DEFINE n == Len(mds)
<1>1. n \in Nat /\ n \in 0 .. n
  BY EntryFacts
<1>2. \A i \in 1 .. n : Part(mds, S, i) = 0
  BY DEF Part
<1>3. PICK f : TakenBy(f, mds, S) /\ Taken(mds, S) = f[n]
  BY TakenIs
<1> DEFINE Wrong == {i \in 0 .. n : f[i] # 0}
<1>4. f[0] = 0 /\ \A i \in 1 .. n : f[i] = f[i - 1] + Part(mds, S, i)
  BY <1>3, Zenon DEF TakenBy
<1> HIDE DEF n
<1>5. Wrong = {}
  <2> SUFFICES ASSUME Wrong # {} PROVE FALSE
    OBVIOUS
  <2>1. PICK i \in Wrong : \A j \in Wrong : i <= j
    <3>1. Wrong \subseteq Nat
      BY <1>1
    <3> QED BY <3>1, LeastElement
  <2>2. i \in 0 .. n /\ f[i] # 0
    OBVIOUS
  <2>3. i \in 1 .. n /\ i - 1 \in 0 .. n /\ ~(i <= i - 1)
    <3>1. i # 0
      BY <1>4, <2>2
    <3> QED BY <1>1, <2>2, <3>1
  <2>4. f[i - 1] = 0
    BY <2>1, <2>3
  <2>5. f[i] = f[i - 1] + Part(mds, S, i) /\ Part(mds, S, i) = 0
    BY <1>2, <1>4, <2>3, Zenon
  <2> QED BY <2>2, <2>4, <2>5
<1> QED BY <1>1, <1>3, <1>5

\* One entry more takes its size more.
LEMMA TakenPlus ==
  ASSUME NEW mds \in Seq(EntryType), NEW S, NEW i \in 1 .. Len(mds), i \notin S
  PROVE  Taken(mds, S \cup {i}) = Taken(mds, S) + mds[i].size
<1> DEFINE n == Len(mds)
           T == S \cup {i}
<1>1. n \in Nat /\ mds[i].size \in Nat /\ i \in 1 .. n
  BY EntryFacts
<1>2. PICK f : TakenBy(f, mds, S) /\ Taken(mds, S) = f[n]
  BY TakenIs
<1>3. PICK g : TakenBy(g, mds, T) /\ Taken(mds, T) = g[n]
  BY TakenIs
<1>5. /\ f \in [0 .. n -> Nat] /\ f[0] = 0
      /\ \A j \in 1 .. n : f[j] = f[j - 1] + Part(mds, S, j)
  BY <1>2, Zenon DEF TakenBy
<1>6. /\ g \in [0 .. n -> Nat] /\ g[0] = 0
      /\ \A j \in 1 .. n : g[j] = g[j - 1] + Part(mds, T, j)
  BY <1>3, Zenon DEF TakenBy
<1>7. \A j \in 1 .. n : Part(mds, S, j) \in Nat
  BY PartType
<1>8. \A j \in 1 .. n : Part(mds, T, j) = IF j = i THEN mds[i].size ELSE Part(mds, S, j)
  BY DEF Part
<1>9. Part(mds, S, i) = 0
  BY DEF Part
<1> HIDE DEF n, T
<1> DEFINE More(j) == IF j < i THEN 0 ELSE mds[i].size
           Wrong == {j \in 0 .. n : g[j] # f[j] + More(j)}
<1>10. Wrong = {}
  <2> SUFFICES ASSUME Wrong # {} PROVE FALSE
    OBVIOUS
  <2>1. PICK j \in Wrong : \A k \in Wrong : j <= k
    <3>1. Wrong \subseteq Nat
      BY <1>1
    <3> QED BY <3>1, LeastElement
  <2>2. j \in 0 .. n /\ g[j] # f[j] + More(j)
    OBVIOUS
  <2>3. j # 0
    BY <1>1, <1>5, <1>6, <2>2
  <2>4. j \in 1 .. n /\ j - 1 \in 0 .. n /\ ~(j <= j - 1)
    BY <1>1, <2>2, <2>3
  <2>5. g[j - 1] = f[j - 1] + More(j - 1)
    BY <2>1, <2>4
  <2>6. g[j] = g[j - 1] + Part(mds, T, j) /\ f[j] = f[j - 1] + Part(mds, S, j)
    BY <1>5, <1>6, <2>4, Zenon
  <2>7. f[j - 1] \in Nat /\ Part(mds, S, j) \in Nat
    BY <1>5, <1>7, <2>4
  <2>8. CASE j = i
    <3>1. More(j - 1) = 0 /\ More(j) = mds[i].size
      BY <1>1, <2>4, <2>8
    <3>2. Part(mds, T, j) = mds[i].size /\ Part(mds, S, j) = 0
      BY <1>8, <1>9, <2>4, <2>8
    <3> HIDE DEF More
    <3> QED BY <1>1, <2>2, <2>5, <2>6, <2>7, <3>1, <3>2
  <2>9. CASE j # i
    <3>1. More(j - 1) = More(j) /\ More(j) \in Nat
      BY <1>1, <2>4, <2>9
    <3>2. Part(mds, T, j) = Part(mds, S, j)
      BY <1>8, <2>4, <2>9
    <3> HIDE DEF More
    <3> QED BY <2>2, <2>5, <2>6, <2>7, <3>1, <3>2
  <2> QED BY <2>8, <2>9
<1>11. n \in 0 .. n /\ More(n) = mds[i].size
  BY <1>1
<1> QED BY <1>2, <1>3, <1>10, <1>11 DEF T

-----------------------------------------------------------------------------
(***************************************************************************)
(* Entries end to end, and find_md.                                        *)
(***************************************************************************)
Map   == [Obj -> Nat \cup {None}]
Start(mds, at, i) == GetData(mds[i], at)

\* The entries of a page lie end to end, from the start to the bump pointer,
\* and there is room for them.
EndToEnd(mds, bump, at) ==
  /\ \A i \in 1 .. Len(mds) : Start(mds, at, i) \in Nat
  /\ \A i, j \in 1 .. Len(mds) :
       j = i + 1 => Start(mds, at, j) = Start(mds, at, i) + mds[i].size
  /\ Len(mds) # 0 => /\ Start(mds, at, 1) = 0
                     /\ Start(mds, at, Len(mds)) + mds[Len(mds)].size = bump
  /\ Len(mds) = 0 => bump = 0
  /\ bump + Len(mds) <= PageUnits

\* An entry ends before any later one begins.
LEMMA StartsGrow ==
  ASSUME NEW mds \in Seq(EntryType), NEW bump \in Nat, NEW at, EndToEnd(mds, bump, at),
         NEW i \in 1 .. Len(mds), NEW j \in 1 .. Len(mds), i < j
  PROVE  Start(mds, at, i) + mds[i].size <= Start(mds, at, j)
<1> DEFINE n == Len(mds)
           S(k) == Start(mds, at, k)
           Wrong == {k \in i + 1 .. n : ~(S(i) + mds[i].size <= S(k))}
<1>1. n \in Nat /\ i \in 1 .. n /\ j \in i + 1 .. n
  BY EntryFacts
<1>2. \A k \in 1 .. n : S(k) \in Nat
  BY DEF EndToEnd
<1>3. \A k \in 1 .. n : mds[k].size \in Nat
  BY EntryFacts
<1>4. \A k, l \in 1 .. n : l = k + 1 => S(l) = S(k) + mds[k].size
  BY DEF EndToEnd
<1> HIDE DEF S, n
<1>5. Wrong = {}
  <2> SUFFICES ASSUME Wrong # {} PROVE FALSE
    OBVIOUS
  <2>1. PICK k \in Wrong : \A l \in Wrong : k <= l
    <3>1. Wrong \subseteq Nat
      BY <1>1
    <3> QED BY <3>1, LeastElement
  <2>2. k \in i + 1 .. n /\ ~(S(i) + mds[i].size <= S(k))
    OBVIOUS
  <2>3. k \in 1 .. n /\ k - 1 \in 1 .. n /\ k = (k - 1) + 1 /\ ~(k <= k - 1)
    BY <1>1, <2>2
  <2>4. S(k) = S(k - 1) + mds[k - 1].size
    BY <1>4, <2>3, Zenon
  <2>5. S(k) \in Nat /\ S(k - 1) \in Nat /\ S(i) \in Nat /\ mds[i].size \in Nat
        /\ mds[k - 1].size \in Nat
    BY <1>1, <1>2, <1>3, <2>3
  <2>6. CASE k - 1 = i
    BY <2>2, <2>4, <2>5, <2>6
  <2>7. CASE k - 1 # i
    <3>1. k - 1 \in i + 1 .. n
      BY <1>1, <2>2, <2>3, <2>7
    <3>2. S(i) + mds[i].size <= S(k - 1)
      BY <2>1, <2>3, <3>1
    <3>3. ASSUME NEW w \in Nat, NEW x \in Nat, NEW y \in Nat, NEW z \in Nat, w + x <= y
          PROVE  w + x <= y + z
      BY <3>3
    <3>4. S(i) + mds[i].size <= S(k - 1) + mds[k - 1].size
      BY <2>5, <3>2, <3>3
    <3> QED BY <2>2, <2>4, <3>4
  <2> QED BY <2>6, <2>7
<1> QED BY <1>1, <1>5 DEF S

\* Every entry begins behind those before it and ends before the bump pointer.
LEMMA StartsInside ==
  ASSUME NEW mds \in Seq(EntryType), NEW bump \in Nat, NEW at, EndToEnd(mds, bump, at),
         NEW i \in 1 .. Len(mds)
  PROVE  /\ Start(mds, at, i) \in Nat
         /\ Start(mds, at, i) + mds[i].size <= bump
<1> DEFINE n == Len(mds)
<1>1. n \in Nat /\ i \in 1 .. n /\ n \in 1 .. n /\ n # 0
  BY EntryFacts
<1>2. Start(mds, at, n) + mds[n].size = bump
  BY <1>1 DEF EndToEnd
<1>3. \A k \in 1 .. n : Start(mds, at, k) \in Nat /\ mds[k].size \in Nat
  BY EntryFacts DEF EndToEnd
<1>4. CASE i = n
  BY <1>1, <1>2, <1>3, <1>4
<1>5. CASE i # n
  <2>1. i < n
    BY <1>1, <1>5
  <2>2. Start(mds, at, i) + mds[i].size <= Start(mds, at, n)
    BY <1>1, <2>1, StartsGrow
  <2>3. Start(mds, at, i) \in Nat /\ mds[i].size \in Nat /\ Start(mds, at, n) \in Nat /\ mds[n].size \in Nat
    BY <1>1, <1>3
  <2> QED BY <1>2, <2>2, <2>3
<1> QED BY <1>4, <1>5

\* The entries are in the order of their addresses.
LEMMA OrderOfStarts ==
  ASSUME NEW mds \in Seq(EntryType), NEW bump \in Nat, NEW at, EndToEnd(mds, bump, at),
         NEW i \in 1 .. Len(mds), NEW j \in 1 .. Len(mds)
  PROVE  i < j <=> Start(mds, at, i) < Start(mds, at, j)
<1>1. Len(mds) \in Nat /\ i \in Nat /\ j \in Nat
  BY EntryFacts
<1>2. Start(mds, at, i) \in Nat /\ Start(mds, at, j) \in Nat
  BY StartsInside
<1>3. mds[i].size \in Nat /\ mds[i].size >= 1 /\ mds[j].size \in Nat /\ mds[j].size >= 1
  BY EntryFacts
<1>4. CASE i < j
  <2>1. Start(mds, at, i) + mds[i].size <= Start(mds, at, j)
    BY <1>4, StartsGrow
  <2> QED BY <1>2, <1>3, <1>4, <2>1
<1>5. CASE j < i
  <2>1. Start(mds, at, j) + mds[j].size <= Start(mds, at, i)
    BY <1>5, StartsGrow
  <2> QED BY <1>1, <1>2, <1>3, <1>5, <2>1
<1>6. CASE i = j
  BY <1>1, <1>2, <1>6
<1> QED BY <1>1, <1>4, <1>5, <1>6

\* No more entries than units.
LEMMA UnitsSuffice ==
  ASSUME NEW mds \in Seq(EntryType), NEW bump \in Nat, NEW at, EndToEnd(mds, bump, at)
  PROVE  Len(mds) <= bump
<1> DEFINE n == Len(mds)
           S(k) == Start(mds, at, k)
           Wrong == {k \in 1 .. n : ~(k - 1 <= S(k))}
<1>1. n \in Nat
  BY EntryFacts
<1>2. \A k \in 1 .. n : S(k) \in Nat /\ mds[k].size \in Nat /\ mds[k].size >= 1
  BY EntryFacts DEF EndToEnd
<1>3. \A k, l \in 1 .. n : l = k + 1 => S(l) = S(k) + mds[k].size
  BY DEF EndToEnd
<1>4. /\ n # 0 => S(1) = 0 /\ S(n) + mds[n].size = bump
      /\ n = 0 => bump = 0
  BY DEF EndToEnd
<1> HIDE DEF S, n
<1>5. Wrong = {}
  <2> SUFFICES ASSUME Wrong # {} PROVE FALSE
    OBVIOUS
  <2>1. PICK k \in Wrong : \A l \in Wrong : k <= l
    <3>1. Wrong \subseteq Nat
      BY <1>1
    <3> QED BY <3>1, LeastElement
  <2>2. k \in 1 .. n /\ ~(k - 1 <= S(k))
    OBVIOUS
  <2>3. CASE k = 1
    BY <1>1, <1>4, <2>2, <2>3
  <2>4. CASE k # 1
    <3>1. k - 1 \in 1 .. n /\ k = (k - 1) + 1 /\ ~(k <= k - 1)
      BY <1>1, <2>2, <2>4
    <3>2. S(k) = S(k - 1) + mds[k - 1].size
      BY <1>3, <2>2, <3>1, Zenon
    <3>3. k - 1 - 1 <= S(k - 1)
      BY <2>1, <3>1
    <3>4. S(k - 1) \in Nat /\ mds[k - 1].size \in Nat /\ mds[k - 1].size >= 1
      BY <1>2, <3>1
    <3> QED BY <1>1, <2>2, <3>1, <3>2, <3>3, <3>4
  <2> QED BY <2>3, <2>4
<1>6. CASE n = 0
  BY <1>4, <1>6 DEF n
<1>7. CASE n # 0
  <2>1. n \in 1 .. n
    BY <1>1, <1>7
  <2>2. n - 1 <= S(n) /\ S(n) \in Nat /\ mds[n].size \in Nat /\ mds[n].size >= 1
    BY <1>2, <1>5, <2>1
  <2>3. S(n) + mds[n].size = bump
    BY <1>4, <1>7
  <2>4. n <= bump
    BY <1>1, <2>2, <2>3
  <2> QED BY <2>4 DEF n
<1> QED BY <1>6, <1>7

\* find_md finds the entry of every object it is asked for: the guess is in the
\* range of entries, and the walk ends at the object's.
LEMMA FindMdFinds ==
  ASSUME NEW pg, pg.mds \in Seq(EntryType), pg.bump \in Nat, NEW at,
         EndToEnd(pg.mds, pg.bump, at), NEW i \in 1 .. Len(pg.mds)
  PROVE  FindMd(pg, at, Start(pg.mds, at, i)) = i
<1> DEFINE mds == pg.mds
           n == Len(mds)
           bump == pg.bump
           S(k) == Start(mds, at, k)
           a == S(i)
           g == Guess(pg, a)
           d == bump \div n
           right == {k \in g .. n : S(k) >= a}
           left  == {k \in 1 .. g : S(k) <= a}
<1>1. n \in Nat /\ n \in 1 .. n /\ i \in 1 .. n
  BY EntryFacts
<1>2. \A k \in 1 .. n : S(k) \in Nat /\ S(k) + mds[k].size <= bump
  BY StartsInside
<1>3. \A k, l \in 1 .. n : k < l <=> S(k) < S(l)
  BY OrderOfStarts
<1>4. n <= bump
  BY UnitsSuffice
<1>5. FindMd(pg, at, a) =
        IF a > bump THEN 0
        ELSE IF S(g) < a THEN (IF right = {} THEN 0 ELSE Min(right))
        ELSE IF left = {} THEN 0 ELSE Max(left)
  BY DEF FindMd, Start
<1>6. a \in Nat /\ ~(a > bump)
  <2>1. mds[i].size \in Nat
    BY EntryFacts
  <2> HIDE DEF S
  <2> QED BY <1>1, <1>2, <2>1
<1>7. g = IF 1 + a \div d > n THEN n ELSE 1 + a \div d
  BY DEF Guess
<1> HIDE DEF mds, n, bump, S, g, a
<1>8. g \in 1 .. n
  <2>1. bump \in Nat
    BY DEF bump
  <2>2. d \in Nat /\ bump = n * d + (bump % n) /\ bump % n \in 0 .. n - 1
    <3>1. n \in Nat \ {0}
      BY <1>1
    <3> QED BY <2>1, <3>1, Digit
  <2>3. d # 0
    <3>1. ASSUME d = 0 PROVE FALSE
      <4>1. n * d = 0
        BY <1>1, <3>1
      <4>2. bump = 0 + (bump % n)
        BY <2>2, <4>1
      <4> QED BY <1>1, <1>4, <2>1, <2>2, <4>2
    <3> QED BY <3>1
  <2>4. a \div d \in Nat
    BY <1>6, <2>2, <2>3, Digit
  <2> QED BY <1>1, <1>7, <2>4
<1>9. CASE S(g) < a
  <2>1. g < i
    BY <1>1, <1>3, <1>8, <1>9 DEF a
  <2>2. i \in right
    BY <1>1, <1>6, <1>8, <2>1 DEF a
  <2>3. ASSUME NEW k \in right PROVE i <= k
    <3>1. k \in 1 .. n /\ S(k) >= a
      BY <1>1, <1>8
    <3>2. ~(k < i)
      BY <1>1, <1>2, <1>3, <1>6, <3>1 DEF a
    <3> QED BY <1>1, <3>1, <3>2
  <2>4. right \subseteq Nat
    BY <1>1, <1>8
  <2>5. Min(right) = i
    BY <2>2, <2>3, <2>4, MinIs
  <2> QED BY <1>5, <1>6, <1>9, <2>2, <2>5 DEF S, a, mds
<1>10. CASE ~(S(g) < a)
  <2>1. i <= g
    BY <1>1, <1>2, <1>3, <1>6, <1>8, <1>10 DEF a
  <2>2. i \in left
    BY <1>1, <1>6, <1>8, <2>1 DEF a
  <2>3. ASSUME NEW k \in left PROVE k <= i
    <3>1. k \in 1 .. n /\ S(k) <= a
      BY <1>1, <1>8
    <3>2. ~(i < k)
      BY <1>1, <1>2, <1>3, <1>6, <3>1 DEF a
    <3> QED BY <1>1, <3>1, <3>2
  <2>4. left \subseteq Nat
    BY <1>1, <1>8
  <2>5. Max(left) = i
    BY <2>2, <2>3, <2>4, MaxIs
  <2> QED BY <1>5, <1>6, <1>10, <2>2, <2>5 DEF S, a, mds
<1> QED BY <1>9, <1>10

-----------------------------------------------------------------------------
(***************************************************************************)
(* One turn of compact().                                                  *)
(***************************************************************************)
Hole(a, s) == [who |-> None, raw |-> a, allocated |-> FALSE, size |-> s]

\* An entry that names an object is that object's, and in a barrier these are
\* all that are allocated.
Named(mds, at) ==
  \A i \in 1 .. Len(mds) :
    mds[i].who # None => mds[i].allocated /\ at[mds[i].who] # None
Quiet(mds) == \A i \in 1 .. Len(mds) : mds[i].allocated => mds[i].who # None

Nameless(mds) == {i \in 1 .. Len(mds) : mds[i].who = None}

AccType(B) == [mds : Seq(EntryType), at : Map,
            mem : [0 .. PageUnits - 1 -> B \cup {None}], moved : Nat]

\* No object has two entries: they would be at one address.
LEMMA OneEntryEach ==
  ASSUME NEW mds \in Seq(EntryType), NEW bump \in Nat, NEW at, EndToEnd(mds, bump, at),
         NEW i \in 1 .. Len(mds), NEW j \in 1 .. Len(mds),
         mds[i].who # None, mds[i].who = mds[j].who
  PROVE  i = j
<1>1. Start(mds, at, i) = Start(mds, at, j)
  BY DEF Start, GetData
<1>2. Start(mds, at, i) \in Nat /\ Start(mds, at, j) \in Nat
  BY StartsInside
<1>3. ~(i < j) /\ ~(j < i)
  BY <1>1, <1>2, OrderOfStarts
<1>4. i \in Nat /\ j \in Nat
  BY EntryFacts
<1> QED BY <1>3, <1>4

\* Entries of the same sizes at the same addresses lie end to end too.
LEMMA EndToEndSame ==
  ASSUME NEW mds \in Seq(EntryType), NEW bump \in Nat, NEW at, EndToEnd(mds, bump, at),
         NEW new, Len(new) = Len(mds), NEW at2,
         \A i \in 1 .. Len(mds) : /\ new[i].size = mds[i].size
                                  /\ Start(new, at2, i) = Start(mds, at, i)
  PROVE  EndToEnd(new, bump, at2)
<1> DEFINE n == Len(mds)
<1>1. n \in Nat
  BY EntryFacts
<1>2. \A i \in 1 .. n : Start(new, at2, i) \in Nat
  BY DEF EndToEnd
<1>3. \A i, j \in 1 .. n : j = i + 1 => Start(new, at2, j) = Start(new, at2, i) + new[i].size
  BY Zenon DEF EndToEnd
<1>4. n # 0 => /\ Start(new, at2, 1) = 0
               /\ Start(new, at2, n) + new[n].size = bump
  <2>1. n # 0 => 1 \in 1 .. n /\ n \in 1 .. n
    BY <1>1
  <2> QED BY <2>1, Zenon DEF EndToEnd
<1> QED BY <1>2, <1>3, <1>4 DEF EndToEnd

\* What one turn of compact() does that moves an object.
Swapped(new, acc, i) ==
  LET h   == acc.mds[i + 1].who
      dst == Start(acc.mds, acc.at, i)
  IN  /\ Len(new.mds) = Len(acc.mds)
      /\ \A k \in 1 .. Len(acc.mds) :
           new.mds[k] = IF k = i THEN acc.mds[i + 1]
                        ELSE IF k = i + 1
                             THEN Hole(dst + acc.mds[i + 1].size, acc.mds[i].size)
                        ELSE acc.mds[k]
      /\ \A o \in Obj : new.at[o] = IF o = h THEN dst ELSE acc.at[o]
      /\ new.mem = MemMove(acc.mem, dst, Start(acc.mds, acc.at, i + 1), acc.mds[i + 1].size)
      /\ new.moved = acc.moved + 1

\* A unit that a move copies comes from inside the page.
LEMMA Shifted ==
  ASSUME NEW u \in Nat, NEW d \in Nat, NEW s \in Nat, NEW n \in Nat, NEW max \in Nat,
         u >= d, u <= d + n - 1, s + n <= max
  PROVE  u - d + s \in 0 .. max - 1
BY SMT

\* What a turn of compact() that moves an object comes to, entry by entry.
LEMMA TurnIs ==
  ASSUME NEW B, NEW acc \in AccType(B), NEW bump \in Nat, EndToEnd(acc.mds, bump, acc.at),
         Named(acc.mds, acc.at), Quiet(acc.mds), NEW pins, NEW i \in 1 .. Len(acc.mds),
         i + 1 \in 1 .. Len(acc.mds), CanSwap(acc.mds[i], acc.mds[i + 1], pins)
  PROVE  /\ Turn(acc, i, pins) \in AccType(B)
         /\ Swapped(Turn(acc, i, pins), acc, i)
         /\ acc.mds[i].who = None /\ acc.mds[i + 1].who \in Obj \ pins
<1> DEFINE n == Len(acc.mds)
           l == acc.mds[i]
           r == acc.mds[i + 1]
           h == r.who
           dst == GetData(l, acc.at)
           src == GetData(r, acc.at)
           hole == [who |-> None, raw |-> dst + r.size, allocated |-> FALSE, size |-> l.size]
           mds2 == [acc.mds EXCEPT ![i] = r, ![i + 1] = hole]
           at2  == [acc.at EXCEPT ![h] = dst]
           mem2 == MemMove(acc.mem, dst, src, r.size)
           new == [mds |-> mds2, at |-> at2, mem |-> mem2, moved |-> acc.moved + 1]
<1>1. /\ acc.mds \in Seq(EntryType) /\ acc.at \in Map /\ acc.moved \in Nat
      /\ acc.mem \in [0 .. PageUnits - 1 -> B \cup {None}]
  BY DEF AccType
<1>2. Turn(acc, i, pins) = new
  BY DEF Turn, HoleSize
<1>3. n \in Nat /\ i \in 1 .. n /\ i + 1 \in 1 .. n /\ i \in Nat
  BY <1>1, EntryFacts
<1>4. l \in EntryType /\ r \in EntryType /\ l.size \in Nat /\ r.size \in Nat
      /\ l.size >= 1 /\ r.size >= 1 /\ l.who \in Obj \cup {None} /\ r.who \in Obj \cup {None}
  BY <1>1, <1>3, EntryFacts
<1>5. ~l.allocated /\ r.allocated /\ h \notin pins
  BY DEF CanSwap
<1>6. l.who = None /\ h # None /\ h \in Obj
  BY <1>3, <1>4, <1>5 DEF Named, Quiet
<1>7. dst = Start(acc.mds, acc.at, i) /\ src = Start(acc.mds, acc.at, i + 1)
  BY DEF Start
<1>8. dst \in Nat /\ src \in Nat /\ src = dst + l.size /\ src + r.size <= bump
  <2>1. src = dst + l.size
    BY <1>3, <1>7 DEF EndToEnd
  <2> QED BY <1>1, <1>3, <1>7, <2>1, StartsInside
<1>9. bump + n <= PageUnits /\ PageUnits \in Nat
  BY PageUnitsAssumption DEF EndToEnd
<1> HIDE DEF l, r, dst, src, n
<1>10. hole \in EntryType
  BY <1>4, <1>8 DEF EntryType
<1> HIDE DEF hole
<1>11. mds2 \in Seq(EntryType) /\ Len(mds2) = n
       /\ \A k \in 1 .. n : mds2[k] = IF k = i THEN r ELSE IF k = i + 1 THEN hole ELSE acc.mds[k]
  <2> DEFINE one == [acc.mds EXCEPT ![i] = r]
  <2>1. /\ one \in Seq(EntryType) /\ Len(one) = n
        /\ \A k \in 1 .. n : one[k] = IF k = i THEN r ELSE acc.mds[k]
    BY <1>1, <1>3, <1>4, ExceptSeq DEF n
  <2>2. mds2 = [one EXCEPT ![i + 1] = hole]
    OBVIOUS
  <2> HIDE DEF one
  <2>3. /\ mds2 \in Seq(EntryType) /\ Len(mds2) = n
        /\ \A k \in 1 .. n : mds2[k] = IF k = i + 1 THEN hole ELSE one[k]
    <3> HIDE DEF mds2
    <3> QED BY <1>3, <1>10, <2>1, <2>2, ExceptSeq
  <2>4. i # i + 1
    BY <1>3
  <2> HIDE DEF mds2
  <2> QED BY <2>1, <2>3, <2>4
<1>12. at2 \in Map /\ \A o \in Obj : at2[o] = IF o = h THEN dst ELSE acc.at[o]
  BY <1>1, <1>6, <1>8 DEF Map
<1>13. mem2 \in [0 .. PageUnits - 1 -> B \cup {None}]
  <2>1. mem2 = [u \in 0 .. PageUnits - 1 |->
                  IF u \in dst .. dst + r.size - 1 THEN acc.mem[u - dst + src]
                  ELSE IF u \in src .. src + r.size - 1 THEN None ELSE acc.mem[u]]
    BY <1>1 DEF MemMove
  <2>2. ASSUME NEW u \in 0 .. PageUnits - 1, u \in dst .. dst + r.size - 1
        PROVE  u - dst + src \in 0 .. PageUnits - 1
    <3>1. u \in Nat /\ u >= dst /\ u <= dst + r.size - 1
      BY <1>4, <1>8, <1>9, <2>2
    <3>2. src + r.size <= PageUnits
      BY <1>3, <1>4, <1>8, <1>9
    <3>3. r.size \in Nat /\ dst \in Nat /\ src \in Nat /\ PageUnits \in Nat
      BY <1>4, <1>8, <1>9
    <3> QED BY <3>1, <3>2, <3>3, Shifted, Zenon
  <2>3. ASSUME NEW u \in 0 .. PageUnits - 1
        PROVE  (IF u \in dst .. dst + r.size - 1 THEN acc.mem[u - dst + src]
                ELSE IF u \in src .. src + r.size - 1 THEN None ELSE acc.mem[u])
                \in B \cup {None}
    BY <1>1, <2>2
  <2> QED BY <2>1, <2>3
<1> HIDE DEF mds2, at2, mem2, h
<1>14. new \in AccType(B)
  BY <1>1, <1>11, <1>12, <1>13 DEF AccType
<1>15. hole = Hole(Start(acc.mds, acc.at, i) + r.size, l.size)
  BY <1>7 DEF hole, Hole
<1>16. Swapped(new, acc, i)
  BY <1>7, <1>11, <1>12, <1>15 DEF Swapped, l, r, h, n, mem2
<1> QED BY <1>2, <1>5, <1>6, <1>14, <1>16 DEF l, r, h

\* None is no value of another kind.
LEMMA NoneApart ==
  /\ None \notin Nat /\ None \notin Obj /\ None \notin Thread /\ None \notin LPage
  /\ None \notin Region /\ None \notin Place /\ None \notin Header /\ None \notin Job
  /\ None # "handle" /\ None # "new" /\ None # "never"
BY ApartAssumption

\* Where the entries are after a turn that moves an object.
LEMMA SwappedStarts ==
  ASSUME NEW B, NEW acc \in AccType(B), NEW bump \in Nat, EndToEnd(acc.mds, bump, acc.at),
         NEW new \in AccType(B), NEW i \in 1 .. Len(acc.mds), i + 1 \in 1 .. Len(acc.mds),
         Swapped(new, acc, i), acc.mds[i].who = None, acc.mds[i + 1].who \in Obj
  PROVE  /\ \A k \in 1 .. Len(acc.mds) : k # i + 1 =>
              Start(new.mds, new.at, k) = Start(acc.mds, acc.at, k)
         /\ Start(new.mds, new.at, i + 1) =
              Start(acc.mds, acc.at, i) + acc.mds[i + 1].size
         /\ Start(acc.mds, acc.at, i + 1) = Start(acc.mds, acc.at, i) + acc.mds[i].size
<1> DEFINE n == Len(acc.mds)
           h == acc.mds[i + 1].who
           dst == Start(acc.mds, acc.at, i)
<1>1. acc.mds \in Seq(EntryType) /\ new.mds \in Seq(EntryType)
  BY DEF AccType
<1>2. n \in Nat /\ i \in 1 .. n /\ i + 1 \in 1 .. n /\ i # i + 1
  BY <1>1, EntryFacts
<1>3. h \in Obj /\ h # None
  BY NoneApart
<1>4. \A k \in 1 .. n :
           new.mds[k] = IF k = i THEN acc.mds[i + 1]
                        ELSE IF k = i + 1 THEN Hole(dst + acc.mds[i + 1].size, acc.mds[i].size)
                        ELSE acc.mds[k]
  BY Zenon DEF Swapped
<1>5. \A o \in Obj : new.at[o] = IF o = h THEN dst ELSE acc.at[o]
  BY Zenon DEF Swapped
<1>6. new.mds[i + 1] = Hole(dst + acc.mds[i + 1].size, acc.mds[i].size)
  BY <1>2, <1>4
<1>7. Start(new.mds, new.at, i + 1) = dst + acc.mds[i + 1].size
  <2>1. new.mds[i + 1].who = None /\ new.mds[i + 1].raw = dst + acc.mds[i + 1].size
    BY <1>6 DEF Hole
  <2> QED BY <2>1, Zenon DEF Start, GetData
<1>8. Start(new.mds, new.at, i) = dst
  <2>1. new.mds[i] = acc.mds[i + 1]
    BY <1>2, <1>4
  <2> QED BY <1>3, <1>5, <2>1, Zenon DEF Start, GetData
<1>9. ASSUME NEW k \in 1 .. n, k # i + 1
      PROVE  Start(new.mds, new.at, k) = Start(acc.mds, acc.at, k)
  <2>1. CASE k = i
    BY <1>8, <2>1
  <2>2. CASE k # i
    <3>1. new.mds[k] = acc.mds[k]
      BY <1>4, <1>9, <2>2, Zenon
    <3>2. CASE acc.mds[k].who = None
      BY <3>1, <3>2, Zenon DEF Start, GetData
    <3>3. CASE acc.mds[k].who # None
      <4>1. acc.mds[k].who \in Obj
        BY <1>1, <3>3, EntryFacts
      <4>2. acc.mds[k].who # h
        BY <1>1, <1>2, <1>9, <3>3, OneEntryEach
      <4>3. new.at[acc.mds[k].who] = acc.at[acc.mds[k].who]
        BY <1>5, <4>1, <4>2, Zenon
      <4> QED BY <3>1, <4>3, Zenon DEF Start, GetData
    <3> QED BY <3>2, <3>3
  <2> QED BY <2>1, <2>2
<1>10. Start(acc.mds, acc.at, i + 1) = Start(acc.mds, acc.at, i) + acc.mds[i].size
  BY <1>2 DEF EndToEnd
<1> QED BY <1>7, <1>9, <1>10

\* After such a turn the entries still lie end to end.
LEMMA SwappedEndToEnd ==
  ASSUME NEW B, NEW acc \in AccType(B), NEW bump \in Nat, EndToEnd(acc.mds, bump, acc.at),
         NEW new \in AccType(B), NEW i \in 1 .. Len(acc.mds), i + 1 \in 1 .. Len(acc.mds),
         Swapped(new, acc, i), acc.mds[i].who = None, acc.mds[i + 1].who \in Obj
  PROVE  EndToEnd(new.mds, bump, new.at)
<1> DEFINE n == Len(acc.mds)
           S(k) == Start(acc.mds, acc.at, k)
           N(k) == Start(new.mds, new.at, k)
           z(k) == acc.mds[k].size
<1>1. acc.mds \in Seq(EntryType)
  BY DEF AccType
<1>2. n \in Nat /\ i \in 1 .. n /\ i + 1 \in 1 .. n /\ i # i + 1 /\ Len(new.mds) = n
  BY <1>1, EntryFacts DEF Swapped
<1>3. \A k \in 1 .. n : S(k) \in Nat /\ z(k) \in Nat
  BY <1>1, EntryFacts, StartsInside
<1>4. /\ \A k \in 1 .. n : k # i + 1 => N(k) = S(k)
      /\ N(i + 1) = S(i) + z(i + 1) /\ S(i + 1) = S(i) + z(i)
  BY SwappedStarts
<1>5. \A k \in 1 .. n : new.mds[k].size = IF k = i THEN z(i + 1) ELSE IF k = i + 1 THEN z(i) ELSE z(k)
  <2>1. \A k \in 1 .. n :
           new.mds[k] = IF k = i THEN acc.mds[i + 1]
                        ELSE IF k = i + 1 THEN Hole(S(i) + acc.mds[i + 1].size, acc.mds[i].size)
                        ELSE acc.mds[k]
    BY Zenon DEF Swapped
  <2> QED BY <2>1 DEF Hole
<1>6. /\ \A k, l \in 1 .. n : l = k + 1 => S(l) = S(k) + z(k)
      /\ n # 0 => S(1) = 0 /\ S(n) + z(n) = bump
      /\ bump + n <= PageUnits
  BY DEF EndToEnd
<1> HIDE DEF S, N, z, n
<1>7. \A k \in 1 .. n : N(k) \in Nat
  <2> SUFFICES ASSUME NEW k \in 1 .. n PROVE N(k) \in Nat
    OBVIOUS
  <2>1. N(k) = S(k) \/ N(k) = S(i) + z(i + 1)
    BY <1>4
  <2>2. S(k) \in Nat /\ S(i) \in Nat /\ z(i + 1) \in Nat
    BY <1>2, <1>3
  <2> QED BY <2>1, <2>2
<1>8. ASSUME NEW k \in 1 .. n, NEW l \in 1 .. n, l = k + 1
      PROVE  N(l) = N(k) + new.mds[k].size
  <2>0. k \in Nat /\ i \in Nat
    BY <1>2
  <2>1. CASE k = i
    <3>1. N(l) = S(i) + z(i + 1) /\ N(k) = S(i) /\ new.mds[k].size = z(i + 1)
      BY <1>2, <1>4, <1>5, <1>8, <2>1
    <3> QED BY <3>1
  <2>2. CASE k = i + 1
    <3>1. l # i + 1 /\ N(l) = S(l) /\ N(k) = S(i) + z(i + 1) /\ new.mds[k].size = z(i)
      BY <1>2, <1>4, <1>5, <1>8, <2>0, <2>2
    <3>2. S(l) = S(i + 1) + z(i + 1)
      BY <1>2, <1>6, <1>8, <2>2
    <3>3. S(i) \in Nat /\ z(i) \in Nat /\ z(i + 1) \in Nat
      BY <1>2, <1>3
    <3> QED BY <1>4, <3>1, <3>2, <3>3
  <2>3. CASE k # i /\ k # i + 1
    <3>1. l # i + 1
      BY <1>2, <1>8, <2>0, <2>3
    <3>2. N(l) = S(l) /\ N(k) = S(k) /\ new.mds[k].size = z(k)
      BY <1>4, <1>5, <2>3, <3>1
    <3> QED BY <1>6, <1>8, <3>2
  <2> QED BY <2>1, <2>2, <2>3
<1>9. n # 0 => N(1) = 0 /\ N(n) + new.mds[n].size = bump
  <2> SUFFICES ASSUME n # 0 PROVE N(1) = 0 /\ N(n) + new.mds[n].size = bump
    OBVIOUS
  <2>1. 1 \in 1 .. n /\ n \in 1 .. n /\ 1 # i + 1 /\ n # i
    BY <1>2
  <2>2. N(1) = 0
    BY <1>4, <1>6, <2>1
  <2>3. CASE n = i + 1
    <3>1. N(n) = S(i) + z(i + 1) /\ new.mds[n].size = z(i)
      BY <1>2, <1>4, <1>5, <2>1, <2>3
    <3>2. S(i + 1) + z(i + 1) = bump
      BY <1>6, <2>3
    <3>3. S(i) \in Nat /\ z(i) \in Nat /\ z(i + 1) \in Nat
      BY <1>2, <1>3
    <3> QED BY <1>4, <2>2, <3>1, <3>2, <3>3
  <2>4. CASE n # i + 1
    BY <1>4, <1>5, <1>6, <2>1, <2>2, <2>4
  <2> QED BY <2>3, <2>4
<1>10. n = 0 => bump = 0
  BY <1>2
<1> QED BY <1>2, <1>6, <1>7, <1>8, <1>9, <1>10, Zenon DEF EndToEnd, N

\* And those that name an object are still that object's.
LEMMA SwappedNamed ==
  ASSUME NEW B, NEW acc \in AccType(B), NEW bump \in Nat, EndToEnd(acc.mds, bump, acc.at),
         NEW new \in AccType(B), NEW i \in 1 .. Len(acc.mds), i + 1 \in 1 .. Len(acc.mds),
         Swapped(new, acc, i), acc.mds[i].who = None, acc.mds[i + 1].who \in Obj,
         Named(acc.mds, acc.at), Quiet(acc.mds)
  PROVE  Named(new.mds, new.at) /\ Quiet(new.mds)
<1> DEFINE n == Len(acc.mds)
           h == acc.mds[i + 1].who
           dst == Start(acc.mds, acc.at, i)
<1>1. acc.mds \in Seq(EntryType)
  BY DEF AccType
<1>2. n \in Nat /\ i \in 1 .. n /\ i + 1 \in 1 .. n /\ i # i + 1 /\ Len(new.mds) = n
  BY <1>1, EntryFacts DEF Swapped
<1>3. dst \in Nat /\ h # None /\ dst # None
  BY <1>1, StartsInside, NoneApart
<1>4. \A k \in 1 .. n :
           new.mds[k] = IF k = i THEN acc.mds[i + 1]
                        ELSE IF k = i + 1 THEN Hole(dst + acc.mds[i + 1].size, acc.mds[i].size)
                        ELSE acc.mds[k]
  BY Zenon DEF Swapped
<1>5. \A o \in Obj : new.at[o] = IF o = h THEN dst ELSE acc.at[o]
  BY Zenon DEF Swapped
<1>6. \A k \in 1 .. n :
        /\ acc.mds[k].who # None => acc.mds[k].allocated /\ acc.at[acc.mds[k].who] # None
        /\ acc.mds[k].allocated => acc.mds[k].who # None
        /\ acc.mds[k].who \in Obj \cup {None}
  BY <1>1, EntryFacts DEF Named, Quiet
<1> HIDE DEF h, dst, n
<1>7. ASSUME NEW k \in 1 .. n
      PROVE  /\ new.mds[k].who # None => new.mds[k].allocated /\ new.at[new.mds[k].who] # None
             /\ new.mds[k].allocated => new.mds[k].who # None
  <2>1. CASE k = i + 1
    <3>1. new.mds[k] = Hole(dst + acc.mds[i + 1].size, acc.mds[i].size)
      BY <1>2, <1>4, <2>1
    <3> QED BY <3>1 DEF Hole
  <2>2. CASE k # i + 1
    <3>1. \E j \in 1 .. n : new.mds[k] = acc.mds[j]
      BY <1>2, <1>4, <2>2
    <3> QED BY <1>3, <1>5, <1>6, <3>1, Zenon
  <2> QED BY <2>1, <2>2
<1> QED BY <1>2, <1>7 DEF Named, Quiet

\* And the holes take as much as before.
LEMMA SwappedTaken ==
  ASSUME NEW B, NEW acc \in AccType(B), NEW bump \in Nat, EndToEnd(acc.mds, bump, acc.at),
         NEW new \in AccType(B), NEW i \in 1 .. Len(acc.mds), i + 1 \in 1 .. Len(acc.mds),
         Swapped(new, acc, i), acc.mds[i].who = None, acc.mds[i + 1].who \in Obj
  PROVE  Taken(new.mds, Nameless(new.mds)) = Taken(acc.mds, Nameless(acc.mds))
<1> DEFINE n == Len(acc.mds)
           Before == Nameless(acc.mds) \ {i}
           Behind == Nameless(new.mds) \ {i + 1}
<1>1. acc.mds \in Seq(EntryType) /\ new.mds \in Seq(EntryType)
  BY DEF AccType
<1>2. n \in Nat /\ i \in 1 .. n /\ i + 1 \in 1 .. n /\ i # i + 1 /\ Len(new.mds) = n
  BY <1>1, EntryFacts DEF Swapped
<1>3. \A k \in 1 .. n :
           new.mds[k] = IF k = i THEN acc.mds[i + 1]
                        ELSE IF k = i + 1 THEN Hole(Start(acc.mds, acc.at, i) + acc.mds[i + 1].size, acc.mds[i].size)
                        ELSE acc.mds[k]
  BY Zenon DEF Swapped
<1>4. acc.mds[i + 1].who # None
  BY NoneApart
<1>5. new.mds[i] = acc.mds[i + 1] /\ new.mds[i + 1].who = None
      /\ new.mds[i + 1].size = acc.mds[i].size
      /\ \A k \in 1 .. n : k # i /\ k # i + 1 => new.mds[k] = acc.mds[k]
  BY <1>2, <1>3 DEF Hole
<1>6. \A k \in 1 .. n : Part(new.mds, Behind, k) = Part(acc.mds, Before, k)
  <2> SUFFICES ASSUME NEW k \in 1 .. n PROVE Part(new.mds, Behind, k) = Part(acc.mds, Before, k)
    OBVIOUS
  <2>1. k = i => k \notin Before /\ k \notin Behind
    BY <1>2, <1>4, <1>5 DEF Nameless
  <2>2. k = i + 1 => k \notin Before /\ k \notin Behind
    BY <1>4 DEF Nameless
  <2>3. k # i /\ k # i + 1 => (k \in Before <=> k \in Behind) /\ new.mds[k] = acc.mds[k]
    BY <1>2, <1>5 DEF Nameless
  <2> HIDE DEF Before, Behind
  <2> QED BY <2>1, <2>2, <2>3 DEF Part
<1>7. Taken(new.mds, Behind) = Taken(acc.mds, Before)
  <2> HIDE DEF Before, Behind
  <2> QED BY <1>1, <1>2, <1>6, TakenSame
<1>8. Nameless(acc.mds) = Before \cup {i} /\ i \notin Before
  BY <1>2 DEF Nameless
<1>9. Nameless(new.mds) = Behind \cup {i + 1} /\ i + 1 \notin Behind
  BY <1>2, <1>5 DEF Nameless
<1> HIDE DEF Before, Behind
<1>10. Taken(acc.mds, Before \cup {i}) = Taken(acc.mds, Before) + acc.mds[i].size
  BY <1>1, <1>2, <1>8, TakenPlus
<1>11. Taken(new.mds, Behind \cup {i + 1}) = Taken(new.mds, Behind) + new.mds[i + 1].size
  BY <1>1, <1>2, <1>9, TakenPlus
<1> QED BY <1>5, <1>7, <1>8, <1>9, <1>10, <1>11

-----------------------------------------------------------------------------
(***************************************************************************)
(* What a pass of compact() carries along.                                 *)
(***************************************************************************)
\* Entry k of one state of a page and entry l of an earlier one are the same
\* object's, with the same bytes.
SameObject(acc, k, old, l) ==
  /\ acc.mds[k].who = old.mds[l].who /\ acc.mds[k].size = old.mds[l].size
  /\ \A u \in 0 .. old.mds[l].size - 1 :
       acc.mem[Start(acc.mds, acc.at, k) + u] = old.mem[Start(old.mds, old.at, l) + u]
Carried(acc, old) ==
  \A l \in 1 .. Len(old.mds) : old.mds[l].who # None =>
    \E k \in 1 .. Len(acc.mds) : SameObject(acc, k, old, l)

\* What lies before or behind a stretch of units is not in it.
LEMMA Outside ==
  ASSUME NEW u \in Nat, NEW d \in Nat, NEW n \in Nat, u < d \/ d + n <= u
  PROVE  u \notin d .. d + n - 1
BY SMT

\* A turn moves one object with all its bytes and leaves the others where they
\* are: memmove writes where only that object and the hole before it were.
LEMMA SwappedCarries ==
  ASSUME NEW B, NEW acc \in AccType(B), NEW bump \in Nat, EndToEnd(acc.mds, bump, acc.at),
         NEW new \in AccType(B), NEW i \in 1 .. Len(acc.mds), i + 1 \in 1 .. Len(acc.mds),
         Swapped(new, acc, i), acc.mds[i].who = None, acc.mds[i + 1].who \in Obj
  PROVE  Carried(new, acc)
<1> DEFINE n == Len(acc.mds)
           S(k) == Start(acc.mds, acc.at, k)
           z(k) == acc.mds[k].size
           dst == S(i)
           src == S(i + 1)
           m == z(i + 1)
<1>1. acc.mds \in Seq(EntryType) /\ acc.mem \in [0 .. PageUnits - 1 -> B \cup {None}]
  BY DEF AccType
<1>2. n \in Nat /\ i \in 1 .. n /\ i + 1 \in 1 .. n /\ i \in Nat /\ Len(new.mds) = n
  BY <1>1, EntryFacts DEF Swapped
<1>3. \A k \in 1 .. n : S(k) \in Nat /\ z(k) \in Nat /\ S(k) + z(k) <= bump
  BY <1>1, EntryFacts, StartsInside
<1>4. bump <= PageUnits /\ PageUnits \in Nat
  BY <1>2, PageUnitsAssumption DEF EndToEnd
<1>5. /\ \A k \in 1 .. n : k # i + 1 => Start(new.mds, new.at, k) = S(k)
      /\ src = dst + z(i)
  BY SwappedStarts
<1>6. \A k \in 1 .. n :
           new.mds[k] = IF k = i THEN acc.mds[i + 1]
                        ELSE IF k = i + 1 THEN Hole(dst + acc.mds[i + 1].size, acc.mds[i].size)
                        ELSE acc.mds[k]
  BY Zenon DEF Swapped
<1>7. \A k, l \in 1 .. n : k < l => S(k) + z(k) <= S(l)
  BY <1>1, StartsGrow
<1>8. new.mem = [u \in 0 .. PageUnits - 1 |->
                  IF u \in dst .. dst + m - 1 THEN acc.mem[u - dst + src]
                  ELSE IF u \in src .. src + m - 1 THEN None ELSE acc.mem[u]]
  <2>1. DOMAIN acc.mem = 0 .. PageUnits - 1
    BY <1>1
  <2>2. new.mem = MemMove(acc.mem, dst, src, m)
    BY DEF Swapped
  <2> QED BY <2>1, <2>2 DEF MemMove
<1>9. \A u \in 0 .. PageUnits - 1 :
        new.mem[u] = IF u \in dst .. dst + m - 1 THEN acc.mem[u - dst + src]
                     ELSE IF u \in src .. src + m - 1 THEN None ELSE acc.mem[u]
  BY <1>8
<1>10. dst \in Nat /\ src \in Nat /\ m \in Nat /\ z(i) \in Nat
  BY <1>2, <1>3
<1>11. SUFFICES ASSUME NEW l \in 1 .. n, acc.mds[l].who # None
                PROVE  \E k \in 1 .. n : SameObject(new, k, acc, l)
  BY <1>2 DEF Carried
<1>12. l # i
  BY <1>11
<1>13. S(l) \in Nat /\ z(l) \in Nat /\ S(l) + z(l) <= bump
  BY <1>3
<1> HIDE DEF S, z, dst, src, m, n
<1>14. CASE l = i + 1
  <2>1. new.mds[i] = acc.mds[l]
    BY <1>2, <1>6, <1>14, Zenon
  <2>2. Start(new.mds, new.at, i) = dst
    BY <1>2, <1>5 DEF dst
  <2>3. S(l) = src /\ z(l) = m
    BY <1>14 DEF src, m
  <2>4. ASSUME NEW u \in 0 .. z(l) - 1 PROVE new.mem[dst + u] = acc.mem[src + u]
    <3>1. u \in Nat /\ u <= m - 1
      BY <1>10, <2>3
    <3>2. dst + u \in 0 .. PageUnits - 1 /\ dst + u \in dst .. dst + m - 1 /\ (dst + u) - dst + src = src + u
      <4>1. dst \in Nat /\ src \in Nat /\ m \in Nat /\ u \in Nat /\ PageUnits \in Nat
        BY <1>4, <1>10, <3>1
      <4>2. dst <= src
        BY <1>5, <1>10
      <4>3. src + m <= PageUnits
        BY <1>4, <1>13, <2>3
      <4>4. dst + u <= dst + m - 1 /\ dst + u < PageUnits
        BY <3>1, <4>1, <4>2, <4>3
      <4> HIDE DEF dst, src, m
      <4> QED BY <4>1, <4>4
    <3>3. new.mem[dst + u] = acc.mem[(dst + u) - dst + src]
      BY <1>9, <3>2
    <3> QED BY <3>2, <3>3
  <2>5. SameObject(new, i, acc, l)
    BY <2>1, <2>2, <2>3, <2>4 DEF SameObject, S, z
  <2> QED BY <1>2, <2>5
<1>15. CASE l # i + 1
  <2>1. new.mds[l] = acc.mds[l]
    BY <1>6, <1>12, <1>15, Zenon
  <2>2. Start(new.mds, new.at, l) = S(l)
    BY <1>5, <1>15
  <2>3. S(l) + z(l) <= dst \/ src + m <= S(l)
    <3>1. CASE l < i
      BY <1>2, <1>7, <3>1 DEF dst
    <3>2. CASE ~(l < i)
      <4>1. i + 1 < l
        BY <1>2, <1>12, <1>15, <3>2
      <4> QED BY <1>2, <1>7, <4>1 DEF src, m
    <3> QED BY <3>1, <3>2
  <2>4. ASSUME NEW u \in 0 .. z(l) - 1 PROVE new.mem[S(l) + u] = acc.mem[S(l) + u]
    <3>1. u \in Nat /\ u <= z(l) - 1
      BY <1>13
    <3>2. S(l) + u \in 0 .. PageUnits - 1
      BY <1>4, <1>13, <3>1
    <3>4. dst \in Nat /\ src \in Nat /\ m \in Nat /\ S(l) + u \in Nat
      BY <1>10, <1>13, <3>1
    <3>5. dst <= src
      BY <1>5, <1>10
    <3>3. S(l) + u \notin dst .. dst + m - 1 /\ S(l) + u \notin src .. src + m - 1
      <4>1. CASE S(l) + z(l) <= dst
        <5>1. S(l) + u < dst /\ S(l) + u < src
          BY <1>5, <1>10, <1>13, <3>1, <4>1
        <5> QED BY <3>4, <5>1, Outside, Zenon
      <4>2. CASE src + m <= S(l)
        <5>1. src + m <= S(l) + u /\ dst + m <= S(l) + u
          <6>1. S(l) \in Nat /\ S(l) <= S(l) + u
            BY <1>13, <3>1
          <6>2. src + m <= S(l) + u
            BY <3>4, <4>2, <6>1
          <6> QED BY <3>4, <3>5, <6>2
        <5> QED BY <3>4, <5>1, Outside
      <4> QED BY <2>3, <4>1, <4>2
    <3> QED BY <1>9, <3>2, <3>3
  <2>5. SameObject(new, l, acc, l)
    BY <2>1, <2>2, <2>4 DEF SameObject, S, z
  <2> QED BY <2>5
<1> QED BY <1>14, <1>15

\* Two moves one after the other.
LEMMA CarriedOn ==
  ASSUME NEW new, NEW acc, NEW old, Carried(new, acc), Carried(acc, old), Named(acc.mds, acc.at)
  PROVE  Carried(new, old)
<1> SUFFICES ASSUME NEW l \in 1 .. Len(old.mds), old.mds[l].who # None
             PROVE  \E k \in 1 .. Len(new.mds) : SameObject(new, k, old, l)
  BY DEF Carried
<1>1. PICK k \in 1 .. Len(acc.mds) : SameObject(acc, k, old, l)
  BY DEF Carried
<1>2. acc.mds[k].who # None
  BY <1>1 DEF SameObject
<1>3. PICK j \in 1 .. Len(new.mds) : SameObject(new, j, acc, k)
  BY <1>2 DEF Carried
<1>4. SameObject(new, j, old, l)
  BY <1>1, <1>3, Zenon DEF SameObject
<1> QED BY <1>4

\* No object moves away from the start of the page, and no pinned one moves.
Nearer(acc, old, pins) ==
  \A h \in Obj : /\ acc.at[h] = None <=> old.at[h] = None
                 /\ old.at[h] # None => acc.at[h] <= old.at[h]
                 /\ h \in pins => acc.at[h] = old.at[h]

\* The object that a turn moves comes nearer to the start of the page.
LEMMA SwappedNearer ==
  ASSUME NEW B, NEW acc \in AccType(B), NEW bump \in Nat, EndToEnd(acc.mds, bump, acc.at),
         NEW new \in AccType(B), NEW i \in 1 .. Len(acc.mds), i + 1 \in 1 .. Len(acc.mds),
         NEW pins, NEW old \in AccType(B), Nearer(acc, old, pins),
         Swapped(new, acc, i), acc.mds[i].who = None, acc.mds[i + 1].who \in Obj \ pins,
         Named(acc.mds, acc.at)
  PROVE  /\ Nearer(new, old, pins)
         /\ new.at[acc.mds[i + 1].who] # old.at[acc.mds[i + 1].who]
<1> DEFINE n == Len(acc.mds)
           h == acc.mds[i + 1].who
           dst == Start(acc.mds, acc.at, i)
           src == Start(acc.mds, acc.at, i + 1)
<1>1. acc.mds \in Seq(EntryType)
  BY DEF AccType
<1>2. dst \in Nat /\ src \in Nat /\ src = dst + acc.mds[i].size
      /\ acc.mds[i].size \in Nat /\ acc.mds[i].size >= 1
  BY <1>1, StartsInside, EntryFacts, SwappedStarts
<1>3. h \in Obj /\ h # None /\ h \notin pins /\ dst # None
  BY <1>2, NoneApart
<1>4. \A o \in Obj : new.at[o] = IF o = h THEN dst ELSE acc.at[o]
  BY Zenon DEF Swapped
<1>5. acc.at[h] = src
  BY <1>3 DEF Start, GetData
<1>6. old.at[h] # None /\ src <= old.at[h] /\ old.at[h] \in Nat
  <2>1. acc.at[h] # None
    BY <1>2, <1>5, NoneApart
  <2>2. old.at[h] # None /\ acc.at[h] <= old.at[h]
    BY <1>3, <2>1 DEF Nearer
  <2>3. old.at \in Map
    BY DEF AccType
  <2>4. old.at[h] \in Nat \cup {None}
    BY <1>3, <2>3 DEF Map
  <2> QED BY <1>5, <2>2, <2>4
<1>7. new.at[h] = dst /\ dst < src
  BY <1>2, <1>3, <1>4
<1>8. dst <= old.at[h] /\ dst # old.at[h]
  BY <1>2, <1>6, <1>7
<1> HIDE DEF h, dst, src
<1>9. ASSUME NEW o \in Obj
      PROVE  /\ new.at[o] = None <=> old.at[o] = None
             /\ old.at[o] # None => new.at[o] <= old.at[o]
             /\ o \in pins => new.at[o] = old.at[o]
  <2>1. CASE o = h
    BY <1>3, <1>6, <1>7, <1>8, <2>1, Zenon
  <2>2. CASE o # h
    <3>1. new.at[o] = acc.at[o]
      BY <1>4, <2>2
    <3> QED BY <3>1, Zenon DEF Nearer
  <2> QED BY <2>1, <2>2
<1> QED BY <1>7, <1>8, <1>9 DEF Nearer, h

\* What holds after i turns of compact() on a page that was old.
Sound(acc, old, bump, pins, i) ==
  /\ Len(acc.mds) = Len(old.mds)
  /\ EndToEnd(acc.mds, bump, acc.at) /\ Named(acc.mds, acc.at) /\ Quiet(acc.mds)
  /\ Taken(acc.mds, Nameless(acc.mds)) = Taken(old.mds, Nameless(old.mds))
  /\ Nearer(acc, old, pins) /\ Carried(acc, old)
  /\ IF acc.moved = 0
     THEN /\ acc.mds = old.mds /\ acc.at = old.at
          /\ \A k \in 1 .. i : ~CanSwap(old.mds[k], old.mds[k + 1], pins)
     ELSE \E h \in Obj : acc.at[h] # old.at[h]

\* A turn of compact() keeps Sound, whether it moves an object or not.
LEMMA TurnSound ==
  ASSUME NEW B, NEW old \in AccType(B), NEW bump \in Nat, NEW pins, NEW i \in Nat \ {0},
         i < Len(old.mds), NEW acc \in AccType(B), Sound(acc, old, bump, pins, i - 1)
  PROVE  Turn(acc, i, pins) \in AccType(B) /\ Sound(Turn(acc, i, pins), old, bump, pins, i)
<1>1. Len(old.mds) \in Nat /\ Len(acc.mds) = Len(old.mds)
  <2>1. old.mds \in Seq(EntryType)
    BY DEF AccType
  <2> QED BY <2>1, EntryFacts DEF Sound
<1>2. i \in 1 .. Len(acc.mds) /\ i + 1 \in 1 .. Len(acc.mds)
  BY <1>1
<1>3. CASE ~CanSwap(acc.mds[i], acc.mds[i + 1], pins)
  <2>1. Turn(acc, i, pins) = acc
    BY <1>3, Zenon DEF Turn
  <2>2. acc.moved = 0 => \A k \in 1 .. i : ~CanSwap(old.mds[k], old.mds[k + 1], pins)
    <3> SUFFICES ASSUME acc.moved = 0, NEW k \in 1 .. i
                 PROVE  ~CanSwap(old.mds[k], old.mds[k + 1], pins)
      OBVIOUS
    <3>1. acc.mds = old.mds /\ \A j \in 1 .. i - 1 : ~CanSwap(old.mds[j], old.mds[j + 1], pins)
      BY Zenon DEF Sound
    <3>2. CASE k = i
      BY <1>3, <3>1, <3>2
    <3>3. CASE k # i
      <4>1. k \in 1 .. i - 1
        BY <3>3
      <4> QED BY <3>1, <4>1
    <3> QED BY <3>2, <3>3
  <2>3. Sound(acc, old, bump, pins, i)
    BY <2>2, Zenon DEF Sound
  <2> QED BY <2>1, <2>3
<1>4. CASE CanSwap(acc.mds[i], acc.mds[i + 1], pins)
  <2> DEFINE new == Turn(acc, i, pins)
             h   == acc.mds[i + 1].who
  <2>1. /\ EndToEnd(acc.mds, bump, acc.at) /\ Named(acc.mds, acc.at) /\ Quiet(acc.mds)
        /\ Taken(acc.mds, Nameless(acc.mds)) = Taken(old.mds, Nameless(old.mds))
        /\ Nearer(acc, old, pins) /\ Carried(acc, old)
    BY Zenon DEF Sound
  <2>2. new \in AccType(B) /\ Swapped(new, acc, i) /\ acc.mds[i].who = None
        /\ acc.mds[i + 1].who \in Obj \ pins /\ acc.mds[i + 1].who \in Obj
    <3> HIDE DEF new
    <3>1. new \in AccType(B) /\ Swapped(new, acc, i) /\ acc.mds[i].who = None
          /\ acc.mds[i + 1].who \in Obj \ pins
      BY <1>2, <1>4, <2>1, TurnIs DEF new
    <3> QED BY <3>1
  <2> HIDE DEF new
  <2>3. EndToEnd(new.mds, bump, new.at)
    BY <1>2, <2>1, <2>2, SwappedEndToEnd
  <2>4. Named(new.mds, new.at) /\ Quiet(new.mds)
    BY <1>2, <2>1, <2>2, SwappedNamed
  <2>5. Taken(new.mds, Nameless(new.mds)) = Taken(acc.mds, Nameless(acc.mds))
    BY <1>2, <2>1, <2>2, SwappedTaken
  <2>6. Carried(new, old)
    <3>1. Carried(new, acc)
      BY <1>2, <2>1, <2>2, SwappedCarries
    <3> QED BY <2>1, <3>1, CarriedOn
  <2>7. Nearer(new, old, pins) /\ new.at[h] # old.at[h]
    BY <1>2, <2>1, <2>2, SwappedNearer
  <2>8. Len(new.mds) = Len(old.mds) /\ new.moved = acc.moved + 1
    BY <1>1, <2>2 DEF Swapped
  <2>9. new.moved # 0
    <3>1. acc.moved \in Nat
      BY DEF AccType
    <3> QED BY <2>8, <3>1
  <2>10. Sound(new, old, bump, pins, i)
    BY <2>1, <2>2, <2>3, <2>4, <2>5, <2>6, <2>7, <2>8, <2>9, Zenon DEF Sound
  <2> QED BY <2>2, <2>10 DEF new
<1> QED BY <1>3, <1>4

\* The whole pass does: the recursion in CompactPass follows the turns.
LEMMA CompactPassSound ==
  ASSUME NEW B, NEW pg, NEW at, NEW units, NEW pins, NEW old \in AccType(B), NEW bump \in Nat,
         old = [mds |-> pg.mds, at |-> at, mem |-> units, moved |-> 0],
         EndToEnd(old.mds, bump, old.at), Named(old.mds, old.at), Quiet(old.mds)
  PROVE  /\ CompactPass(pg, at, units, pins) \in AccType(B)
         /\ \E n \in Nat : /\ (Len(old.mds) = 0 /\ n = 0) \/ n + 1 = Len(old.mds)
                           /\ Sound(CompactPass(pg, at, units, pins), old, bump, pins, n)
<1> DEFINE n == IF pg.mds = <<>> THEN 0 ELSE Len(pg.mds) - 1
           step == [i \in 1 .. n |-> [v \in AccType(B) |-> Turn(v, i, pins)]]
           V == [i \in 0 .. n |-> {acc \in AccType(B) : Sound(acc, old, bump, pins, i)}]
           Rec(F) == [i \in 0 .. n |->
                        IF i = 0 THEN [mds |-> pg.mds, at |-> at, mem |-> units, moved |-> 0]
                        ELSE Turn(F[i - 1], i, pins)]
           After == CHOOSE F : F = Rec(F)
<1>1. pg.mds = old.mds /\ pg.mds \in Seq(EntryType) /\ old.moved = 0
  BY DEF AccType
<1>2. /\ n \in Nat /\ \A i \in 1 .. n : i < Len(old.mds)
      /\ (Len(old.mds) = 0 /\ n = 0) \/ n + 1 = Len(old.mds)
  <2>1. Len(old.mds) \in Nat /\ (pg.mds = <<>> <=> Len(old.mds) = 0)
    BY <1>1, EntryFacts
  <2>2. CASE pg.mds = <<>>
    <3>1. n = 0 /\ Len(old.mds) = 0
      BY <2>1, <2>2
    <3> HIDE DEF n
    <3> QED BY <3>1
  <2>3. CASE pg.mds # <<>>
    <3>1. n = Len(old.mds) - 1 /\ Len(old.mds) # 0
      BY <1>1, <2>1, <2>3
    <3> HIDE DEF n
    <3> QED BY <2>1, <3>1
  <2> QED BY <2>2, <2>3
<1>3. \A i \in 0 .. n : V[i] = {acc \in AccType(B) : Sound(acc, old, bump, pins, i)}
  OBVIOUS
<1>4. \A i \in 1 .. n : \A v \in AccType(B) : step[i][v] = Turn(v, i, pins)
  OBVIOUS
<1>5. CompactPass(pg, at, units, pins) = After[n]
  BY DEF CompactPass
<1>6. \A i \in 1 .. n : i \in Nat \ {0} /\ i - 1 \in 0 .. n /\ i \in 0 .. n
  BY <1>2
<1> HIDE DEF n, step, V
<1>7. \A i \in 1 .. n : \A v \in V[i - 1] : step[i][v] \in V[i] /\ v \in AccType(B)
  <2> SUFFICES ASSUME NEW i \in 1 .. n, NEW v \in V[i - 1]
               PROVE  step[i][v] \in V[i] /\ v \in AccType(B)
    OBVIOUS
  <2>1. v \in AccType(B) /\ Sound(v, old, bump, pins, i - 1)
    BY <1>3, <1>6
  <2>2. Turn(v, i, pins) \in AccType(B) /\ Sound(Turn(v, i, pins), old, bump, pins, i)
    BY <1>2, <1>6, <2>1, TurnSound
  <2> QED BY <1>3, <1>4, <1>6, <2>1, <2>2
<1>8. old \in V[0]
  <2>1. Sound(old, old, bump, pins, 0)
    <3>1. Nearer(old, old, pins)
      <4>1. old.at \in Map
        BY DEF AccType
      <4> QED BY <4>1 DEF Nearer, Map
    <3>2. Carried(old, old)
      BY Zenon DEF Carried, SameObject
    <3>3. 1 .. 0 = {}
      OBVIOUS
    <3> QED BY <1>1, <3>1, <3>2, <3>3, Zenon DEF Sound
  <2>2. 0 \in 0 .. n
    BY <1>2
  <2> QED BY <1>3, <2>1, <2>2
<1>9. PICK f : Leads(f, n, old, step) /\ \A i \in 0 .. n : f[i] \in V[i]
  BY <1>2, <1>7, <1>8, Recursion, Zenon
<1>10. \A i \in 1 .. n : f[i] = Turn(f[i - 1], i, pins) /\ step[i][f[i - 1]] = Turn(f[i - 1], i, pins)
  <2> SUFFICES ASSUME NEW i \in 1 .. n
               PROVE  f[i] = Turn(f[i - 1], i, pins) /\ step[i][f[i - 1]] = Turn(f[i - 1], i, pins)
    OBVIOUS
  <2>1. f[i - 1] \in AccType(B)
    BY <1>6, <1>7, <1>9, Zenon
  <2>2. step[i][f[i - 1]] = Turn(f[i - 1], i, pins)
    BY <1>4, <2>1, Zenon
  <2> QED BY <1>9, <2>2, Zenon DEF Leads
<1>11. f = Rec(f)
  <2>1. \A i \in 0 .. n : f[i] = IF i = 0 THEN [mds |-> pg.mds, at |-> at, mem |-> units, moved |-> 0]
                                 ELSE Turn(f[i - 1], i, pins)
    <3> SUFFICES ASSUME NEW i \in 0 .. n
                 PROVE f[i] = IF i = 0 THEN old ELSE Turn(f[i - 1], i, pins)
      OBVIOUS
    <3>1. i # 0 => i \in 1 .. n
      BY <1>2
    <3>2. f[0] = old
      BY <1>9 DEF Leads
    <3> QED BY <1>10, <3>1, <3>2, Zenon
  <2>2. f = [i \in 0 .. n |-> f[i]]
    BY <1>9, Zenon DEF Leads
  <2> QED BY <2>1, <2>2, Zenon
<1>12. After = Rec(After)
  BY <1>11, Zenon
<1> HIDE DEF After
<1>13. Follows(After, f, n, old, step)
  <2>1. \A i \in 0 .. n : After[i] = IF i = 0 THEN [mds |-> pg.mds, at |-> at, mem |-> units, moved |-> 0]
                                     ELSE Turn(After[i - 1], i, pins)
    BY <1>12, Zenon
  <2>2. After[0] = old
    <3>1. 0 \in 0 .. n
      BY <1>2
    <3> QED BY <2>1, <3>1, Zenon
  <2>3. ASSUME NEW i \in 1 .. n, After[i - 1] = f[i - 1] PROVE After[i] = step[i][f[i - 1]]
    <3>1. i \in 0 .. n /\ i # 0
      BY <1>6
    <3>2. After[i] = Turn(After[i - 1], i, pins)
      BY <2>1, <3>1, Zenon
    <3> QED BY <1>10, <2>3, <3>2, Zenon
  <2> QED BY <2>2, <2>3, Zenon DEF Follows
<1>14. \A i \in 0 .. n : After[i] = f[i]
  <2>1. Leads(f, n, old, step)
    BY <1>9
  <2> QED BY <1>2, <1>13, <2>1, RecursionOnce
<1>15. n \in 0 .. n
  BY <1>2
<1>16. After[n] \in V[n]
  BY <1>9, <1>14, <1>15, Zenon
<1>17. After[n] \in AccType(B) /\ Sound(After[n], old, bump, pins, n)
  BY <1>3, <1>15, <1>16
<1> QED BY <1>2, <1>5, <1>17, Zenon

-----------------------------------------------------------------------------
(***************************************************************************)
(* Pages: pruning, alloc, and an entry that is written.                    *)
(***************************************************************************)
PageType == [mds : Seq(EntryType), bump : Nat, freed : Int]

\* What is kept ends with the last entry that is allocated.
LEMMA KeptIs ==
  ASSUME NEW mds \in Seq(EntryType)
  PROVE  /\ Kept(mds) \in 0 .. Len(mds)
         /\ \A i \in 1 .. Len(mds) : mds[i].allocated => i <= Kept(mds)
         /\ Kept(mds) # 0 => mds[Kept(mds)].allocated
<1> DEFINE n == Len(mds)
           T == {0} \cup {i \in DOMAIN mds : mds[i].allocated}
<1>1. n \in Nat /\ DOMAIN mds = 1 .. n
  BY EntryFacts
<1>2. T \subseteq 0 .. n /\ T # {} /\ T \subseteq Nat
  BY <1>1
<1>3. \A i \in 1 .. n : mds[i].allocated => i \in T
  BY <1>1
<1>4. \A i \in T : i # 0 => mds[i].allocated
  OBVIOUS
<1> HIDE DEF T
<1>5. PICK m \in T : \A k \in T : k <= m
  BY <1>1, <1>2, GreatestElement
<1>6. Max(T) = m
  BY <1>2, <1>5, MaxIs
<1>7. Kept(mds) = m
  BY <1>6 DEF Kept, T
<1> QED BY <1>2, <1>3, <1>4, <1>5, <1>7

\* Pruning drops the holes at the end of the page and nothing else, and takes
\* from bytes_freed exactly what they take.
LEMMA PruneIs ==
  ASSUME NEW pg \in PageType, NEW bump \in Nat, NEW at, pg.bump = bump,
         EndToEnd(pg.mds, bump, at), Named(pg.mds, at), Quiet(pg.mds),
         Kept(pg.mds) # 0
  PROVE  LET new == Prune(pg, at)
             k   == Kept(pg.mds)
         IN  /\ new \in PageType
             /\ Len(new.mds) = k /\ k \in 1 .. Len(pg.mds)
             /\ \A i \in 1 .. k : new.mds[i] = pg.mds[i]
             /\ \A i \in 1 .. Len(pg.mds) : pg.mds[i].who # None => i \in 1 .. k
             /\ EndToEnd(new.mds, new.bump, at) /\ Named(new.mds, at) /\ Quiet(new.mds)
             /\ new.freed - Taken(new.mds, Nameless(new.mds)) =
                  pg.freed - Taken(pg.mds, Nameless(pg.mds))
             /\ Kept(new.mds) = k
<1> DEFINE n == Len(pg.mds)
           k == Kept(pg.mds)
           new == Prune(pg, at)
<1>0. pg.mds \in Seq(EntryType) /\ pg.freed \in Int
  BY DEF PageType
<1>1. n \in Nat /\ k \in 1 .. n /\ pg.mds[k].allocated
      /\ \A i \in 1 .. n : pg.mds[i].allocated => i <= k
  BY <1>0, KeptIs, EntryFacts
<1>2. /\ new.mds = SubSeq(pg.mds, 1, k)
      /\ new.bump = IF k \in 1 .. n - 1 THEN Start(pg.mds, at, k) + pg.mds[k].size ELSE bump
      /\ new.freed = pg.freed - Taken(pg.mds, k + 1 .. n)
      /\ new = [mds |-> new.mds, bump |-> new.bump, freed |-> new.freed]
  BY DEF Prune, Start
<1> HIDE DEF new, k
<1>3. /\ new.mds \in Seq(EntryType) /\ Len(new.mds) = k
      /\ \A i \in 1 .. k : new.mds[i] = pg.mds[i]
  <2>1. \A i \in 1 .. k : pg.mds[i] \in EntryType
    BY <1>0, <1>1, EntryFacts
  <2>2. 1 <= k /\ k - 1 + 1 = k /\ k \in Int /\ \A i \in 1 .. k : 1 + i - 1 = i
    BY <1>1
  <2>3. SubSeq(pg.mds, 1, k) \in Seq(EntryType)
        /\ Len(SubSeq(pg.mds, 1, k)) = k
        /\ \A i \in 1 .. k : SubSeq(pg.mds, 1, k)[i] = pg.mds[i]
    <3> DEFINE s == SubSeq(pg.mds, 1, k)
    <3>1. /\ s \in Seq(EntryType) /\ Len(s) = IF 1 <= k THEN k - 1 + 1 ELSE 0
          /\ \A i \in 1 .. k - 1 + 1 : s[i] = pg.mds[1 + i - 1]
      BY <2>1, <2>2, SubSeqProperties
    <3> HIDE DEF s
    <3>2. s \in Seq(EntryType) /\ Len(s) = k /\ \A i \in 1 .. k : s[i] = pg.mds[i]
      BY <2>2, <3>1
    <3> QED BY <3>2 DEF s
  <2> QED BY <1>2, <2>3
<1>4. \A i \in 1 .. n : pg.mds[i].who # None => i \in 1 .. k
  BY <1>1 DEF Named
<1>5. \A i \in 1 .. n : i > k => pg.mds[i].who = None
  BY <1>1, <1>4
<1>6. new.bump = Start(pg.mds, at, k) + pg.mds[k].size /\ new.bump \in Nat /\ new.bump <= bump
  <2>1. Start(pg.mds, at, k) + pg.mds[k].size <= bump /\ Start(pg.mds, at, k) \in Nat
        /\ pg.mds[k].size \in Nat
    BY <1>0, <1>1, StartsInside, EntryFacts
  <2>2. CASE k = n
    <3>1. Start(pg.mds, at, n) + pg.mds[n].size = bump
      BY <1>1 DEF EndToEnd
    <3> QED BY <1>1, <1>2, <2>1, <2>2, <3>1
  <2>3. CASE k # n
    BY <1>1, <1>2, <2>1, <2>3
  <2> QED BY <2>2, <2>3
<1>7. \A i \in 1 .. k : Start(new.mds, at, i) = Start(pg.mds, at, i) /\ i \in 1 .. n
  BY <1>1, <1>3 DEF Start
<1>8. EndToEnd(new.mds, new.bump, at)
  <2>1. \A i \in 1 .. n : Start(pg.mds, at, i) \in Nat
    BY DEF EndToEnd
  <2>2. \A i, j \in 1 .. n : j = i + 1 => Start(pg.mds, at, j) = Start(pg.mds, at, i) + pg.mds[i].size
    BY DEF EndToEnd
  <2>3. \A i \in 1 .. k : Start(new.mds, at, i) \in Nat
    BY <1>7, <2>1
  <2>4. \A i, j \in 1 .. k : j = i + 1 => Start(new.mds, at, j) = Start(new.mds, at, i) + new.mds[i].size
    BY <1>3, <1>7, <2>2, Zenon
  <2>5. Start(new.mds, at, 1) = 0
    <3>1. 1 \in 1 .. k /\ n # 0
      BY <1>1
    <3> QED BY <1>7, <3>1 DEF EndToEnd
  <2>6. Start(new.mds, at, k) + new.mds[k].size = new.bump
    <3>1. k \in 1 .. k
      BY <1>1
    <3> QED BY <1>3, <1>6, <1>7, <3>1
  <2>7. new.bump + k <= PageUnits
    <3>1. bump + n <= PageUnits
      BY DEF EndToEnd
    <3> QED BY <1>1, <1>6, <3>1, PageUnitsAssumption
  <2>8. k # 0
    BY <1>1
  <2> QED BY <1>3, <2>3, <2>4, <2>5, <2>6, <2>7, <2>8, Zenon DEF EndToEnd
<1>9. Named(new.mds, at) /\ Quiet(new.mds)
  BY <1>3, <1>7, Zenon DEF Named, Quiet
<1>10. Taken(pg.mds, Nameless(pg.mds)) = Taken(new.mds, Nameless(new.mds)) + Taken(pg.mds, k + 1 .. n)
  <2>1. \A i \in 1 .. Len(new.mds) :
          Part(new.mds, Nameless(new.mds), i) = Part(pg.mds, Nameless(pg.mds), i)
    <3> SUFFICES ASSUME NEW i \in 1 .. k
                 PROVE  Part(new.mds, Nameless(new.mds), i) = Part(pg.mds, Nameless(pg.mds), i)
      BY <1>3
    <3>1. new.mds[i] = pg.mds[i] /\ i \in 1 .. n
      BY <1>3, <1>7
    <3>2. i \in Nameless(new.mds) <=> i \in Nameless(pg.mds)
      BY <1>3, <3>1 DEF Nameless
    <3> QED BY <3>1, <3>2 DEF Part
  <2>2. Nameless(pg.mds) \cap (k + 1 .. n) = k + 1 .. n
    BY <1>1, <1>5 DEF Nameless
  <2>3. k <= n
    BY <1>1
  <2>4. Taken(pg.mds, Nameless(pg.mds)) = Taken(new.mds, Nameless(new.mds))
          + Taken(pg.mds, Nameless(pg.mds) \cap (Len(new.mds) + 1 .. n))
    BY <1>0, <1>3, <2>1, <2>3, TakenSplit
  <2> QED BY <1>3, <2>2, <2>4
<1>11. new.freed - Taken(new.mds, Nameless(new.mds)) = pg.freed - Taken(pg.mds, Nameless(pg.mds))
       /\ new.freed \in Int
  <2>1. Taken(new.mds, Nameless(new.mds)) \in Nat /\ Taken(pg.mds, k + 1 .. n) \in Nat
        /\ Taken(pg.mds, Nameless(pg.mds)) \in Nat
    BY <1>0, <1>3, TakenType
  <2> QED BY <1>0, <1>2, <1>10, <2>1
<1>12. Kept(new.mds) = k
  <2>1. Kept(new.mds) \in 0 .. k /\ \A i \in 1 .. k : new.mds[i].allocated => i <= Kept(new.mds)
    BY <1>3, KeptIs
  <2>2. k \in 1 .. k /\ new.mds[k].allocated
    BY <1>1, <1>3
  <2> QED BY <2>1, <2>2
<1>13. new \in PageType
  BY <1>2, <1>3, <1>6, <1>11 DEF PageType
<1> QED BY <1>1, <1>3, <1>4, <1>8, <1>9, <1>11, <1>12, <1>13 DEF new, k

\* What a page is after an object of size s has been put at its end.
Pushed(new, pg, h, s, at, at2) ==
  LET n == Len(pg.mds)
  IN  /\ new \in PageType
      /\ Len(new.mds) = n + 1 /\ new.bump = pg.bump + s /\ new.freed = pg.freed
      /\ \A i \in 1 .. n : new.mds[i] = pg.mds[i]
      /\ new.mds[n + 1].who = h /\ new.mds[n + 1].size = s /\ new.mds[n + 1].allocated
      /\ \A i \in 1 .. n : Start(new.mds, at2, i) = Start(pg.mds, at, i)
      /\ EndToEnd(new.mds, new.bump, at2) /\ Named(new.mds, at2)
      /\ Taken(new.mds, Nameless(new.mds)) = Taken(pg.mds, Nameless(pg.mds))

\* alloc puts an object at the end of a page and changes nothing before it.
LEMMA PushIs ==
  ASSUME NEW pg \in PageType, NEW bump \in Nat, NEW at, pg.bump = bump,
         EndToEnd(pg.mds, bump, at), Named(pg.mds, at),
         NEW h \in Obj, NEW s \in Nat \ {0}, \A i \in 1 .. Len(pg.mds) : pg.mds[i].who # h,
         bump + s + Len(pg.mds) + 1 <= PageUnits,
         NEW at2, \A o \in Obj : at2[o] = IF o = h THEN bump ELSE at[o]
  PROVE  Pushed(Push(pg, h, s), pg, h, s, at, at2)
<1> DEFINE n == Len(pg.mds)
           e == [who |-> h, raw |-> None, allocated |-> TRUE, size |-> s]
           new == Push(pg, h, s)
<1>0. pg.mds \in Seq(EntryType) /\ pg.freed \in Int
  BY DEF PageType
<1>1. n \in Nat
  BY <1>0, EntryFacts
<1>2. e \in EntryType
  BY DEF EntryType
<1>3. new = [mds |-> Append(pg.mds, e), bump |-> bump + s, freed |-> pg.freed]
  <2>1. pg = [mds |-> pg.mds, bump |-> bump, freed |-> pg.freed]
    BY DEF PageType
  <2>2. new = [pg EXCEPT !.mds = Append(pg.mds, e), !.bump = bump + s]
    BY DEF Push
  <2> HIDE DEF new, e
  <2> QED BY <2>1, <2>2
<1> DEFINE mds2 == Append(pg.mds, e)
<1>4. /\ mds2 \in Seq(EntryType) /\ Len(mds2) = n + 1
      /\ \A i \in 1 .. n : mds2[i] = pg.mds[i]
      /\ mds2[n + 1] = e
  BY <1>0, <1>2, AppendProperties
<1>5. new.mds = mds2 /\ new.bump = bump + s /\ new.freed = pg.freed
      /\ new \in PageType
  <2> HIDE DEF mds2
  <2>1. new = [mds |-> mds2, bump |-> bump + s, freed |-> pg.freed]
    BY <1>3 DEF mds2
  <2> HIDE DEF new
  <2> QED BY <1>0, <1>4, <2>1 DEF PageType
<1>6. e.who = h /\ e.size = s /\ e.allocated /\ h # None
  BY NoneApart
<1> HIDE DEF mds2, e, new
<1>7. ASSUME NEW i \in 1 .. n PROVE Start(mds2, at2, i) = Start(pg.mds, at, i)
  <2>1. mds2[i] = pg.mds[i] /\ pg.mds[i].who # h /\ pg.mds[i].who \in Obj \cup {None}
    BY <1>0, <1>4, EntryFacts
  <2>2. CASE pg.mds[i].who = None
    BY <2>1, <2>2, Zenon DEF Start, GetData
  <2>3. CASE pg.mds[i].who # None
    <3>1. at2[pg.mds[i].who] = at[pg.mds[i].who]
      BY <2>1, <2>3
    <3> QED BY <2>1, <2>3, <3>1, Zenon DEF Start, GetData
  <2> QED BY <2>2, <2>3
<1>8. Start(mds2, at2, n + 1) = bump
  BY <1>4, <1>6 DEF Start, GetData
<1>9. EndToEnd(mds2, bump + s, at2)
  <2>1. \A i \in 1 .. n : Start(pg.mds, at, i) \in Nat
    BY DEF EndToEnd
  <2>2. \A i, j \in 1 .. n : j = i + 1 => Start(pg.mds, at, j) = Start(pg.mds, at, i) + pg.mds[i].size
    BY DEF EndToEnd
  <2>3. ASSUME NEW i \in 1 .. n + 1 PROVE Start(mds2, at2, i) \in Nat
    <3>1. i \in 1 .. n \/ i = n + 1
      BY <1>1
    <3> QED BY <1>7, <1>8, <2>1, <3>1
  <2>4. ASSUME NEW i \in 1 .. n + 1, NEW j \in 1 .. n + 1, j = i + 1
        PROVE  Start(mds2, at2, j) = Start(mds2, at2, i) + mds2[i].size
    <3>1. i \in 1 .. n
      BY <1>1, <2>4
    <3>2. CASE j = n + 1
      <4>1. i = n /\ n # 0
        BY <1>1, <2>4, <3>1, <3>2
      <4>2. Start(pg.mds, at, n) + pg.mds[n].size = bump
        BY <4>1 DEF EndToEnd
      <4>3. mds2[i] = pg.mds[n] /\ Start(mds2, at2, i) = Start(pg.mds, at, n)
        BY <1>4, <1>7, <3>1, <4>1
      <4> QED BY <1>8, <3>2, <4>2, <4>3
    <3>3. CASE j # n + 1
      <4>1. j \in 1 .. n
        BY <1>1, <3>3
      <4>2. mds2[i] = pg.mds[i] /\ Start(mds2, at2, i) = Start(pg.mds, at, i)
            /\ Start(mds2, at2, j) = Start(pg.mds, at, j)
        BY <1>4, <1>7, <3>1, <4>1
      <4>3. Start(pg.mds, at, j) = Start(pg.mds, at, i) + pg.mds[i].size
        BY <2>2, <2>4, <3>1, <4>1, Zenon
      <4> QED BY <4>2, <4>3
    <3> QED BY <3>2, <3>3
  <2>5. Start(mds2, at2, 1) = 0
    <3>1. CASE n = 0
      <4>1. bump = 0
        BY <3>1 DEF EndToEnd
      <4> QED BY <1>8, <3>1, <4>1
    <3>2. CASE n # 0
      <4>1. 1 \in 1 .. n
        BY <1>1, <3>2
      <4> QED BY <1>7, <3>2, <4>1 DEF EndToEnd
    <3> QED BY <3>1, <3>2
  <2>6. Start(mds2, at2, n + 1) + mds2[n + 1].size = bump + s
    BY <1>4, <1>6, <1>8
  <2>7. (bump + s) + (n + 1) <= PageUnits
    BY <1>1, PageUnitsAssumption
  <2>8. n + 1 # 0
    BY <1>1
  <2>9. \A i, j \in 1 .. n + 1 : j = i + 1 => Start(mds2, at2, j) = Start(mds2, at2, i) + mds2[i].size
    BY <2>4
  <2> QED BY <1>4, <2>3, <2>5, <2>6, <2>7, <2>8, <2>9, Zenon DEF EndToEnd
<1>10. Named(mds2, at2)
  <2>1. bump # None
    BY NoneApart
  <2>2. ASSUME NEW i \in 1 .. n + 1, mds2[i].who # None
        PROVE  mds2[i].allocated /\ at2[mds2[i].who] # None
    <3>1. CASE i = n + 1
      BY <1>4, <1>6, <2>1, <3>1
    <3>2. CASE i # n + 1
      <4>1. i \in 1 .. n
        BY <1>1, <3>2
      <4>2. mds2[i] = pg.mds[i] /\ pg.mds[i].who \in Obj
        BY <1>0, <1>4, <2>2, <4>1, EntryFacts
      <4>3. at2[pg.mds[i].who] = at[pg.mds[i].who]
        BY <4>1, <4>2
      <4> QED BY <2>2, <4>1, <4>2, <4>3 DEF Named
    <3> QED BY <3>1, <3>2
  <2> QED BY <1>4, <2>2 DEF Named
<1>11. Taken(mds2, Nameless(mds2)) = Taken(pg.mds, Nameless(pg.mds))
  <2>1. Nameless(mds2) = Nameless(pg.mds)
    <3>1. \A i \in 1 .. n + 1 : i = n + 1 \/ i \in 1 .. n
      BY <1>1
    <3>2. 1 .. n \subseteq 1 .. n + 1
      BY <1>1
    <3> QED BY <1>4, <1>6, <3>1, <3>2 DEF Nameless
  <2>2. \A i \in 1 .. n : Part(pg.mds, Nameless(pg.mds), i) = Part(mds2, Nameless(mds2), i)
    BY <1>4, <2>1 DEF Part
  <2>3. n <= Len(mds2) /\ Nameless(mds2) \cap (n + 1 .. Len(mds2)) = {}
    BY <1>1, <1>4, <2>1 DEF Nameless
  <2>4. Taken(mds2, Nameless(mds2)) = Taken(pg.mds, Nameless(pg.mds))
          + Taken(mds2, Nameless(mds2) \cap (n + 1 .. Len(mds2)))
    BY <1>0, <1>4, <2>2, <2>3, TakenSplit
  <2>5. Taken(mds2, {}) = 0
    BY <1>4, TakenNone
  <2>6. Taken(pg.mds, Nameless(pg.mds)) \in Nat
    BY <1>0, TakenType
  <2>7. Taken(mds2, Nameless(mds2) \cap (n + 1 .. Len(mds2))) = 0
    BY <2>3, <2>5
  <2> QED BY <2>4, <2>6, <2>7
<1> QED BY <1>4, <1>5, <1>6, <1>7, <1>9, <1>10, <1>11, Zenon DEF new, Pushed

\* An entry that stays where it is, as large as it is.
Rewritten(new, mds, i, e) ==
  /\ new \in Seq(EntryType) /\ Len(new) = Len(mds)
  /\ \A k \in 1 .. Len(mds) : new[k] = IF k = i THEN e ELSE mds[k]

\* An assignment to one entry of a list.
LEMMA RewrittenIs ==
  ASSUME NEW mds \in Seq(EntryType), NEW i \in 1 .. Len(mds), NEW e \in EntryType
  PROVE  Rewritten([mds EXCEPT ![i] = e], mds, i, e)
<1> DEFINE new == [mds EXCEPT ![i] = e]
<1>1. /\ new \in Seq(EntryType) /\ Len(new) = Len(mds)
      /\ \A k \in 1 .. Len(mds) : new[k] = IF k = i THEN e ELSE mds[k]
  BY ExceptSeq
<1> HIDE DEF new
<1>2. Rewritten(new, mds, i, e)
  BY <1>1 DEF Rewritten
<1> QED BY <1>2 DEF new

\* If the entry keeps its size and address, the entries lie end to end as before.
LEMMA RewrittenKeeps ==
  ASSUME NEW mds \in Seq(EntryType), NEW bump \in Nat, NEW at, EndToEnd(mds, bump, at),
         NEW new, NEW i \in 1 .. Len(mds), NEW e, Rewritten(new, mds, i, e),
         e.size = mds[i].size, GetData(e, at) = GetData(mds[i], at)
  PROVE  EndToEnd(new, bump, at)
         /\ \A k \in 1 .. Len(mds) : /\ Start(new, at, k) = Start(mds, at, k)
                                     /\ new[k].size = mds[k].size
<1>1. \A k \in 1 .. Len(mds) : /\ new[k].size = mds[k].size
                               /\ Start(new, at, k) = Start(mds, at, k)
  BY Zenon DEF Rewritten, Start
<1>2. Len(new) = Len(mds)
  BY DEF Rewritten
<1> QED BY <1>1, <1>2, EndToEndSame

\* What the entries without a mapping take, when an entry changes.
LEMMA RewrittenTaken ==
  ASSUME NEW mds \in Seq(EntryType), NEW new, NEW i \in 1 .. Len(mds), NEW e,
         Rewritten(new, mds, i, e), e.size = mds[i].size, e.who = None
  PROVE  Taken(new, Nameless(new)) =
           Taken(mds, Nameless(mds)) + (IF mds[i].who = None THEN 0 ELSE mds[i].size)
<1>1. /\ new \in Seq(EntryType) /\ Len(new) = Len(mds) /\ mds[i].size \in Nat
      /\ \A k \in 1 .. Len(mds) : new[k] = IF k = i THEN e ELSE mds[k]
  BY EntryFacts DEF Rewritten
<1>2. Nameless(new) = Nameless(mds) \cup {i}
  BY <1>1 DEF Nameless
<1>3. \A k \in 1 .. Len(mds) : Part(new, Nameless(new), k) = Part(mds, Nameless(new), k)
  BY <1>1 DEF Part
<1>4. Taken(new, Nameless(new)) = Taken(mds, Nameless(new))
  BY <1>1, <1>3, TakenSame
<1>5. CASE mds[i].who = None
  <2>1. Nameless(new) = Nameless(mds)
    BY <1>2, <1>5 DEF Nameless
  <2>2. Taken(mds, Nameless(mds)) \in Nat
    BY TakenType
  <2> QED BY <1>4, <1>5, <2>1, <2>2
<1>6. CASE mds[i].who # None
  <2>1. i \notin Nameless(mds)
    BY <1>6 DEF Nameless
  <2>2. Taken(mds, Nameless(mds) \cup {i}) = Taken(mds, Nameless(mds)) + mds[i].size
    BY <2>1, TakenPlus
  <2> QED BY <1>2, <1>4, <1>6, <2>2
<1> QED BY <1>5, <1>6

-----------------------------------------------------------------------------
(***************************************************************************)
(* The inductive invariant: where every object, block, region and entry is.*)
(* Once memory outside a page has been used (wild) only Always is left.    *)
(***************************************************************************)
TypeOK ==
  /\ addr \in [Obj -> {None, "handle"} \cup Region]
  /\ ptr \in [Obj -> {None} \cup Place]
  /\ header \in [Block -> {None} \cup Header]
  /\ huge \in [Region -> Int]
  /\ lp \in [LPage -> PageType]
  /\ lmem = [p \in LPage |-> [u \in 0 .. PageUnits - 1 |-> lmem[p][u]]]
  /\ lowner \in [LPage -> Thread \cup {None, "new", "never"}]
  /\ tcpage \in [Thread -> LPage \cup {None}]
  /\ job \in [Thread -> Job \cup {None}]
  /\ barrier \in Thread \cup {None} /\ phase \in {"run", "move", "compact"}
  /\ pinned \subseteq Obj /\ todo \subseteq LPage

\* Every block in use has the header of the mapping that points to it, or is
\* about to.
Awaited(b) == \E t \in Thread : /\ job[t] # None
                               /\ job[t].h = header[b].who /\ job[t].dst = b
BlocksOK ==
  /\ \A h \in Obj : InBlock(h) => header[ptr[h]] # None /\ header[ptr[h]].who = h
  /\ \A b \in Block : header[b] # None => ptr[header[b].who] = b \/ Awaited(b)

HandlesOK ==
  /\ \A h \in Obj : HasHandle(h) => InUse(h)
  /\ \A h \in Obj : InUse(h) => HasHandle(h) \/ Busy(h)

RegionsOK ==
  /\ \A o, q \in Obj : IsHuge(o) /\ addr[o] = addr[q] => o = q
  /\ \A o \in Obj : IsHuge(o) => huge[addr[o]] > 0

\* A call is about an object in a locality page, and the mapping gets a block
\* that has its header already.  Two calls are about two objects, and two
\* entries.
JobOK(t) ==
  LET j == job[t]
  IN  /\ InLocal(j.h) /\ ptr[j.h][1] = j.page
      /\ IF j.dst = None THEN ~HasHandle(j.h)
         ELSE HasHandle(j.h) /\ header[j.dst] # None /\ header[j.dst].who = j.h
Writing(t)  == job[t] # None /\ job[t].step \in {"flag", "finish"}
JobsOK ==
  /\ \A t \in Thread : job[t] # None => JobOK(t)
  /\ \A t, u \in Thread : job[t] # None /\ job[u] # None /\ job[t].h = job[u].h => t = u
  /\ \A t, u \in Thread :
       Writing(t) /\ Writing(u) /\ job[t].page = job[u].page /\ job[t].md = job[u].md => t = u

PhaseOK ==
  /\ barrier = None <=> phase = "run"
  /\ barrier # None => \A t \in Thread : job[t] = None
  /\ barrier = None => pinned = {}
  /\ phase # "compact" => todo = {}

\* A page, the handles that point into it and the calls about it.
EntryOK(t) ==
  LET j   == job[t]
      mds == lp[j.page].mds
      e   == mds[j.md]
  IN  /\ j.md \in 1 .. Len(mds)
      /\ j.step = "count"  => e.who = j.h /\ e.allocated /\ j.seen <= Taken(mds, Nameless(mds))
      /\ j.step # "count"  => e.who = None /\ e.raw = ptr[j.h][2]
      /\ j.step = "flag"   => e.allocated
      /\ j.step = "finish" => ~e.allocated
PageOK(p) ==
  /\ EndToEnd(lp[p].mds, lp[p].bump, At(p)) /\ Named(lp[p].mds, At(p))
  /\ lp[p].freed <= Taken(lp[p].mds, Nameless(lp[p].mds))
Listed(h) == \E i \in 1 .. Len(lp[ptr[h][1]].mds) : lp[ptr[h][1]].mds[i].who = h
Leaving(h) == \E t \in Thread : Writing(t) /\ job[t].h = h
Fading(p, i) == \E t \in Thread : /\ job[t] # None /\ job[t].step = "flag"
                                 /\ job[t].page = p /\ job[t].md = i
PagesOK ==
  /\ \A p \in LPage : PageOK(p)
  /\ \A h \in Obj : InLocal(h) => Listed(h) \/ Leaving(h)
  /\ \A p \in LPage : \A i \in 1 .. Len(lp[p].mds) :
       lp[p].mds[i].who = None /\ lp[p].mds[i].allocated => Fading(p, i)
  /\ \A t \in Thread : job[t] # None /\ job[t].step # "find" => EntryOK(t)

OwnersOK ==
  /\ LocalOwners
  /\ \A p \in LPage : lowner[p] = "new" => lp[p].mds = <<>>

Sane == /\ TypeOK /\ BlocksOK /\ HandlesOK /\ RegionsOK
        /\ JobsOK /\ PhaseOK /\ PagesOK /\ OwnersOK
\* What does not need the rest.
Always == /\ pinned \subseteq Obj /\ ptr = [h \in Obj |-> ptr[h]]
IInv == Always /\ (wild \/ Sane)

-----------------------------------------------------------------------------
(***************************************************************************)
(* Where things are.                                                       *)
(***************************************************************************)
Spot == LPage \X Nat

\* A mapping points to a block or into a locality page, never both.
LEMMA PlacesApart ==
  ASSUME NEW x \in {None} \cup Place
  PROVE  /\ x \in Block => x # None /\ x \notin Spot
         /\ x # None /\ x \notin Block => x \in Spot
         /\ x \in Spot => /\ x # None /\ x \notin Block
                          /\ x[1] \in LPage /\ x[2] \in Nat /\ x = <<x[1], x[2]>>
<1>1. ASSUME x \in Block, x \in Spot PROVE FALSE
  <2>1. x[1] \in Class /\ x[1] \in LPage
    BY <1>1 DEF Block, Spot
  <2> QED BY <2>1, ApartAssumption
<1>2. Block \subseteq Place /\ Spot \subseteq Place /\ Place = Block \cup Spot
  BY DEF Place, Spot
<1>3. x \in Spot => x[1] \in LPage /\ x[2] \in Nat /\ x = <<x[1], x[2]>>
  BY DEF Spot
<1> HIDE DEF Spot
<1> QED BY <1>1, <1>2, <1>3, NoneApart

\* Both are places, and neither is None.
LEMMA BlocksAndSpots ==
  /\ \A b \in Block : b \in Place /\ b # None
  /\ \A p \in LPage : \A a \in Nat : <<p, a>> \in Place /\ <<p, a>> \in Spot
                                     /\ <<p, a>>[1] = p /\ <<p, a>>[2] = a
BY NoneApart DEF Place, Spot

\* The addresses a page sees, by the mappings.
AtOf(f, p) == [h \in Obj |-> IF f[h] \in Spot /\ f[h][1] = p THEN f[h][2] ELSE None]

LocalFacts ==
  \A h \in Obj :
    /\ InLocal(h) <=> ptr[h] \in Spot
    /\ InBlock(h) <=> ptr[h] \in Block
    /\ InUse(h) <=> InBlock(h) \/ InLocal(h)
    /\ ~(InBlock(h) /\ InLocal(h))
    /\ ptr[h] \in {None} \cup Place
AtFacts == \A p \in LPage : At(p) = AtOf(ptr, p)

\* Which objects are in blocks and in locality pages, and where.
LEMMA LocalIs == TypeOK => LocalFacts /\ AtFacts
<1> SUFFICES ASSUME TypeOK PROVE LocalFacts /\ AtFacts
  OBVIOUS
<1>1. \A h \in Obj : ptr[h] \in {None} \cup Place
  BY DEF TypeOK
<1>2. LocalFacts
  BY <1>1, PlacesApart DEF InLocal, InBlock, InUse, LocalFacts
<1>3. AtFacts
  <2> SUFFICES ASSUME NEW p \in LPage PROVE At(p) = AtOf(ptr, p)
    BY DEF AtFacts
  <2>1. \A h \in Obj : InLocal(h) <=> ptr[h] \in Spot
    BY <1>2 DEF LocalFacts
  <2> QED BY <2>1 DEF At, AtOf
<1> QED BY <1>2, <1>3

\* The same in the next state.
LEMMA LocalIsNext == TypeOK' => LocalFacts' /\ AtFacts'
BY LocalIs, PTL

\* The addresses that a page sees.
LEMMA AtType ==
  ASSUME NEW f \in [Obj -> {None} \cup Place], NEW p \in LPage
  PROVE  /\ AtOf(f, p) \in Map
         /\ \A h \in Obj : AtOf(f, p)[h] # None <=> f[h] \in Spot /\ f[h][1] = p
         /\ \A h \in Obj : f[h] \in Spot /\ f[h][1] = p => AtOf(f, p)[h] = f[h][2]
<1>1. \A h \in Obj : f[h] \in Spot => f[h][2] \in Nat /\ f[h][2] # None
  BY NoneApart DEF Spot
<1> HIDE DEF Spot
<1> QED BY <1>1 DEF AtOf, Map

JobFacts ==
  \A t \in Thread : job[t] # None =>
    /\ job[t] \in Job /\ job[t].h \in Obj /\ job[t].page \in LPage
    /\ job[t].dst \in Block \cup {None} /\ job[t].md \in Nat /\ job[t].seen \in Int
    /\ job[t].step \in {"find", "count", "flag", "finish"}

\* What the fields of a call that is under way hold.
LEMMA JobIs == TypeOK => JobFacts
<1> SUFFICES ASSUME TypeOK, NEW t \in Thread, job[t] # None
             PROVE  /\ job[t] \in Job /\ job[t].h \in Obj /\ job[t].page \in LPage
                    /\ job[t].dst \in Block \cup {None} /\ job[t].md \in Nat
                    /\ job[t].seen \in Int
                    /\ job[t].step \in {"find", "count", "flag", "finish"}
  BY DEF JobFacts
<1>1. job[t] \in Job
  BY DEF TypeOK
<1> QED BY <1>1 DEF Job

\* The same in the next state.
LEMMA JobIsNext == TypeOK' => JobFacts'
BY JobIs, PTL

HeaderFacts ==
  \A b \in Block : header[b] # None => /\ header[b].who \in Obj
                                        /\ header[b].size \in Nat \ {0}

\* What the header of a block in use holds.
LEMMA HeaderIs == TypeOK => HeaderFacts
BY DEF TypeOK, Header, HeaderFacts

-----------------------------------------------------------------------------
(***************************************************************************)
(* What most calls leave alone, and what they change.                      *)
(***************************************************************************)
\* Steps that leave the pages and what points into them alone; calls may begin.
OutOfPages ==
  /\ lp' = lp
  /\ \A h \in Obj : ptr[h] \in Spot \/ ptr'[h] \in Spot => ptr'[h] = ptr[h]
  /\ \A t \in Thread : job'[t] # job[t] => /\ job[t] = None
                                           /\ job'[t] # None => job'[t].step = "find"

\* A step that leaves the pages and what points into them alone keeps PagesOK.
LEMMA PagesSame ==
  ASSUME TypeOK, TypeOK', JobsOK, PagesOK, OutOfPages
  PROVE  PagesOK'
<1>1. LocalFacts /\ AtFacts /\ LocalFacts' /\ AtFacts' /\ JobFacts /\ JobFacts'
  BY LocalIs, LocalIsNext, JobIs, JobIsNext
<1>2. \A p \in LPage : At(p)' = At(p)
  <2> SUFFICES ASSUME NEW p \in LPage PROVE At(p)' = At(p)
    OBVIOUS
  <2>1. At(p) = AtOf(ptr, p) /\ At(p)' = AtOf(ptr', p)
    BY <1>1 DEF AtFacts
  <2>2. \A h \in Obj : (ptr[h] \in Spot \/ ptr'[h] \in Spot) => ptr'[h] = ptr[h]
    BY DEF OutOfPages
  <2> HIDE DEF Spot
  <2>3. AtOf(ptr, p) = AtOf(ptr', p)
    BY <2>2 DEF AtOf
  <2> QED BY <2>1, <2>3
<1>3. ASSUME NEW p \in LPage PROVE PageOK(p)'
  <2>1. PageOK(p)
    BY DEF PagesOK
  <2>2. lp' = lp /\ At(p)' = At(p)
    BY <1>2 DEF OutOfPages
  <2> QED BY <2>1, <2>2 DEF PageOK
<1>4. \A t \in Thread : Writing(t) => job'[t] = job[t]
  BY NoneApart DEF OutOfPages, Writing
<1>5. ASSUME NEW h \in Obj, InLocal(h)' PROVE Listed(h)' \/ Leaving(h)'
  <2>1. ptr'[h] = ptr[h] /\ InLocal(h)
    BY <1>1, <1>5 DEF LocalFacts, OutOfPages
  <2>2. CASE Listed(h)
    BY <2>1, <2>2 DEF Listed, OutOfPages
  <2>3. CASE Leaving(h)
    BY <1>4, <2>3 DEF Leaving, Writing
  <2> QED BY <2>1, <2>2, <2>3 DEF PagesOK
<1>6. ASSUME NEW p \in LPage, NEW i \in 1 .. Len(lp'[p].mds),
             lp'[p].mds[i].who = None, lp'[p].mds[i].allocated
      PROVE  Fading(p, i)'
  <2>1. Fading(p, i)
    BY <1>6 DEF PagesOK, OutOfPages
  <2>2. PICK t \in Thread : job[t] # None /\ job[t].step = "flag" /\ job[t].page = p /\ job[t].md = i
    BY <2>1 DEF Fading
  <2>3. job'[t] = job[t]
    BY <1>4, <2>2 DEF Writing
  <2> QED BY <2>2, <2>3 DEF Fading
<1>7. ASSUME NEW t \in Thread, job'[t] # None, job'[t].step # "find" PROVE EntryOK(t)'
  <2>1. job'[t] = job[t]
    BY <1>7 DEF OutOfPages
  <2>2. EntryOK(t) /\ JobOK(t) /\ job[t].h \in Obj
    BY <1>1, <1>7, <2>1 DEF PagesOK, JobsOK, JobFacts
  <2>3. ptr'[job[t].h] = ptr[job[t].h]
    BY <1>1, <2>2 DEF JobOK, LocalFacts, OutOfPages
  <2> QED BY <2>1, <2>2, <2>3 DEF EntryOK, OutOfPages
<1> QED BY <1>3, <1>5, <1>6, <1>7 DEF PagesOK

\* A region for an object, whatever it had.
LEMMA RegionTaken ==
  ASSUME TypeOK, RegionsOK, NEW o \in Obj, NEW r \in Region, huge[r] = 0,
         NEW s \in Nat \ {0},
         addr' = [addr EXCEPT ![o] = r], huge' = [huge EXCEPT ![r] = s]
  PROVE  /\ RegionsOK' /\ addr' \in [Obj -> {None, "handle"} \cup Region]
         /\ huge' \in [Region -> Int]
<1>1. addr \in [Obj -> {None, "handle"} \cup Region] /\ huge \in [Region -> Int]
  BY DEF TypeOK
<1>2. \A q \in Obj : addr[q] # r
  BY DEF RegionsOK, IsHuge
<1>3. \A q \in Obj : addr'[q] = IF q = o THEN r ELSE addr[q]
  BY <1>1
<1>4. \A x \in Region : huge'[x] = IF x = r THEN s ELSE huge[x]
  BY <1>1
<1>5. \A q, w \in Obj : IsHuge(q)' /\ addr'[q] = addr'[w] => q = w
  BY <1>2, <1>3 DEF RegionsOK, IsHuge
<1>6. \A q \in Obj : IsHuge(q)' => huge'[addr'[q]] > 0
  BY <1>3, <1>4 DEF RegionsOK, IsHuge
<1>7. addr' \in [Obj -> {None, "handle"} \cup Region] /\ huge' \in [Region -> Int]
  BY <1>1
<1> QED BY <1>5, <1>6, <1>7 DEF RegionsOK

\* An object that has no region from now on.
LEMMA RegionLeft ==
  ASSUME TypeOK, RegionsOK, NEW o \in Obj, NEW v \in {None, "handle"},
         addr' = [addr EXCEPT ![o] = v],
         huge' = IF IsHuge(o) THEN [huge EXCEPT ![addr[o]] = 0] ELSE huge
  PROVE  /\ RegionsOK' /\ addr' \in [Obj -> {None, "handle"} \cup Region]
         /\ huge' \in [Region -> Int]
<1>1. addr \in [Obj -> {None, "handle"} \cup Region] /\ huge \in [Region -> Int]
  BY DEF TypeOK
<1>2. v \notin Region
  BY NoneApart, ApartAssumption
<1>3. \A q \in Obj : addr'[q] = IF q = o THEN v ELSE addr[q]
  BY <1>1
<1>4. \A x \in Region : huge'[x] = IF x = addr[o] THEN 0 ELSE huge[x]
  BY <1>1 DEF IsHuge
<1>5. \A q, w \in Obj : IsHuge(q)' /\ addr'[q] = addr'[w] => q = w
  BY <1>2, <1>3 DEF RegionsOK, IsHuge
<1>6. ASSUME NEW q \in Obj, IsHuge(q)' PROVE huge'[addr'[q]] > 0
  <2>1. q # o /\ addr'[q] = addr[q] /\ IsHuge(q)
    BY <1>2, <1>3, <1>6 DEF IsHuge
  <2>2. addr[q] # addr[o]
    BY <2>1 DEF RegionsOK
  <2> QED BY <1>4, <2>1, <2>2 DEF RegionsOK, IsHuge
<1>7. addr' \in [Obj -> {None, "handle"} \cup Region] /\ huge' \in [Region -> Int]
  BY <1>1 DEF IsHuge
<1> QED BY <1>5, <1>6, <1>7 DEF RegionsOK

\* A block or region that is free.
LEMMA OneIs ==
  ASSUME NEW S, S # {} PROVE One(S) \in S
BY DEF One

\* A step that leaves the pages alone keeps OwnersOK.
LEMMA StillOwners ==
  ASSUME OwnersOK, UNCHANGED local PROVE OwnersOK'
BY DEF OwnersOK, LocalOwners, local

\* A step that leaves the barrier alone keeps PhaseOK.
LEMMA StillPhase ==
  ASSUME PhaseOK, UNCHANGED stop, barrier = None \/ job' = job PROVE PhaseOK'
BY DEF PhaseOK, stop

\* Calls about huge objects only.
LEMMA NoHandle ==
  ASSUME Sane, NEW o \in Obj, NEW v, v # "handle", ~HasHandle(o),
         addr' = [addr EXCEPT ![o] = v], UNCHANGED <<ptr, header, local, job, stop>>,
         RegionsOK', addr' \in [Obj -> {None, "handle"} \cup Region],
         huge' \in [Region -> Int]
  PROVE  Sane'
<1>1. TypeOK' /\ TypeOK
  BY DEF Sane, TypeOK, local, stop
<1>2. \A q \in Obj : HasHandle(q)' <=> HasHandle(q)
  BY <1>1 DEF TypeOK, HasHandle
<1>3. BlocksOK'
  BY DEF Sane, BlocksOK, InBlock, Awaited
<1>4. HandlesOK'
  BY <1>2 DEF Sane, HandlesOK, InUse, Busy
<1>5. JobsOK'
  <2>1. JobFacts
    BY <1>1, JobIs
  <2>2. ASSUME NEW t \in Thread, job[t] # None PROVE JobOK(t)'
    BY <1>2, <2>1, <2>2 DEF Sane, JobsOK, JobOK, InLocal, InUse, InBlock, JobFacts
  <2> QED BY <2>2 DEF Sane, JobsOK, Writing
<1>6. OutOfPages
  BY DEF OutOfPages, local
<1>7. PagesOK'
  BY <1>1, <1>6, PagesSame DEF Sane
<1>8. PhaseOK' /\ OwnersOK'
  BY StillOwners, StillPhase DEF Sane
<1> QED BY <1>1, <1>3, <1>4, <1>5, <1>7, <1>8 DEF Sane

\* An object without a handle gets one, and a block.
LEMMA NewHandle ==
  ASSUME Sane, NEW o \in Obj, NEW b \in Block, NEW s \in Nat \ {0}, header[b] = None,
         ~HasHandle(o), ~Busy(o),
         header' = [header EXCEPT ![b] = [who |-> o, size |-> s]],
         ptr' = [ptr EXCEPT ![o] = b], addr' = [addr EXCEPT ![o] = "handle"],
         UNCHANGED <<local, job, stop>>,
         RegionsOK', addr' \in [Obj -> {None, "handle"} \cup Region],
         huge' \in [Region -> Int]
  PROVE  Sane'
<1>1. TypeOK /\ BlocksOK /\ HandlesOK /\ JobsOK
  BY DEF Sane
<1>2. TypeOK'
  <2>1. b \in Place /\ [who |-> o, size |-> s] \in Header
    BY DEF Place, Header
  <2>2. ptr' \in [Obj -> {None} \cup Place] /\ header' \in [Block -> {None} \cup Header]
    BY <1>1, <2>1 DEF TypeOK
  <2> QED BY <1>1, <2>2 DEF TypeOK, local, stop
<1>3. ~InUse(o) /\ ptr[o] = None
  BY <1>1 DEF HandlesOK, InUse
<1>4. \A q \in Obj : HasHandle(q)' <=> q = o \/ HasHandle(q)
  BY <1>1 DEF TypeOK, HasHandle
<1>5. \A q \in Obj : ptr'[q] = IF q = o THEN b ELSE ptr[q]
  BY <1>1 DEF TypeOK
<1>6. \A c \in Block : header'[c] = IF c = b THEN [who |-> o, size |-> s] ELSE header[c]
  BY <1>1 DEF TypeOK
<1>7. b # None /\ b \notin Spot /\ [who |-> o, size |-> s] # None
  BY NoneApart, BlocksAndSpots, PlacesApart DEF Header
<1>8. BlocksOK'
  <2>1. ASSUME NEW h \in Obj, ptr'[h] \in Block
        PROVE  header'[ptr'[h]] # None /\ header'[ptr'[h]].who = h
    BY <1>1, <1>5, <1>6, <1>7, <2>1 DEF BlocksOK, InBlock
  <2>2. ASSUME NEW c \in Block, header'[c] # None
        PROVE  ptr'[header'[c].who] = c \/ Awaited(c)'
    <3>1. CASE c = b
      BY <1>5, <1>6, <3>1
    <3>2. CASE c # b
      <4>1. header'[c] = header[c] /\ header[c] # None /\ header[c].who \in Obj
        BY <1>1, <1>6, <2>2, <3>2, HeaderIs DEF HeaderFacts
      <4>2. CASE ptr[header[c].who] = c
        <5>1. header[c].who # o
          BY <1>3, <4>2, BlocksAndSpots
        <5> QED BY <1>5, <4>1, <4>2, <5>1
      <4>3. CASE Awaited(c)
        BY <4>1, <4>3 DEF Awaited
      <4> QED BY <1>1, <4>1, <4>2, <4>3 DEF BlocksOK
    <3> QED BY <3>1, <3>2
  <2> QED BY <2>1, <2>2 DEF BlocksOK, InBlock
<1>9. HandlesOK'
  BY <1>1, <1>4, <1>5, <1>7 DEF HandlesOK, InUse, Busy
<1>10. JobsOK'
  <2>1. JobFacts /\ LocalFacts
    BY <1>1, JobIs, LocalIs
  <2>2. ASSUME NEW t \in Thread, job[t] # None PROVE JobOK(t)'
    <3>1. JobOK(t) /\ job[t].h \in Obj /\ job[t].h # o /\ job[t].dst \in Block \cup {None}
      BY <1>1, <2>1, <2>2 DEF JobsOK, JobFacts, Busy
    <3>2. ptr'[job[t].h] = ptr[job[t].h] /\ (HasHandle(job[t].h)' <=> HasHandle(job[t].h))
      BY <1>4, <1>5, <3>1
    <3>3. job[t].dst # None /\ header[job[t].dst] # None => header'[job[t].dst] = header[job[t].dst]
      BY <1>6, <3>1
    <3> QED BY <3>1, <3>2, <3>3 DEF JobOK, InLocal, InUse, InBlock
  <2> QED BY <1>1, <2>2 DEF JobsOK, Writing
<1>11. OutOfPages
  <2>1. ptr[o] \notin Spot
    BY <1>3, PlacesApart
  <2> QED BY <1>3, <1>5, <1>7, <2>1, PlacesApart DEF OutOfPages, local
<1>12. PagesOK' /\ PhaseOK' /\ OwnersOK'
  BY <1>1, <1>2, <1>11, PagesSame, StillOwners, StillPhase DEF Sane
<1> QED BY <1>2, <1>8, <1>9, <1>10, <1>12 DEF Sane

\* The memory of an object with a handle is released: at once if it is a block.
\* What the mapping points to then, dst, has been prepared.
LEMMA BlockReleased ==
  ASSUME Sane, NEW o \in Obj, NEW dst \in Block \cup {None}, NEW s \in Nat \ {0},
         HasHandle(o), ~Busy(o), InBlock(o), dst # None => header[dst] = None,
         header' = [(IF dst = None THEN header
                     ELSE [header EXCEPT ![dst] = [who |-> o, size |-> s]])
                      EXCEPT ![ptr[o]] = None],
         ptr' = [ptr EXCEPT ![o] = dst],
         \A q \in Obj : HasHandle(q)' <=> (IF q = o THEN dst # None ELSE HasHandle(q)),
         UNCHANGED <<local, job, stop>>,
         RegionsOK', addr' \in [Obj -> {None, "handle"} \cup Region],
         huge' \in [Region -> Int]
  PROVE  Sane'
<1>1. TypeOK /\ BlocksOK /\ HandlesOK /\ JobsOK
  BY DEF Sane
<1>2. TypeOK'
  <2>1. dst \in {None} \cup Place /\ [who |-> o, size |-> s] \in Header
    BY DEF Place, Header
  <2>2. ptr' \in [Obj -> {None} \cup Place] /\ header' \in [Block -> {None} \cup Header]
    BY <1>1, <2>1 DEF TypeOK
  <2> QED BY <1>1, <2>2 DEF TypeOK, local, stop
<1>3. ptr[o] \in Block /\ header[ptr[o]] # None /\ header[ptr[o]].who = o /\ dst # ptr[o]
  BY <1>1, BlocksAndSpots DEF BlocksOK, InBlock
<1>4. \A q \in Obj : ptr'[q] = IF q = o THEN dst ELSE ptr[q]
  BY <1>1 DEF TypeOK
<1>5. /\ header'[ptr[o]] = None
      /\ \A c \in Block : c # ptr[o] /\ c # dst => header'[c] = header[c]
      /\ dst \in Block => header'[dst] # None /\ header'[dst].who = o
  <2>1. [who |-> o, size |-> s] # None
    BY NoneApart DEF Header
  <2>2. [who |-> o, size |-> s].who = o
    OBVIOUS
  <2>3. dst \in Block => header'[dst] = [who |-> o, size |-> s]
    BY <1>1, <1>3, BlocksAndSpots DEF TypeOK
  <2>4. /\ header'[ptr[o]] = None
        /\ \A c \in Block : c # ptr[o] /\ c # dst => header'[c] = header[c]
    BY <1>1, <1>3 DEF TypeOK
  <2> QED BY <2>1, <2>2, <2>3, <2>4
<1>6. [who |-> o, size |-> s] # None /\ dst \notin Spot /\ ptr[o] \notin Spot /\ None \notin Spot
  BY <1>3, NoneApart, BlocksAndSpots, PlacesApart DEF Header, Place, Spot
<1>7. BlocksOK'
  <2>1. ASSUME NEW h \in Obj, ptr'[h] \in Block
        PROVE  header'[ptr'[h]] # None /\ header'[ptr'[h]].who = h
    <3>1. CASE h = o
      BY <1>4, <1>5, <2>1, <3>1
    <3>2. CASE h # o
      <4>1. ptr'[h] = ptr[h] /\ header[ptr[h]] # None /\ header[ptr[h]].who = h
        BY <1>1, <1>4, <2>1, <3>2 DEF BlocksOK, InBlock
      <4>2. ptr[h] # ptr[o] /\ ptr[h] # dst
        BY <1>3, <2>1, <3>2, <4>1, BlocksAndSpots
      <4>3. header'[ptr[h]] = header[ptr[h]]
        BY <1>5, <2>1, <4>1, <4>2
      <4> QED BY <4>1, <4>3
    <3> QED BY <3>1, <3>2
  <2>2. ASSUME NEW c \in Block, header'[c] # None
        PROVE  ptr'[header'[c].who] = c \/ Awaited(c)'
    <3>1. CASE c = dst
      BY <1>3, <1>4, <1>5, <3>1
    <3>2. CASE c # dst
      <4>1. header'[c] = header[c] /\ header[c] # None /\ header[c].who \in Obj /\ c # ptr[o]
        BY <1>1, <1>5, <2>2, <3>2, HeaderIs DEF HeaderFacts
      <4>2. CASE ptr[header[c].who] = c
        BY <1>4, <4>1, <4>2
      <4>3. CASE Awaited(c)
        BY <4>1, <4>3 DEF Awaited
      <4> QED BY <1>1, <4>1, <4>2, <4>3 DEF BlocksOK
    <3> QED BY <3>1, <3>2
  <2> QED BY <2>1, <2>2 DEF BlocksOK, InBlock
<1>8. HandlesOK'
  BY <1>1, <1>4 DEF HandlesOK, InUse, Busy
<1>9. JobsOK'
  <2>1. JobFacts /\ LocalFacts
    BY <1>1, JobIs, LocalIs
  <2>2. ASSUME NEW t \in Thread, job[t] # None PROVE JobOK(t)'
    <3>1. JobOK(t) /\ job[t].h \in Obj /\ job[t].h # o /\ job[t].dst \in Block \cup {None}
      BY <1>1, <2>1, <2>2 DEF JobsOK, JobFacts, Busy
    <3>2. ptr'[job[t].h] = ptr[job[t].h] /\ (HasHandle(job[t].h)' <=> HasHandle(job[t].h))
      BY <1>4, <3>1
    <3>3. job[t].dst # None /\ header[job[t].dst] # None /\ header[job[t].dst].who = job[t].h
            => header'[job[t].dst] = header[job[t].dst]
      BY <1>3, <1>5, <3>1
    <3> QED BY <3>1, <3>2, <3>3 DEF JobOK, InLocal, InUse, InBlock
  <2> QED BY <1>1, <2>2 DEF JobsOK, Writing
<1>10. OutOfPages
  BY <1>4, <1>6 DEF OutOfPages, local
<1>11. PagesOK' /\ PhaseOK' /\ OwnersOK'
  BY <1>1, <1>2, <1>10, PagesSame, StillOwners, StillPhase DEF Sane
<1> QED BY <1>2, <1>7, <1>8, <1>9, <1>11 DEF Sane

\* A job begins if it is in a locality page.
LEMMA LocalReleased ==
  ASSUME Sane, NEW t \in Thread, NEW o \in Obj, NEW dst \in Block \cup {None},
         NEW s \in Nat \ {0}, HasHandle(o), ~Busy(o), InLocal(o), barrier = None, job[t] = None,
         dst # None => header[dst] = None,
         header' = (IF dst = None THEN header
                    ELSE [header EXCEPT ![dst] = [who |-> o, size |-> s]]),
         job' = [job EXCEPT ![t] = [h |-> o, page |-> ptr[o][1], dst |-> dst,
                                    step |-> "find", md |-> 0, seen |-> 0]],
         \A q \in Obj : HasHandle(q)' <=> (IF q = o THEN dst # None ELSE HasHandle(q)),
         UNCHANGED <<ptr, lp, lowner, tcpage, stop>>,
         lmem' = [p \in LPage |-> [u \in 0 .. PageUnits - 1 |-> lmem'[p][u]]],
         RegionsOK', addr' \in [Obj -> {None, "handle"} \cup Region],
         huge' \in [Region -> Int]
  PROVE  Sane'
<1> DEFINE J == [h |-> o, page |-> ptr[o][1], dst |-> dst,
                 step |-> "find", md |-> 0, seen |-> 0]
<1>1. TypeOK /\ BlocksOK /\ HandlesOK /\ JobsOK
  BY DEF Sane
<1>2. ptr[o] \in Spot /\ ptr[o][1] \in LPage
  BY <1>1, LocalIs, PlacesApart DEF LocalFacts
<1>3. J \in Job /\ J # None
  BY <1>2, NoneApart DEF Job
<1>4. TypeOK'
  <2>1. [who |-> o, size |-> s] \in Header
    BY DEF Header
  <2>2. header' \in [Block -> {None} \cup Header] /\ job' \in [Thread -> Job \cup {None}]
    BY <1>1, <1>3, <2>1 DEF TypeOK
  <2> QED BY <1>1, <2>2 DEF TypeOK, stop
<1>5. \A u \in Thread : job'[u] = IF u = t THEN J ELSE job[u]
  BY <1>1 DEF TypeOK
<1>6. J.h = o /\ J.page = ptr[o][1] /\ J.dst = dst /\ J.step = "find"
  OBVIOUS
<1> HIDE DEF J
<1>7. \A c \in Block : header'[c] = IF c = dst THEN [who |-> o, size |-> s] ELSE header[c]
  BY <1>1, BlocksAndSpots DEF TypeOK
<1>8. [who |-> o, size |-> s] # None /\ dst \notin Spot
  BY NoneApart, BlocksAndSpots, PlacesApart DEF Header, Spot
<1>9. BlocksOK'
  <2>1. ASSUME NEW h \in Obj, ptr'[h] \in Block
        PROVE  header'[ptr'[h]] # None /\ header'[ptr'[h]].who = h
    <3>1. ptr'[h] = ptr[h] /\ header[ptr[h]] # None /\ header[ptr[h]].who = h
      BY <1>1, <2>1 DEF BlocksOK, InBlock
    <3> QED BY <1>7, <2>1, <3>1, BlocksAndSpots
  <2>2. ASSUME NEW c \in Block, header'[c] # None
        PROVE  ptr'[header'[c].who] = c \/ Awaited(c)'
    <3>1. CASE c = dst
      <4>1. header'[c].who = o
        BY <1>7, <3>1
      <4> QED BY <1>3, <1>5, <1>6, <3>1, <4>1 DEF Awaited
    <3>2. CASE c # dst
      <4>1. header'[c] = header[c] /\ header[c] # None
        BY <1>7, <2>2, <3>2
      <4>2. CASE Awaited(c)
        BY <1>5, <4>1, <4>2 DEF Awaited
      <4> QED BY <1>1, <4>1, <4>2 DEF BlocksOK
    <3> QED BY <3>1, <3>2
  <2> QED BY <2>1, <2>2 DEF BlocksOK, InBlock
<1>10. HandlesOK'
  <2>1. Busy(o)' /\ InUse(o) /\ \A h \in Obj : Busy(h) => Busy(h)'
    BY <1>1, <1>3, <1>5, <1>6 DEF Busy, HandlesOK
  <2> QED BY <1>1, <2>1 DEF HandlesOK, InUse
<1>11. JobsOK'
  <2>1. JobFacts /\ LocalFacts
    BY <1>1, JobIs, LocalIs
  <2>2. ASSUME NEW u \in Thread, job'[u] # None PROVE JobOK(u)'
    <3>1. CASE u = t
      BY <1>2, <1>5, <1>6, <1>7, <1>8, <3>1 DEF JobOK, InLocal, InUse, InBlock
    <3>2. CASE u # t
      <4>0. job'[u] = job[u] /\ job[u] # None
        BY <1>5, <2>2, <3>2
      <4>1. JobOK(u) /\ job[u].h \in Obj /\ job[u].h # o /\ job[u].dst \in Block \cup {None}
        BY <1>1, <2>1, <4>0 DEF JobsOK, JobFacts, Busy
      <4>2. HasHandle(job[u].h)' <=> HasHandle(job[u].h)
        BY <4>0, <4>1 DEF HasHandle
      <4>3. job[u].dst # None /\ header[job[u].dst] # None => header'[job[u].dst] = header[job[u].dst]
        BY <1>7, <4>1
      <4> QED BY <4>0, <4>1, <4>2, <4>3 DEF JobOK, InLocal, InUse, InBlock
    <3> QED BY <3>1, <3>2
  <2>3. \A u \in Thread : job[u] # None => job[u].h # o
    BY DEF Busy
  <2>4. \A u \in Thread : Writing(u)' => u # t /\ Writing(u) /\ job'[u] = job[u]
    BY <1>5, <1>6 DEF Writing
  <2>5. \A u, v \in Thread : job'[u] # None /\ job'[v] # None /\ job'[u].h = job'[v].h => u = v
    BY <1>1, <1>5, <1>6, <2>3 DEF JobsOK
  <2>6. \A u, v \in Thread :
          Writing(u)' /\ Writing(v)' /\ job'[u].page = job'[v].page /\ job'[u].md = job'[v].md => u = v
    BY <1>1, <2>4 DEF JobsOK
  <2> QED BY <2>2, <2>5, <2>6 DEF JobsOK
<1>12. OutOfPages
  BY <1>5, <1>6 DEF OutOfPages
<1>13. OwnersOK' /\ PhaseOK'
  BY StillPhase DEF Sane, OwnersOK, LocalOwners
<1>14. PagesOK'
  BY <1>1, <1>4, <1>12, PagesSame DEF Sane
<1> QED BY <1>4, <1>9, <1>10, <1>11, <1>13, <1>14 DEF Sane

\* The end of hfree and hrealloc of a handle.
LEMMA HandleReleased ==
  ASSUME Sane, NEW t \in Thread, NEW o \in Obj, NEW dst \in Block \cup {None},
         NEW s \in Nat \ {0}, HasHandle(o), Ready(t, o),
         dst # None => header[dst] = None,
         Release(t, o, dst), ForgetLocal(o),
         header' = Emptied(o, IF dst = None THEN header
                              ELSE [header EXCEPT ![dst] = [who |-> o, size |-> s]]),
         \A q \in Obj : HasHandle(q)' <=> (IF q = o THEN dst # None ELSE HasHandle(q)),
         UNCHANGED <<lp, lowner, tcpage, stop>>,
         RegionsOK', addr' \in [Obj -> {None, "handle"} \cup Region],
         huge' \in [Region -> Int]
  PROVE  Sane'
<1>1. TypeOK /\ HandlesOK /\ LocalFacts
  BY LocalIs DEF Sane
<1>2. barrier = None /\ job[t] = None /\ ~Busy(o)
  BY DEF Ready, Busy
<1>3. InBlock(o) \/ InLocal(o)
  BY <1>1 DEF HandlesOK, LocalFacts
<1>4. CASE InBlock(o)
  <2>1. /\ header' = [(IF dst = None THEN header
                       ELSE [header EXCEPT ![dst] = [who |-> o, size |-> s]])
                        EXCEPT ![ptr[o]] = None]
        /\ ptr' = [ptr EXCEPT ![o] = dst] /\ job' = job /\ lmem' = lmem
    BY <1>4 DEF Emptied, Release, ForgetLocal
  <2>2. UNCHANGED <<local, job, stop>>
    BY <2>1 DEF local
  <2> QED BY <1>2, <1>4, <2>1, <2>2, BlockReleased
<1>5. CASE InLocal(o)
  <2>1. ~InBlock(o)
    BY <1>1, <1>5 DEF LocalFacts
  <2>2. /\ header' = (IF dst = None THEN header
                      ELSE [header EXCEPT ![dst] = [who |-> o, size |-> s]])
        /\ job' = [job EXCEPT ![t] = [h |-> o, page |-> ptr[o][1], dst |-> dst,
                                      step |-> "find", md |-> 0, seen |-> 0]]
        /\ ptr' = ptr
    BY <2>1 DEF Emptied, Release
  <2>3. lmem' = [p \in LPage |-> [u \in 0 .. PageUnits - 1 |-> lmem'[p][u]]]
    <3> DEFINE a == ptr[o][2]
               n == SizeOf(o)
    <3>1. lmem' = [lmem EXCEPT ![ptr[o][1]] =
                     [u \in DOMAIN @ |-> IF u - a \in 0 .. n - 1 THEN None ELSE @[u]]]
      BY <2>1 DEF ForgetLocal
    <3> HIDE DEF a, n
    <3>2. lmem = [p \in LPage |-> [u \in 0 .. PageUnits - 1 |-> lmem[p][u]]]
      BY <1>1 DEF TypeOK
    <3>3. DOMAIN lmem = LPage /\ \A p \in LPage : DOMAIN lmem[p] = 0 .. PageUnits - 1
      BY <3>2
    <3> DEFINE X == [u \in 0 .. PageUnits - 1 |->
                       IF u - a \in 0 .. n - 1 THEN None ELSE lmem[ptr[o][1]][u]]
    <3>4. X = [u \in 0 .. PageUnits - 1 |-> X[u]]
      OBVIOUS
    <3>5. ptr[o][1] \in LPage
      BY <1>1, <1>5, PlacesApart DEF LocalFacts
    <3>6. lmem' = [lmem EXCEPT ![ptr[o][1]] = X]
      BY <3>1, <3>3, <3>5
    <3> HIDE DEF X
    <3>7. DOMAIN lmem' = LPage /\ lmem' = [p \in LPage |-> lmem'[p]]
      BY <3>3, <3>6
    <3>8. \A p \in LPage : lmem'[p] = [u \in 0 .. PageUnits - 1 |-> lmem'[p][u]]
      <4> SUFFICES ASSUME NEW p \in LPage
                   PROVE  lmem'[p] = [u \in 0 .. PageUnits - 1 |-> lmem'[p][u]]
        OBVIOUS
      <4>1. lmem'[p] = IF p = ptr[o][1] THEN X ELSE lmem[p]
        BY <3>3, <3>6
      <4>2. lmem[p] = [u \in 0 .. PageUnits - 1 |-> lmem[p][u]]
        BY <3>2
      <4> QED BY <3>4, <4>1, <4>2
    <3> QED BY <3>7, <3>8
  <2>4. UNCHANGED <<ptr, lp, lowner, tcpage, stop>>
    BY <2>2
  <2> QED BY <1>2, <1>5, <2>2, <2>3, <2>4, LocalReleased
<1> QED BY <1>3, <1>4, <1>5

\* No request is for nothing.
LEMMA SizesPositive ==
  /\ \A s \in SmallSize : s \in Nat \ {0}
  /\ \A s \in HugeSize : s \in Nat \ {0}
BY SizesAssumption

\* What the program holds is a handle, or the address of a huge object.
LEMMA AddrFacts ==
  TypeOK => \A o \in Obj :
    /\ addr[o] \in {None, "handle"} \cup Region
    /\ HasHandle(o) => addr[o] = "handle" /\ ~IsHuge(o)
    /\ IsHuge(o) => addr[o] \in Region /\ ~HasHandle(o)
    /\ addr[o] = None => ~HasHandle(o) /\ ~IsHuge(o)
<1>1. None \notin Region /\ None # "handle" /\ "handle" \notin Region
  BY NoneApart, ApartAssumption
<1>2. TypeOK => \A o \in Obj : addr[o] \in {None, "handle"} \cup Region
  BY DEF TypeOK
<1> QED BY <1>1, <1>2 DEF HasHandle, IsHuge

\* The block a sized page gives is free.
LEMMA FreeBlockIs ==
  ASSUME NEW c, FreeBlocks(c) # {}
  PROVE  One(FreeBlocks(c)) \in Block /\ header[One(FreeBlocks(c))] = None
BY OneIs DEF FreeBlocks

\* The region mmap() gives is free.
LEMMA FreeRegionIs ==
  ASSUME FreeRegions # {}
  PROVE  One(FreeRegions) \in Region /\ huge[One(FreeRegions)] = 0
BY OneIs DEF FreeRegions

\* Who has a handle after one object's address has changed.
LEMMA HandleSet ==
  ASSUME TypeOK, NEW o \in Obj, NEW v, addr' = [addr EXCEPT ![o] = v]
  PROVE  \A q \in Obj : HasHandle(q)' <=> (IF q = o THEN v = "handle" ELSE HasHandle(q))
BY DEF TypeOK, HasHandle

-----------------------------------------------------------------------------
(***************************************************************************)
(* halloc, hrealloc and hfree.                                             *)
(***************************************************************************)
\* halloc of a small object keeps the invariant.
LEMMA HallocSmallKeeps ==
  ASSUME Sane, NEW t \in Thread, NEW o \in Obj, HallocSmall(t, o) PROVE Sane'
<1>1. TypeOK /\ RegionsOK /\ ~HasHandle(o) /\ ~IsHuge(o) /\ ~Busy(o)
  BY AddrFacts DEF Sane, HallocSmall, Ready, Busy
<1>2. PICK s \in SmallSize, b \in Block :
        /\ header[b] = None /\ header' = [header EXCEPT ![b] = [who |-> o, size |-> s]]
        /\ ptr' = [ptr EXCEPT ![o] = b] /\ addr' = [addr EXCEPT ![o] = "handle"]
  BY FreeBlockIs DEF HallocSmall
<1>3. UNCHANGED <<huge, local, job, stop>>
  BY DEF HallocSmall
<1>4. /\ RegionsOK' /\ addr' \in [Obj -> {None, "handle"} \cup Region]
      /\ huge' \in [Region -> Int]
  BY <1>1, <1>2, <1>3, RegionLeft
<1>5. UNCHANGED <<local, job, stop>>
  BY <1>3
<1> QED BY <1>1, <1>2, <1>4, <1>5, SizesPositive, NewHandle

\* hrealloc of a huge object to a small size keeps it.
LEMMA HugeToHandleKeeps ==
  ASSUME Sane, NEW t \in Thread, NEW o \in Obj, HugeToHandle(t, o) PROVE Sane'
<1>1. TypeOK /\ RegionsOK /\ ~HasHandle(o) /\ IsHuge(o) /\ ~Busy(o)
  BY AddrFacts DEF Sane, HugeToHandle, Ready, Busy
<1>2. PICK s \in SmallSize, b \in Block :
        /\ header[b] = None /\ header' = [header EXCEPT ![b] = [who |-> o, size |-> s]]
        /\ ptr' = [ptr EXCEPT ![o] = b] /\ addr' = [addr EXCEPT ![o] = "handle"]
        /\ huge' = [huge EXCEPT ![addr[o]] = 0]
  BY FreeBlockIs DEF HugeToHandle
<1>3. UNCHANGED <<local, job, stop>>
  BY DEF HugeToHandle
<1>4. /\ RegionsOK' /\ addr' \in [Obj -> {None, "handle"} \cup Region]
      /\ huge' \in [Region -> Int]
  BY <1>1, <1>2, <1>3, RegionLeft
<1>5. UNCHANGED <<local, job, stop>>
  BY <1>3
<1> QED BY <1>1, <1>2, <1>4, <1>5, SizesPositive, NewHandle

\* halloc of a huge object keeps it.
LEMMA HallocHugeKeeps ==
  ASSUME Sane, NEW t \in Thread, NEW o \in Obj, HallocHuge(t, o) PROVE Sane'
<1>1. TypeOK /\ RegionsOK /\ ~HasHandle(o) /\ ~IsHuge(o)
  BY AddrFacts DEF Sane, HallocHuge
<1>2. PICK s \in HugeSize, r \in Region :
        /\ huge[r] = 0 /\ huge' = [huge EXCEPT ![r] = s] /\ addr' = [addr EXCEPT ![o] = r]
  BY FreeRegionIs DEF HallocHuge
<1>3. UNCHANGED <<ptr, header, local, job, stop>>
  BY DEF HallocHuge
<1>4. /\ RegionsOK' /\ addr' \in [Obj -> {None, "handle"} \cup Region]
      /\ huge' \in [Region -> Int]
  BY <1>1, <1>2, <1>3, SizesPositive, RegionTaken
<1>5. UNCHANGED <<ptr, header, local, job, stop>> /\ \A x \in Region : x # "handle"
  BY <1>3, ApartAssumption
<1> QED BY <1>1, <1>2, <1>4, <1>5, NoHandle

\* hrealloc of a huge object to a huge size keeps it: the old region is given up.
LEMMA HugeToHugeKeeps ==
  ASSUME Sane, NEW t \in Thread, NEW o \in Obj, HugeToHuge(t, o) PROVE Sane'
<1>1. TypeOK /\ RegionsOK /\ ~HasHandle(o) /\ IsHuge(o)
  BY AddrFacts DEF Sane, HugeToHuge
<1>2. PICK s \in HugeSize, r \in Region :
        /\ huge[r] = 0 /\ huge' = [huge EXCEPT ![r] = s] /\ addr' = [addr EXCEPT ![o] = r]
  BY FreeRegionIs DEF HugeToHuge
<1>3. UNCHANGED <<ptr, header, local, job, stop>>
  BY DEF HugeToHuge
<1>4. /\ RegionsOK' /\ addr' \in [Obj -> {None, "handle"} \cup Region]
      /\ huge' \in [Region -> Int]
  BY <1>1, <1>2, <1>3, SizesPositive, RegionTaken
<1>5. \A x \in Region : x # "handle"
  BY ApartAssumption
<1> QED BY <1>1, <1>2, <1>3, <1>4, <1>5, NoHandle

\* hfree of a huge object keeps it.
LEMMA HfreeHugeKeeps ==
  ASSUME Sane, NEW t \in Thread, NEW o \in Obj, HfreeHuge(t, o) PROVE Sane'
<1>1. TypeOK /\ RegionsOK /\ ~HasHandle(o) /\ IsHuge(o)
  BY AddrFacts DEF Sane, HfreeHuge
<1>2. huge' = [huge EXCEPT ![addr[o]] = 0] /\ addr' = [addr EXCEPT ![o] = None]
  BY DEF HfreeHuge, Dropped
<1>3. UNCHANGED <<ptr, header, local, job, stop>>
  BY DEF HfreeHuge
<1>4. /\ RegionsOK' /\ addr' \in [Obj -> {None, "handle"} \cup Region]
      /\ huge' \in [Region -> Int]
  BY <1>1, <1>2, <1>3, RegionLeft
<1> QED BY <1>1, <1>2, <1>3, <1>4, NoneApart, NoHandle

\* hrealloc of a handle to a huge size keeps it.
LEMMA HandleToHugeKeeps ==
  ASSUME Sane, NEW t \in Thread, NEW o \in Obj, HandleToHuge(t, o) PROVE Sane'
<1>1. TypeOK /\ RegionsOK /\ HasHandle(o) /\ ~IsHuge(o) /\ Ready(t, o)
  BY AddrFacts DEF Sane, HandleToHuge
<1>2. PICK s \in HugeSize, r \in Region :
        /\ huge[r] = 0 /\ huge' = [huge EXCEPT ![r] = s] /\ addr' = [addr EXCEPT ![o] = r]
        /\ header' = Emptied(o, header) /\ Release(t, o, None)
  BY FreeRegionIs DEF HandleToHuge
<1>3. UNCHANGED <<lp, lowner, tcpage, stop>> /\ ForgetLocal(o)
  BY DEF HandleToHuge
<1>4. /\ RegionsOK' /\ addr' \in [Obj -> {None, "handle"} \cup Region]
      /\ huge' \in [Region -> Int]
  BY <1>1, <1>2, <1>3, SizesPositive, RegionTaken
<1>5. \A q \in Obj : HasHandle(q)' <=> (IF q = o THEN None # None ELSE HasHandle(q))
  BY <1>1, <1>2, HandleSet, ApartAssumption
<1>6. /\ UNCHANGED <<lp, lowner, tcpage, stop>> /\ None \in Block \cup {None}
      /\ header' = Emptied(o, IF None = None THEN header
                              ELSE [header EXCEPT ![None] = [who |-> o, size |-> s]])
  BY <1>2, <1>3
<1>7. s \in Nat \ {0}
  BY SizesPositive
<1> QED BY <1>1, <1>2, <1>3, <1>4, <1>5, <1>6, <1>7, HandleReleased

\* hfree of a handle keeps it.
LEMMA HfreeKeeps ==
  ASSUME Sane, NEW t \in Thread, NEW o \in Obj, Hfree(t, o) PROVE Sane'
<1>1. TypeOK /\ RegionsOK /\ HasHandle(o) /\ ~IsHuge(o) /\ Ready(t, o)
  BY AddrFacts DEF Sane, Hfree
<1>2. /\ addr' = [addr EXCEPT ![o] = None] /\ huge' = huge
      /\ header' = Emptied(o, header) /\ Release(t, o, None)
  BY DEF Hfree, Dropped
<1>3. UNCHANGED <<lp, lowner, tcpage, stop>> /\ ForgetLocal(o)
  BY DEF Hfree
<1>4. /\ RegionsOK' /\ addr' \in [Obj -> {None, "handle"} \cup Region]
      /\ huge' \in [Region -> Int]
  BY <1>1, <1>2, <1>3, RegionLeft
<1>5. \A q \in Obj : HasHandle(q)' <=> (IF q = o THEN None # None ELSE HasHandle(q))
  BY <1>1, <1>2, HandleSet, NoneApart
<1>6. /\ UNCHANGED <<lp, lowner, tcpage, stop>> /\ None \in Block \cup {None}
      /\ header' = Emptied(o, IF None = None THEN header
                              ELSE [header EXCEPT ![None] = [who |-> o, size |-> 1]])
  BY <1>2, <1>3
<1>7. 1 \in Nat \ {0}
  OBVIOUS
<1> QED BY <1>1, <1>2, <1>3, <1>4, <1>5, <1>6, <1>7, HandleReleased

\* hrealloc of a handle to a small size keeps it.
LEMMA HandleToHandleKeeps ==
  ASSUME Sane, NEW t \in Thread, NEW o \in Obj, HandleToHandle(t, o) PROVE Sane'
<1>1. TypeOK /\ RegionsOK /\ HasHandle(o) /\ Ready(t, o)
  BY AddrFacts DEF Sane, HandleToHandle
<1>2. PICK s \in SmallSize, b \in Block :
        /\ header[b] = None /\ Release(t, o, b)
        /\ header' = Emptied(o, [header EXCEPT ![b] = [who |-> o, size |-> s]])
  BY FreeBlockIs DEF HandleToHandle
<1>3. UNCHANGED <<addr, huge, lp, lowner, tcpage, stop>> /\ ForgetLocal(o)
  BY DEF HandleToHandle
<1>4. /\ RegionsOK' /\ addr' \in [Obj -> {None, "handle"} \cup Region]
      /\ huge' \in [Region -> Int]
  BY <1>1, <1>3 DEF TypeOK, RegionsOK, IsHuge
<1>5. \A q \in Obj : HasHandle(q)' <=> (IF q = o THEN b # None ELSE HasHandle(q))
  BY <1>1, <1>3, BlocksAndSpots DEF HasHandle
<1>6. /\ UNCHANGED <<lp, lowner, tcpage, stop>> /\ b \in Block \cup {None}
      /\ header' = Emptied(o, IF b = None THEN header
                              ELSE [header EXCEPT ![b] = [who |-> o, size |-> s]])
  BY <1>2, <1>3, BlocksAndSpots
<1>7. s \in Nat \ {0}
  BY SizesPositive
<1> QED BY <1>1, <1>2, <1>3, <1>4, <1>5, <1>6, <1>7, HandleReleased

-----------------------------------------------------------------------------
(***************************************************************************)
(* The steps of a release on a locality page.                              *)
(***************************************************************************)
\* The entries and addresses of a page, and what they may be cited for.
LEMMA PageIs ==
  ASSUME TypeOK, PagesOK, NEW p \in LPage
  PROVE  /\ lp[p] \in PageType /\ lp[p].mds \in Seq(EntryType) /\ lp[p].bump \in Nat
         /\ lp[p].freed \in Int /\ At(p) \in Map /\ PageOK(p)
         /\ \A h \in Obj : At(p)[h] # None <=> InLocal(h) /\ ptr[h][1] = p
         /\ \A h \in Obj : InLocal(h) /\ ptr[h][1] = p => At(p)[h] = ptr[h][2]
         /\ Len(lp[p].mds) \in Nat
<1>1. lp[p] \in PageType
  BY DEF TypeOK
<1>2. lp[p].mds \in Seq(EntryType) /\ lp[p].bump \in Nat /\ lp[p].freed \in Int
  BY <1>1 DEF PageType
<1>3. LocalFacts /\ At(p) = AtOf(ptr, p) /\ ptr \in [Obj -> {None} \cup Place]
  BY LocalIs DEF AtFacts, TypeOK
<1>4. /\ At(p) \in Map
      /\ \A h \in Obj : At(p)[h] # None <=> InLocal(h) /\ ptr[h][1] = p
      /\ \A h \in Obj : InLocal(h) /\ ptr[h][1] = p => At(p)[h] = ptr[h][2]
  BY <1>3, AtType DEF LocalFacts
<1>5. PageOK(p)
  BY DEF PagesOK
<1>6. Len(lp[p].mds) \in Nat
  BY <1>2, EntryFacts
<1> QED BY <1>1, <1>2, <1>4, <1>5, <1>6

\* A step of a call that is under way.
LEMMA JobStep ==
  ASSUME Sane, NEW t \in Thread, job[t] # None, NEW J \in Job,
         J.h = job[t].h, J.page = job[t].page, J.dst = job[t].dst,
         job' = [job EXCEPT ![t] = J],
         UNCHANGED <<addr, ptr, header, huge, lmem, lowner, tcpage, stop>>,
         lp' \in [LPage -> PageType],
         \A p \in LPage : lp[p].mds = <<>> => lp'[p].mds = <<>>,
         J.step \in {"flag", "finish"} =>
           \A u \in Thread : Writing(u) /\ job[u].page = J.page /\ job[u].md = J.md => u = t,
         PagesOK'
  PROVE  Sane'
<1>1. TypeOK /\ BlocksOK /\ HandlesOK /\ JobsOK /\ PhaseOK /\ OwnersOK /\ JobFacts
  BY JobIs DEF Sane
<1>2. TypeOK'
  BY <1>1 DEF TypeOK, stop
<1>3. J # None /\ \A u \in Thread : job'[u] = IF u = t THEN J ELSE job[u]
  BY <1>1, NoneApart DEF TypeOK
<1>4. \A u \in Thread : /\ job'[u] # None <=> job[u] # None
                        /\ job[u] # None => /\ job'[u].h = job[u].h /\ job'[u].dst = job[u].dst
                                            /\ job'[u].page = job[u].page
  BY <1>3
<1>5. BlocksOK'
  <2>1. \A b \in Block : Awaited(b) => Awaited(b)'
    BY <1>4 DEF Awaited
  <2> QED BY <1>1, <2>1 DEF BlocksOK, InBlock
<1>6. HandlesOK'
  <2>1. \A h \in Obj : Busy(h) => Busy(h)'
    BY <1>4 DEF Busy
  <2> QED BY <1>1, <2>1 DEF HandlesOK, HasHandle, InUse
<1>7. RegionsOK'
  BY DEF Sane, RegionsOK, IsHuge
<1>8. JobsOK'
  <2>1. ASSUME NEW u \in Thread, job'[u] # None PROVE JobOK(u)'
    <3>1. JobOK(u)
      BY <1>1, <1>4, <2>1 DEF JobsOK
    <3> QED BY <1>4, <2>1, <3>1 DEF JobOK, InLocal, InUse, InBlock, HasHandle
  <2>2. \A u, v \in Thread : job'[u] # None /\ job'[v] # None /\ job'[u].h = job'[v].h => u = v
    BY <1>1, <1>4 DEF JobsOK
  <2>3. ASSUME NEW u \in Thread, NEW v \in Thread, Writing(u)', Writing(v)',
               job'[u].page = job'[v].page, job'[u].md = job'[v].md, u # v
        PROVE  FALSE
    <3>1. CASE u = t
      BY <1>3, <2>3, <3>1 DEF Writing
    <3>2. CASE v = t
      BY <1>3, <2>3, <3>2 DEF Writing
    <3>3. CASE u # t /\ v # t
      BY <1>1, <1>3, <2>3, <3>3 DEF Writing, JobsOK
    <3> QED BY <3>1, <3>2, <3>3
  <2> QED BY <2>1, <2>2, <2>3 DEF JobsOK
<1>9. PhaseOK'
  BY <1>1 DEF PhaseOK, stop
<1>10. OwnersOK'
  BY <1>1 DEF OwnersOK, LocalOwners
<1> QED BY <1>2, <1>5, <1>6, <1>7, <1>8, <1>9, <1>10 DEF Sane

\* What find_md's result makes of a call's record.
LEMMA JobFound ==
  ASSUME NEW j \in Job, NEW i \in Nat, NEW seen \in Int
  PROVE  [j EXCEPT !.md = i, !.step = "count", !.seen = seen]
           = [h |-> j.h, page |-> j.page, dst |-> j.dst, step |-> "count", md |-> i,
              seen |-> seen]
<1> DEFINE r == [j EXCEPT !.md = i, !.step = "count", !.seen = seen]
<1>1. r \in Job
  BY DEF Job
<1>2. \A x \in Job : x = [h |-> x.h, page |-> x.page, dst |-> x.dst, step |-> x.step,
                         md |-> x.md, seen |-> x.seen]
  BY DEF Job
<1>3. r.h = j.h /\ r.page = j.page /\ r.dst = j.dst /\ r.step = "count" /\ r.md = i
      /\ r.seen = seen
  BY DEF Job
<1> QED BY <1>1, <1>2, <1>3

\* find_md finds the entry of the call's object, or has met a half-written one.
LEMMA FindEntryKeeps ==
  ASSUME Sane, NEW t \in Thread, FindEntry(t) PROVE wild' \/ Sane'
<1> DEFINE p == job[t].page
           h == job[t].h
           i == FindMd(lp[p], At(p), ptr[h][2])
           J == [h |-> h, page |-> p, dst |-> job[t].dst, step |-> "count", md |-> i,
                 seen |-> lp[p].freed]
<1>1. /\ TypeOK /\ PagesOK /\ JobsOK /\ JobFacts /\ job[t] # None /\ job[t].step = "find"
      /\ UNCHANGED <<objs, store, local, stop>>
  BY JobIs DEF Sane, FindEntry, AtStep
<1>2. /\ job[t] \in Job /\ h \in Obj /\ p \in LPage /\ JobOK(t)
      /\ job[t].dst \in Block \cup {None}
  BY <1>1 DEF JobFacts, JobsOK
<1>3. ASSUME ~wild', i # 0, job' = [job EXCEPT ![t].md = i, ![t].step = "count", ![t].seen = lp[p].freed]
      PROVE  Sane'
  <2>1. InLocal(h) /\ ptr[h][1] = p
    BY <1>2 DEF JobOK
  <2>2. /\ lp[p].mds \in Seq(EntryType) /\ lp[p].bump \in Nat /\ lp[p].freed \in Int
        /\ EndToEnd(lp[p].mds, lp[p].bump, At(p)) /\ At(p)[h] = ptr[h][2]
        /\ lp[p].freed <= Taken(lp[p].mds, Nameless(lp[p].mds)) /\ Named(lp[p].mds, At(p))
        /\ Len(lp[p].mds) \in Nat
    BY <1>1, <1>2, <2>1, PageIs DEF PageOK
  <2>3. ~Leaving(h)
    BY <1>1 DEF Leaving, Writing, JobsOK
  <2>4. PICK k \in 1 .. Len(lp[p].mds) : lp[p].mds[k].who = h
    BY <1>1, <1>2, <2>1, <2>3 DEF PagesOK, Listed
  <2>5. Start(lp[p].mds, At(p), k) = ptr[h][2]
    BY <1>2, <2>2, <2>4, NoneApart DEF Start, GetData
  <2>6. i = k
    BY <2>2, <2>5, FindMdFinds
  <2>7. lp[p].mds[k].allocated
    BY <1>2, <2>2, <2>4, NoneApart DEF Named
  <2> HIDE DEF i
  <2>8. J \in Job /\ J # None
    BY <1>2, <2>2, <2>6, NoneApart DEF Job
  <2>9. job' = [job EXCEPT ![t] = J]
    <3>1. job[t] \in Job /\ i \in Nat /\ lp[p].freed \in Int
      BY <1>2, <2>2, <2>6
    <3>2. [job[t] EXCEPT !.md = i, !.step = "count", !.seen = lp[p].freed] = J
      BY <3>1, JobFound, Zenon
    <3>3. job' = [job EXCEPT ![t] = [job[t] EXCEPT !.md = i, !.step = "count",
                                                   !.seen = lp[p].freed]]
      BY <1>1, <1>3 DEF TypeOK
    <3> QED BY <3>2, <3>3
  <2>10. \A u \in Thread : job'[u] = IF u = t THEN J ELSE job[u]
    BY <1>1, <2>9 DEF TypeOK
  <2>11. J.h = h /\ J.page = p /\ J.dst = job[t].dst /\ J.step = "count" /\ J.md = k /\ J.seen = lp[p].freed
    BY <2>6
  <2> HIDE DEF J
  <2>12. /\ lp' = lp /\ ptr' = ptr
         /\ UNCHANGED <<addr, ptr, header, huge, lmem, lowner, tcpage, stop>>
    BY <1>1 DEF objs, store, local
  <2>13. \A o \in Obj : InLocal(o)' <=> InLocal(o)
    BY <2>12 DEF InLocal, InUse, InBlock
  <2>14. \A q \in LPage : At(q)' = At(q)
    BY <2>12 DEF At, InLocal, InUse, InBlock
  <2>15. \A u \in Thread : (Writing(u) => u # t /\ job'[u] = job[u])
    BY <1>1, <2>10 DEF Writing
  <2>16. \A u \in Thread : u # t => job'[u] = job[u]
    BY <2>10
  <2>17. PagesOK'
    <3>1. \A q \in LPage : PageOK(q)'
      BY <1>1, <2>12, <2>14 DEF PagesOK, PageOK
    <3>2. \A o \in Obj : InLocal(o)' => Listed(o)' \/ Leaving(o)'
      <4>1. \A o \in Obj : Leaving(o) => Leaving(o)'
        BY <2>15 DEF Leaving, Writing
      <4>2. \A o \in Obj : Listed(o) => Listed(o)'
        BY <2>12 DEF Listed
      <4> QED BY <1>1, <2>13, <4>1, <4>2 DEF PagesOK
    <3>3. ASSUME NEW q \in LPage, NEW x \in 1 .. Len(lp'[q].mds),
                 lp'[q].mds[x].who = None, lp'[q].mds[x].allocated
          PROVE  Fading(q, x)'
      <4>1. Fading(q, x)
        BY <1>1, <2>12, <3>3 DEF PagesOK
      <4> QED BY <1>1, <2>10, <4>1 DEF Fading
    <3>4. ASSUME NEW u \in Thread, job'[u] # None, job'[u].step # "find" PROVE EntryOK(u)'
      <4>1. CASE u = t
        BY <2>2, <2>4, <2>7, <2>10, <2>11, <2>12, <4>1 DEF EntryOK
      <4>2. CASE u # t
        <5>1. job'[u] = job[u]
          BY <2>16, <4>2
        <5> QED BY <1>1, <2>12, <3>4, <5>1 DEF PagesOK, EntryOK
      <4> QED BY <4>1, <4>2
    <3> QED BY <3>1, <3>2, <3>3, <3>4 DEF PagesOK
  <2>18. lp' \in [LPage -> PageType] /\ \A q \in LPage : lp[q].mds = <<>> => lp'[q].mds = <<>>
    BY <1>1, <2>12 DEF TypeOK
  <2> QED BY <1>1, <2>8, <2>9, <2>11, <2>12, <2>17, <2>18, JobStep
<1> QED BY <1>3 DEF FindEntry

\* Assignments to the fields of a page.
PutMds(r, x)   == [r EXCEPT !.mds = x]
PutFreed(r, x) == [r EXCEPT !.freed = x]

\* A page written out by its three fields.
IsPage(r, m, b, f) == r = [mds |-> m, bump |-> b, freed |-> f]

\* PutMds, for such a page, replaces the list of metadata and keeps the rest.
LEMMA PutRecord ==
  \A r, m, b, f, x : IsPage(r, m, b, f) => IsPage(PutMds(r, x), x, b, f)
<1> SUFFICES ASSUME NEW r, NEW m, NEW b, NEW f, NEW x, IsPage(r, m, b, f)
             PROVE  IsPage(PutMds(r, x), x, b, f)
  OBVIOUS
<1>1. PutMds([mds |-> m, bump |-> b, freed |-> f], x) =
        [mds |-> x, bump |-> b, freed |-> f]
  BY DEF PutMds
<1> QED BY <1>1, Zenon DEF IsPage

\* The same for the list of metadata and for bytes_freed.
LEMMA PutIs ==
  ASSUME NEW m, NEW b, NEW f, NEW x, NEW r, r = [mds |-> m, bump |-> b, freed |-> f]
  PROVE  /\ PutMds(r, x) = [mds |-> x, bump |-> b, freed |-> f]
         /\ PutFreed(r, x) = [mds |-> m, bump |-> b, freed |-> x]
<1>1. PutMds([mds |-> m, bump |-> b, freed |-> f], x) = [mds |-> x, bump |-> b, freed |-> f]
  BY DEF PutMds
<1>2. PutFreed([mds |-> m, bump |-> b, freed |-> f], x) = [mds |-> m, bump |-> b, freed |-> x]
  BY DEF PutFreed
<1> QED BY <1>1, <1>2, Zenon

\* The same for any page.
LEMMA PageFields ==
  ASSUME NEW r \in PageType, NEW x
  PROVE  /\ PutMds(r, x) = [mds |-> x, bump |-> r.bump, freed |-> r.freed]
         /\ PutFreed(r, x) = [mds |-> r.mds, bump |-> r.bump, freed |-> x]
<1> DEFINE m == r.mds
           b == r.bump
           f == r.freed
<1>1. r = [mds |-> m, bump |-> b, freed |-> f]
  BY DEF PageType
<1> HIDE DEF m, b, f
<1>2. /\ PutMds(r, x) = [mds |-> x, bump |-> b, freed |-> f]
      /\ PutFreed(r, x) = [mds |-> m, bump |-> b, freed |-> x]
  BY <1>1, PutIs
<1> QED BY <1>2 DEF m, b, f

\* What the assignments to the fields of an entry come to.
EntryPut(p, k, e, freed) ==
  lp' = [lp EXCEPT ![p] = [mds |-> [lp[p].mds EXCEPT ![k] = e], bump |-> lp[p].bump,
                           freed |-> freed]]

\* ClearFlag writes one entry.
LEMMA FlagPut ==
  ASSUME NEW t, ClearFlag(t), TypeOK, NEW p \in LPage, p = job[t].page,
         NEW k \in 1 .. Len(lp[p].mds), k = job[t].md,
         NEW e \in EntryType, e.who = lp[p].mds[k].who, e.raw = lp[p].mds[k].raw,
         e.allocated = FALSE, e.size = lp[p].mds[k].size
  PROVE  EntryPut(p, k, e, lp[p].freed)
<1>1. lp[p].mds \in Seq(EntryType) /\ lp[p] \in PageType
  BY DEF PageType, TypeOK
<1>2. lp[p].mds[k] \in EntryType
  BY <1>1, EntryFacts
<1>3. [lp[p].mds[k] EXCEPT !.allocated = FALSE] = e
  BY <1>2 DEF EntryType
<1>4. \A m : [lp[p] EXCEPT !.mds = m] = [mds |-> m, bump |-> lp[p].bump, freed |-> lp[p].freed]
  BY <1>1 DEF PageType
<1>5. lp' = [lp EXCEPT ![p].mds[k].allocated = FALSE]
  BY DEF ClearFlag
<1>6. [lp EXCEPT ![p].mds[k].allocated = FALSE] =
        [lp EXCEPT ![p] = [lp[p] EXCEPT !.mds =
                             [lp[p].mds EXCEPT ![k] = [lp[p].mds[k] EXCEPT !.allocated = FALSE]]]]
  OBVIOUS
<1> QED BY <1>3, <1>4, <1>5, <1>6, Zenon DEF EntryPut

\* PutAddress writes one entry and bytes_freed.
LEMMA AddressPut ==
  ASSUME NEW t, PutAddress(t), TypeOK, NEW p \in LPage, p = job[t].page,
         NEW k \in 1 .. Len(lp[p].mds), k = job[t].md, NEW a, a = ptr[job[t].h][2],
         NEW v \in Int, v = job[t].seen + lp[p].mds[k].size,
         NEW e \in EntryType, e.who = None, e.raw = a,
         e.allocated = lp[p].mds[k].allocated, e.size = lp[p].mds[k].size
  PROVE  EntryPut(p, k, e, v)
<1> DEFINE mds == lp[p].mds
           e1 == [mds[k] EXCEPT !.who = None]
           m1 == [mds EXCEPT ![k] = e1]
           m2 == [mds EXCEPT ![k] = e]
           P0 == [mds |-> mds, bump |-> lp[p].bump, freed |-> v]
           P1 == [mds |-> m1, bump |-> lp[p].bump, freed |-> v]
           P2 == [mds |-> m2, bump |-> lp[p].bump, freed |-> v]
           f0 == [lp EXCEPT ![p] = P0]
           f1 == [lp EXCEPT ![p] = P1]
           f2 == [lp EXCEPT ![p] = P2]
<1>1. mds \in Seq(EntryType) /\ lp[p] \in PageType /\ DOMAIN lp = LPage
  BY DEF PageType, TypeOK
<1>2. mds = [i \in 1 .. Len(mds) |-> mds[i]] /\ mds[k] \in EntryType
  BY <1>1, EntryFacts
<1>3. [e1 EXCEPT !.raw = a] = e
  BY <1>2 DEF EntryType
<1> HIDE DEF e1
<1>4. m1[k] = e1 /\ [m1 EXCEPT ![k] = e] = m2
  BY <1>2
<1> HIDE DEF m1, m2
<1>5. [lp EXCEPT ![p].freed = v] = f0
  <2>1. \A P \in PageType : [P EXCEPT !.freed = v] = [mds |-> P.mds, bump |-> P.bump, freed |-> v]
    BY PageFields DEF PutFreed
  <2>2. [lp EXCEPT ![p].freed = v] = [lp EXCEPT ![p] = [lp[p] EXCEPT !.freed = v]]
    OBVIOUS
  <2> QED BY <1>1, <2>1, <2>2, Zenon
<1>6. /\ f0[p] = P0 /\ f1[p] = P1
      /\ [f0 EXCEPT ![p] = P1] = f1 /\ [f1 EXCEPT ![p] = P2] = f2
      /\ P0.mds = mds /\ P1.mds = m1
  BY <1>1
<1>7. /\ \A m : [P0 EXCEPT !.mds = m] = [mds |-> m, bump |-> lp[p].bump, freed |-> v]
      /\ \A m : [P1 EXCEPT !.mds = m] = [mds |-> m, bump |-> lp[p].bump, freed |-> v]
  <2> DEFINE b == lp[p].bump
  <2>1. /\ P0 = [mds |-> mds, bump |-> b, freed |-> v]
        /\ P1 = [mds |-> m1, bump |-> b, freed |-> v]
    OBVIOUS
  <2>2. IsPage(P0, mds, b, v) /\ IsPage(P1, m1, b, v)
    BY <2>1 DEF IsPage
  <2> HIDE DEF P0, P1, mds, b
  <2>3. ASSUME NEW m
        PROVE  IsPage(PutMds(P0, m), m, b, v) /\ IsPage(PutMds(P1, m), m, b, v)
    BY <2>2, PutRecord, Zenon
  <2> QED BY <2>3 DEF b, PutMds, IsPage
<1>8. [f0 EXCEPT ![p].mds[k].who = None] = f1
  <2> HIDE DEF P0, f0, mds, f1
  <2>1. [f0 EXCEPT ![p].mds[k].who = None] =
          [f0 EXCEPT ![p] = [f0[p] EXCEPT !.mds =
                               [f0[p].mds EXCEPT ![k] = [f0[p].mds[k] EXCEPT !.who = None]]]]
    OBVIOUS
  <2>2. [f0 EXCEPT ![p].mds[k].who = None] =
          [f0 EXCEPT ![p] = [P0 EXCEPT !.mds =
                               [mds EXCEPT ![k] = [mds[k] EXCEPT !.who = None]]]]
    BY <1>6, <2>1, Zenon
  <2>3. [P0 EXCEPT !.mds = [mds EXCEPT ![k] = [mds[k] EXCEPT !.who = None]]] = P1
    BY <1>7 DEF m1, e1
  <2> HIDE DEF P1
  <2> QED BY <1>6, <2>2, <2>3, Zenon
<1>9. [f1 EXCEPT ![p].mds[k].raw = a] = f2
  <2> HIDE DEF P1, f1, f2, mds
  <2>1. [f1 EXCEPT ![p].mds[k].raw = a] =
          [f1 EXCEPT ![p] = [f1[p] EXCEPT !.mds =
                               [f1[p].mds EXCEPT ![k] = [f1[p].mds[k] EXCEPT !.raw = a]]]]
    OBVIOUS
  <2>2. [f1 EXCEPT ![p].mds[k].raw = a] =
          [f1 EXCEPT ![p] = [P1 EXCEPT !.mds = [m1 EXCEPT ![k] = [m1[k] EXCEPT !.raw = a]]]]
    BY <1>6, <2>1, Zenon
  <2>3. [m1 EXCEPT ![k] = [m1[k] EXCEPT !.raw = a]] = m2
    BY <1>3, <1>4, Zenon
  <2>4. [P1 EXCEPT !.mds = m2] = P2
    BY <1>7
  <2> HIDE DEF P2
  <2> QED BY <1>6, <2>2, <2>3, <2>4, Zenon
<1>10. [lp EXCEPT ![p].freed = v, ![p].mds[k].who = None, ![p].mds[k].raw = a] =
        [[[lp EXCEPT ![p].freed = v] EXCEPT ![p].mds[k].who = None] EXCEPT ![p].mds[k].raw = a]
  OBVIOUS
<1> HIDE DEF f0, f1, f2, P0, P1, mds
<1>11. [lp EXCEPT ![p].freed = v, ![p].mds[k].who = None, ![p].mds[k].raw = a] = f2
  BY <1>5, <1>8, <1>9, <1>10, Zenon
<1>12. lp' = f2
  BY <1>11, Zenon DEF PutAddress
<1> QED BY <1>12 DEF f2, P2, m2, mds, EntryPut

\* A call writes its entry: the address instead of the mapping, then the flag.
LEMMA EntryWritten ==
  ASSUME Sane, NEW t \in Thread, job[t] # None, job[t].step # "find",
         NEW p \in LPage, p = job[t].page, NEW k \in Nat, k = job[t].md,
         NEW h \in Obj, h = job[t].h, NEW mds, mds = lp[p].mds,
         NEW e \in EntryType, e.who = None, e.raw = ptr[h][2], e.size = mds[k].size,
         NEW J \in Job, J.h = h, J.page = p, J.dst = job[t].dst, J.md = k,
         J.step \in {"flag", "finish"}, J.step = "flag" <=> e.allocated,
         job' = [job EXCEPT ![t] = J],
         \A u \in Thread : Writing(u) /\ job[u].page = p /\ job[u].md = k => u = t,
         NEW v \in Int, EntryPut(p, k, e, v),
         v <= Taken(mds, Nameless(mds)) + (IF mds[k].who = None THEN 0 ELSE mds[k].size),
         UNCHANGED <<addr, ptr, header, huge, lmem, lowner, tcpage, stop>>
  PROVE  Sane'
<1> DEFINE new == [mds EXCEPT ![k] = e]
           N   == [mds |-> new, bump |-> lp[p].bump, freed |-> v]
<1>1. /\ TypeOK /\ PagesOK /\ JobsOK /\ JobFacts /\ EntryOK(t) /\ JobOK(t)
  BY JobIs DEF Sane, PagesOK, JobsOK
<1>2. /\ mds \in Seq(EntryType) /\ lp[p].bump \in Nat /\ lp[p].freed \in Int
      /\ EndToEnd(mds, lp[p].bump, At(p)) /\ Named(mds, At(p)) /\ At(p)[h] = ptr[h][2]
      /\ Len(mds) \in Nat /\ k \in 1 .. Len(mds)
      /\ mds[k].who \in {None, h} /\ GetData(mds[k], At(p)) = ptr[h][2]
  <2>1. InLocal(h) /\ ptr[h][1] = p
    BY <1>1 DEF JobOK
  <2>2. /\ mds \in Seq(EntryType) /\ lp[p].bump \in Nat /\ lp[p].freed \in Int
        /\ EndToEnd(mds, lp[p].bump, At(p)) /\ Named(mds, At(p)) /\ At(p)[h] = ptr[h][2]
        /\ Len(mds) \in Nat
    BY <1>1, <2>1, PageIs DEF PageOK
  <2>3. /\ k \in 1 .. Len(mds)
        /\ job[t].step = "count" => mds[k].who = h
        /\ job[t].step # "count" => mds[k].who = None /\ mds[k].raw = ptr[h][2]
    BY <1>1 DEF EntryOK
  <2> QED BY <2>2, <2>3, NoneApart DEF GetData
<1>3. Rewritten(new, mds, k, e)
  BY <1>2, RewrittenIs
<1> HIDE DEF new
<1>4. GetData(e, At(p)) = GetData(mds[k], At(p))
  BY <1>2 DEF GetData
<1>5. /\ EndToEnd(new, lp[p].bump, At(p))
      /\ Taken(new, Nameless(new)) =
           Taken(mds, Nameless(mds)) + (IF mds[k].who = None THEN 0 ELSE mds[k].size)
  <2>1. EndToEnd(new, lp[p].bump, At(p))
    BY <1>2, <1>3, <1>4, RewrittenKeeps
  <2>2. Taken(new, Nameless(new)) =
           Taken(mds, Nameless(mds)) + (IF mds[k].who = None THEN 0 ELSE mds[k].size)
    BY <1>2, <1>3, RewrittenTaken
  <2> QED BY <2>1, <2>2
<1>6. new \in Seq(EntryType) /\ Len(new) = Len(mds)
      /\ \A i \in 1 .. Len(mds) : new[i] = IF i = k THEN e ELSE mds[i]
  BY <1>3 DEF Rewritten
<1>7. Taken(new, Nameless(new)) \in Nat /\ Taken(mds, Nameless(mds)) \in Nat
      /\ Taken(mds, Nameless(mds)) <= Taken(new, Nameless(new))
  <2>1. Taken(new, Nameless(new)) \in Nat /\ Taken(mds, Nameless(mds)) \in Nat
    BY <1>2, <1>6, TakenType
  <2>2. (IF mds[k].who = None THEN 0 ELSE mds[k].size) \in Nat
    BY <1>2, EntryFacts
  <2>3. \A x, y, z \in Nat : x = y + z => y <= x
    OBVIOUS
  <2> QED BY <1>5, <2>1, <2>2, <2>3, Zenon
<1>8. Named(new, At(p))
  <2> SUFFICES ASSUME NEW i \in 1 .. Len(new), new[i].who # None
               PROVE  new[i].allocated /\ At(p)[new[i].who] # None
    BY DEF Named
  <2>1. i \in 1 .. Len(mds) /\ i # k /\ new[i] = mds[i]
    BY <1>6
  <2>2. mds[i].who # None
    BY <2>1
  <2> QED BY <1>2, <2>1, <2>2 DEF Named
<1>9. /\ lp'[p] = N /\ \A q \in LPage : q # p => lp'[q] = lp[q]
      /\ lp' \in [LPage -> PageType]
  <2>1. N \in PageType
    BY <1>2, <1>6 DEF PageType
  <2>2. lp' = [lp EXCEPT ![p] = N]
    BY DEF EntryPut, new
  <2> QED BY <1>1, <2>1, <2>2 DEF TypeOK
<1>10. J # None /\ \A u \in Thread : job'[u] = IF u = t THEN J ELSE job[u]
  BY <1>1, NoneApart DEF TypeOK
<1>11. N.mds = new /\ N.bump = lp[p].bump /\ N.freed = v
  OBVIOUS
<1>12. \A q \in LPage : At(q)' = At(q)
  BY DEF At, InLocal, InUse, InBlock
<1>13. \A o \in Obj : InLocal(o)' <=> InLocal(o)
  BY DEF InLocal, InUse, InBlock
<1>14. PagesOK'
  <2>1. ASSUME NEW q \in LPage PROVE PageOK(q)'
    <3>1. CASE q = p
      <4>1. /\ EndToEnd(lp'[q].mds, lp'[q].bump, At(q)') /\ Named(lp'[q].mds, At(q)')
            /\ lp'[q].freed <= Taken(lp'[q].mds, Nameless(lp'[q].mds))
        BY <1>5, <1>8, <1>9, <1>11, <1>12, <3>1
      <4> QED BY <4>1 DEF PageOK
    <3>2. CASE q # p
      BY <1>1, <1>9, <1>12, <3>2 DEF PagesOK, PageOK
    <3> QED BY <3>1, <3>2
  <2>2. ASSUME NEW o \in Obj, InLocal(o)' PROVE Listed(o)' \/ Leaving(o)'
    <3>1. InLocal(o) /\ ptr[o][1] \in LPage
      BY <1>1, <1>13, <2>2, LocalIs, PlacesApart DEF LocalFacts
    <3>2. CASE o = h
      BY <1>10, <3>2 DEF Leaving, Writing
    <3>3. CASE o # h /\ Leaving(o)
      <4>1. PICK u \in Thread : Writing(u) /\ job[u].h = o
        BY <3>3 DEF Leaving
      <4>2. u # t
        BY <3>3, <4>1
      <4> QED BY <1>10, <4>1, <4>2 DEF Leaving, Writing
    <3>4. CASE o # h /\ Listed(o)
      <4>1. CASE ptr[o][1] = p
        <5>1. PICK i \in 1 .. Len(mds) : mds[i].who = o
          BY <3>4, <4>1 DEF Listed
        <5>2. o # None
          BY NoneApart
        <5>3. i # k
          BY <1>2, <3>4, <5>1, <5>2
        <5>4. new[i].who = o /\ i \in 1 .. Len(new)
          BY <1>6, <5>1, <5>3
        <5>5. lp'[p].mds = new
          BY <1>9, <1>11
        <5> QED BY <4>1, <5>4, <5>5 DEF Listed
      <4>2. CASE ptr[o][1] # p
        BY <1>9, <3>1, <3>4, <4>2 DEF Listed
      <4> QED BY <4>1, <4>2
    <3> QED BY <1>1, <3>1, <3>2, <3>3, <3>4 DEF PagesOK
  <2>3. ASSUME NEW q \in LPage, NEW i \in 1 .. Len(lp'[q].mds),
               lp'[q].mds[i].who = None, lp'[q].mds[i].allocated
        PROVE  Fading(q, i)'
    <3>1. CASE q = p /\ i = k
      <4>0. new[k].allocated
        BY <1>9, <1>11, <2>3, <3>1
      <4>1. J.step = "flag"
        BY <1>2, <1>6, <4>0
      <4> QED BY <1>10, <3>1, <4>1 DEF Fading
    <3>2. CASE ~(q = p /\ i = k)
      <4>1. i \in 1 .. Len(lp[q].mds) /\ lp[q].mds[i].who = None /\ lp[q].mds[i].allocated
        <5>1. CASE q = p
          <6>1. i \in 1 .. Len(new) /\ new[i].who = None /\ new[i].allocated /\ i # k
            BY <1>9, <1>11, <2>3, <3>2, <5>1
          <6>2. i \in 1 .. Len(mds) /\ new[i] = mds[i]
            BY <1>6, <6>1
          <6> QED BY <5>1, <6>1, <6>2
        <5>2. CASE q # p
          BY <1>9, <2>3, <5>2
        <5> QED BY <5>1, <5>2
      <4>2. PICK u \in Thread : job[u] # None /\ job[u].step = "flag" /\ job[u].page = q /\ job[u].md = i
        BY <1>1, <4>1 DEF PagesOK, Fading
      <4>3. u # t
        BY <3>2, <4>2
      <4> QED BY <1>10, <4>2, <4>3 DEF Fading
    <3> QED BY <3>1, <3>2
  <2>4. ASSUME NEW u \in Thread, job'[u] # None, job'[u].step # "find" PROVE EntryOK(u)'
    <3>1. CASE u = t
      <4>1. new[k] = e /\ k \in 1 .. Len(new)
        BY <1>2, <1>6
      <4>2. lp'[p].mds = new /\ job'[u] = J /\ J.step # "count"
        BY <1>9, <1>10, <1>11, <3>1
      <4>3. /\ job'[u].h = h /\ job'[u].page = p /\ job'[u].md = k
            /\ job'[u].step \in {"flag", "finish"} /\ ptr' = ptr
        BY <4>2
      <4>4. job'[u].step = "flag" <=> e.allocated
        BY <4>2
      <4>5. /\ lp'[p].mds[k].who = None /\ lp'[p].mds[k].raw = ptr[h][2]
            /\ k \in 1 .. Len(lp'[p].mds)
        BY <4>1, <4>2
      <4>6. job'[u].step = "flag" <=> lp'[p].mds[k].allocated
        BY <4>1, <4>2, <4>4
      <4> QED BY <4>3, <4>5, <4>6 DEF EntryOK
    <3>2. CASE u # t
      <4>1. job'[u] = job[u] /\ EntryOK(u) /\ job[u] # None /\ job[u].step # "find"
        BY <1>1, <1>10, <2>4, <3>2 DEF PagesOK
      <4>2. job[u].h # h /\ job[u].h # None /\ job[u].seen \in Int /\ job[u].page \in LPage
            /\ job[u].step \in {"find", "count", "flag", "finish"}
        BY <1>1, <3>2, <4>1, NoneApart DEF JobsOK, JobFacts
      <4>3. CASE job[u].page = p
        <5>1. job[u].md # k
          <6>1. CASE job[u].step = "count"
            BY <1>2, <4>1, <4>2, <4>3, <6>1 DEF EntryOK
          <6>2. CASE job[u].step # "count"
            BY <3>2, <4>1, <4>2, <4>3, <6>2 DEF Writing
          <6> QED BY <6>1, <6>2
        <5>2. job[u].md \in 1 .. Len(mds)
          BY <4>1, <4>3 DEF EntryOK
        <5>3. new[job[u].md] = mds[job[u].md] /\ job[u].md \in 1 .. Len(new)
          BY <1>6, <5>1, <5>2
        <5>4. lp'[p].mds = new
          BY <1>9, <1>11
        <5>5. job[u].step = "count" => job[u].seen <= Taken(new, Nameless(new))
          <6>1. job[u].step = "count" => job[u].seen <= Taken(mds, Nameless(mds))
            BY <4>1, <4>3 DEF EntryOK
          <6> QED BY <1>7, <4>2, <6>1
        <5>6. lp'[p].mds[job[u].md] = lp[p].mds[job[u].md] /\ job[u].md \in 1 .. Len(lp'[p].mds)
          BY <5>3, <5>4
        <5>7. job[u].step = "count" => job[u].seen <= Taken(lp'[p].mds, Nameless(lp'[p].mds))
          BY <5>4, <5>5
        <5>8. ptr' = ptr
          OBVIOUS
        <5> QED BY <4>1, <4>3, <5>6, <5>7, <5>8 DEF EntryOK
      <4>4. CASE job[u].page # p
        BY <1>9, <4>1, <4>2, <4>4 DEF EntryOK
      <4> QED BY <4>3, <4>4
    <3> QED BY <3>1, <3>2
  <2> QED BY <2>1, <2>2, <2>3, <2>4 DEF PagesOK
<1>15. \A q \in LPage : lp[q].mds = <<>> => lp'[q].mds = <<>>
  <2>1. mds # <<>> /\ mds = lp[p].mds
    BY <1>2, EntryFacts
  <2>2. \A q \in LPage : q # p => lp'[q] = lp[q]
    BY <1>9
  <2> QED BY <2>1, <2>2, Zenon
<1> QED BY <1>9, <1>14, <1>15, JobStep

\* The address in the place of the mapping keeps the invariant.
LEMMA PutAddressKeeps ==
  ASSUME Sane, NEW t \in Thread, PutAddress(t) PROVE Sane'
<1> DEFINE p   == job[t].page
           k   == job[t].md
           h   == job[t].h
           a   == ptr[h][2]
           mds == lp[p].mds
           e   == [who |-> None, raw |-> a, allocated |-> mds[k].allocated, size |-> mds[k].size]
           J   == [h |-> h, page |-> p, dst |-> job[t].dst, step |-> "flag", md |-> k,
                   seen |-> job[t].seen]
<1>1. /\ TypeOK /\ PagesOK /\ JobsOK /\ JobFacts /\ LocalFacts
      /\ job[t] # None /\ job[t].step = "count"
      /\ UNCHANGED <<objs, store, lmem, lowner, tcpage, stop>>
  BY JobIs, LocalIs DEF Sane, PutAddress, AtStep
<1>2. EntryOK(t) /\ JobOK(t)
  BY <1>1 DEF PagesOK, JobsOK
<1>3. /\ p \in LPage /\ k \in Nat /\ h \in Obj /\ job[t].dst \in Block \cup {None}
      /\ job[t].seen \in Int /\ job[t] \in Job
  BY <1>1 DEF JobFacts
<1>4. a \in Nat
  BY <1>1, <1>2, <1>3, PlacesApart DEF JobOK, LocalFacts
<1>5. /\ mds \in Seq(EntryType) /\ lp[p] \in PageType /\ lp[p].bump \in Nat
      /\ k \in 1 .. Len(mds) /\ mds[k].who = h /\ mds[k].allocated = TRUE
      /\ job[t].seen <= Taken(mds, Nameless(mds)) /\ Taken(mds, Nameless(mds)) \in Nat
  <2>1. /\ mds \in Seq(EntryType) /\ lp[p] \in PageType /\ lp[p].bump \in Nat
    BY <1>1, <1>3, PageIs
  <2>2. /\ k \in 1 .. Len(mds) /\ mds[k].who = h /\ mds[k].allocated
        /\ job[t].seen <= Taken(mds, Nameless(mds))
    BY <1>1, <1>2 DEF EntryOK
  <2>3. mds[k].allocated \in BOOLEAN
    BY <2>1, <2>2, EntryFacts
  <2> QED BY <2>1, <2>2, <2>3, TakenType
<1>6. mds[k] \in EntryType /\ mds[k].size \in Nat \ {0}
  BY <1>5, EntryFacts
<1>7. e \in EntryType /\ e.who = None /\ e.raw = a /\ e.size = mds[k].size /\ e.allocated
  BY <1>4, <1>5, <1>6 DEF EntryType
<1>8. J \in Job
  BY <1>3 DEF Job
<1>9. job' = [job EXCEPT ![t] = J]
  <2>1. job' = [job EXCEPT ![t] = [job[t] EXCEPT !.step = "flag"]]
    BY DEF PutAddress
  <2>2. [job[t] EXCEPT !.step = "flag"] = J
    BY <1>3 DEF Job
  <2> QED BY <2>1, <2>2
<1>10. job[t].seen + mds[k].size \in Int
  BY <1>3, <1>6
<1>11. EntryPut(p, k, e, job[t].seen + mds[k].size)
  BY <1>1, <1>3, <1>5, <1>7, <1>10, AddressPut
<1>13. job[t].seen + mds[k].size <= Taken(mds, Nameless(mds)) + (IF mds[k].who = None THEN 0 ELSE mds[k].size)
  BY <1>3, <1>5, <1>6, NoneApart
<1>14. \A u \in Thread : Writing(u) /\ job[u].page = p /\ job[u].md = k => u = t
  BY <1>1, <1>3, <1>5, NoneApart DEF Writing, PagesOK, EntryOK
<1>15. UNCHANGED <<addr, ptr, header, huge, lmem, lowner, tcpage, stop>>
  BY <1>1 DEF objs, store
<1>16. /\ J.h = h /\ J.page = p /\ J.dst = job[t].dst /\ J.md = k
       /\ J.step \in {"flag", "finish"} /\ (J.step = "flag" <=> e.allocated)
  BY <1>7
<1> HIDE DEF e, J, a, mds, k, p, h
<1>17. p = job[t].page /\ k = job[t].md /\ h = job[t].h /\ mds = lp[p].mds /\ a = ptr[h][2]
  BY DEF a, mds, k, p, h
<1> DEFINE v == job[t].seen + mds[k].size
<1>18. v \in Int /\ EntryPut(p, k, e, v)
       /\ v <= Taken(mds, Nameless(mds)) + (IF mds[k].who = None THEN 0 ELSE mds[k].size)
  BY <1>10, <1>11, <1>13
<1>19. job[t] # None /\ job[t].step # "find" /\ e.raw = ptr[h][2]
  BY <1>1, <1>7, <1>17
<1> HIDE DEF v
<1> QED
  BY <1>3, <1>7, <1>8, <1>9, <1>14, <1>15, <1>16, <1>17, <1>18, <1>19, EntryWritten

\* The cleared flag does.
LEMMA ClearFlagKeeps ==
  ASSUME Sane, NEW t \in Thread, ClearFlag(t) PROVE Sane'
<1> DEFINE p   == job[t].page
           k   == job[t].md
           h   == job[t].h
           mds == lp[p].mds
           e   == [who |-> None, raw |-> mds[k].raw, allocated |-> FALSE, size |-> mds[k].size]
           J   == [h |-> h, page |-> p, dst |-> job[t].dst, step |-> "finish", md |-> k,
                   seen |-> job[t].seen]
<1>1. /\ TypeOK /\ PagesOK /\ JobsOK /\ JobFacts /\ LocalFacts
      /\ job[t] # None /\ job[t].step = "flag"
      /\ UNCHANGED <<objs, store, lmem, lowner, tcpage, stop>>
  BY JobIs, LocalIs DEF Sane, ClearFlag, AtStep
<1>2. EntryOK(t) /\ JobOK(t)
  BY <1>1 DEF PagesOK, JobsOK
<1>3. /\ p \in LPage /\ k \in Nat /\ h \in Obj /\ job[t].dst \in Block \cup {None}
      /\ job[t].seen \in Int /\ job[t] \in Job
  BY <1>1 DEF JobFacts
<1>4. ptr[h][2] \in Nat
  BY <1>1, <1>2, <1>3, PlacesApart DEF JobOK, LocalFacts
<1>5. /\ mds \in Seq(EntryType) /\ lp[p] \in PageType /\ lp[p].bump \in Nat
      /\ k \in 1 .. Len(mds) /\ mds[k].who = None /\ mds[k].raw = ptr[h][2]
      /\ lp[p].freed <= Taken(mds, Nameless(mds)) /\ Taken(mds, Nameless(mds)) \in Nat
      /\ lp[p].freed \in Int
  <2>1. /\ mds \in Seq(EntryType) /\ lp[p] \in PageType /\ lp[p].bump \in Nat
        /\ lp[p].freed <= Taken(mds, Nameless(mds)) /\ lp[p].freed \in Int
    BY <1>1, <1>3, PageIs DEF PageOK
  <2>2. /\ k \in 1 .. Len(mds) /\ mds[k].who = None /\ mds[k].raw = ptr[h][2]
    BY <1>1, <1>2 DEF EntryOK
  <2> QED BY <2>1, <2>2, TakenType
<1>6. mds[k] \in EntryType /\ mds[k].size \in Nat \ {0}
  BY <1>5, EntryFacts
<1>7. e \in EntryType /\ e.who = None /\ e.raw = ptr[h][2] /\ e.size = mds[k].size /\ e.allocated = FALSE
  BY <1>4, <1>5, <1>6 DEF EntryType
<1>8. J \in Job
  BY <1>3 DEF Job
<1>9. job' = [job EXCEPT ![t] = J]
  <2>1. job' = [job EXCEPT ![t] = [job[t] EXCEPT !.step = "finish"]]
    BY DEF ClearFlag
  <2>2. [job[t] EXCEPT !.step = "finish"] = J
    BY <1>3 DEF Job
  <2> QED BY <2>1, <2>2
<1>11. EntryPut(p, k, e, lp[p].freed)
  BY <1>1, <1>3, <1>5, <1>7, FlagPut
<1>13. lp[p].freed <= Taken(mds, Nameless(mds)) + (IF mds[k].who = None THEN 0 ELSE mds[k].size)
  BY <1>3, <1>5, <1>6
<1>14. \A u \in Thread : Writing(u) /\ job[u].page = p /\ job[u].md = k => u = t
  BY <1>1 DEF Writing, JobsOK
<1>15. UNCHANGED <<addr, ptr, header, huge, lmem, lowner, tcpage, stop>>
  BY <1>1 DEF objs, store
<1>16. /\ J.h = h /\ J.page = p /\ J.dst = job[t].dst /\ J.md = k
       /\ J.step \in {"flag", "finish"} /\ (J.step = "flag" <=> e.allocated)
  BY <1>7
<1> HIDE DEF e, J, mds, k, p, h
<1>17. p = job[t].page /\ k = job[t].md /\ h = job[t].h /\ mds = lp[p].mds
  BY DEF mds, k, p, h
<1> QED
  BY <1>1, <1>3, <1>5, <1>7, <1>8, <1>9, <1>11, <1>13, <1>14, <1>15, <1>16, <1>17, EntryWritten

\* An entry of a page is gone from the page's objects once its call is over.
LEMMA FinishKeeps ==
  ASSUME Sane, NEW t \in Thread, Finish(t) PROVE Sane'
<1> DEFINE h == job[t].h
           p == job[t].page
           k == job[t].md
           dst == job[t].dst
<1>1. /\ TypeOK /\ BlocksOK /\ HandlesOK /\ RegionsOK /\ JobsOK /\ PhaseOK /\ PagesOK /\ OwnersOK
      /\ JobFacts /\ LocalFacts
  BY JobIs, LocalIs DEF Sane
<1>2. /\ job[t] # None /\ job[t].step = "finish"
      /\ ptr' = [ptr EXCEPT ![h] = dst] /\ job' = [job EXCEPT ![t] = None]
      /\ UNCHANGED <<addr, header, huge, lp, lmem, lowner, tcpage, stop>>
  BY DEF Finish, AtStep, objs, local
<1>3. /\ h \in Obj /\ p \in LPage /\ dst \in Block \cup {None} /\ JobOK(t) /\ EntryOK(t)
  BY <1>1, <1>2 DEF JobFacts, JobsOK, PagesOK
<1> HIDE DEF h, p, dst, k
<1>4. /\ InLocal(h) /\ ptr[h][1] = p
      /\ IF dst = None THEN ~HasHandle(h)
         ELSE HasHandle(h) /\ header[dst] # None /\ header[dst].who = h
  BY <1>3 DEF JobOK, h, p, dst
<1>5. \A u \in Thread : job'[u] = IF u = t THEN None ELSE job[u]
  BY <1>1, <1>2 DEF TypeOK
<1>6. \A o \in Obj : ptr'[o] = IF o = h THEN dst ELSE ptr[o]
  BY <1>1, <1>2 DEF TypeOK
<1>7. \A u \in Thread : u # t /\ job[u] # None => job[u].h # h
  BY <1>1, <1>2 DEF JobsOK, h
<1>8. /\ dst \notin Spot /\ dst \in {None} \cup Place /\ ptr[h] \notin Block /\ ptr[h] \in Spot
      /\ dst \in Block <=> dst # None
  BY <1>1, <1>3, <1>4, BlocksAndSpots, PlacesApart DEF LocalFacts
<1>9. TypeOK'
  BY <1>1, <1>2, <1>3, <1>8 DEF TypeOK, stop
<1>10. BlocksOK'
  <2>1. ASSUME NEW o \in Obj, ptr'[o] \in Block
        PROVE  header[ptr'[o]] # None /\ header[ptr'[o]].who = o
    BY <1>1, <1>4, <1>6, <1>8, <2>1 DEF BlocksOK, InBlock
  <2>2. ASSUME NEW b \in Block, header[b] # None
        PROVE  ptr'[header[b].who] = b \/ Awaited(b)'
    <3>0. header[b].who \in Obj
      BY <1>1, <2>2, HeaderIs DEF HeaderFacts
    <3>1. CASE ptr[header[b].who] = b
      <4>1. header[b].who # h
        BY <1>8, <3>1
      <4> QED BY <1>6, <3>0, <3>1, <4>1
    <3>2. CASE Awaited(b)
      <4>1. PICK u \in Thread : job[u] # None /\ job[u].h = header[b].who /\ job[u].dst = b
        BY <3>2 DEF Awaited
      <4>2. CASE u = t
        BY <1>6, <3>0, <4>1, <4>2 DEF h, dst
      <4>3. CASE u # t
        BY <1>2, <1>5, <4>1, <4>3 DEF Awaited
      <4> QED BY <4>2, <4>3
    <3> QED BY <1>1, <2>2, <3>1, <3>2 DEF BlocksOK
  <2> QED BY <1>2, <2>1, <2>2 DEF BlocksOK, InBlock
<1>11. HandlesOK'
  <2>1. ASSUME NEW o \in Obj, HasHandle(o) PROVE ptr'[o] # None
    BY <1>1, <1>4, <1>6, <2>1 DEF HandlesOK, InUse
  <2>2. ASSUME NEW o \in Obj, ptr'[o] # None, ~HasHandle(o) PROVE Busy(o)'
    <3>1. o # h /\ ptr[o] # None
      BY <1>4, <1>6, <2>2
    <3>2. PICK u \in Thread : job[u] # None /\ job[u].h = o
      BY <1>1, <2>2, <3>1 DEF HandlesOK, InUse, Busy
    <3>3. u # t
      BY <3>1, <3>2 DEF h
    <3> QED BY <1>5, <3>2, <3>3 DEF Busy
  <2> QED BY <1>2, <2>1, <2>2 DEF HandlesOK, InUse, HasHandle
<1>12. RegionsOK' /\ OwnersOK'
  BY <1>1, <1>2 DEF RegionsOK, IsHuge, OwnersOK, LocalOwners
<1>13. PhaseOK'
  <2>1. barrier = None /\ UNCHANGED <<barrier, pinned, phase, todo>>
    BY <1>1, <1>2 DEF PhaseOK, stop
  <2> QED BY <1>1, <2>1 DEF PhaseOK
<1>14. \A u \in Thread : job'[u] # None => u # t /\ job'[u] = job[u] /\ job[u] # None
                                          /\ job[u].h \in Obj /\ job[u].h # h
  BY <1>1, <1>5, <1>7 DEF JobFacts
<1>15. JobsOK'
  <2>1. ASSUME NEW u \in Thread, job'[u] # None PROVE JobOK(u)'
    <3>1. JobOK(u) /\ job'[u] = job[u] /\ job[u].h \in Obj /\ ptr'[job[u].h] = ptr[job[u].h]
      BY <1>1, <1>6, <1>14, <2>1 DEF JobsOK
    <3> QED BY <1>2, <3>1 DEF JobOK, InLocal, InUse, InBlock, HasHandle
  <2>2. \A u, v \in Thread : job'[u] # None /\ job'[v] # None /\ job'[u].h = job'[v].h => u = v
    BY <1>1, <1>14 DEF JobsOK
  <2>3. \A u, v \in Thread :
          Writing(u)' /\ Writing(v)' /\ job'[u].page = job'[v].page /\ job'[u].md = job'[v].md => u = v
    BY <1>1, <1>14 DEF JobsOK, Writing
  <2> QED BY <2>1, <2>2, <2>3 DEF JobsOK
<1>16. PagesOK'
  <2>1. \A o \in Obj : InLocal(o)' <=> InLocal(o) /\ o # h
    BY <1>1, <1>6, <1>8, <1>9, LocalIsNext DEF LocalFacts
  <2>2. ASSUME NEW q \in LPage PROVE PageOK(q)'
    <3> DEFINE mds == lp[q].mds
    <3>1. /\ mds \in Seq(EntryType) /\ lp[q].bump \in Nat /\ At(q) \in Map
          /\ EndToEnd(mds, lp[q].bump, At(q)) /\ Named(mds, At(q))
          /\ lp[q].freed <= Taken(mds, Nameless(mds))
      BY <1>1, PageIs DEF PageOK
    <3>2. \A i \in 1 .. Len(mds) : mds[i].who # h
      <4> SUFFICES ASSUME NEW i \in 1 .. Len(mds), mds[i].who = h PROVE FALSE
        OBVIOUS
      <4>1. h # None
        BY <1>3, NoneApart
      <4>2. At(q)[h] # None
        BY <3>1, <4>1 DEF Named
      <4>3. q = p /\ At(q)[h] = ptr[h][2]
        BY <1>1, <1>3, <1>4, <4>2, PageIs
      <4>4. k \in 1 .. Len(mds) /\ mds[k].who = None /\ mds[k].raw = ptr[h][2]
        BY <1>2, <1>3, <4>3 DEF EntryOK, h, p, k
      <4>5. Start(mds, At(q), i) = Start(mds, At(q), k)
        BY <4>1, <4>3, <4>4 DEF Start, GetData
      <4>6. i = k
        <5>1. Start(mds, At(q), i) \in Nat /\ i \in Nat /\ k \in Nat
          BY <3>1, <4>4 DEF EndToEnd
        <5>2. ~(i < k) /\ ~(k < i)
          BY <3>1, <4>4, <4>5, <5>1, OrderOfStarts
        <5> QED BY <5>1, <5>2
      <4> QED BY <4>1, <4>4, <4>6
    <3>3. \A o \in Obj : o # h => At(q)'[o] = At(q)[o]
      BY <1>6, <2>1 DEF At
    <3>4. \A i \in 1 .. Len(mds) : mds[i].who # None => mds[i].who \in Obj /\ mds[i].who # h
      BY <3>1, <3>2, EntryFacts
    <3>5. \A i \in 1 .. Len(mds) : Start(mds, At(q)', i) = Start(mds, At(q), i)
      BY <3>3, <3>4 DEF Start, GetData
    <3>6. EndToEnd(mds, lp[q].bump, At(q)')
      BY <3>1, <3>5, EndToEndSame
    <3>7. Named(mds, At(q)')
      BY <3>1, <3>3, <3>4 DEF Named
    <3> QED BY <1>2, <3>1, <3>6, <3>7 DEF PageOK
  <2>3. ASSUME NEW o \in Obj, InLocal(o)' PROVE Listed(o)' \/ Leaving(o)'
    <3>1. InLocal(o) /\ o # h /\ ptr'[o] = ptr[o]
      BY <1>6, <2>1, <2>3
    <3>2. CASE Listed(o)
      BY <1>2, <3>1, <3>2 DEF Listed
    <3>3. CASE Leaving(o)
      <4>1. PICK u \in Thread : Writing(u) /\ job[u].h = o
        BY <3>3 DEF Leaving
      <4>2. u # t
        BY <3>1, <4>1 DEF h
      <4> QED BY <1>5, <4>1, <4>2 DEF Leaving, Writing
    <3> QED BY <1>1, <3>1, <3>2, <3>3 DEF PagesOK
  <2>4. ASSUME NEW q \in LPage, NEW i \in 1 .. Len(lp'[q].mds),
               lp'[q].mds[i].who = None, lp'[q].mds[i].allocated
        PROVE  Fading(q, i)'
    <3>1. Fading(q, i)
      BY <1>1, <1>2, <2>4 DEF PagesOK
    <3>2. PICK u \in Thread : job[u] # None /\ job[u].step = "flag" /\ job[u].page = q /\ job[u].md = i
      BY <3>1 DEF Fading
    <3>3. u # t
      BY <1>2, <3>2
    <3> QED BY <1>5, <3>2, <3>3 DEF Fading
  <2>5. ASSUME NEW u \in Thread, job'[u] # None, job'[u].step # "find" PROVE EntryOK(u)'
    <3>1. EntryOK(u) /\ job'[u] = job[u] /\ ptr'[job[u].h] = ptr[job[u].h]
      BY <1>1, <1>6, <1>14, <2>5 DEF PagesOK
    <3> QED BY <1>2, <3>1 DEF EntryOK
  <2> QED BY <2>2, <2>3, <2>4, <2>5 DEF PagesOK
<1> QED BY <1>9, <1>10, <1>11, <1>12, <1>13, <1>15, <1>16 DEF Sane

-----------------------------------------------------------------------------
(***************************************************************************)
(* Barriers, localize() and the compaction of sized pages.                 *)
(***************************************************************************)
\* Steps that change nothing the rest of the invariant is about.
LEMMA Unmoved ==
  ASSUME Sane, UNCHANGED <<objs, store, local, job>>, PhaseOK',
         barrier' \in Thread \cup {None}, phase' \in {"run", "move", "compact"},
         pinned' \subseteq Obj, todo' \subseteq LPage
  PROVE  Sane'
<1>1. UNCHANGED <<addr, ptr, header, huge, lp, lmem, lowner, tcpage, job>>
  BY DEF objs, store, local
<1>2. TypeOK' /\ TypeOK /\ JobsOK /\ PagesOK
  BY <1>1 DEF Sane, TypeOK
<1>3. BlocksOK' /\ HandlesOK' /\ RegionsOK'
  BY <1>1 DEF Sane, BlocksOK, InBlock, Awaited, HandlesOK, HasHandle, InUse, Busy, RegionsOK, IsHuge
<1>4. JobsOK'
  <2>1. ASSUME NEW u \in Thread, job[u] # None PROVE JobOK(u)'
    <3>1. JobOK(u)
      BY <1>2, <2>1 DEF JobsOK
    <3> QED BY <1>1, <3>1 DEF JobOK, InLocal, InUse, InBlock, HasHandle
  <2> QED BY <1>1, <1>2, <2>1 DEF JobsOK, Writing
<1>5. PagesOK'
  BY <1>1, <1>2, PagesSame DEF OutOfPages
<1>6. OwnersOK'
  BY <1>1 DEF Sane, OwnersOK, LocalOwners
<1> QED BY <1>2, <1>3, <1>4, <1>5, <1>6 DEF Sane

\* A barrier that begins keeps it.
LEMMA BeginBarrierKeeps ==
  ASSUME Sane, NEW t \in Thread, BeginBarrier(t) PROVE Sane'
<1>1. /\ UNCHANGED <<objs, store, local, job, todo>> /\ barrier' = t /\ phase' = "move"
      /\ barrier = None /\ \A u \in Thread : job[u] = None
      /\ pinned' \subseteq Obj
  BY DEF BeginBarrier
<1>2. PhaseOK /\ TypeOK
  BY DEF Sane
<1>3. PhaseOK' /\ todo' \subseteq LPage
  BY <1>1, <1>2, NoneApart DEF PhaseOK, TypeOK
<1> QED BY <1>1, <1>3, Unmoved

\* So does the start of compaction.
LEMMA StartCompactionKeeps ==
  ASSUME Sane, StartCompaction PROVE Sane'
<1>1. /\ UNCHANGED <<objs, store, local, job, barrier, pinned>> /\ phase' = "compact"
      /\ phase = "move" /\ todo' \subseteq LPage
  BY DEF StartCompaction
<1>2. PhaseOK /\ TypeOK
  BY DEF Sane
<1>3. PhaseOK' /\ barrier' \in Thread \cup {None} /\ pinned' \subseteq Obj
  BY <1>1, <1>2 DEF PhaseOK, TypeOK
<1> QED BY <1>1, <1>3, Unmoved

\* And the end of the barrier.
LEMMA EndBarrierKeeps ==
  ASSUME Sane, EndBarrier PROVE Sane'
<1>1. /\ UNCHANGED <<objs, store, local, job, todo>> /\ phase' = "run" /\ barrier' = None
      /\ pinned' = {} /\ todo = {}
  BY DEF EndBarrier
<1>2. PhaseOK' /\ barrier' \in Thread \cup {None} /\ pinned' \subseteq Obj /\ todo' \subseteq LPage
  BY <1>1 DEF PhaseOK
<1> QED BY <1>1, <1>2, Unmoved

\* In a barrier no call is under way.
LEMMA InBarrier ==
  ASSUME Sane, phase # "run" PROVE /\ \A t \in Thread : job[t] = None
                                   /\ barrier \in Thread
BY DEF Sane, PhaseOK, TypeOK

\* An object that moves to a lower block keeps the invariant.
LEMMA CompactSizedKeeps ==
  ASSUME Sane, NEW h \in Obj, CompactSized(h) PROVE Sane'
<1>1. /\ TypeOK /\ BlocksOK /\ HandlesOK /\ RegionsOK /\ JobsOK /\ PhaseOK /\ PagesOK /\ OwnersOK
  BY DEF Sane
<1>2. PICK b \in Block :
        /\ header[b] = None
        /\ header' = [header EXCEPT ![b] = header[ptr[h]], ![ptr[h]] = None]
        /\ ptr' = [ptr EXCEPT ![h] = b]
  BY DEF CompactSized, FreeBlocks
<1>3. /\ ptr[h] \in Block /\ \A t \in Thread : job[t] = None
      /\ UNCHANGED <<addr, size, huge, lp, lmem, lowner, tcpage, job, stop>>
  BY InBarrier DEF CompactSized, InBlock, objs, local
<1>4. header[ptr[h]] # None /\ header[ptr[h]].who = h /\ ptr[h] # b
  BY <1>1, <1>2, <1>3 DEF BlocksOK, InBlock
<1>5. \A o \in Obj : ptr'[o] = IF o = h THEN b ELSE ptr[o]
  BY <1>1, <1>2 DEF TypeOK
<1>6. \A c \in Block : header'[c] = IF c = ptr[h] THEN None
                                    ELSE IF c = b THEN header[ptr[h]] ELSE header[c]
  BY <1>1, <1>2, <1>3, <1>4 DEF TypeOK
<1>7. b # None /\ b \notin Spot /\ ptr[h] \notin Spot /\ b \in Place /\ ptr[h] # None
  BY <1>3, BlocksAndSpots, PlacesApart
<1>8. TypeOK'
  <2>1. ptr' \in [Obj -> {None} \cup Place]
    BY <1>1, <1>2, <1>7 DEF TypeOK
  <2>2. header[ptr[h]] \in {None} \cup Header
    BY <1>1, <1>3 DEF TypeOK
  <2>3. header' \in [Block -> {None} \cup Header]
    BY <1>1, <1>2, <2>2 DEF TypeOK
  <2> QED BY <1>1, <1>3, <2>1, <2>3 DEF TypeOK, stop
<1>9. BlocksOK'
  <2>1. ASSUME NEW o \in Obj, ptr'[o] \in Block
        PROVE  header'[ptr'[o]] # None /\ header'[ptr'[o]].who = o
    <3>1. CASE o = h
      BY <1>4, <1>5, <1>6, <3>1
    <3>2. CASE o # h
      <4>1. ptr'[o] = ptr[o] /\ header[ptr[o]] # None /\ header[ptr[o]].who = o
        BY <1>1, <1>5, <2>1, <3>2 DEF BlocksOK, InBlock
      <4>2. ptr[o] # ptr[h] /\ ptr[o] # b
        BY <1>2, <1>4, <3>2, <4>1
      <4> QED BY <1>6, <2>1, <4>1, <4>2
    <3> QED BY <3>1, <3>2
  <2>2. ASSUME NEW c \in Block, header'[c] # None PROVE ptr'[header'[c].who] = c
    <3>1. CASE c = b
      BY <1>4, <1>5, <1>6, <3>1
    <3>2. CASE c # b
      <4>1. header'[c] = header[c] /\ c # ptr[h] /\ header[c] # None
        BY <1>6, <2>2, <3>2
      <4>2. ptr[header[c].who] = c /\ header[c].who \in Obj
        BY <1>1, <1>3, <4>1, HeaderIs DEF BlocksOK, Awaited, HeaderFacts
      <4> QED BY <1>5, <4>1, <4>2
    <3> QED BY <3>1, <3>2
  <2> QED BY <2>1, <2>2 DEF BlocksOK, InBlock
<1>10. HandlesOK'
  BY <1>1, <1>3, <1>5, <1>7 DEF HandlesOK, HasHandle, InUse, Busy
<1>11. RegionsOK' /\ OwnersOK' /\ JobsOK'
  BY <1>1, <1>3 DEF RegionsOK, IsHuge, OwnersOK, LocalOwners, JobsOK, Writing
<1>12. PhaseOK'
  BY <1>1, <1>3, StillPhase
<1>13. OutOfPages
  BY <1>3, <1>5, <1>7 DEF OutOfPages
<1> QED BY <1>1, <1>8, <1>9, <1>10, <1>11, <1>12, <1>13, PagesSame DEF Sane

\* The object of a block is now the last of page q.
LEMMA MoveToKeeps ==
  ASSUME Sane, phase = "move", NEW h \in Obj, InBlock(h), NEW q \in LPage, MoveTo(q, h),
         lp[q].bump + SizeOf(h) + Len(lp[q].mds) + 1 <= PageUnits,
         UNCHANGED <<objs, huge, job, stop>>, OwnersOK',
         lowner' \in [LPage -> Thread \cup {None, "new", "never"}],
         tcpage' \in [Thread -> LPage \cup {None}]
  PROVE  Sane'
<1> DEFINE b == ptr[h]
           s == SizeOf(h)
           a == lp[q].bump
           mds == lp[q].mds
           N == Push(lp[q], h, s)
<1>1. /\ TypeOK /\ BlocksOK /\ HandlesOK /\ RegionsOK /\ JobsOK /\ PhaseOK /\ PagesOK
      /\ LocalFacts /\ AtFacts /\ \A t \in Thread : job[t] = None
  BY LocalIs, InBarrier DEF Sane
<1>2. /\ lp' = [lp EXCEPT ![q] = N] /\ ptr' = [ptr EXCEPT ![h] = <<q, a>>]
      /\ header' = [header EXCEPT ![b] = None]
      /\ UNCHANGED <<addr, size, huge, job, stop>>
  BY DEF MoveTo, objs
<1>3. b \in Block /\ header[b] # None /\ header[b].who = h /\ s \in Nat \ {0}
  <2>1. b \in Block /\ header[b] # None /\ header[b].who = h
    BY <1>1 DEF BlocksOK, InBlock
  <2>2. s = header[b].size
    BY DEF SizeOf, BlockSize
  <2> QED BY <1>1, <2>1, <2>2, HeaderIs DEF HeaderFacts
<1>4. /\ lp[q] \in PageType /\ mds \in Seq(EntryType) /\ a \in Nat /\ At(q) \in Map
      /\ lp[q].freed \in Int
      /\ EndToEnd(mds, a, At(q)) /\ Named(mds, At(q)) /\ Len(mds) \in Nat
      /\ lp[q].freed <= Taken(mds, Nameless(mds))
      /\ \A o \in Obj : At(q)[o] # None => InLocal(o)
  BY <1>1, PageIs DEF PageOK
<1>5. ~InLocal(h) /\ ptr[h] \notin Spot
  BY <1>1 DEF LocalFacts
<1>6. \A i \in 1 .. Len(mds) : mds[i].who # h
  BY <1>4, <1>5, NoneApart DEF Named
<1> DEFINE at2 == [o \in Obj |-> IF o = h THEN a ELSE At(q)[o]]
<1>7. /\ N \in PageType
      /\ Len(N.mds) = Len(mds) + 1 /\ N.bump = a + s /\ N.freed = lp[q].freed
      /\ \A i \in 1 .. Len(mds) : N.mds[i] = mds[i]
      /\ N.mds[Len(mds) + 1].who = h /\ N.mds[Len(mds) + 1].size = s
      /\ EndToEnd(N.mds, N.bump, at2) /\ Named(N.mds, at2)
      /\ Taken(N.mds, Nameless(N.mds)) = Taken(mds, Nameless(mds))
  <2>1. a + s + Len(mds) + 1 <= PageUnits
    OBVIOUS
  <2>2. \A o \in Obj : at2[o] = IF o = h THEN a ELSE At(q)[o]
    OBVIOUS
  <2> DEFINE pg == lp[q]
             at == At(q)
  <2>3. /\ pg \in PageType /\ a \in Nat /\ pg.bump = a
        /\ EndToEnd(pg.mds, a, at) /\ Named(pg.mds, at)
        /\ \A i \in 1 .. Len(pg.mds) : pg.mds[i].who # h
        /\ a + s + Len(pg.mds) + 1 <= PageUnits
    BY <1>4, <1>6, <2>1
  <2>4. N = Push(pg, h, s) /\ mds = pg.mds /\ lp[q] = pg
    OBVIOUS
  <2>5. \A o \in Obj : at2[o] = IF o = h THEN a ELSE at[o]
    BY <2>2
  <2>7. s \in Nat \ {0}
    BY <1>3
  <2> HIDE DEF at2, s, a, mds, pg, at, N
  <2>6. Pushed(Push(pg, h, s), pg, h, s, at, at2)
    BY <2>7, <2>3, <2>5, PushIs
  <2>8. Pushed(N, pg, h, s, at, at2)
    BY <2>4, <2>6
  <2>9. pg.bump = a
    BY <2>3
  <2> QED BY <2>4, <2>8, <2>9 DEF Pushed
<1> HIDE DEF N, s
<1>8. \A r \in LPage : lp'[r] = IF r = q THEN N ELSE lp[r]
  BY <1>1, <1>2 DEF TypeOK
<1>9. \A o \in Obj : ptr'[o] = IF o = h THEN <<q, a>> ELSE ptr[o]
  BY <1>1, <1>2 DEF TypeOK
<1>10. \A c \in Block : header'[c] = IF c = b THEN None ELSE header[c]
  BY <1>1, <1>2, <1>3 DEF TypeOK
<1>11. /\ <<q, a>> \in Spot /\ <<q, a>> \in Place /\ <<q, a>> # None /\ <<q, a>> \notin Block
       /\ <<q, a>>[1] = q /\ <<q, a>>[2] = a
  BY <1>4, BlocksAndSpots, PlacesApart
<1>12. lmem' = [p \in LPage |-> [u \in 0 .. PageUnits - 1 |-> lmem'[p][u]]]
  <2>1. lmem = [p \in LPage |-> [u \in 0 .. PageUnits - 1 |-> lmem[p][u]]]
    BY <1>1 DEF TypeOK
  <2>2. DOMAIN lmem = LPage /\ \A p \in LPage : DOMAIN lmem[p] = 0 .. PageUnits - 1
    BY <2>1
  <2> DEFINE X == [u \in 0 .. PageUnits - 1 |->
                     IF u \in a .. a + s - 1 THEN Byte(b, u - a) ELSE lmem[q][u]]
  <2>3. X = [u \in 0 .. PageUnits - 1 |-> X[u]]
    OBVIOUS
  <2>4. lmem' = [lmem EXCEPT ![q] = X]
    BY <2>2 DEF MoveTo, s
  <2> HIDE DEF X
  <2>5. DOMAIN lmem' = LPage /\ lmem' = [p \in LPage |-> lmem'[p]]
    BY <2>2, <2>4
  <2>6. ASSUME NEW p \in LPage PROVE lmem'[p] = [u \in 0 .. PageUnits - 1 |-> lmem'[p][u]]
    <3>1. lmem'[p] = IF p = q THEN X ELSE lmem[p]
      BY <2>2, <2>4
    <3>2. lmem[p] = [u \in 0 .. PageUnits - 1 |-> lmem[p][u]]
      BY <2>1
    <3> QED BY <2>3, <3>1, <3>2
  <2> QED BY <2>5, <2>6
<1>13. TypeOK'
  <2>1. ptr' \in [Obj -> {None} \cup Place] /\ header' \in [Block -> {None} \cup Header]
    BY <1>1, <1>2, <1>11 DEF TypeOK
  <2>2. lp' \in [LPage -> PageType]
    BY <1>1, <1>2, <1>7 DEF TypeOK
  <2> QED BY <1>1, <1>2, <1>12, <2>1, <2>2 DEF TypeOK, stop
<1>14. BlocksOK'
  <2>1. ASSUME NEW o \in Obj, ptr'[o] \in Block
        PROVE  header'[ptr'[o]] # None /\ header'[ptr'[o]].who = o
    <3>1. o # h /\ ptr'[o] = ptr[o]
      BY <1>9, <1>11, <2>1
    <3>2. header[ptr[o]] # None /\ header[ptr[o]].who = o
      BY <1>1, <2>1, <3>1 DEF BlocksOK, InBlock
    <3>3. ptr[o] # b
      BY <1>3, <3>1, <3>2
    <3> QED BY <1>10, <2>1, <3>1, <3>2, <3>3
  <2>2. ASSUME NEW c \in Block, header'[c] # None PROVE ptr'[header'[c].who] = c
    <3>1. header'[c] = header[c] /\ c # b
      BY <1>10, <2>2
    <3>2. ptr[header[c].who] = c /\ header[c].who \in Obj
      BY <1>1, <2>2, <3>1, HeaderIs DEF BlocksOK, Awaited, HeaderFacts
    <3> QED BY <1>9, <3>1, <3>2
  <2> QED BY <2>1, <2>2 DEF BlocksOK, InBlock
<1>15. HandlesOK'
  <2>1. ptr[h] # None
    BY <1>3, BlocksAndSpots
  <2> QED BY <1>1, <1>2, <1>9, <1>11, <2>1 DEF HandlesOK, HasHandle, InUse, Busy
<1>16. RegionsOK' /\ JobsOK' /\ PhaseOK'
  BY <1>1, <1>2, StillPhase DEF RegionsOK, IsHuge, JobsOK, Writing
<1>17. LocalFacts' /\ \A o \in Obj : InLocal(o)' <=> InLocal(o) \/ o = h
  <2>1. LocalFacts'
    BY <1>13, LocalIsNext
  <2> QED BY <1>1, <1>9, <1>11, <2>1 DEF LocalFacts
<1>18. At(q)' = at2 /\ \A r \in LPage : r # q => At(r)' = At(r)
  <2>1. At(q)' = at2
    <3>1. \A o \in Obj : (IF InLocal(o)' /\ ptr'[o][1] = q THEN ptr'[o][2] ELSE None)
                         = IF o = h THEN a ELSE At(q)[o]
      BY <1>9, <1>11, <1>17 DEF At
    <3> QED BY <3>1 DEF At
  <2>2. ASSUME NEW r \in LPage, r # q PROVE At(r)' = At(r)
    <3>1. \A o \in Obj : (IF InLocal(o)' /\ ptr'[o][1] = r THEN ptr'[o][2] ELSE None)
                         = (IF InLocal(o) /\ ptr[o][1] = r THEN ptr[o][2] ELSE None)
      BY <1>5, <1>9, <1>11, <1>17, <2>2
    <3> QED BY <3>1 DEF At
  <2> QED BY <2>1, <2>2
<1> HIDE DEF at2
<1>19. PagesOK'
  <2>1. ASSUME NEW r \in LPage PROVE PageOK(r)'
    <3>1. CASE r = q
      <4>1. N.freed <= Taken(N.mds, Nameless(N.mds))
        BY <1>4, <1>7
      <4> QED BY <1>7, <1>8, <1>18, <3>1, <4>1 DEF PageOK
    <3>2. CASE r # q
      BY <1>1, <1>8, <1>18, <3>2 DEF PagesOK, PageOK
    <3> QED BY <3>1, <3>2
  <2>2. ASSUME NEW o \in Obj, InLocal(o)' PROVE Listed(o)'
    <3>1. CASE o = h
      <4>1. lp'[q].mds[Len(mds) + 1].who = h /\ Len(mds) + 1 \in 1 .. Len(lp'[q].mds)
        BY <1>4, <1>7, <1>8
      <4> QED BY <1>9, <1>11, <3>1, <4>1 DEF Listed
    <3>2. CASE o # h
      <4>1. InLocal(o) /\ ptr'[o] = ptr[o] /\ ptr[o][1] \in LPage
        BY <1>1, <1>9, <1>17, <2>2, <3>2, PlacesApart DEF LocalFacts
      <4>2. PICK i \in 1 .. Len(lp[ptr[o][1]].mds) : lp[ptr[o][1]].mds[i].who = o
        BY <1>1, <4>1 DEF PagesOK, Leaving, Writing, Listed
      <4>3. i \in 1 .. Len(lp'[ptr[o][1]].mds) /\ lp'[ptr[o][1]].mds[i].who = o
        <5>1. CASE ptr[o][1] = q
          <6>1. i \in 1 .. Len(N.mds) /\ N.mds[i].who = o
            BY <1>4, <1>7, <4>2, <5>1
          <6> QED BY <1>8, <5>1, <6>1
        <5>2. CASE ptr[o][1] # q
          BY <1>8, <4>1, <4>2, <5>2
        <5> QED BY <5>1, <5>2
      <4> QED BY <4>1, <4>3 DEF Listed
    <3> QED BY <3>1, <3>2
  <2>3. ASSUME NEW r \in LPage, NEW i \in 1 .. Len(lp'[r].mds),
               lp'[r].mds[i].who = None, lp'[r].mds[i].allocated
        PROVE  FALSE
    <3>1. i \in 1 .. Len(lp[r].mds) /\ lp'[r].mds[i] = lp[r].mds[i]
      <4>1. CASE r = q
        <5>1. i # Len(mds) + 1
          BY <1>7, <1>8, <2>3, <4>1, NoneApart
        <5>2. i \in 1 .. Len(mds)
          BY <1>4, <1>7, <1>8, <4>1, <5>1
        <5> QED BY <1>7, <1>8, <4>1, <5>2
      <4>2. CASE r # q
        BY <1>8, <4>2
      <4> QED BY <4>1, <4>2
    <3> QED BY <1>1, <2>3, <3>1 DEF PagesOK, Fading
  <2> QED BY <1>1, <1>2, <2>1, <2>2, <2>3 DEF PagesOK
<1> QED BY <1>13, <1>14, <1>15, <1>16, <1>19 DEF Sane

\* The pages localize() takes have room for the object and its entry.
LEMMA RoomFor ==
  ASSUME Sane, NEW q \in LPage, NEW s \in Nat \ {0}, s <= MaxLocal,
         q \in Suitable(s + 2) \/ q \in Fresh \/ Roomy(q, s)
  PROVE  lp[q].bump + s + Len(lp[q].mds) + 1 <= PageUnits
<1> DEFINE b == lp[q].bump
           n == Len(lp[q].mds)
           f == Available(lp[q])
<1>1. TypeOK /\ PagesOK /\ OwnersOK
  BY DEF Sane
<1>2. /\ b \in Nat /\ n \in Nat /\ f = PageUnits - n - b - 1 /\ PageUnits \in Nat
      /\ EndToEnd(lp[q].mds, b, At(q)) /\ lp[q].mds \in Seq(EntryType)
  <2>1. /\ lp[q].bump \in Nat /\ Len(lp[q].mds) \in Nat /\ PageOK(q)
        /\ lp[q].mds \in Seq(EntryType)
    BY <1>1, PageIs
  <2>2. PageUnits \in Nat
    BY PageUnitsAssumption
  <2> QED BY <2>1, <2>2 DEF Available, FreeSpace, PageOK
<1>3. CASE q \in Fresh
  <2>1. lp[q].mds = <<>>
    BY <1>1, <1>3 DEF Fresh, OwnersOK
  <2>2. n = 0 /\ b = 0
    BY <1>2, <2>1, EntryFacts DEF EndToEnd
  <2> HIDE DEF b, n
  <2>3. b + s + n + 1 <= PageUnits
    BY <1>2, <2>2, SizesAssumption
  <2> QED BY <2>3 DEF b, n
<1>4. CASE q \in Suitable(s + 2) \/ Roomy(q, s)
  <2>1. f >= s + 2 \/ f >= 2 * s
    BY <1>4 DEF Suitable, Roomy
  <2> HIDE DEF f, b, n
  <2>2. b + s + n + 1 <= PageUnits
    BY <1>2, <2>1
  <2> QED BY <2>2 DEF b, n
<1> QED BY <1>3, <1>4

\* localize() keeps it.
LEMMA LocalizeKeeps ==
  ASSUME Sane, NEW h \in Obj, Localize(h) PROVE Sane'
<1> DEFINE t == barrier
           p == tcpage[t]
           s == SizeOf(h)
<1>1. /\ phase = "move" /\ InBlock(h) /\ s <= MaxLocal
      /\ UNCHANGED <<objs, huge, job, stop>>
  BY DEF Localize, Localizable
<1>2. TypeOK /\ OwnersOK /\ PagesOK /\ BlocksOK /\ t \in Thread
  BY <1>1, InBarrier DEF Sane
<1>3. s \in Nat \ {0} /\ MaxLocal \in Nat /\ PageUnits \in Nat
  <2>1. ptr[h] \in Block /\ header[ptr[h]] # None /\ s = header[ptr[h]].size
    BY <1>1, <1>2 DEF BlocksOK, InBlock, SizeOf, BlockSize
  <2> QED BY <1>2, <2>1, HeaderIs, SizesAssumption, PageUnitsAssumption DEF HeaderFacts
<1>5. tcpage \in [Thread -> LPage \cup {None}]
      /\ lowner \in [LPage -> Thread \cup {None, "new", "never"}]
  BY <1>2 DEF TypeOK
<1>6. CASE p # None /\ Roomy(p, s)
  <2>1. p \in LPage
    BY <1>2, <1>5, <1>6
  <2>2. MoveTo(p, h) /\ UNCHANGED <<lowner, tcpage>>
    BY <1>6 DEF Localize
  <2>3. lp[p].bump + s + Len(lp[p].mds) + 1 <= PageUnits
    BY <1>1, <1>3, <1>6, <2>1, RoomFor
  <2>4. lowner[p] = t /\ lowner[p] # "new"
    BY <1>2, <1>6, ApartAssumption DEF OwnersOK, LocalOwners
  <2>5. OwnersOK'
    <3>1. \A r \in LPage : r # p => lp'[r] = lp[r]
      BY <1>2, <2>2 DEF MoveTo, TypeOK
    <3> QED BY <1>2, <2>2, <2>4, <3>1 DEF OwnersOK, LocalOwners
  <2> QED BY <1>1, <1>5, <2>1, <2>2, <2>3, <2>5, MoveToKeeps
<1>7. CASE ~(p # None /\ Roomy(p, s))
  <2>1. PICK q \in Suitable(s + 2) \cup Fresh :
          /\ MoveTo(q, h) /\ tcpage' = [tcpage EXCEPT ![t] = q]
          /\ lowner' = [r \in LPage |-> IF r = q THEN t ELSE IF r = p THEN None ELSE lowner[r]]
    BY <1>7 DEF Localize
  <2>2. q \in LPage /\ lowner[q] \in {None, "new"}
    BY <2>1 DEF Suitable, Fresh
  <2>3. lp[q].bump + s + Len(lp[q].mds) + 1 <= PageUnits
    BY <1>1, <1>3, <2>1, <2>2, RoomFor
  <2>4. lowner' \in [LPage -> Thread \cup {None, "new", "never"}]
        /\ tcpage' \in [Thread -> LPage \cup {None}]
    BY <1>2, <1>5, <2>1, <2>2
  <2>5. OwnersOK'
    <3>1. \A r \in LPage : r # q => lp'[r] = lp[r]
      BY <1>2, <2>1, <2>2 DEF MoveTo, TypeOK
    <3>2. \A u \in Thread : tcpage'[u] = IF u = t THEN q ELSE tcpage[u]
      BY <1>2, <1>5, <2>1
    <3>3. \A r \in LPage : lowner'[r] = IF r = q THEN t ELSE IF r = p THEN None ELSE lowner[r]
      BY <2>1
    <3>4. None \notin Thread /\ "new" \notin Thread /\ None # "new" /\ None \notin LPage
      BY NoneApart, ApartAssumption
    <3>5. \A u \in Thread : tcpage[u] # None => lowner[tcpage[u]] = u /\ tcpage[u] \in LPage
      BY <1>2, <1>5 DEF OwnersOK, LocalOwners
    <3>6. \A r \in LPage : lowner[r] \in Thread => tcpage[lowner[r]] = r
      BY <1>2 DEF OwnersOK, LocalOwners
    <3>7. \A u \in Thread : tcpage'[u] # None => lowner'[tcpage'[u]] = u
      BY <2>2, <1>2, <3>2, <3>3, <3>4, <3>5
    <3>8. \A r \in LPage : lowner'[r] \in Thread => tcpage'[lowner'[r]] = r
      BY <2>2, <1>2, <3>2, <3>3, <3>4, <3>6
    <3>9. \A r \in LPage : lowner'[r] = "new" => lp'[r].mds = <<>>
      BY <1>2, <3>1, <3>3, <3>4 DEF OwnersOK
    <3> QED BY <3>7, <3>8, <3>9 DEF OwnersOK, LocalOwners
  <2> QED BY <1>1, <2>1, <2>2, <2>3, <2>4, <2>5, MoveToKeeps
<1> QED BY <1>6, <1>7

-----------------------------------------------------------------------------
(***************************************************************************)
(* compact().                                                              *)
(***************************************************************************)
\* What a pass over page p leaves, and what it begins with.
Pass(p)   == CompactPass(lp[p], At(p), lmem[p], pinned)
Before(p) == [mds |-> lp[p].mds, at |-> At(p), mem |-> lmem[p], moved |-> 0]
PassOK(p) ==
  /\ Pass(p).mds \in Seq(EntryType) /\ Pass(p).at \in Map /\ Pass(p).moved \in Nat
  /\ Pass(p).mem = [u \in 0 .. PageUnits - 1 |-> Pass(p).mem[u]]
  /\ \E n \in Nat : /\ (Len(lp[p].mds) = 0 /\ n = 0) \/ n + 1 = Len(lp[p].mds)
                    /\ Sound(Pass(p), Before(p), lp[p].bump, pinned, n)

\* The pass over a page in a barrier is sound.
LEMMA PassIs ==
  ASSUME Sane, phase = "compact", NEW p \in LPage PROVE PassOK(p)
<1>1. /\ TypeOK /\ PagesOK /\ \A t \in Thread : job[t] = None
  BY InBarrier DEF Sane
<1> DEFINE B     == {lmem[p][u] : u \in 0 .. PageUnits - 1}
           units == lmem[p]
           old   == Before(p)
           at    == At(p)
           bump  == lp[p].bump
<1>2. /\ lp[p].mds \in Seq(EntryType) /\ bump \in Nat /\ at \in Map
      /\ EndToEnd(lp[p].mds, bump, at) /\ Named(lp[p].mds, at) /\ Quiet(lp[p].mds)
  <2>1. Quiet(lp[p].mds)
    BY <1>1 DEF PagesOK, Fading, Quiet
  <2> QED BY <1>1, <2>1, PageIs DEF PageOK
<1>3. old \in AccType(B)
  <2>1. lmem[p] = [u \in 0 .. PageUnits - 1 |-> lmem[p][u]]
    BY <1>1 DEF TypeOK
  <2>2. \A u \in 0 .. PageUnits - 1 : lmem[p][u] \in B \cup {None}
    OBVIOUS
  <2> HIDE DEF B
  <2>3. lmem[p] \in [0 .. PageUnits - 1 -> B \cup {None}]
    BY <2>1, <2>2
  <2> QED BY <1>2, <2>3 DEF AccType, Before
<1>4. /\ old = [mds |-> lp[p].mds, at |-> at, mem |-> units, moved |-> 0]
      /\ old.mds = lp[p].mds /\ old.at = at
  BY DEF Before
<1> DEFINE acc == CompactPass(lp[p], at, units, pinned)
<1>5. acc = Pass(p)
  BY DEF Pass
<1> HIDE DEF B, units, old, at, bump, acc
<1>6. EndToEnd(old.mds, bump, old.at) /\ Named(old.mds, old.at) /\ Quiet(old.mds)
  BY <1>2, <1>4
<1>7. /\ acc \in AccType(B)
      /\ \E n \in Nat : /\ (Len(old.mds) = 0 /\ n = 0) \/ n + 1 = Len(old.mds)
                        /\ Sound(acc, old, bump, pinned, n)
  BY <1>2, <1>3, <1>4, <1>6, CompactPassSound DEF acc
<1>8. /\ acc.mds \in Seq(EntryType) /\ acc.at \in Map /\ acc.moved \in Nat
      /\ acc.mem = [u \in 0 .. PageUnits - 1 |-> acc.mem[u]]
  BY <1>7 DEF AccType
<1> QED BY <1>4, <1>5, <1>7, <1>8 DEF PassOK, old, bump

\* A page when compact() has pruned what a pass has left.
PrunedOK(p, N) ==
  LET acc == Pass(p)
      k   == Kept(acc.mds)
  IN  /\ N \in PageType /\ Len(N.mds) = k /\ k \in 1 .. Len(acc.mds)
      /\ \A i \in 1 .. k : N.mds[i] = acc.mds[i]
      /\ \A i \in 1 .. Len(acc.mds) : acc.mds[i].who # None => i \in 1 .. k
      /\ EndToEnd(N.mds, N.bump, acc.at) /\ Named(N.mds, acc.at) /\ Quiet(N.mds)
      /\ N.freed <= Taken(N.mds, Nameless(N.mds))
      /\ Kept(N.mds) = k

\* The page after compact() is sound, when an entry is left allocated.
LEMMA PrunedIs ==
  ASSUME Sane, phase = "compact", NEW p \in LPage, Kept(Pass(p).mds) # 0
  PROVE  PrunedOK(p, Prune([lp[p] EXCEPT !.mds = Pass(p).mds], Pass(p).at))
<1> DEFINE acc == Pass(p)
           pg  == [lp[p] EXCEPT !.mds = Pass(p).mds]
           new == Prune(pg, acc.at)
           k   == Kept(pg.mds)
           bump == lp[p].bump
           at   == acc.at
<1>1. /\ lp[p] \in PageType /\ lp[p].bump \in Nat /\ PageOK(p)
  BY PageIs DEF Sane
<1>2. acc.mds \in Seq(EntryType) /\ acc.at \in Map
  BY PassIs DEF PassOK
<1>3. pg = [mds |-> acc.mds, bump |-> lp[p].bump, freed |-> lp[p].freed]
  BY <1>1, PageFields DEF PutMds
<1>4. pg \in PageType /\ pg.mds = acc.mds /\ pg.bump = bump /\ pg.freed = lp[p].freed
  BY <1>1, <1>2, <1>3 DEF PageType
<1>5. /\ EndToEnd(acc.mds, bump, acc.at) /\ Named(acc.mds, acc.at) /\ Quiet(acc.mds)
      /\ Taken(acc.mds, Nameless(acc.mds)) = Taken(lp[p].mds, Nameless(lp[p].mds))
  BY PassIs DEF PassOK, Sound, Before
<1> HIDE DEF acc, pg, at, bump
<1>6. /\ pg \in PageType /\ bump \in Nat /\ pg.bump = bump /\ EndToEnd(pg.mds, bump, at)
      /\ Named(pg.mds, at) /\ Quiet(pg.mds) /\ Kept(pg.mds) # 0
  BY <1>1, <1>4, <1>5 DEF acc, at, bump
<1>7. /\ new \in PageType
      /\ Len(new.mds) = k /\ k \in 1 .. Len(pg.mds)
      /\ \A i \in 1 .. k : new.mds[i] = pg.mds[i]
      /\ \A i \in 1 .. Len(pg.mds) : pg.mds[i].who # None => i \in 1 .. k
      /\ EndToEnd(new.mds, new.bump, at) /\ Named(new.mds, at) /\ Quiet(new.mds)
      /\ new.freed - Taken(new.mds, Nameless(new.mds)) =
           pg.freed - Taken(pg.mds, Nameless(pg.mds))
      /\ Kept(new.mds) = k
  BY <1>6, PruneIs DEF at
<1>8. new.freed <= Taken(new.mds, Nameless(new.mds))
  <2> DEFINE x == Taken(new.mds, Nameless(new.mds))
             y == Taken(pg.mds, Nameless(pg.mds))
  <2>1. x \in Nat /\ y \in Nat /\ new.freed \in Int /\ pg.freed \in Int
    BY <1>6, <1>7, TakenType DEF PageType
  <2>2. pg.freed <= y
    BY <1>1, <1>4, <1>5 DEF PageOK
  <2> HIDE DEF x, y
  <2>3. new.freed - x = pg.freed - y
    BY <1>7 DEF x, y
  <2>4. new.freed <= x
    BY <2>1, <2>2, <2>3
  <2> QED BY <2>4 DEF x
<1>9. new = Prune([lp[p] EXCEPT !.mds = Pass(p).mds], Pass(p).at)
  BY DEF pg, acc, at
<1> HIDE DEF new
<1>10. PrunedOK(p, new)
  BY <1>4, <1>7, <1>8 DEF PrunedOK, acc, at
<1> QED BY <1>9, <1>10

\* compact() moves objects inside page p and nothing else.
Shifts(p) ==
  /\ \A h \in Obj : ptr'[h] = IF ptr[h] \in Spot /\ ptr[h][1] = p
                              THEN <<p, Pass(p).at[h]>> ELSE ptr[h]
  /\ \A h \in Obj : ptr[h] \in Spot /\ ptr[h][1] = p =>
       /\ Pass(p).at[h] \in Nat /\ ptr'[h] \in Spot /\ ptr'[h] \in Place
       /\ ptr'[h][1] = p /\ ptr'[h][2] = Pass(p).at[h]

\* What compact() does to the mappings.
LEMMA ShiftsIs ==
  ASSUME Sane, NEW p \in LPage, CompactLocal(p) PROVE Shifts(p)
<1>1. Sane /\ phase = "compact" /\ TypeOK /\ PagesOK /\ LocalFacts
  BY LocalIs DEF CompactLocal, Sane
<1>2. /\ Pass(p).at \in Map
      /\ \A h \in Obj : Pass(p).at[h] = None <=> At(p)[h] = None
  BY <1>1, PassIs DEF PassOK, Sound, Nearer, Before
<1>3. \A h \in Obj : At(p)[h] # None <=> ptr[h] \in Spot /\ ptr[h][1] = p
  BY <1>1, PageIs DEF LocalFacts
<1>4. ptr' = [h \in Obj |-> IF Pass(p).at[h] # None THEN <<p, Pass(p).at[h]>> ELSE ptr[h]]
  BY DEF CompactLocal, Pass
<1>5. \A h \in Obj : Pass(p).at[h] \in Nat \cup {None}
  BY <1>2 DEF Map
<1> QED BY <1>2, <1>3, <1>4, <1>5, BlocksAndSpots, Zenon DEF Shifts

\* compact() keeps the invariant, or no entry was left and it ran off the page.
LEMMA CompactLocalKeeps ==
  ASSUME Sane, NEW p \in LPage, CompactLocal(p) PROVE wild' \/ Sane'
<1> DEFINE acc == Pass(p)
           N   == Prune([lp[p] EXCEPT !.mds = acc.mds], acc.at)
<1>1. /\ TypeOK /\ BlocksOK /\ HandlesOK /\ RegionsOK /\ JobsOK /\ PhaseOK /\ PagesOK /\ OwnersOK
      /\ LocalFacts /\ AtFacts /\ \A t \in Thread : job[t] = None
      /\ phase = "compact" /\ PassOK(p) /\ Shifts(p)
  BY LocalIs, InBarrier, PassIs, ShiftsIs DEF Sane, CompactLocal
<1>2. /\ lp' = [lp EXCEPT ![p] = N]
      /\ lmem' = [lmem EXCEPT ![p] = acc.mem] /\ todo' \subseteq todo
      /\ wild' = (Kept(acc.mds) = 0)
      /\ UNCHANGED <<addr, size, header, mem, huge, lowner, tcpage, job, barrier,
                     pinned, phase>>
  <2>1. lp' = [lp EXCEPT ![p] = Prune([@ EXCEPT !.mds = acc.mds], acc.at)]
    BY DEF CompactLocal, Pass
  <2>2. lp' = [lp EXCEPT ![p] = N]
    BY <2>1
  <2>3. /\ lmem' = [lmem EXCEPT ![p] = acc.mem] /\ todo' \subseteq todo
        /\ wild' = (Kept(acc.mds) = 0)
        /\ UNCHANGED <<objs, header, mem, huge, lowner, tcpage, job, barrier,
                       pinned, phase>>
    BY DEF CompactLocal, Pass
  <2> HIDE DEF N, acc
  <2> QED BY <2>2, <2>3 DEF objs
<1> SUFFICES ASSUME Kept(acc.mds) # 0 PROVE Sane'
  BY <1>2
<1>3. PrunedOK(p, N)
  BY <1>1, PrunedIs
<1> HIDE DEF N
<1>4. \A r \in LPage : lp'[r] = IF r = p THEN N ELSE lp[r]
  BY <1>1, <1>2 DEF TypeOK
<1>5. \A h \in Obj : /\ ptr[h] \in Spot <=> ptr'[h] \in Spot
                     /\ ptr[h] \notin Spot => ptr'[h] = ptr[h]
                     /\ ptr[h] \in Spot => ptr'[h][1] = ptr[h][1]
                     /\ ptr[h] \in Spot /\ ptr[h][1] # p => ptr'[h] = ptr[h]
                     /\ ptr[h] \in Spot => ptr'[h] \in Place
  BY <1>1, BlocksAndSpots DEF Shifts, LocalFacts, Place, Spot
<1>6. TypeOK'
  <2>1. ptr' \in [Obj -> {None} \cup Place]
    <3>1. ptr' = [h \in Obj |-> ptr'[h]]
      <4>1. ptr' = [h \in Obj |-> IF acc.at[h] # None THEN <<p, acc.at[h]>> ELSE ptr[h]]
        BY DEF CompactLocal, Pass
      <4> QED BY <4>1
    <3>2. \A h \in Obj : ptr'[h] \in {None} \cup Place
      BY <1>1, <1>5 DEF LocalFacts
    <3> QED BY <3>1, <3>2
  <2>2. lp' \in [LPage -> PageType]
    BY <1>1, <1>2, <1>3 DEF TypeOK, PrunedOK
  <2>3. lmem' = [r \in LPage |-> [u \in 0 .. PageUnits - 1 |-> lmem'[r][u]]]
    <3>1. lmem = [r \in LPage |-> [u \in 0 .. PageUnits - 1 |-> lmem[r][u]]]
      BY <1>1 DEF TypeOK
    <3>2. DOMAIN lmem = LPage
      BY <3>1
    <3>3. DOMAIN lmem' = LPage /\ lmem' = [r \in LPage |-> lmem'[r]]
      BY <1>2, <3>2
    <3>4. ASSUME NEW r \in LPage PROVE lmem'[r] = [u \in 0 .. PageUnits - 1 |-> lmem'[r][u]]
      <4>1. lmem'[r] = IF r = p THEN acc.mem ELSE lmem[r]
        BY <1>2, <3>2
      <4>2. lmem[r] = [u \in 0 .. PageUnits - 1 |-> lmem[r][u]]
        BY <3>1
      <4>3. acc.mem = [u \in 0 .. PageUnits - 1 |-> acc.mem[u]]
        BY <1>1 DEF PassOK
      <4> QED BY <4>1, <4>2, <4>3
    <3> QED BY <3>3, <3>4
  <2>4. todo' \subseteq LPage
    BY <1>1, <1>2 DEF TypeOK
  <2> QED BY <1>1, <1>2, <2>1, <2>2, <2>3, <2>4 DEF TypeOK
<1>7. LocalFacts' /\ AtFacts'
  BY <1>6, LocalIsNext
<1>8. /\ \A h \in Obj : InLocal(h)' <=> InLocal(h)
      /\ \A h \in Obj : InBlock(h)' <=> InBlock(h)
      /\ \A h \in Obj : InBlock(h) => ptr'[h] = ptr[h]
  <2>1. \A h \in Obj : ptr[h] \in Block => ptr[h] \notin Spot
    BY <1>1, PlacesApart DEF LocalFacts
  <2>2. \A h \in Obj : ptr'[h] \in Spot => ptr'[h] \notin Block
    BY <1>7, PlacesApart DEF LocalFacts
  <2>3. \A h \in Obj : InLocal(h)' <=> InLocal(h)
    BY <1>1, <1>5, <1>7 DEF LocalFacts
  <2>4. \A h \in Obj : ptr'[h] \in Block <=> ptr[h] \in Block
    BY <1>5, <2>1, <2>2
  <2>5. \A h \in Obj : InBlock(h)' <=> InBlock(h)
    BY <1>1, <1>7, <2>4 DEF LocalFacts
  <2>6. \A h \in Obj : InBlock(h) => ptr'[h] = ptr[h]
    BY <1>1, <1>5, <2>1 DEF LocalFacts
  <2> QED BY <2>3, <2>5, <2>6
<1>9. BlocksOK'
  <2>1. ASSUME NEW b \in Block, header[b] # None PROVE ptr'[header[b].who] = b
    <3>1. ptr[header[b].who] = b /\ header[b].who \in Obj
      BY <1>1, <2>1, HeaderIs DEF BlocksOK, Awaited, HeaderFacts
    <3> QED BY <1>8, <3>1 DEF InBlock
  <2> QED BY <1>1, <1>2, <1>8, <2>1 DEF BlocksOK
<1>10. HandlesOK'
  <2>1. \A h \in Obj : InUse(h)' <=> InUse(h)
    BY <1>1, <1>7, <1>8 DEF LocalFacts
  <2> QED BY <1>1, <1>2, <2>1 DEF HandlesOK, HasHandle, Busy
<1>11. RegionsOK' /\ JobsOK'
  BY <1>1, <1>2 DEF RegionsOK, IsHuge, JobsOK, Writing
<1>12. PhaseOK'
  BY <1>1, <1>2 DEF PhaseOK
<1>13. At(p)' = acc.at /\ \A r \in LPage : r # p => At(r)' = At(r)
  <2>0. acc.at = [h \in Obj |-> acc.at[h]]
        /\ \A h \in Obj : acc.at[h] = None <=> At(p)[h] = None
    BY <1>1 DEF PassOK, Map, Sound, Nearer, Before
  <2>1. At(p)' = acc.at
    <3>1. \A h \in Obj : (IF ptr'[h] \in Spot /\ ptr'[h][1] = p THEN ptr'[h][2] ELSE None)
                         = acc.at[h]
      <4>1. ASSUME NEW h \in Obj, ptr[h] \in Spot, ptr[h][1] = p
            PROVE  ptr'[h] \in Spot /\ ptr'[h][1] = p /\ ptr'[h][2] = acc.at[h]
        BY <1>1, <4>1 DEF Shifts
      <4>2. ASSUME NEW h \in Obj, ~(ptr[h] \in Spot /\ ptr[h][1] = p)
            PROVE  acc.at[h] = None /\ ~(ptr'[h] \in Spot /\ ptr'[h][1] = p)
        <5>1. At(p)[h] = None
          BY <1>1, <4>2, PageIs DEF LocalFacts
        <5> QED BY <1>5, <2>0, <4>2, <5>1
      <4> QED BY <4>1, <4>2
    <3>2. At(p)' = AtOf(ptr', p)
      BY <1>7 DEF AtFacts
    <3> QED BY <2>0, <3>1, <3>2 DEF AtOf
  <2>2. ASSUME NEW r \in LPage, r # p PROVE At(r)' = At(r)
    <3>1. \A h \in Obj : (IF ptr'[h] \in Spot /\ ptr'[h][1] = r THEN ptr'[h][2] ELSE None)
                         = (IF ptr[h] \in Spot /\ ptr[h][1] = r THEN ptr[h][2] ELSE None)
      BY <1>5, <2>2
    <3>2. At(r)' = AtOf(ptr', r) /\ At(r) = AtOf(ptr, r)
      BY <1>1, <1>7 DEF AtFacts
    <3> QED BY <3>1, <3>2 DEF AtOf
  <2> QED BY <2>1, <2>2
<1>14. PagesOK'
  <2>1. ASSUME NEW r \in LPage PROVE PageOK(r)'
    <3>1. CASE r = p
      BY <1>3, <1>4, <1>13, <3>1 DEF PageOK, PrunedOK
    <3>2. CASE r # p
      BY <1>1, <1>4, <1>13, <3>2 DEF PagesOK, PageOK
    <3> QED BY <3>1, <3>2
  <2>2. ASSUME NEW h \in Obj, InLocal(h)' PROVE Listed(h)'
    <3>1. InLocal(h) /\ ptr[h] \in Spot /\ ptr[h][1] \in LPage /\ ptr'[h][1] = ptr[h][1]
      BY <1>1, <1>5, <1>8, <2>2, PlacesApart DEF LocalFacts
    <3>2. PICK i \in 1 .. Len(lp[ptr[h][1]].mds) : lp[ptr[h][1]].mds[i].who = h
      BY <1>1, <3>1 DEF PagesOK, Leaving, Writing, Listed
    <3>3. \E k \in 1 .. Len(lp'[ptr[h][1]].mds) : lp'[ptr[h][1]].mds[k].who = h
      <4>1. CASE ptr[h][1] = p
        <5>1. i \in 1 .. Len(Before(p).mds) /\ Before(p).mds[i].who = h /\ h # None
          BY <3>2, <4>1, NoneApart DEF Before
        <5>2. Carried(acc, Before(p))
          BY <1>1 DEF PassOK, Sound
        <5>3. PICK k \in 1 .. Len(acc.mds) : SameObject(acc, k, Before(p), i)
          BY <5>1, <5>2 DEF Carried
        <5>4. acc.mds[k].who = h
          BY <5>1, <5>3 DEF SameObject
        <5>5. k \in 1 .. Len(N.mds) /\ N.mds[k].who = h
          BY <1>3, <5>1, <5>4 DEF PrunedOK
        <5> QED BY <1>4, <4>1, <5>5
      <4>2. CASE ptr[h][1] # p
        BY <1>4, <3>1, <3>2, <4>2
      <4> QED BY <4>1, <4>2
    <3> QED BY <3>1, <3>3 DEF Listed
  <2>3. ASSUME NEW r \in LPage, NEW i \in 1 .. Len(lp'[r].mds),
               lp'[r].mds[i].who = None, lp'[r].mds[i].allocated
        PROVE  FALSE
    <3>1. CASE r = p
      BY <1>3, <1>4, <2>3, <3>1 DEF PrunedOK, Quiet
    <3>2. CASE r # p
      BY <1>1, <1>4, <2>3, <3>2 DEF PagesOK, Fading
    <3> QED BY <3>1, <3>2
  <2> QED BY <1>1, <1>2, <2>1, <2>2, <2>3 DEF PagesOK
<1>15. OwnersOK'
  <2>1. ASSUME NEW r \in LPage, lowner[r] = "new" PROVE lp'[r].mds = <<>>
    <3>1. lp[r].mds = <<>>
      BY <1>1, <2>1 DEF OwnersOK
    <3>2. r # p
      <4>1. SUFFICES ASSUME r = p PROVE FALSE
        OBVIOUS
      <4>2. Len(acc.mds) = 0
        BY <1>1, <3>1, <4>1 DEF PassOK, Sound, Before
      <4>3. Kept(acc.mds) \in 1 .. Len(acc.mds)
        BY <1>3 DEF PrunedOK
      <4> QED BY <4>2, <4>3
    <3> QED BY <1>4, <3>1, <3>2
  <2> QED BY <1>1, <1>2, <2>1 DEF OwnersOK, LocalOwners
<1> QED BY <1>6, <1>9, <1>10, <1>11, <1>12, <1>14, <1>15 DEF Sane

-----------------------------------------------------------------------------
(***************************************************************************)
(* The invariant is inductive.                                             *)
(***************************************************************************)
\* The first part of the invariant is a part of the second.
LEMMA SaneIsAlways == Sane => Always
BY DEF Sane, TypeOK, Always

\* The same in the next state.
LEMMA SaneNextIsAlways == Sane' => Always'
BY SaneIsAlways, PTL

\* The invariant holds at first.
LEMMA SaneInit == Init => IInv
<1> SUFFICES ASSUME Init PROVE Sane
  BY SaneIsAlways DEF IInv
<1>1. /\ \A o \in Obj : addr[o] = None /\ ptr[o] = None
      /\ \A b \in Block : header[b] = None
      /\ \A p \in LPage : lp[p] = EmptyPage
      /\ \A t \in Thread : tcpage[t] = None /\ job[t] = None
      /\ barrier = None /\ pinned = {} /\ phase = "run" /\ todo = {}
  BY DEF Init
<1>2. PICK room \in Rooms :
        /\ lowner = [p \in LPage |-> IF p \in room[1] THEN "new" ELSE "never"]
        /\ huge   = [r \in Region |-> IF r \in room[2] THEN 0 ELSE -1]
  BY DEF Init
<1>3. EmptyPage \in PageType /\ EmptyPage.mds = <<>> /\ Len(EmptyPage.mds) = 0
      /\ EmptyPage.bump = 0 /\ EmptyPage.freed = 0 /\ EmptyPage.mds \in Seq(EntryType)
  BY DEF EmptyPage, PageType
<1>4. TypeOK
  <2>1. \A p \in LPage : lowner[p] \in {"new", "never"}
    BY <1>2
  <2>2. huge \in [Region -> Int]
    BY <1>2
  <2>3. lp \in [LPage -> PageType]
    BY <1>3 DEF Init
  <2>4. lmem = [p \in LPage |-> [u \in 0 .. PageUnits - 1 |-> lmem[p][u]]]
    <3>1. lmem = [p \in LPage |-> [u \in 0 .. PageUnits - 1 |-> None]]
      BY DEF Init
    <3>2. \A p \in LPage : lmem[p] = [u \in 0 .. PageUnits - 1 |-> lmem[p][u]]
      BY <3>1
    <3>3. lmem = [p \in LPage |-> lmem[p]]
      BY <3>1
    <3> QED BY <3>2, <3>3
  <2>5. lowner \in [LPage -> Thread \cup {None, "new", "never"}]
    BY <1>2, <2>1
  <2> QED BY <1>1, <2>2, <2>3, <2>4, <2>5 DEF Init, TypeOK
<1>5. LocalFacts /\ AtFacts
  BY <1>4, LocalIs
<1>6. \A o \in Obj : ~HasHandle(o) /\ ~InUse(o) /\ ~InBlock(o) /\ ~InLocal(o) /\ ~IsHuge(o)
  BY <1>1, <1>5, NoneApart DEF HasHandle, IsHuge, InUse, LocalFacts
<1>7. BlocksOK /\ HandlesOK /\ JobsOK /\ PhaseOK
  BY <1>1, <1>6, NoneApart DEF BlocksOK, HandlesOK, JobsOK, PhaseOK, Writing
<1>8. RegionsOK
  BY <1>6 DEF RegionsOK
<1>9. PagesOK
  <2>1. ASSUME NEW p \in LPage PROVE PageOK(p)
    <3>1. Nameless(EmptyPage.mds) = {} /\ Taken(EmptyPage.mds, {}) = 0
      <4>1. Nameless(EmptyPage.mds) = {}
        BY <1>3 DEF Nameless
      <4> QED BY <1>3, <4>1, TakenNone
    <3>2. EndToEnd(EmptyPage.mds, EmptyPage.bump, At(p)) /\ Named(EmptyPage.mds, At(p))
      BY <1>3, PageUnitsAssumption DEF EndToEnd, Named
    <3>3. EmptyPage.freed <= Taken(EmptyPage.mds, Nameless(EmptyPage.mds))
      <4>1. Taken(EmptyPage.mds, Nameless(EmptyPage.mds)) = 0 /\ EmptyPage.freed = 0
        BY <1>3, <3>1, Zenon
      <4>2. 0 <= 0
        OBVIOUS
      <4> QED BY <4>1, <4>2, Zenon
    <3> QED BY <1>1, <3>2, <3>3, Zenon DEF PageOK
  <2> QED BY <1>1, <1>3, <1>6, <2>1 DEF PagesOK
<1>10. OwnersOK
  <2>1. \A p \in LPage : lowner[p] \in {"new", "never"}
    BY <1>2
  <2> QED BY <1>1, <1>3, <2>1, ApartAssumption DEF OwnersOK, LocalOwners
<1> QED BY <1>4, <1>7, <1>8, <1>9, <1>10 DEF Sane

\* Only localize() does not ask what has happened before.
LEMMA WildStep ==
  ASSUME wild, Next PROVE \E h \in Obj : Localize(h)
<1>1. ASSUME NEW t \in Thread, NEW o \in Obj, Ready(t, o) PROVE FALSE
  BY <1>1 DEF Ready
<1>2. ASSUME NEW t \in Thread, NEW x, AtStep(t, x) PROVE FALSE
  BY <1>2 DEF AtStep
<1>3. ASSUME NEW t \in Thread, NEW o \in Obj,
             \/ HallocSmall(t, o) \/ HallocHuge(t, o)
             \/ HandleToHuge(t, o) \/ HugeToHuge(t, o)
             \/ HandleToHandle(t, o) \/ HugeToHandle(t, o)
             \/ Hfree(t, o) \/ HfreeHuge(t, o) \/ ReadSize(t, o)
      PROVE  FALSE
  BY <1>1, <1>3 DEF HallocSmall, HallocHuge, HandleToHuge, HugeToHuge, HandleToHandle,
     HugeToHandle, Hfree, HfreeHuge, ReadSize
<1>4. ASSUME NEW t \in Thread, FindEntry(t) \/ PutAddress(t) \/ ClearFlag(t) \/ Finish(t)
      PROVE  FALSE
  BY <1>2, <1>4 DEF FindEntry, PutAddress, ClearFlag, Finish
<1>5. ASSUME NEW t \in Mover, BeginBarrier(t) PROVE FALSE
  BY <1>5 DEF BeginBarrier
<1>6. ASSUME NEW h \in Obj, CompactSized(h) PROVE FALSE
  BY <1>6 DEF CompactSized
<1>7. ASSUME NEW p \in LPage, CompactLocal(p) PROVE FALSE
  BY <1>7 DEF CompactLocal
<1>8. ~StartCompaction /\ ~EndBarrier
  BY DEF StartCompaction, EndBarrier
<1> QED BY <1>3, <1>4, <1>5, <1>6, <1>7, <1>8, Zenon DEF Next

\* Once memory outside a page has been used, nothing happens but localize().
LEMMA WildKeeps ==
  ASSUME Always, wild, [Next]_vars PROVE IInv'
<1>1. CASE UNCHANGED vars
  BY <1>1 DEF vars, store, stop, Always, IInv
<1>2. ASSUME NEW h \in Obj, Localize(h) PROVE IInv'
  <2>1. UNCHANGED stop /\ wild' = wild /\ \E x : ptr' = [ptr EXCEPT ![h] = x]
    BY <1>2 DEF Localize, MoveTo
  <2>2. PICK x : ptr' = [ptr EXCEPT ![h] = x]
    BY <2>1
  <2>3. ptr' = [o \in Obj |-> ptr'[o]]
    <3>1. ptr = [o \in Obj |-> ptr[o]]
      BY DEF Always
    <3>2. DOMAIN ptr = Obj
      BY <3>1
    <3>3. DOMAIN ptr' = Obj /\ ptr' = [o \in DOMAIN ptr |-> ptr'[o]]
      BY <2>2, <3>2
    <3> QED BY <3>2, <3>3, Zenon
  <2> QED BY <2>1, <2>3 DEF stop, Always, IInv
<1>3. CASE Next
  <2>1. PICK h \in Obj : Localize(h)
    BY <1>3, WildStep
  <2> QED BY <1>2, <2>1
<1> QED BY <1>1, <1>3

\* The step that uses it first leaves the mappings alone.
LEMMA WentWild ==
  ASSUME Always, wild', UNCHANGED <<ptr, pinned>> PROVE IInv'
BY DEF Always, IInv

\* What is left when it is not used.
LEMMA StillSane ==
  ASSUME Sane' PROVE IInv'
BY SaneNextIsAlways DEF IInv

\* Every action keeps the invariant.
LEMMA SaneStep ==
  ASSUME Sane, Next PROVE IInv'
<1>0. Always
  BY SaneIsAlways
<1>1. ASSUME NEW t \in Thread, NEW o \in Obj,
             \/ HallocSmall(t, o) \/ HallocHuge(t, o)
             \/ HandleToHuge(t, o) \/ HugeToHuge(t, o)
             \/ HandleToHandle(t, o) \/ HugeToHandle(t, o)
             \/ Hfree(t, o) \/ HfreeHuge(t, o)
      PROVE  IInv'
  <2>1. Sane'
    BY <1>1, HallocSmallKeeps, HallocHugeKeeps, HandleToHugeKeeps, HugeToHugeKeeps,
       HandleToHandleKeeps, HugeToHandleKeeps, HfreeKeeps, HfreeHugeKeeps
  <2> QED BY <2>1, StillSane
<1>2. ASSUME NEW t \in Thread, NEW o \in Obj, ReadSize(t, o) PROVE IInv'
  <2>1. wild' /\ UNCHANGED <<ptr, pinned>>
    BY <1>2 DEF ReadSize, store, stop
  <2> QED BY <1>0, <2>1, WentWild
<1>3. ASSUME NEW t \in Thread, FindEntry(t) PROVE IInv'
  <2>1. UNCHANGED <<ptr, pinned>>
    BY <1>3 DEF FindEntry, store, stop
  <2>2. wild' \/ Sane'
    BY <1>3, FindEntryKeeps
  <2> QED BY <1>0, <2>1, <2>2, WentWild, StillSane
<1>4. ASSUME NEW t \in Thread, PutAddress(t) \/ ClearFlag(t) \/ Finish(t) PROVE IInv'
  <2>1. Sane'
    BY <1>4, PutAddressKeeps, ClearFlagKeeps, FinishKeeps
  <2> QED BY <2>1, StillSane
<1>5. ASSUME NEW t \in Mover, BeginBarrier(t) PROVE IInv'
  BY <1>5, BeginBarrierKeeps, StillSane, MoverAssumption
<1>6. ASSUME NEW h \in Obj, Localize(h) \/ CompactSized(h) PROVE IInv'
  <2>1. Sane'
    BY <1>6, LocalizeKeeps, CompactSizedKeeps
  <2> QED BY <2>1, StillSane
<1>7. ASSUME NEW p \in LPage, CompactLocal(p) PROVE IInv'
  <2>1. wild' \/ Sane'
    BY <1>7, CompactLocalKeeps
  <2>2. CASE Sane'
    BY <2>2, StillSane
  <2>3. CASE wild'
    <3>1. pinned' = pinned /\ ptr' = [h \in Obj |-> ptr'[h]]
      <4>1. /\ pinned' = pinned
            /\ ptr' = [h \in Obj |-> IF Pass(p).at[h] # None THEN <<p, Pass(p).at[h]>>
                                     ELSE ptr[h]]
        BY <1>7 DEF CompactLocal, Pass
      <4> QED BY <4>1
    <3> QED BY <1>0, <2>3, <3>1 DEF Always, IInv
  <2> QED BY <2>1, <2>2, <2>3
<1>8. CASE StartCompaction \/ EndBarrier
  <2>1. Sane'
    BY <1>8, StartCompactionKeeps, EndBarrierKeeps
  <2> QED BY <2>1, StillSane
<1> QED BY <1>1, <1>2, <1>3, <1>4, <1>5, <1>6, <1>7, <1>8 DEF Next

\* So does a step that changes nothing.
LEMMA UnchangedSane == IInv /\ UNCHANGED vars => IInv'
<1> SUFFICES ASSUME IInv, UNCHANGED vars PROVE IInv'
  OBVIOUS
<1>1. UNCHANGED <<addr, size, ptr, header, mem, huge, lp, lmem, lowner, tcpage, job,
                  barrier, pinned, phase, todo, wild>>
  BY DEF vars, objs, store, local, stop
<1>2. CASE wild
  BY <1>1, <1>2 DEF IInv, Always
<1>3. CASE Sane
  <2>1. OwnersOK' /\ PhaseOK' /\ TypeOK'
    BY <1>1, <1>3 DEF Sane, OwnersOK, LocalOwners, PhaseOK, TypeOK
  <2>2. OutOfPages
    BY <1>1 DEF OutOfPages
  <2>3. PagesOK'
    BY <1>3, <2>1, <2>2, PagesSame DEF Sane
  <2>4. BlocksOK' /\ HandlesOK' /\ RegionsOK' /\ JobsOK'
    BY <1>1, <1>3 DEF Sane, BlocksOK, HandlesOK, RegionsOK, JobsOK, InBlock, InUse, InLocal,
       HasHandle, IsHuge, Busy, Awaited, Writing, JobOK
  <2> QED BY <2>1, <2>3, <2>4, StillSane DEF Sane
<1> QED BY <1>2, <1>3 DEF IInv

\* The invariant is inductive.
LEMMA IInvStep == IInv /\ [Next]_vars => IInv'
<1> SUFFICES ASSUME IInv, [Next]_vars PROVE IInv'
  OBVIOUS
<1>1. CASE UNCHANGED vars
  BY <1>1, UnchangedSane
<1>2. CASE wild
  BY <1>2, WildKeeps DEF IInv
<1>3. CASE Sane /\ Next
  BY <1>3, SaneStep
<1> QED BY <1>1, <1>2, <1>3 DEF IInv

\* The inductive invariant holds in every state.
LEMMA AlwaysSane == Spec => []IInv
BY SaneInit, IInvStep, PTL DEF Spec

-----------------------------------------------------------------------------
(***************************************************************************)
(* What the invariant implies.                                             *)
(***************************************************************************)
\* Where the entry of an object in a locality page is, while a call frees it too.
OwnEntry(h, i) ==
  LET p   == ptr[h][1]
      mds == lp[p].mds
  IN  /\ i \in 1 .. Len(mds) /\ Start(mds, At(p), i) = ptr[h][2]
      /\ \/ mds[i].who = h
         \/ mds[i].who = None /\ \E t \in Thread : /\ Writing(t) /\ job[t].h = h
                                                  /\ job[t].page = p /\ job[t].md = i

\* Every object in a locality page has such an entry.
LEMMA OwnEntryIs ==
  ASSUME Sane, NEW h \in Obj, InLocal(h)
  PROVE  ptr[h][1] \in LPage /\ ptr[h][2] \in Nat /\ \E i : OwnEntry(h, i)
<1> DEFINE p == ptr[h][1]
<1>1. /\ TypeOK /\ JobsOK /\ PagesOK /\ JobFacts
      /\ p \in LPage /\ ptr[h][2] \in Nat /\ At(p)[h] = ptr[h][2]
  <2>1. TypeOK /\ JobsOK /\ PagesOK /\ JobFacts /\ LocalFacts
    BY JobIs, LocalIs DEF Sane
  <2>2. p \in LPage /\ ptr[h][2] \in Nat
    BY <2>1, PlacesApart DEF LocalFacts
  <2> QED BY <2>1, <2>2, PageIs
<1>2. CASE Listed(h)
  <2>1. PICK i \in 1 .. Len(lp[p].mds) : lp[p].mds[i].who = h
    BY <1>2 DEF Listed
  <2>2. Start(lp[p].mds, At(p), i) = ptr[h][2]
    BY <1>1, <2>1, NoneApart DEF Start, GetData
  <2>3. OwnEntry(h, i)
    BY <2>1, <2>2 DEF OwnEntry
  <2> QED BY <1>1, <2>3
<1>3. CASE Leaving(h)
  <2>1. PICK t \in Thread : Writing(t) /\ job[t].h = h
    BY <1>3 DEF Leaving
  <2>2. job[t] # None /\ job[t].step # "find" /\ job[t].step # "count"
    BY <2>1 DEF Writing
  <2>3. job[t].page = p
    BY <1>1, <2>1, <2>2 DEF JobsOK, JobOK
  <2>4. EntryOK(t)
    BY <1>1, <2>2 DEF PagesOK
  <2>5. /\ job[t].md \in 1 .. Len(lp[p].mds) /\ lp[p].mds[job[t].md].who = None
        /\ lp[p].mds[job[t].md].raw = ptr[h][2]
    BY <2>1, <2>2, <2>3, <2>4 DEF EntryOK
  <2>6. Start(lp[p].mds, At(p), job[t].md) = ptr[h][2]
    BY <2>5 DEF Start, GetData
  <2>7. OwnEntry(h, job[t].md)
    BY <2>1, <2>3, <2>5, <2>6 DEF OwnEntry
  <2> QED BY <1>1, <2>7
<1> QED BY <1>1, <1>2, <1>3 DEF PagesOK

\* No two objects are at one place of a locality page.
LEMMA OwnSpotEach ==
  ASSUME Sane, NEW o \in Obj, NEW q \in Obj, InLocal(o), InLocal(q), ptr[o] = ptr[q]
  PROVE  o = q
<1> DEFINE p   == ptr[o][1]
           mds == lp[p].mds
<1>1. p \in LPage /\ p = ptr[q][1] /\ ptr[q][2] = ptr[o][2]
  BY OwnEntryIs
<1>2. PICK i : OwnEntry(o, i)
  BY OwnEntryIs
<1>3. PICK j : OwnEntry(q, j)
  BY OwnEntryIs
<1>4. mds \in Seq(EntryType) /\ lp[p].bump \in Nat /\ EndToEnd(mds, lp[p].bump, At(p))
  BY <1>1, PageIs DEF Sane, PageOK
<1>5. /\ i \in 1 .. Len(mds) /\ j \in 1 .. Len(mds)
      /\ Start(mds, At(p), i) = ptr[o][2] /\ Start(mds, At(p), j) = ptr[o][2]
  BY <1>1, <1>2, <1>3 DEF OwnEntry
<1>6. i = j
  <2>1. Start(mds, At(p), i) \in Nat /\ Start(mds, At(p), j) \in Nat
    BY <1>4, <1>5 DEF EndToEnd
  <2>2. ~(i < j) /\ ~(j < i)
    BY <1>4, <1>5, <2>1, OrderOfStarts
  <2> QED BY <1>5, <2>2
<1>7. CASE mds[i].who = o
  BY <1>1, <1>2, <1>3, <1>6, <1>7, NoneApart DEF OwnEntry
<1>8. CASE mds[i].who # o
  <2>1. PICK t \in Thread : Writing(t) /\ job[t].h = o /\ job[t].page = p /\ job[t].md = i
    BY <1>2, <1>8 DEF OwnEntry
  <2>2. mds[i].who = None
    BY <1>2, <1>8 DEF OwnEntry
  <2>3. PICK u \in Thread : Writing(u) /\ job[u].h = q /\ job[u].page = p /\ job[u].md = i
    BY <1>1, <1>3, <1>6, <2>2, NoneApart DEF OwnEntry
  <2>4. t = u
    BY <2>1, <2>3 DEF Sane, JobsOK
  <2> QED BY <2>1, <2>3, <2>4
<1> QED BY <1>7, <1>8

\* The invariant implies OneOwnerEach.
LEMMA SaneOneOwner == Sane => OneOwnerEach
<1> SUFFICES ASSUME Sane PROVE OneOwnerEach
  OBVIOUS
<1>1. TypeOK /\ BlocksOK /\ HandlesOK /\ RegionsOK /\ LocalFacts
  BY LocalIs DEF Sane
<1>2. ASSUME NEW o \in Obj, NEW q \in Obj, Where(o) # None, Where(o) = Where(q)
      PROVE  o = q
  <2>1. CASE HasHandle(o) /\ HasHandle(q)
    <3>1. ptr[o] = ptr[q] /\ ptr[o] # None
      BY <1>2, <2>1 DEF Where
    <3>2. CASE ptr[o] \in Block
      BY <1>1, <3>1, <3>2 DEF BlocksOK, InBlock
    <3>3. CASE ptr[o] \notin Block
      <4>1. InLocal(o) /\ InLocal(q)
        BY <3>1, <3>3 DEF InLocal, InUse, InBlock
      <4> QED BY <3>1, <4>1, OwnSpotEach
    <3> QED BY <3>2, <3>3
  <2>2. CASE ~HasHandle(o) /\ ~HasHandle(q)
    <3>1. addr[o] = addr[q] /\ addr[o] # None /\ addr[o] # "handle"
      BY <1>2, <2>2 DEF Where, HasHandle
    <3>2. IsHuge(o)
      BY <1>1, <3>1 DEF TypeOK, IsHuge
    <3> QED BY <1>1, <3>1, <3>2 DEF RegionsOK
  <2>3. ASSUME NEW x \in Obj, NEW y \in Obj, HasHandle(x), ~HasHandle(y), Where(x) # None
        PROVE  Where(x) # Where(y)
    <3>1. Where(x) \in Place
      BY <1>1, <2>3 DEF Where, LocalFacts
    <3>2. Where(y) \in {None} \cup Region
      BY <1>1, <2>3 DEF Where, TypeOK, HasHandle
    <3> QED BY <2>3, <3>1, <3>2, ApartAssumption
  <2> QED BY <1>2, <2>1, <2>2, <2>3
<1>3. \A o \in Obj : IsHuge(o) => huge[addr[o]] > 0
  BY <1>1 DEF RegionsOK
<1>4. \A h \in Obj : InUse(h) => HasHandle(h) \/ Busy(h)
  BY <1>1 DEF HandlesOK
<1>5. \A b \in Block : header[b] # None =>
         \/ ptr[header[b].who] = b
         \/ \E t \in Thread : /\ job[t] # None
                             /\ job[t].h = header[b].who /\ job[t].dst = b
  BY <1>1 DEF BlocksOK, Awaited
<1> QED BY <1>2, <1>3, <1>4, <1>5 DEF OneOwnerEach

\* No two objects share memory, what an object has is allocated, and no block or
\* handle is without an object, whatever halloc, hrealloc, hfree, localize() and
\* both compactions do in whatever order (ThreadCache.cpp, Localizer.cpp,
\* HugeObjectAllocator.cpp).
THEOREM OwnersCorrect == Spec => []OneOwnerEach
<1>1. IInv => OneOwnerEach
  BY SaneOneOwner DEF IInv, OneOwnerEach
<1> QED BY <1>1, AlwaysSane, PTL

\* The entries of a page tile it, one for each of its objects.
LEMMA SaneTiled ==
  ASSUME Sane, NEW p \in LPage PROVE Tiled(p)
<1> DEFINE mds == lp[p].mds
           at  == At(p)
<1>1. /\ TypeOK /\ PagesOK /\ LocalFacts
      /\ mds \in Seq(EntryType) /\ lp[p].bump \in Nat /\ Len(mds) \in Nat
      /\ EndToEnd(mds, lp[p].bump, at)
      /\ DOMAIN mds = 1 .. Len(mds)
  BY LocalIs, PageIs, EntryFacts DEF Sane, PageOK
<1>2. ASSUME NEW i \in DOMAIN mds
      PROVE  GetData(mds[i], at) + mds[i].size =
               IF i = Len(mds) THEN lp[p].bump ELSE GetData(mds[i + 1], at)
  <2>1. CASE i = Len(mds)
    BY <1>1, <2>1 DEF EndToEnd, Start
  <2>2. CASE i # Len(mds)
    <3>1. i \in 1 .. Len(mds) /\ i + 1 \in 1 .. Len(mds)
      BY <1>1, <2>2
    <3>2. Start(mds, at, i + 1) = Start(mds, at, i) + mds[i].size
      BY <1>1, <3>1 DEF EndToEnd
    <3> QED BY <2>2, <3>2 DEF Start
  <2> QED BY <2>1, <2>2
<1>3. mds = <<>> \/ GetData(mds[1], at) = 0
  <2>1. mds # <<>> => Len(mds) # 0
    BY <1>1, EntryFacts
  <2> QED BY <1>1, <2>1 DEF EndToEnd, Start
<1>4. lp[p].bump + Len(mds) <= PageUnits
  BY <1>1 DEF EndToEnd
<1>5. ASSUME NEW h \in Obj, InLocal(h), ptr[h][1] = p
      PROVE  \/ Cardinality({i \in DOMAIN mds : mds[i].who = h}) = 1
             \/ \E t \in Thread : /\ job[t] # None /\ job[t].h = h
                                 /\ job[t].step \in {"flag", "finish"}
  <2>1. CASE Leaving(h)
    BY <2>1 DEF Leaving, Writing
  <2>2. CASE Listed(h)
    <3>1. PICK i \in 1 .. Len(mds) : mds[i].who = h
      BY <1>5, <2>2 DEF Listed
    <3>2. \A j \in 1 .. Len(mds) : mds[j].who = h => j = i
      BY <1>1, <3>1, OneEntryEach, NoneApart
    <3>3. {j \in DOMAIN mds : mds[j].who = h} = {i}
      BY <1>1, <3>1, <3>2
    <3> QED BY <3>3, FS_Singleton
  <2> QED BY <1>1, <1>5, <2>1, <2>2 DEF PagesOK
<1> QED BY <1>2, <1>3, <1>4, <1>5 DEF Tiled

\* find_md leads to every object's own entry.
LEMMA SaneFindsOwn == Sane => FindsOwn
<1> SUFFICES ASSUME Sane, NEW h \in Obj, InLocal(h)
             PROVE  LET pg == lp[ptr[h][1]]
                        i  == FindMd(pg, At(ptr[h][1]), ptr[h][2])
                    IN  i # 0 /\ GetData(pg.mds[i], At(ptr[h][1])) = ptr[h][2]
  BY DEF FindsOwn
<1> DEFINE p == ptr[h][1]
<1>1. p \in LPage /\ \E i : OwnEntry(h, i)
  BY OwnEntryIs
<1>2. PICK i : OwnEntry(h, i)
  BY <1>1
<1>3. /\ lp[p].mds \in Seq(EntryType) /\ lp[p].bump \in Nat
      /\ EndToEnd(lp[p].mds, lp[p].bump, At(p))
  BY <1>1, PageIs DEF Sane, PageOK
<1>4. i \in 1 .. Len(lp[p].mds) /\ Start(lp[p].mds, At(p), i) = ptr[h][2]
  BY <1>2 DEF OwnEntry
<1>5. FindMd(lp[p], At(p), Start(lp[p].mds, At(p), i)) = i
  BY <1>3, <1>4, FindMdFinds
<1>6. i # 0
  BY <1>4
<1> QED BY <1>4, <1>5, <1>6, Zenon DEF Start

\* The invariant implies LocalPagesSound.
LEMMA SaneLocalPages == Sane => LocalPagesSound
<1> SUFFICES ASSUME Sane PROVE LocalPagesSound
  OBVIOUS
<1>1. ASSUME NEW p \in LPage PROVE FreedNotAhead(p)
  <2>1. PageOK(p) /\ lp[p].mds \in Seq(EntryType)
    BY PageIs DEF Sane
  <2>2. Released(p) = Nameless(lp[p].mds)
    BY <2>1, EntryFacts DEF Released, Nameless
  <2> QED BY <2>1, <2>2 DEF PageOK, FreedNotAhead
<1> QED BY <1>1, SaneTiled, SaneFindsOwn DEF LocalPagesSound, Sane, OwnersOK

\* Whatever frees race with each other on a locality page, its objects and holes
\* lie end to end, find_md finds each of them, bytes_freed is never ahead of the
\* holes, and a thread cache fills no page but its own (LocalityPage.cpp).
THEOREM LocalPagesCorrect == Spec => []LocalPagesSound
<1>1. IInv => LocalPagesSound
  BY SaneLocalPages DEF IInv, LocalPagesSound
<1> QED BY <1>1, AlwaysSane, PTL

\* The property of a step that CompactionWorks is about.
CompactionStep ==
  /\ \A h \in pinned : ptr'[h] = ptr[h]
  /\ \A p \in todo :
       \/ wild' \/ lp'[p] = lp[p]
       \/ IF p \in todo' THEN Progress(p) ELSE LocalCompacted(p)

\* Where no barrier runs, and before it compacts, nothing is to be shown.
LEMMA NothingToDo ==
  ASSUME Sane, ptr' = ptr \/ barrier = None, phase # "compact" PROVE CompactionStep
<1>1. todo = {} /\ (barrier = None => pinned = {})
  BY DEF Sane, PhaseOK
<1> QED BY <1>1 DEF CompactionStep

\* So it is while the program runs.
LEMMA AtRest ==
  ASSUME Sane, barrier = None PROVE CompactionStep
<1>1. phase # "compact"
  BY DEF Sane, PhaseOK
<1> QED BY <1>1, NothingToDo

\* compact() moves some object nearer to the start of the page and none away
\* from it, or it is done: no hole is left before an object it may move.
LEMMA CompactLocalWorks ==
  ASSUME Sane, NEW q \in LPage, CompactLocal(q) PROVE CompactionStep
<1> DEFINE acc == Pass(q)
           N   == Prune([lp[q] EXCEPT !.mds = acc.mds], acc.at)
<1>1. /\ TypeOK /\ PagesOK /\ LocalFacts /\ phase = "compact" /\ PassOK(q) /\ Shifts(q)
      /\ pinned \subseteq Obj
  BY LocalIs, PassIs, ShiftsIs DEF Sane, CompactLocal, TypeOK
<1>2. PICK n \in Nat : /\ (Len(lp[q].mds) = 0 /\ n = 0) \/ n + 1 = Len(lp[q].mds)
                       /\ Sound(acc, Before(q), lp[q].bump, pinned, n)
  BY <1>1 DEF PassOK
<1>3. /\ lp' = [lp EXCEPT ![q] = N]
      /\ todo' = IF acc.moved # 0 THEN todo ELSE todo \ {q}
      /\ wild' = (Kept(acc.mds) = 0)
  <2>1. lp' = [lp EXCEPT ![q] = Prune([@ EXCEPT !.mds = acc.mds], acc.at)]
    BY DEF CompactLocal, Pass
  <2>2. lp' = [lp EXCEPT ![q] = N]
    BY <2>1
  <2>3. /\ todo' = IF acc.moved # 0 THEN todo ELSE todo \ {q}
        /\ wild' = (Kept(acc.mds) = 0)
    BY DEF CompactLocal, Pass
  <2> HIDE DEF N, acc
  <2> QED BY <2>2, <2>3
<1>4. \A h \in Obj : ptr[h] \in Spot /\ ptr[h][1] = q =>
        /\ Before(q).at[h] = ptr[h][2] /\ Before(q).at[h] # None
        /\ acc.at[h] <= ptr[h][2]
        /\ h \in pinned => acc.at[h] = ptr[h][2]
        /\ ptr[h] = <<q, ptr[h][2]>> /\ ptr[h][2] \in Nat
        /\ acc.at[h] \in Nat /\ ptr'[h] = <<q, acc.at[h]>>
  <2> SUFFICES ASSUME NEW h \in Obj, ptr[h] \in Spot, ptr[h][1] = q
               PROVE  /\ Before(q).at[h] = ptr[h][2] /\ Before(q).at[h] # None
                      /\ acc.at[h] <= ptr[h][2]
                      /\ h \in pinned => acc.at[h] = ptr[h][2]
                      /\ ptr[h] = <<q, ptr[h][2]>> /\ ptr[h][2] \in Nat
                      /\ acc.at[h] \in Nat /\ ptr'[h] = <<q, acc.at[h]>>
    OBVIOUS
  <2>1. At(q)[h] = ptr[h][2] /\ ptr[h] = <<q, ptr[h][2]>> /\ ptr[h][2] \in Nat
    BY <1>1, PageIs, PlacesApart DEF LocalFacts
  <2>2. Before(q).at[h] = ptr[h][2] /\ Before(q).at[h] # None
    BY <2>1, NoneApart DEF Before
  <2>3. acc.at[h] <= Before(q).at[h] /\ (h \in pinned => acc.at[h] = Before(q).at[h])
    BY <1>2, <2>2 DEF Sound, Nearer
  <2>4. acc.at[h] \in Nat /\ ptr'[h] = <<q, acc.at[h]>>
    BY <1>1 DEF Shifts
  <2> QED BY <2>1, <2>2, <2>3, <2>4
<1>5. ASSUME NEW h \in pinned PROVE ptr'[h] = ptr[h]
  <2>1. h \in Obj
    BY <1>1
  <2>2. CASE ptr[h] \in Spot /\ ptr[h][1] = q
    BY <1>4, <2>1, <2>2
  <2>3. CASE ~(ptr[h] \in Spot /\ ptr[h][1] = q)
    BY <1>1, <2>1, <2>3 DEF Shifts
  <2> QED BY <2>2, <2>3
<1>6. CASE acc.moved # 0
  <2>1. PICK h \in Obj : acc.at[h] # Before(q).at[h]
    BY <1>2, <1>6 DEF Sound
  <2>2. acc.at[h] = None <=> Before(q).at[h] = None
    BY <1>2 DEF Sound, Nearer
  <2>3. ptr[h] \in Spot /\ ptr[h][1] = q
    <3>1. At(q)[h] # None
      BY <2>1, <2>2 DEF Before
    <3> QED BY <1>1, <3>1, PageIs DEF LocalFacts
  <2>4. ptr'[h] # ptr[h] /\ InLocal(h)
    <3>1. ptr'[h] = <<q, acc.at[h]>> /\ ptr[h] = <<q, ptr[h][2]>> /\ acc.at[h] # ptr[h][2]
      BY <1>4, <2>1, <2>3
    <3>2. ptr'[h] # ptr[h]
      BY <3>1
    <3> QED BY <1>1, <2>3, <3>2 DEF LocalFacts
  <2>5. h \in Moves(q)
    BY <2>3, <2>4 DEF Moves
  <2>6. ASSUME NEW o \in Moves(q) PROVE ptr'[o][2] < ptr[o][2]
    <3>1. o \in Obj /\ ptr[o] \in Spot /\ ptr[o][1] = q /\ ptr'[o] # ptr[o]
      BY <1>1 DEF Moves, LocalFacts
    <3>2. /\ acc.at[o] <= ptr[o][2] /\ acc.at[o] \in Nat /\ ptr[o][2] \in Nat
          /\ ptr'[o] = <<q, acc.at[o]>> /\ ptr[o] = <<q, ptr[o][2]>>
      BY <1>4, <3>1
    <3>3. acc.at[o] # ptr[o][2]
      BY <3>1, <3>2
    <3>4. ptr'[o][2] = acc.at[o]
      BY <3>2
    <3> QED BY <3>2, <3>3, <3>4
  <2>7. Progress(q)
    BY <2>5, <2>6 DEF Progress
  <2>8. \A p \in todo : p # q => lp'[p] = lp[p]
    BY <1>1, <1>3 DEF TypeOK
  <2> QED BY <1>3, <1>5, <1>6, <2>7, <2>8 DEF CompactionStep
<1>7. CASE acc.moved = 0 /\ Kept(acc.mds) # 0
  <2>1. PrunedOK(q, N)
    BY <1>1, <1>7, PrunedIs
  <2> HIDE DEF N
  <2>2. lp'[q] = N
    BY <1>1, <1>3 DEF TypeOK
  <2>3. acc.mds = lp[q].mds /\ \A k \in 1 .. n : ~CanSwap(lp[q].mds[k], lp[q].mds[k + 1], pinned)
    BY <1>2, <1>7 DEF Sound, Before
  <2>4. ASSUME NEW i \in 1 .. Len(N.mds) - 1
        PROVE  ~CanSwap(N.mds[i], N.mds[i + 1], pinned)
    <3>1. Kept(acc.mds) \in 1 .. Len(acc.mds) /\ Len(N.mds) = Kept(acc.mds)
      BY <2>1 DEF PrunedOK
    <3>2. Len(acc.mds) \in Nat
      BY <1>1, EntryFacts DEF PassOK
    <3>3. i \in 1 .. Kept(acc.mds) /\ i + 1 \in 1 .. Kept(acc.mds) /\ i \in 1 .. n
      BY <1>2, <2>3, <3>1, <3>2
    <3>4. N.mds[i] = lp[q].mds[i] /\ N.mds[i + 1] = lp[q].mds[i + 1]
      BY <2>1, <2>3, <3>3 DEF PrunedOK
    <3> QED BY <2>3, <3>3, <3>4
  <2>5. Kept(N.mds) = Len(N.mds)
    BY <2>1 DEF PrunedOK
  <2>6. LocalCompacted(q)
    BY <2>2, <2>4, <2>5 DEF LocalCompacted, Settled
  <2>7. \A p \in todo : p # q => lp'[p] = lp[p]
    BY <1>1, <1>3 DEF TypeOK
  <2> QED BY <1>3, <1>5, <1>7, <2>6, <2>7 DEF CompactionStep
<1>8. CASE Kept(acc.mds) = 0
  <2>1. wild'
    BY <1>3, <1>8
  <2> QED BY <1>5, <2>1, Zenon DEF CompactionStep
<1> QED BY <1>6, <1>7, <1>8

\* localize() moves no pinned object, whatever has happened before.
LEMMA WildPins ==
  ASSUME Always, wild, Next PROVE CompactionStep
<1>1. PICK h \in Obj : Localize(h)
  BY WildStep
<1>2. wild' = wild /\ h \notin pinned /\ \E x : ptr' = [ptr EXCEPT ![h] = x]
  BY <1>1 DEF Localize, Localizable, MoveTo
<1>3. PICK x : ptr' = [ptr EXCEPT ![h] = x]
  BY <1>2
<1>4. \A o \in pinned : ptr'[o] = ptr[o]
  <2>1. pinned \subseteq Obj /\ ptr = [o \in Obj |-> ptr[o]]
    BY DEF Always
  <2>2. DOMAIN ptr = Obj
    BY <2>1
  <2> QED BY <1>2, <1>3, <2>1, <2>2
<1> QED BY <1>2, <1>4 DEF CompactionStep

\* Every action is as CompactionWorks has it.
LEMMA SaneCompaction ==
  ASSUME Sane, Next PROVE CompactionStep
<1>0. pinned \subseteq Obj /\ DOMAIN ptr = Obj
  <2>1. ptr \in [Obj -> {None} \cup Place] /\ pinned \subseteq Obj
    BY DEF Sane, TypeOK
  <2> QED BY <2>1
<1>1. ASSUME NEW t \in Thread, NEW o \in Obj,
             \/ HallocSmall(t, o) \/ HallocHuge(t, o)
             \/ HandleToHuge(t, o) \/ HugeToHuge(t, o)
             \/ HandleToHandle(t, o) \/ HugeToHandle(t, o)
             \/ Hfree(t, o) \/ HfreeHuge(t, o) \/ ReadSize(t, o)
      PROVE  CompactionStep
  <2>1. barrier = None
    BY <1>1 DEF HallocSmall, HallocHuge, HandleToHuge, HugeToHuge, HandleToHandle,
       HugeToHandle, Hfree, HfreeHuge, ReadSize, Ready
  <2> QED BY <2>1, AtRest
<1>2. ASSUME NEW t \in Thread, FindEntry(t) \/ PutAddress(t) \/ ClearFlag(t) \/ Finish(t)
      PROVE  CompactionStep
  <2>1. job[t] # None
    BY <1>2 DEF FindEntry, PutAddress, ClearFlag, Finish, AtStep
  <2>2. barrier = None
    BY <2>1 DEF Sane, PhaseOK
  <2> QED BY <2>2, AtRest
<1>3. ASSUME NEW t \in Mover, BeginBarrier(t) PROVE CompactionStep
  BY <1>3, AtRest DEF BeginBarrier
<1>4. ASSUME NEW h \in Obj, Localize(h) PROVE CompactionStep
  <2>1. todo = {} /\ h \notin pinned /\ \E x : ptr' = [ptr EXCEPT ![h] = x]
    BY <1>4 DEF Localize, Localizable, MoveTo, Sane, PhaseOK
  <2>2. \A o \in pinned : ptr'[o] = ptr[o]
    BY <1>0, <2>1
  <2> QED BY <2>1, <2>2 DEF CompactionStep
<1>5. ASSUME NEW h \in Obj, CompactSized(h) PROVE CompactionStep
  <2>1. todo = {} /\ h \notin pinned /\ \E x : ptr' = [ptr EXCEPT ![h] = x]
    BY <1>5 DEF CompactSized
  <2>2. \A o \in pinned : ptr'[o] = ptr[o]
    BY <1>0, <2>1
  <2> QED BY <2>1, <2>2 DEF CompactionStep
<1>6. ASSUME NEW p \in LPage, CompactLocal(p) PROVE CompactionStep
  BY <1>6, CompactLocalWorks
<1>7. CASE StartCompaction
  <2>1. phase # "compact" /\ ptr' = ptr
    BY <1>7 DEF StartCompaction, store
  <2> QED BY <2>1, NothingToDo
<1>8. CASE EndBarrier
  <2>1. todo = {} /\ ptr' = ptr
    BY <1>8 DEF EndBarrier, store
  <2> QED BY <2>1 DEF CompactionStep
<1> QED BY <1>1, <1>2, <1>3, <1>4, <1>5, <1>6, <1>7, <1>8 DEF Next

\* What compact_locality_pages does to a page: passes with progress until nothing
\* is left to move, and no object moves that the barrier has pinned
\* (LocalityPage.cpp compact, Heap.cpp compact_locality_pages, Localizer.cpp).
THEOREM CompactionCorrect == Spec => CompactionWorks
<1>1. IInv /\ [Next]_vars => [CompactionStep]_vars
  <2> SUFFICES ASSUME IInv, Next PROVE CompactionStep
    OBVIOUS
  <2> QED BY WildPins, SaneCompaction DEF IInv
<1>2. CompactionWorks <=> [][CompactionStep]_vars
  BY DEF CompactionWorks, CompactionStep
<1> QED BY <1>1, <1>2, AlwaysSane, PTL DEF Spec

-----------------------------------------------------------------------------
(***************************************************************************)
(* What memory holds.                                                      *)
(***************************************************************************)
\* A block or region in which object o has written n units.
Full(o, n) == [u \in Unit |-> IF u < n THEN o ELSE None]

\* A block holds nothing, or exactly its object, which knows its size.
BlockStored(b) ==
  IF header[b] = None THEN mem[b] = Blank
  ELSE LET h == header[b].who
       IN  /\ header[b].size = size[h] /\ size[h] <= b[1]
           /\ mem[b] = Full(h, size[h])

\* So does a region.
HugeStored(o) ==
  IsHuge(o) => /\ size[o] \in HugeSize /\ huge[addr[o]] = size[o]
               /\ mem[addr[o]] = Full(o, size[o])
IdleStored(r) == (\A o \in Obj : addr[o] # r) => mem[r] = Blank

\* An object in a locality page that is not being freed has an entry with its size and its
\* bytes.
LocalStored(h) ==
  InLocal(h) /\ ~Busy(h) =>
    LET p == ptr[h][1]
    IN  \E i \in 1 .. Len(lp[p].mds) :
          /\ lp[p].mds[i].who = h /\ lp[p].mds[i].size = size[h]
          /\ \A u \in 0 .. size[h] - 1 : lmem[p][ptr[h][2] + u] = h

MemOK ==
  /\ size = [o \in Obj |-> size[o]]
  /\ mem = [x \in Block \cup Region |-> mem[x]]
InMem ==
  /\ \A b \in Block : BlockStored(b)
  /\ \A o \in Obj : HugeStored(o)
  /\ \A r \in Region : IdleStored(r)
InPages == \A h \in Obj : LocalStored(h)
Stored == MemOK /\ InMem /\ InPages

\* Every unit of an object of an allowed size is a unit.
LEMMA UnitIs ==
  ASSUME NEW c \in Class \cup HugeSize, NEW s \in Nat, s <= c
  PROVE  \A u \in 0 .. s - 1 : u \in Unit
<1> DEFINE T == Class \cup HugeSize
<1>1. T \subseteq Nat
  BY SizesAssumption
<1>2. PICK m \in T : \A k \in T : k <= m
  BY LargestAssumption
<1> HIDE DEF T
<1>3. Max(T) = m
  BY <1>1, <1>2, MaxIs
<1>4. c \in T /\ Unit = 0 .. m - 1
  BY <1>3 DEF Unit, T
<1>5. c <= m /\ c \in Nat /\ m \in Nat
  BY <1>1, <1>2, <1>4
<1> QED BY <1>4, <1>5

\* A number of units.
LEMMA UnitNat == \A u \in Unit : u \in Nat
<1> DEFINE T == Class \cup HugeSize
<1>1. T \subseteq Nat
  BY SizesAssumption
<1>2. PICK m \in T : \A k \in T : k <= m
  BY LargestAssumption
<1> HIDE DEF T
<1>3. Max(T) = m
  BY <1>1, <1>2, MaxIs
<1>4. Unit = 0 .. m - 1
  BY <1>3 DEF Unit, T
<1> QED BY <1>1, <1>2, <1>4

\* A small size fits its class.
LEMMA ClassFits ==
  ASSUME NEW s \in SmallSize PROVE ClassOf(s) \in Class /\ s <= ClassOf(s)
<1> DEFINE T == {c \in Class : s <= c}
<1>1. T \subseteq Nat /\ T # {}
  BY SizesAssumption
<1>2. PICK m \in T : \A k \in T : m <= k
  BY <1>1, LeastElement
<1>3. Min(T) = m
  BY <1>1, <1>2, MinIs
<1> QED BY <1>3 DEF ClassOf

\* A block sized pages give to a request is large enough for it.
LEMMA BlockFits ==
  ASSUME NEW s \in SmallSize, FreeBlocks(ClassOf(s)) # {}
  PROVE  LET b == One(FreeBlocks(ClassOf(s)))
         IN  b \in Block /\ header[b] = None /\ b[1] \in Class /\ s <= b[1]
<1> DEFINE b == One(FreeBlocks(ClassOf(s)))
<1>1. b \in FreeBlocks(ClassOf(s))
  BY OneIs
<1>2. b \in Block /\ b[1] = ClassOf(s) /\ header[b] = None
  BY <1>1 DEF FreeBlocks
<1> QED BY <1>2, ClassFits

\* What hrealloc leaves in the new memory is what a new object would have there:
\* the copied bytes are the object's, and the rest the program writes.
LEMMA CopyIs ==
  ASSUME NEW o, NEW l, NEW m \in Nat, NEW s \in Nat, \A u \in 0 .. m - 1 : Byte(l, u) = o
  PROVE  CopyOf(o, l, CopySize(m, s), s) = Full(o, s)
<1> DEFINE n == CopySize(m, s)
<1>1. n \in Nat /\ n <= m /\ n <= s
  BY DEF CopySize
<1> HIDE DEF n
<1>2. ASSUME NEW u \in Unit
      PROVE  (IF u < n THEN Byte(l, u) ELSE IF u < s THEN o ELSE None) =
               IF u < s THEN o ELSE None
  <2>1. u \in Nat
    BY UnitNat
  <2>2. CASE u < n
    <3>1. u \in 0 .. m - 1 /\ u < s
      BY <1>1, <2>1, <2>2
    <3> QED BY <2>2, <3>1
  <2>3. CASE ~(u < n)
    BY <2>3
  <2> QED BY <2>2, <2>3
<1> QED BY <1>2 DEF n, CopyOf, Full

-----------------------------------------------------------------------------
(***************************************************************************)
(* Objects in locality pages.                                              *)
(***************************************************************************)
\* Entry i of page p is object h's.
EntryOf(h, p, i) ==
  /\ p = ptr[h][1] /\ i \in 1 .. Len(lp[p].mds)
  /\ lp[p].mds[i].who = h /\ lp[p].mds[i].size = size[h]
  /\ Start(lp[p].mds, At(p), i) = ptr[h][2]
  /\ \A u \in 0 .. size[h] - 1 : lmem[p][ptr[h][2] + u] = h

\* An object that is not being freed has an entry of its own.
LEMMA EntryOfIs ==
  ASSUME Sane, InPages, NEW h \in Obj, InLocal(h), ~Busy(h)
  PROVE  /\ ptr[h][1] \in LPage /\ ptr[h][2] \in Nat
         /\ \E i : EntryOf(h, ptr[h][1], i)
<1> DEFINE p == ptr[h][1]
<1>1. TypeOK /\ PagesOK /\ LocalFacts
  BY LocalIs DEF Sane
<1>2. p \in LPage /\ ptr[h][2] \in Nat
  BY <1>1, PlacesApart DEF LocalFacts
<1>3. At(p)[h] = ptr[h][2]
  BY <1>1, <1>2, PageIs
<1>4. PICK i \in 1 .. Len(lp[p].mds) :
        /\ lp[p].mds[i].who = h /\ lp[p].mds[i].size = size[h]
        /\ \A u \in 0 .. size[h] - 1 : lmem[p][ptr[h][2] + u] = h
  BY DEF InPages, LocalStored
<1>5. Start(lp[p].mds, At(p), i) = ptr[h][2]
  BY <1>3, <1>4, NoneApart DEF Start, GetData
<1>6. EntryOf(h, p, i)
  BY <1>4, <1>5 DEF EntryOf
<1> QED BY <1>2, <1>6

\* size_of finds it, and what it says is what the program asked for.
LEMMA LocalSize ==
  ASSUME Sane, InPages, NEW h \in Obj, InLocal(h), ~Busy(h)
  PROVE  SizeOf(h) = size[h] /\ size[h] \in Nat
<1> DEFINE p == ptr[h][1]
<1>1. TypeOK /\ PagesOK /\ LocalFacts
  BY LocalIs DEF Sane
<1>2. p \in LPage /\ \E i : EntryOf(h, p, i)
  BY EntryOfIs
<1>3. PICK i : EntryOf(h, p, i)
  BY <1>2
<1>4. /\ lp[p].mds \in Seq(EntryType) /\ lp[p].bump \in Nat
      /\ EndToEnd(lp[p].mds, lp[p].bump, At(p))
  BY <1>1, <1>2, PageIs DEF PageOK
<1>5. i \in 1 .. Len(lp[p].mds) /\ Start(lp[p].mds, At(p), i) = ptr[h][2]
  BY <1>3 DEF EntryOf
<1>6. FindMd(lp[p], At(p), Start(lp[p].mds, At(p), i)) = i
  BY <1>4, <1>5, FindMdFinds
<1>7. FindMd(lp[p], At(p), ptr[h][2]) = i
  BY <1>5, <1>6
<1>8. ~InBlock(h)
  BY <1>1 DEF LocalFacts
<1>9. SizeOf(h) = lp[p].mds[i].size
  BY <1>7, <1>8 DEF SizeOf
<1>10. lp[p].mds[i].size \in Nat
  BY <1>4, <1>5, EntryFacts
<1> QED BY <1>3, <1>9, <1>10 DEF EntryOf

\* Two objects in a page have no unit in common.
LEMMA UnitsApart ==
  ASSUME Sane, NEW o \in Obj, NEW q \in Obj, o # q, NEW p \in LPage, NEW i, NEW j,
         EntryOf(o, p, i), EntryOf(q, p, j),
         NEW u \in 0 .. size[o] - 1
  PROVE  (ptr[o][2] + u) - ptr[q][2] \notin 0 .. size[q] - 1
<1> DEFINE mds == lp[p].mds
           S(k) == Start(mds, At(p), k)
<1>1. /\ mds \in Seq(EntryType) /\ lp[p].bump \in Nat
      /\ EndToEnd(mds, lp[p].bump, At(p))
  BY PageIs DEF PageOK, Sane
<1>2. /\ i \in 1 .. Len(mds) /\ j \in 1 .. Len(mds) /\ i # j
      /\ S(i) = ptr[o][2] /\ S(j) = ptr[q][2]
      /\ mds[i].size = size[o] /\ mds[j].size = size[q]
  BY DEF EntryOf
<1>3. /\ S(i) \in Nat /\ S(j) \in Nat /\ size[o] \in Nat /\ size[q] \in Nat
      /\ i \in Nat /\ j \in Nat
  <2>1. S(i) \in Nat /\ S(j) \in Nat
    BY <1>1, <1>2, StartsInside
  <2>2. mds[i].size \in Nat /\ mds[j].size \in Nat /\ Len(mds) \in Nat
    BY <1>1, <1>2, EntryFacts
  <2> QED BY <1>2, <2>1, <2>2
<1>4. i < j => S(i) + size[o] <= S(j)
  BY <1>1, <1>2, StartsGrow
<1>5. j < i => S(j) + size[q] <= S(i)
  BY <1>1, <1>2, StartsGrow
<1>6. u \in Nat /\ u < size[o]
  BY <1>3
<1> HIDE DEF S, mds
<1>7. (S(i) + u) - S(j) \notin 0 .. size[q] - 1
  <2>1. CASE i < j
    BY <1>3, <1>4, <1>6, <2>1
  <2>2. CASE j < i
    BY <1>3, <1>5, <1>6, <2>2
  <2> QED BY <1>2, <1>3, <2>1, <2>2
<1> QED BY <1>2, <1>7

\* A call on object o that leaves the other objects where they are.
LEMMA PagesStored ==
  ASSUME Sane, TypeOK', InPages, NEW o \in Obj, UNCHANGED lp,
         lmem' = lmem \/ (~Busy(o) /\ InLocal(o) /\ ForgetLocal(o)),
         \A q \in Obj : q # o => /\ ptr'[q] = ptr[q] /\ size'[q] = size[q]
                                 /\ Busy(q) => Busy(q)',
         InLocal(o)' => Busy(o)'
  PROVE  InPages'
<1> SUFFICES ASSUME NEW h \in Obj, InLocal(h)', ~Busy(h)' PROVE LocalStored(h)'
  BY DEF InPages, LocalStored
<1> DEFINE p == ptr[h][1]
<1>1. TypeOK /\ LocalFacts /\ LocalFacts'
  BY LocalIs, LocalIsNext DEF Sane
<1>2. h # o /\ ptr'[h] = ptr[h] /\ size'[h] = size[h] /\ ~Busy(h)
  OBVIOUS
<1>3. InLocal(h)
  BY <1>1, <1>2 DEF LocalFacts
<1>4. p \in LPage /\ ptr[h][2] \in Nat /\ \E i : EntryOf(h, p, i)
  BY <1>2, <1>3, EntryOfIs
<1>5. PICK i : EntryOf(h, p, i)
  BY <1>4
<1>6. \A u \in 0 .. size[h] - 1 : lmem'[p][ptr[h][2] + u] = h
  <2>1. CASE lmem' = lmem
    BY <1>5, <2>1 DEF EntryOf
  <2>2. CASE ~Busy(o) /\ InLocal(o) /\ ForgetLocal(o)
    <3>1. SizeOf(o) = size[o] /\ size[o] \in Nat
      BY <2>2, LocalSize
    <3>2. ~InBlock(o)
      BY <1>1, <2>2 DEF LocalFacts
    <3> DEFINE q == ptr[o][1]
               a == ptr[o][2]
               n == size[o]
    <3>3. lmem' = [lmem EXCEPT ![q] = [u \in DOMAIN @ |->
                                         IF u - a \in 0 .. n - 1 THEN None ELSE @[u]]]
      BY <2>2, <3>1, <3>2 DEF ForgetLocal
    <3>4. /\ lmem = [r \in LPage |-> [u \in 0 .. PageUnits - 1 |-> lmem[r][u]]]
      BY <1>1 DEF TypeOK
    <3>5. CASE q # p
      BY <1>4, <1>5, <3>3, <3>4, <3>5 DEF EntryOf
    <3>6. CASE q = p
      <4>1. \E j : EntryOf(o, q, j)
        BY <2>2, EntryOfIs
      <4>2. PICK j : EntryOf(o, p, j)
        BY <3>6, <4>1
      <4> SUFFICES ASSUME NEW u \in 0 .. size[h] - 1
                   PROVE  lmem'[p][ptr[h][2] + u] = h
        OBVIOUS
      <4> DEFINE w == ptr[h][2] + u
      <4>3. w - a \notin 0 .. n - 1
        BY <1>2, <1>4, <1>5, <4>2, UnitsApart
      <4>4. w \in 0 .. PageUnits - 1
        <5>1. /\ lp[p].mds \in Seq(EntryType) /\ lp[p].bump \in Nat
              /\ EndToEnd(lp[p].mds, lp[p].bump, At(p))
          BY <1>4, PageIs DEF PageOK, Sane
        <5>2. /\ i \in 1 .. Len(lp[p].mds) /\ Start(lp[p].mds, At(p), i) = ptr[h][2]
              /\ lp[p].mds[i].size = size[h]
          BY <1>5 DEF EntryOf
        <5>3. ptr[h][2] + size[h] <= lp[p].bump
          BY <5>1, <5>2, StartsInside
        <5>4. size[h] \in Nat
          BY <5>1, <5>2, EntryFacts
        <5>5. lp[p].bump <= PageUnits
          <6>1. lp[p].bump + Len(lp[p].mds) <= PageUnits /\ Len(lp[p].mds) \in Nat
            BY <5>1, EntryFacts DEF EndToEnd
          <6> QED BY <5>1, <6>1, PageUnitsAssumption
        <5> DEFINE x == ptr[h][2]
                   z == size[h]
                   y == lp[p].bump
        <5>6. /\ x \in Nat /\ z \in Nat /\ y \in Nat /\ PageUnits \in Nat /\ x + z <= y
              /\ y <= PageUnits /\ u \in 0 .. z - 1
          BY <1>4, <5>1, <5>3, <5>4, <5>5, PageUnitsAssumption
        <5> HIDE DEF x, y, z
        <5>7. x + u \in 0 .. PageUnits - 1
          BY <5>6
        <5> QED BY <5>7 DEF x
      <4> HIDE DEF w, a, n
      <4>5. lmem[p] = [x \in 0 .. PageUnits - 1 |-> lmem[p][x]]
        BY <1>4, <3>4
      <4>6. DOMAIN lmem[p] = 0 .. PageUnits - 1 /\ p \in DOMAIN lmem
        BY <1>4, <3>4, <4>5
      <4>7. lmem'[p] = [x \in 0 .. PageUnits - 1 |->
                          IF x - a \in 0 .. n - 1 THEN None ELSE lmem[p][x]]
        BY <3>3, <3>6, <4>6
      <4>8. lmem'[p][w] = lmem[p][w]
        BY <4>3, <4>4, <4>7
      <4>9. lmem[p][w] = h
        BY <1>5 DEF EntryOf, w
      <4> QED BY <4>8, <4>9 DEF w
    <3> QED BY <3>5, <3>6
  <2> QED BY <2>1, <2>2
<1> QED BY <1>2, <1>5, <1>6 DEF LocalStored, EntryOf

-----------------------------------------------------------------------------
(***************************************************************************)
(* Calls on one object, and moves of one.                                  *)
(***************************************************************************)
\* Object o, of size s, is in block or region d from now on, if d is not None,
\* and no longer in x.
Written(o, d, x, s) ==
  mem' = [y \in Block \cup Region |->
            IF y = d THEN Full(o, s) ELSE IF y = x THEN Blank ELSE mem[y]]
Headed(o, d, x, s) ==
  \A b \in Block : header'[b] = IF b = d THEN [who |-> o, size |-> s]
                                ELSE IF b = x THEN None ELSE header[b]

\* The same for an object with a handle, in the words of hrealloc and hfree.
Replaced(o, d, s) ==
  mem' = Forget(o, IF d = None THEN mem ELSE [mem EXCEPT ![d] = Full(o, s)])
Reheaded(o, d, s) ==
  header' = Emptied(o, IF d \in Block THEN [header EXCEPT ![d] = [who |-> o, size |-> s]]
                       ELSE header)

\* The block or region an object is in.
Source(o) == IF InBlock(o) THEN ptr[o] ELSE IF IsHuge(o) THEN addr[o] ELSE None

\* Where an object can be put.
Vacant(d, s) ==
  \/ d = None
  \/ d \in Block /\ header[d] = None /\ s # 0 /\ s <= d[1]
  \/ d \in Region /\ huge[d] = 0 /\ s \in HugeSize

\* None, blocks and regions are apart.
LEMMA KindsApart ==
  /\ \A b \in Block : b # None /\ b \notin Region
  /\ \A r \in Region : r # None /\ r \notin Block
BY BlocksAndSpots, ApartAssumption DEF Place

\* No block but its own has an object's header.
LEMMA OwnHeader ==
  ASSUME Sane, NEW o \in Obj, ~Busy(o), NEW b \in Block, header[b] # None,
         header[b].who = o
  PROVE  InBlock(o) /\ ptr[o] = b
<1>1. ptr[o] = b \/ Awaited(b)
  BY DEF Sane, BlocksOK
<1>2. ~Awaited(b)
  BY DEF Awaited, Busy
<1> QED BY <1>1, <1>2 DEF InBlock

\* A huge object is in no block, unless it is still being freed there.
LEMMA HugeNotInBlock ==
  ASSUME Sane, NEW o \in Obj, ~Busy(o), IsHuge(o) PROVE ptr[o] = None
<1>1. TypeOK /\ HandlesOK
  BY DEF Sane
<1> QED BY <1>1, AddrFacts DEF HandlesOK, InUse

\* The rest of memory stays as it is.
LEMMA MemStored ==
  ASSUME Sane, Stored, NEW o \in Obj, ~Busy(o), NEW d, NEW s \in Nat, Vacant(d, s),
         Resized(o, s), Written(o, d, Source(o), s),
         Headed(o, d, Source(o), s),
         \A r \in Region : r # Source(o) => huge'[r] = IF r = d THEN s ELSE huge[r],
         \A q \in Obj : q # o => addr'[q] = addr[q],
         addr'[o] \in Region \/ d \in Region => addr'[o] = d
  PROVE  MemOK' /\ InMem'
<1> DEFINE x == Source(o)
<1>1. TypeOK /\ RegionsOK /\ MemOK /\ InMem /\ HeaderFacts
  BY HeaderIs DEF Sane, Stored
<1>2. /\ \A q \in Obj : q # o => size'[q] = size[q]
      /\ size'[o] = s /\ size' = [q \in Obj |-> size'[q]]
  BY <1>1 DEF MemOK, Resized
<1>3. /\ \A y \in Block \cup Region :
           mem'[y] = IF y = d THEN Full(o, s) ELSE IF y = x THEN Blank ELSE mem[y]
      /\ mem' = [y \in Block \cup Region |-> mem'[y]]
  BY DEF Written
<1>4. MemOK'
  BY <1>2, <1>3 DEF MemOK
<1>5. d # x \/ d = None
  <2>1. CASE InBlock(o)
    BY <2>1, KindsApart DEF Source, Vacant, Sane, BlocksOK, InBlock
  <2>2. CASE ~InBlock(o) /\ IsHuge(o)
    <3>1. x = addr[o] /\ addr[o] \in Region /\ huge[addr[o]] > 0
      BY <1>1, <2>2 DEF Source, RegionsOK, IsHuge
    <3> QED BY <3>1, KindsApart DEF Vacant
  <2>3. CASE ~InBlock(o) /\ ~IsHuge(o)
    BY <2>3 DEF Source
  <2> QED BY <2>1, <2>2, <2>3
<1>6. ASSUME NEW b \in Block PROVE BlockStored(b)'
  <2>1. CASE b = d
    <3>1. header'[b] = [who |-> o, size |-> s] /\ mem'[b] = Full(o, s) /\ s <= b[1]
      BY <1>3, <2>1, KindsApart DEF Headed, Vacant
    <3>2. header'[b] # None
      <4>1. s # 0
        BY <2>1, KindsApart DEF Vacant
      <4>2. [who |-> o, size |-> s] \in Header
        BY <4>1 DEF Header
      <4> QED BY <3>1, <4>2, ApartAssumption
    <3> QED BY <1>2, <3>1, <3>2 DEF BlockStored, Full
  <2>2. CASE b # d /\ b = x
    <3>1. header'[b] = None /\ mem'[b] = Blank
      BY <1>3, <2>2 DEF Headed
    <3> QED BY <3>1 DEF BlockStored, Blank
  <2>3. CASE b # d /\ b # x
    <3>1. header'[b] = header[b] /\ mem'[b] = mem[b]
      BY <1>3, <2>3 DEF Headed
    <3>2. header[b] # None => header[b].who # o /\ header[b].who \in Obj
      BY <1>1, <2>3, OwnHeader DEF HeaderFacts, Source
    <3>3. BlockStored(b)
      BY <1>1 DEF InMem
    <3> QED BY <1>2, <3>1, <3>2, <3>3 DEF BlockStored, Full, Blank
  <2> QED BY <2>1, <2>2, <2>3
<1>7. IsHuge(o) => x = addr[o]
  BY HugeNotInBlock, KindsApart DEF Source, InBlock
<1>8. ASSUME NEW q \in Obj PROVE HugeStored(q)'
  <2> SUFFICES ASSUME addr'[q] \in Region
               PROVE  /\ size'[q] \in HugeSize /\ huge'[addr'[q]] = size'[q]
                      /\ mem'[addr'[q]] = Full(q, size'[q])
    BY DEF HugeStored, IsHuge, Full
  <2>1. CASE q = o
    <3>1. addr'[q] = d /\ d \in Region /\ d # x /\ s \in HugeSize
      BY <1>5, <2>1, KindsApart DEF Vacant
    <3> QED BY <1>2, <1>3, <2>1, <3>1
  <2>2. CASE q # o
    <3>1. addr'[q] = addr[q] /\ IsHuge(q)
      BY <2>2 DEF IsHuge
    <3>2. HugeStored(q) /\ huge[addr[q]] > 0
      BY <1>1, <3>1 DEF InMem, RegionsOK, IsHuge
    <3>3. addr[q] # d
      BY <3>1, <3>2, KindsApart DEF Vacant
    <3>4. addr[q] # x
      BY <1>1, <2>2, <3>1, KindsApart DEF Source, InBlock, RegionsOK, IsHuge
    <3> QED BY <1>2, <1>3, <2>2, <3>1, <3>2, <3>3, <3>4 DEF HugeStored, IsHuge
  <2> QED BY <2>1, <2>2
<1>9. ASSUME NEW r \in Region PROVE IdleStored(r)'
  <2> SUFFICES ASSUME \A q \in Obj : addr'[q] # r PROVE mem'[r] = Blank
    BY DEF IdleStored, Blank
  <2>1. r # d
    OBVIOUS
  <2>2. CASE r = x
    BY <1>3, <2>1, <2>2
  <2>3. CASE r # x
    <3>1. \A q \in Obj : addr[q] # r
      BY <1>7, <2>3 DEF IsHuge
    <3> QED BY <1>1, <1>3, <2>1, <2>3, <3>1 DEF InMem, IdleStored
  <2> QED BY <2>2, <2>3
<1> QED BY <1>4, <1>6, <1>8, <1>9 DEF InMem

\* What the program holds, if no call is freeing it, has what it has written.
LEMMA Contents ==
  ASSUME Sane, Stored, NEW o \in Obj, ~Busy(o)
  PROVE  /\ HasHandle(o) =>
              /\ SizeOf(o) = size[o] /\ size[o] \in Nat
              /\ \A u \in 0 .. size[o] - 1 : Byte(ptr[o], u) = o
         /\ IsHuge(o) =>
              /\ huge[addr[o]] = size[o] /\ size[o] \in Nat
              /\ \A u \in 0 .. size[o] - 1 : Byte(addr[o], u) = o
<1>1. /\ TypeOK /\ BlocksOK /\ HandlesOK /\ LocalFacts /\ HeaderFacts /\ InMem /\ InPages
  BY LocalIs, HeaderIs DEF Sane, Stored
<1>2. ASSUME HasHandle(o), InBlock(o)
      PROVE  /\ SizeOf(o) = size[o] /\ size[o] \in Nat
             /\ \A u \in 0 .. size[o] - 1 : Byte(ptr[o], u) = o
  <2> DEFINE b == ptr[o]
  <2>1. b \in Block /\ header[b] # None /\ header[b].who = o /\ header[b].size \in Nat
    BY <1>1, <1>2 DEF BlocksOK, InBlock, HeaderFacts
  <2>2. header[b].size = size[o] /\ size[o] <= b[1] /\ mem[b] = Full(o, size[o])
    BY <1>1, <2>1 DEF InMem, BlockStored
  <2>3. b[1] \in Class
    BY <2>1 DEF Block
  <2>4. \A u \in 0 .. size[o] - 1 : u \in Unit
    BY <2>1, <2>2, <2>3, UnitIs
  <2>5. \A u \in 0 .. size[o] - 1 : Byte(b, u) = o
    BY <2>1, <2>2, <2>4 DEF Byte, Full
  <2>6. SizeOf(o) = header[b].size
    BY <1>2 DEF SizeOf, BlockSize
  <2> QED BY <2>1, <2>2, <2>5, <2>6
<1>3. ASSUME HasHandle(o), InLocal(o)
      PROVE  /\ SizeOf(o) = size[o] /\ size[o] \in Nat
             /\ \A u \in 0 .. size[o] - 1 : Byte(ptr[o], u) = o
  <2> DEFINE p == ptr[o][1]
  <2>1. SizeOf(o) = size[o] /\ size[o] \in Nat
    BY <1>1, <1>3, LocalSize
  <2>2. \E i : EntryOf(o, p, i)
    BY <1>1, <1>3, EntryOfIs
  <2>3. \A u \in 0 .. size[o] - 1 : lmem[p][ptr[o][2] + u] = o
    BY <2>2 DEF EntryOf
  <2>4. ptr[o] \notin Block \cup Region
    <3>1. ptr[o] \notin Block /\ ptr[o] \in Place
      BY <1>1, <1>3, BlocksAndSpots, PlacesApart DEF LocalFacts
    <3> QED BY <3>1, ApartAssumption
  <2> QED BY <2>1, <2>3, <2>4 DEF Byte
<1>4. ASSUME IsHuge(o)
      PROVE  /\ huge[addr[o]] = size[o] /\ size[o] \in Nat
             /\ \A u \in 0 .. size[o] - 1 : Byte(addr[o], u) = o
  <2>1. HugeStored(o) /\ addr[o] \in Region
    BY <1>1, <1>4 DEF InMem, IsHuge
  <2>2. /\ size[o] \in HugeSize /\ huge[addr[o]] = size[o]
        /\ mem[addr[o]] = Full(o, size[o])
    BY <1>4, <2>1 DEF HugeStored
  <2>3. size[o] \in Nat
    BY <2>2, SizesPositive
  <2>4. \A u \in 0 .. size[o] - 1 : u \in Unit
    BY <2>2, <2>3, UnitIs
  <2> QED BY <2>1, <2>2, <2>3, <2>4 DEF Byte, Full
<1> QED BY <1>1, <1>2, <1>3, <1>4 DEF HandlesOK, LocalFacts

\* Memory after one place has been written.
LEMMA WrittenOnce ==
  ASSUME MemOK, NEW o, NEW s, NEW d \in Block \cup Region,
         mem' = [mem EXCEPT ![d] = Full(o, s)]
  PROVE  Written(o, d, None, s)
<1>1. \A y \in Block \cup Region : y # None
  BY KindsApart
<1> QED BY <1>1 DEF MemOK, Written

\* After one place has been written and another given up.
LEMMA WrittenTwice ==
  ASSUME MemOK, NEW o, NEW s, NEW d \in Block \cup Region, NEW x \in Block \cup Region, d # x,
         mem' = [mem EXCEPT ![d] = Full(o, s), ![x] = Blank]
  PROVE  Written(o, d, x, s)
BY DEF MemOK, Written

\* After one place has been given up.
LEMMA WrittenBlank ==
  ASSUME MemOK, NEW o, NEW s, NEW x \in Block \cup Region,
         mem' = [mem EXCEPT ![x] = Blank]
  PROVE  Written(o, None, x, s)
<1>1. \A y \in Block \cup Region : y # None
  BY KindsApart
<1> QED BY <1>1 DEF MemOK, Written

\* After an object with a handle has been written elsewhere and its block, if it
\* had one, given up.
LEMMA WrittenForgot ==
  ASSUME MemOK, NEW o, NEW s, ~IsHuge(o), NEW d \in Block \cup Region \cup {None},
         InBlock(o) => d # ptr[o],
         Replaced(o, d, s)
  PROVE  Written(o, d, Source(o), s)
<1>1. \A y \in Block \cup Region : y # None
  BY KindsApart
<1>2. CASE InBlock(o)
  <2>1. Source(o) = ptr[o] /\ ptr[o] \in Block \cup Region
    BY <1>2 DEF Source, InBlock
  <2>2. CASE d = None
    <3>1. mem' = [mem EXCEPT ![ptr[o]] = Blank]
      BY <1>2, <2>2 DEF Forget, Replaced
    <3> QED BY <2>1, <2>2, <3>1, WrittenBlank
  <2>3. CASE d # None
    <3>1. mem' = [mem EXCEPT ![d] = Full(o, s), ![ptr[o]] = Blank]
      BY <1>2, <2>3 DEF Forget, Replaced
    <3> QED BY <1>2, <2>1, <2>3, <3>1, WrittenTwice
  <2> QED BY <2>2, <2>3
<1>3. CASE ~InBlock(o)
  <2>1. Source(o) = None
    BY <1>3 DEF Source
  <2>2. CASE d = None
    <3>1. mem' = mem
      BY <1>3, <2>2 DEF Forget, Replaced
    <3> QED BY <1>1, <2>1, <2>2, <3>1 DEF MemOK, Written
  <2>3. CASE d # None
    <3>1. mem' = [mem EXCEPT ![d] = Full(o, s)]
      BY <1>3, <2>3 DEF Forget, Replaced
    <3> QED BY <2>1, <2>3, <3>1, WrittenOnce
  <2> QED BY <2>2, <2>3
<1> QED BY <1>2, <1>3

\* Headers after an object with a handle has got a new block, if it has, and given
\* up the one it had.
LEMMA HeadedForgot ==
  ASSUME TypeOK, NEW o, NEW s, ~IsHuge(o), NEW d,
         Reheaded(o, d, s),
         d \in Block => d # ptr[o]
  PROVE  Headed(o, d, Source(o), s)
<1>1. \A b \in Block : b # None
  BY KindsApart
<1>2. header = [b \in Block |-> header[b]]
  BY DEF TypeOK
<1> DEFINE hdr == IF d \in Block THEN [header EXCEPT ![d] = [who |-> o, size |-> s]]
                  ELSE header
<1>3. /\ hdr = [b \in Block |-> hdr[b]]
      /\ \A b \in Block : hdr[b] = IF b = d THEN [who |-> o, size |-> s] ELSE header[b]
  BY <1>2
<1> HIDE DEF hdr
<1>4. CASE InBlock(o)
  <2>1. Source(o) = ptr[o] /\ ptr[o] \in Block
    BY <1>4 DEF Source, InBlock
  <2>2. header' = [hdr EXCEPT ![ptr[o]] = None]
    BY <1>4 DEF Emptied, Reheaded, hdr
  <2>3. \A b \in Block : header'[b] = IF b = ptr[o] THEN None ELSE hdr[b]
    BY <1>3, <2>2
  <2> QED BY <1>3, <2>1, <2>3 DEF Headed
<1>5. CASE ~InBlock(o)
  <2>1. Source(o) = None /\ header' = hdr
    BY <1>5 DEF Source, Emptied, Reheaded, hdr
  <2> QED BY <1>1, <1>3, <2>1 DEF Headed
<1> QED BY <1>4, <1>5

\* A call on an object without a handle, and what hrealloc makes of it.
LEMMA NoHandleStored ==
  ASSUME Sane, Sane', Stored, NEW t \in Thread, NEW o \in Obj, Ready(t, o), ~HasHandle(o),
         NEW d, NEW s \in Nat, Vacant(d, s),
         Resized(o, s), Written(o, d, Source(o), s),
         Headed(o, d, Source(o), s),
         \A r \in Region : r # Source(o) => huge'[r] = IF r = d THEN s ELSE huge[r],
         \A q \in Obj : q # o => addr'[q] = addr[q] /\ ptr'[q] = ptr[q],
         addr'[o] \in Region \/ d \in Region => addr'[o] = d,
         ptr'[o] \in Block \cup {None}, UNCHANGED <<lp, lmem, job>>
  PROVE  Stored'
<1>1. TypeOK' /\ LocalFacts' /\ MemOK /\ InPages
  BY LocalIsNext DEF Sane, Stored
<1>2. ~Busy(o) /\ \A q \in Obj : Busy(q) => Busy(q)'
  BY DEF Ready, Busy
<1>3. MemOK' /\ InMem'
  BY <1>2, MemStored
<1>4. \A q \in Obj : q # o => size'[q] = size[q]
  BY <1>1 DEF MemOK, Resized
<1>5. ~InLocal(o)'
  BY <1>1, PlacesApart, BlocksAndSpots DEF LocalFacts
<1>6. InPages'
  BY <1>1, <1>2, <1>4, <1>5, PagesStored
<1> QED BY <1>3, <1>6 DEF Stored

\* A call on an object with one.
LEMMA HandleStored ==
  ASSUME Sane, Sane', Stored, NEW t \in Thread, NEW o \in Obj, Ready(t, o), HasHandle(o),
         NEW d, NEW s \in Nat, Vacant(d, s),
         Resized(o, s),
         Replaced(o, d, s),
         Reheaded(o, d, s),
         Release(t, o, IF d \in Block THEN d ELSE None), ForgetLocal(o),
         \A r \in Region : huge'[r] = IF r = d THEN s ELSE huge[r],
         \A q \in Obj : q # o => addr'[q] = addr[q],
         addr'[o] \in Region \/ d \in Region => addr'[o] = d,
         UNCHANGED lp
  PROVE  Stored'
<1>1. /\ TypeOK /\ BlocksOK /\ HandlesOK /\ LocalFacts /\ ~IsHuge(o)
      /\ TypeOK' /\ LocalFacts' /\ MemOK /\ InPages
  BY LocalIs, LocalIsNext, AddrFacts DEF Sane, Stored
<1>2. ~Busy(o) /\ job[t] = None
  BY DEF Ready, Busy
<1>3. InBlock(o) => ptr[o] \in Block /\ header[ptr[o]] # None
  BY <1>1 DEF BlocksOK, InBlock
<1>4. d \in Block \cup Region \cup {None} /\ (InBlock(o) => d # ptr[o])
      /\ (d \in Block => d # ptr[o])
  <2>1. d \in Block => header[d] = None
    BY KindsApart DEF Vacant
  <2>2. d \in Block \cup Region \cup {None}
    BY DEF Vacant
  <2> QED BY <1>3, <2>1, <2>2 DEF InBlock
<1>5. Written(o, d, Source(o), s)
  BY <1>1, <1>4, WrittenForgot
<1>6. Headed(o, d, Source(o), s)
  BY <1>1, <1>4, HeadedForgot
<1>7. MemOK' /\ InMem'
  BY <1>2, <1>5, <1>6, MemStored
<1>8. \A q \in Obj : q # o => size'[q] = size[q]
  BY <1>1 DEF MemOK, Resized
<1>9. \A q \in Obj : q # o => ptr'[q] = ptr[q] /\ (Busy(q) => Busy(q)')
  <2>1. \A q \in Obj : q # o => ptr'[q] = ptr[q]
    BY <1>1 DEF Release, TypeOK
  <2>2. \A u \in Thread : job[u] # None => job'[u] = job[u]
    BY <1>1, <1>2 DEF Release, TypeOK
  <2> QED BY <2>1, <2>2 DEF Busy
<1>10. (InLocal(o)' => Busy(o)') /\ (lmem' = lmem \/ (~Busy(o) /\ InLocal(o) /\ ForgetLocal(o)))
  <2>1. CASE InBlock(o)
    <3>1. ptr' = [ptr EXCEPT ![o] = IF d \in Block THEN d ELSE None] /\ lmem' = lmem
      BY <2>1 DEF Release, ForgetLocal
    <3>2. ptr'[o] \in Block \cup {None}
      BY <1>1, <3>1 DEF TypeOK
    <3>3. ~InLocal(o)'
      BY <1>1, <3>2, PlacesApart, BlocksAndSpots DEF LocalFacts
    <3> QED BY <3>1, <3>3
  <2>2. CASE ~InBlock(o)
    <3>1. InLocal(o)
      BY <1>1, <2>2 DEF HandlesOK, LocalFacts
    <3>2. job'[t].h = o /\ job'[t] \in Job
      <4> DEFINE J == [h |-> o, page |-> ptr[o][1], dst |-> IF d \in Block THEN d ELSE None,
                       step |-> "find", md |-> 0, seen |-> 0]
      <4>1. job' = [job EXCEPT ![t] = J]
        BY <2>2 DEF Release
      <4>2. J.h = o
        OBVIOUS
      <4>3. J \in Job
        <5>1. ptr[o][1] \in LPage
          BY <1>1, <3>1, PlacesApart DEF LocalFacts
        <5>2. (IF d \in Block THEN d ELSE None) \in Block \cup {None}
          OBVIOUS
        <5> QED BY <5>1, <5>2 DEF Job
      <4> HIDE DEF J
      <4>4. job'[t] = J
        BY <1>1, <4>1 DEF TypeOK
      <4> QED BY <4>2, <4>3, <4>4
    <3>3. job'[t] # None
      BY <3>2, ApartAssumption
    <3> QED BY <1>2, <3>1, <3>2, <3>3 DEF Busy
  <2> QED BY <2>1, <2>2
<1>11. InPages'
  BY <1>1, <1>8, <1>9, <1>10, PagesStored
<1> QED BY <1>7, <1>11 DEF Stored

-----------------------------------------------------------------------------
(***************************************************************************)
(* halloc, hrealloc and hfree.                                             *)
(***************************************************************************)
\* An object without a handle that no call is freeing.
LEMMA Unallocated ==
  ASSUME Sane, NEW t \in Thread, NEW o \in Obj, Ready(t, o), ~HasHandle(o)
  PROVE  ptr[o] = None /\ Source(o) = (IF IsHuge(o) THEN addr[o] ELSE None)
<1>1. ~Busy(o)
  BY DEF Ready, Busy
<1>2. ptr[o] = None
  BY <1>1 DEF Sane, HandlesOK, InUse
<1>3. ~InBlock(o)
  BY <1>2, KindsApart DEF InBlock
<1> QED BY <1>2, <1>3 DEF Source

\* The other addresses and mappings.
LEMMA OthersStay ==
  ASSUME TypeOK, NEW o \in Obj, NEW a, addr' = [addr EXCEPT ![o] = a]
  PROVE  addr'[o] = a /\ \A q \in Obj : q # o => addr'[q] = addr[q]
BY DEF TypeOK

\* halloc of a small object writes a block.
LEMMA HallocSmallStores ==
  ASSUME Sane, Stored, NEW t \in Thread, NEW o \in Obj, HallocSmall(t, o) PROVE Stored'
<1>1. /\ TypeOK /\ MemOK /\ Ready(t, o) /\ ~HasHandle(o) /\ ~IsHuge(o) /\ Sane'
  BY AddrFacts, HallocSmallKeeps DEF Sane, Stored, HallocSmall
<1>2. PICK s \in SmallSize :
        /\ FreeBlocks(ClassOf(s)) # {}
        /\ LET b == One(FreeBlocks(ClassOf(s)))
           IN  /\ header' = [header EXCEPT ![b] = [who |-> o, size |-> s]]
               /\ ptr'    = [ptr EXCEPT ![o] = b]
               /\ addr'   = [addr EXCEPT ![o] = "handle"]
               /\ mem'    = [mem EXCEPT ![b] =
                               [u \in Unit |-> IF u < s THEN o ELSE None]]
        /\ Resized(o, s)
  BY DEF HallocSmall, Resized
<1> DEFINE b == One(FreeBlocks(ClassOf(s)))
<1>3. b \in Block /\ header[b] = None /\ s <= b[1]
  BY <1>2, BlockFits
<1>4. /\ header' = [header EXCEPT ![b] = [who |-> o, size |-> s]]
      /\ ptr' = [ptr EXCEPT ![o] = b] /\ addr' = [addr EXCEPT ![o] = "handle"]
      /\ mem' = [mem EXCEPT ![b] = Full(o, s)]
  BY <1>2 DEF Full
<1> HIDE DEF b
<1>5. ptr[o] = None /\ Source(o) = None
  BY <1>1, Unallocated
<1>6. s \in Nat /\ s # 0 /\ Vacant(b, s)
  BY <1>3, SizesPositive DEF Vacant
<1>7. Written(o, b, Source(o), s)
  BY <1>1, <1>3, <1>4, <1>5, WrittenOnce
<1>8. Headed(o, b, Source(o), s)
  BY <1>1, <1>4, <1>5, KindsApart DEF Headed, TypeOK
<1>9. /\ UNCHANGED <<huge, lp, lmem, job>>
      /\ \A r \in Region : huge'[r] = IF r = b THEN s ELSE huge[r]
  BY <1>3, KindsApart DEF HallocSmall, local
<1>10. /\ \A q \in Obj : q # o => addr'[q] = addr[q] /\ ptr'[q] = ptr[q]
       /\ addr'[o] = "handle" /\ ptr'[o] \in Block \cup {None}
  BY <1>1, <1>3, <1>4 DEF TypeOK
<1>11. addr'[o] \in Region \/ b \in Region => addr'[o] = b
  BY <1>3, <1>10, KindsApart, ApartAssumption
<1> QED BY <1>1, <1>2, <1>6, <1>7, <1>8, <1>9, <1>10, <1>11, NoHandleStored

\* halloc of a huge object writes a region.
LEMMA HallocHugeStores ==
  ASSUME Sane, Stored, NEW t \in Thread, NEW o \in Obj, HallocHuge(t, o) PROVE Stored'
<1>1. /\ TypeOK /\ MemOK /\ Ready(t, o) /\ ~HasHandle(o) /\ ~IsHuge(o) /\ Sane'
  BY AddrFacts, HallocHugeKeeps DEF Sane, Stored, HallocHuge
<1>2. PICK s \in HugeSize, r \in Region :
        /\ huge[r] = 0 /\ huge' = [huge EXCEPT ![r] = s] /\ addr' = [addr EXCEPT ![o] = r]
        /\ mem' = [mem EXCEPT ![r] = [u \in Unit |-> IF u < s THEN o ELSE None]]
        /\ Resized(o, s)
  BY FreeRegionIs DEF HallocHuge, Resized
<1>3. mem' = [mem EXCEPT ![r] = Full(o, s)]
  BY <1>2 DEF Full
<1>4. ptr[o] = None /\ Source(o) = None
  BY <1>1, Unallocated
<1>5. s \in Nat /\ Vacant(r, s)
  BY <1>2, SizesPositive DEF Vacant
<1>6. Written(o, r, Source(o), s)
  BY <1>1, <1>3, <1>4, WrittenOnce
<1>7. UNCHANGED <<ptr, header, lp, lmem, job>>
  BY DEF HallocHuge, local
<1>8. Headed(o, r, Source(o), s)
  BY <1>4, <1>7, KindsApart DEF Headed
<1>9. \A x \in Region : huge'[x] = IF x = r THEN s ELSE huge[x]
  BY <1>1, <1>2 DEF TypeOK
<1>10. /\ \A q \in Obj : q # o => addr'[q] = addr[q] /\ ptr'[q] = ptr[q]
       /\ addr'[o] = r /\ ptr'[o] \in Block \cup {None}
  BY <1>1, <1>2, <1>4, <1>7 DEF TypeOK
<1> QED BY <1>1, <1>2, <1>5, <1>6, <1>7, <1>8, <1>9, <1>10, NoHandleStored

\* hrealloc of a huge object to a huge size writes another region.
LEMMA HugeToHugeStores ==
  ASSUME Sane, Stored, NEW t \in Thread, NEW o \in Obj, HugeToHuge(t, o) PROVE Stored'
<1>1. /\ TypeOK /\ MemOK /\ Ready(t, o) /\ ~HasHandle(o) /\ IsHuge(o) /\ Sane'
      /\ ~Busy(o) /\ addr[o] \in Region /\ huge[addr[o]] > 0
  BY AddrFacts, HugeToHugeKeeps DEF Sane, Stored, HugeToHuge, Ready, Busy, RegionsOK, IsHuge
<1>2. PICK s \in HugeSize, r \in Region :
        /\ huge[r] = 0 /\ huge' = [huge EXCEPT ![r] = s] /\ addr' = [addr EXCEPT ![o] = r]
        /\ mem' = [mem EXCEPT ![r] = CopyOf(o, addr[o], CopySize(huge[addr[o]], s), s),
                              ![addr[o]] = Blank]
        /\ Resized(o, s)
  BY FreeRegionIs DEF HugeToHuge, Resized
<1>3. s \in Nat /\ Vacant(r, s)
  BY <1>2, SizesPositive DEF Vacant
<1>4. CopyOf(o, addr[o], CopySize(huge[addr[o]], s), s) = Full(o, s)
  <2>1. /\ huge[addr[o]] \in Nat
        /\ \A u \in 0 .. huge[addr[o]] - 1 : Byte(addr[o], u) = o
    BY <1>1, Contents
  <2> QED BY <1>3, <2>1, CopyIs
<1>5. mem' = [mem EXCEPT ![r] = Full(o, s), ![addr[o]] = Blank]
  BY <1>2, <1>4
<1>6. ptr[o] = None /\ Source(o) = addr[o] /\ r # addr[o]
  BY <1>1, <1>2, Unallocated
<1>7. Written(o, r, Source(o), s)
  BY <1>1, <1>5, <1>6, WrittenTwice
<1>8. UNCHANGED <<ptr, header, lp, lmem, job>>
  BY DEF HugeToHuge, local
<1>9. Headed(o, r, Source(o), s)
  BY <1>1, <1>6, <1>8, KindsApart DEF Headed
<1>10. \A x \in Region : huge'[x] = IF x = r THEN s ELSE huge[x]
  BY <1>1, <1>2 DEF TypeOK
<1>11. /\ \A q \in Obj : q # o => addr'[q] = addr[q] /\ ptr'[q] = ptr[q]
       /\ addr'[o] = r /\ ptr'[o] \in Block \cup {None}
  BY <1>1, <1>2, <1>6, <1>8 DEF TypeOK
<1> QED BY <1>1, <1>2, <1>3, <1>7, <1>8, <1>9, <1>10, <1>11, NoHandleStored

\* hrealloc of a huge object to a small size writes a block.
LEMMA HugeToHandleStores ==
  ASSUME Sane, Stored, NEW t \in Thread, NEW o \in Obj, HugeToHandle(t, o) PROVE Stored'
<1>1. /\ TypeOK /\ MemOK /\ Ready(t, o) /\ ~HasHandle(o) /\ IsHuge(o) /\ Sane'
      /\ ~Busy(o) /\ addr[o] \in Region
  BY AddrFacts, HugeToHandleKeeps DEF Sane, Stored, HugeToHandle, Ready, Busy, IsHuge
<1>2. PICK s \in SmallSize :
        /\ FreeBlocks(ClassOf(s)) # {}
        /\ LET b == One(FreeBlocks(ClassOf(s)))
               n == CopySize(huge[addr[o]], s)
           IN  /\ mem'    = [mem EXCEPT ![b] = CopyOf(o, addr[o], n, s), ![addr[o]] = Blank]
               /\ header' = [header EXCEPT ![b] = [who |-> o, size |-> s]]
               /\ ptr'    = [ptr EXCEPT ![o] = b]
               /\ huge'   = [huge EXCEPT ![addr[o]] = 0]
               /\ addr'   = [addr EXCEPT ![o] = "handle"]
        /\ Resized(o, s)
  BY DEF HugeToHandle
<1> DEFINE b == One(FreeBlocks(ClassOf(s)))
<1>3. b \in Block /\ header[b] = None /\ s <= b[1]
  BY <1>2, BlockFits
<1>4. /\ header' = [header EXCEPT ![b] = [who |-> o, size |-> s]]
      /\ ptr' = [ptr EXCEPT ![o] = b] /\ addr' = [addr EXCEPT ![o] = "handle"]
      /\ huge' = [huge EXCEPT ![addr[o]] = 0]
      /\ mem' = [mem EXCEPT ![b] = CopyOf(o, addr[o], CopySize(huge[addr[o]], s), s),
                            ![addr[o]] = Blank]
  BY <1>2
<1> HIDE DEF b
<1>5. ptr[o] = None /\ Source(o) = addr[o] /\ b # addr[o]
  BY <1>1, <1>3, Unallocated, KindsApart
<1>6. s \in Nat /\ s # 0 /\ Vacant(b, s)
  BY <1>3, SizesPositive DEF Vacant
<1>7. CopyOf(o, addr[o], CopySize(huge[addr[o]], s), s) = Full(o, s)
  <2>1. /\ huge[addr[o]] \in Nat
        /\ \A u \in 0 .. huge[addr[o]] - 1 : Byte(addr[o], u) = o
    BY <1>1, Contents
  <2> QED BY <1>6, <2>1, CopyIs
<1>8. mem' = [mem EXCEPT ![b] = Full(o, s), ![addr[o]] = Blank]
  BY <1>4, <1>7
<1>9. Written(o, b, Source(o), s)
  BY <1>1, <1>3, <1>5, <1>8, WrittenTwice
<1>10. Headed(o, b, Source(o), s)
  BY <1>1, <1>4, <1>5, KindsApart DEF Headed, TypeOK
<1>11. /\ UNCHANGED <<lp, lmem, job>>
       /\ \A r \in Region : r # Source(o) => huge'[r] = IF r = b THEN s ELSE huge[r]
  BY <1>1, <1>3, <1>4, <1>5, KindsApart DEF HugeToHandle, local, TypeOK
<1>12. /\ \A q \in Obj : q # o => addr'[q] = addr[q] /\ ptr'[q] = ptr[q]
       /\ addr'[o] = "handle" /\ ptr'[o] \in Block \cup {None}
  BY <1>1, <1>3, <1>4 DEF TypeOK
<1>13. addr'[o] \in Region \/ b \in Region => addr'[o] = b
  BY <1>3, <1>12, KindsApart, ApartAssumption
<1> QED BY <1>1, <1>2, <1>6, <1>9, <1>10, <1>11, <1>12, <1>13, NoHandleStored

\* hfree of a huge object gives up its region.
LEMMA HfreeHugeStores ==
  ASSUME Sane, Stored, NEW t \in Thread, NEW o \in Obj, HfreeHuge(t, o) PROVE Stored'
<1>1. /\ TypeOK /\ MemOK /\ Ready(t, o) /\ ~HasHandle(o) /\ IsHuge(o) /\ Sane'
      /\ addr[o] \in Region
  BY AddrFacts, HfreeHugeKeeps DEF Sane, Stored, HfreeHuge, IsHuge
<1>2. /\ huge' = [huge EXCEPT ![addr[o]] = 0] /\ addr' = [addr EXCEPT ![o] = None]
      /\ mem' = [mem EXCEPT ![addr[o]] = Blank] /\ Resized(o, 0)
      /\ UNCHANGED <<ptr, header, lp, lmem, job>>
  BY DEF HfreeHuge, Dropped, Resized, local
<1>3. ptr[o] = None /\ Source(o) = addr[o] /\ Vacant(None, 0)
  BY <1>1, Unallocated DEF Vacant
<1>4. Written(o, None, Source(o), 0)
  BY <1>1, <1>2, <1>3, WrittenBlank
<1>5. Headed(o, None, Source(o), 0)
  BY <1>1, <1>2, <1>3, KindsApart DEF Headed
<1>6. \A r \in Region : r # Source(o) => huge'[r] = IF r = None THEN 0 ELSE huge[r]
  BY <1>1, <1>2, <1>3, KindsApart DEF TypeOK
<1>7. /\ \A q \in Obj : q # o => addr'[q] = addr[q] /\ ptr'[q] = ptr[q]
      /\ addr'[o] = None /\ ptr'[o] \in Block \cup {None}
  BY <1>1, <1>2, <1>3 DEF TypeOK
<1>8. addr'[o] \in Region \/ None \in Region => addr'[o] = None
  BY <1>7
<1>9. 0 \in Nat
  OBVIOUS
<1> QED BY <1>1, <1>2, <1>3, <1>4, <1>5, <1>6, <1>7, <1>8, <1>9, NoHandleStored

\* hrealloc of a handle to a huge size writes a region.
LEMMA HandleToHugeStores ==
  ASSUME Sane, Stored, NEW t \in Thread, NEW o \in Obj, HandleToHuge(t, o) PROVE Stored'
<1>1. /\ TypeOK /\ Ready(t, o) /\ HasHandle(o) /\ Sane' /\ ~Busy(o)
  BY HandleToHugeKeeps DEF Sane, HandleToHuge, Ready, Busy
<1>2. PICK s \in HugeSize, r \in Region :
        /\ huge[r] = 0 /\ huge' = [huge EXCEPT ![r] = s] /\ addr' = [addr EXCEPT ![o] = r]
        /\ mem' = Forget(o, [mem EXCEPT ![r] = CopyOf(o, ptr[o], CopySize(SizeOf(o), s), s)])
        /\ header' = Emptied(o, header) /\ Release(t, o, None) /\ Resized(o, s)
  BY FreeRegionIs DEF HandleToHuge
<1>3. s \in Nat /\ Vacant(r, s) /\ r # None /\ r \notin Block
  BY <1>2, SizesPositive, KindsApart DEF Vacant
<1>4. CopyOf(o, ptr[o], CopySize(SizeOf(o), s), s) = Full(o, s)
  <2>1. SizeOf(o) \in Nat /\ \A u \in 0 .. SizeOf(o) - 1 : Byte(ptr[o], u) = o
    BY <1>1, Contents
  <2> QED BY <1>3, <2>1, CopyIs
<1>5. /\ Replaced(o, r, s)
      /\ Reheaded(o, r, s)
      /\ Release(t, o, IF r \in Block THEN r ELSE None)
  BY <1>2, <1>3, <1>4 DEF Replaced, Reheaded
<1>6. ForgetLocal(o) /\ UNCHANGED lp
  BY DEF HandleToHuge
<1>7. \A x \in Region : huge'[x] = IF x = r THEN s ELSE huge[x]
  BY <1>1, <1>2 DEF TypeOK
<1>8. addr'[o] = r /\ \A q \in Obj : q # o => addr'[q] = addr[q]
  BY <1>1, <1>2, OthersStay
<1>9. addr'[o] \in Region \/ r \in Region => addr'[o] = r
  BY <1>8
<1>10. Resized(o, s) /\ UNCHANGED lp /\ ForgetLocal(o)
  BY <1>2, <1>6
<1> QED BY <1>1, <1>3, <1>5, <1>7, <1>8, <1>9, <1>10, HandleStored

\* hrealloc of a handle to a small size writes a block.
LEMMA HandleToHandleStores ==
  ASSUME Sane, Stored, NEW t \in Thread, NEW o \in Obj, HandleToHandle(t, o) PROVE Stored'
<1>1. /\ TypeOK /\ Ready(t, o) /\ HasHandle(o) /\ Sane' /\ ~Busy(o)
  BY HandleToHandleKeeps DEF Sane, HandleToHandle, Ready, Busy
<1>2. PICK s \in SmallSize :
        /\ FreeBlocks(ClassOf(s)) # {}
        /\ LET b == One(FreeBlocks(ClassOf(s)))
               n == CopySize(SizeOf(o), s)
           IN  /\ mem'    = Forget(o, [mem EXCEPT ![b] = CopyOf(o, ptr[o], n, s)])
               /\ header' = Emptied(o, [header EXCEPT ![b] = [who |-> o, size |-> s]])
               /\ Release(t, o, b)
        /\ Resized(o, s)
  BY DEF HandleToHandle
<1> DEFINE b == One(FreeBlocks(ClassOf(s)))
<1>3. b \in Block /\ header[b] = None /\ s <= b[1]
  BY <1>2, BlockFits
<1>4. /\ mem' = Forget(o, [mem EXCEPT ![b] = CopyOf(o, ptr[o], CopySize(SizeOf(o), s), s)])
      /\ header' = Emptied(o, [header EXCEPT ![b] = [who |-> o, size |-> s]])
      /\ Release(t, o, b)
  BY <1>2
<1> HIDE DEF b
<1>5. s \in Nat /\ s # 0 /\ Vacant(b, s) /\ b # None /\ b \notin Region
  BY <1>3, SizesPositive, KindsApart DEF Vacant
<1>6. CopyOf(o, ptr[o], CopySize(SizeOf(o), s), s) = Full(o, s)
  <2>1. SizeOf(o) \in Nat /\ \A u \in 0 .. SizeOf(o) - 1 : Byte(ptr[o], u) = o
    BY <1>1, Contents
  <2> QED BY <1>5, <2>1, CopyIs
<1>7. /\ Replaced(o, b, s)
      /\ Reheaded(o, b, s)
      /\ Release(t, o, IF b \in Block THEN b ELSE None)
  BY <1>3, <1>4, <1>5, <1>6 DEF Replaced, Reheaded
<1>8. ForgetLocal(o) /\ UNCHANGED <<lp, huge, addr>>
  BY DEF HandleToHandle
<1>9. \A x \in Region : huge'[x] = IF x = b THEN s ELSE huge[x]
  BY <1>5, <1>8
<1>10. addr'[o] = "handle" /\ \A q \in Obj : addr'[q] = addr[q]
  BY <1>1, <1>8 DEF HasHandle
<1>11. addr'[o] \in Region \/ b \in Region => addr'[o] = b
  BY <1>5, <1>10, ApartAssumption
<1> QED BY <1>1, <1>2, <1>5, <1>7, <1>8, <1>9, <1>10, <1>11, HandleStored

\* hfree of a handle gives up what it is in.
LEMMA HfreeStores ==
  ASSUME Sane, Stored, NEW t \in Thread, NEW o \in Obj, Hfree(t, o) PROVE Stored'
<1>1. /\ TypeOK /\ Ready(t, o) /\ HasHandle(o) /\ Sane'
  BY HfreeKeeps DEF Sane, Hfree
<1>2. /\ mem' = Forget(o, mem) /\ header' = Emptied(o, header) /\ Release(t, o, None)
      /\ addr' = [addr EXCEPT ![o] = None] /\ Resized(o, 0) /\ ForgetLocal(o)
      /\ UNCHANGED <<huge, lp>>
  BY DEF Hfree, Dropped, Resized
<1>3. None \notin Block /\ None \notin Region /\ Vacant(None, 0)
  BY KindsApart DEF Vacant
<1>4. /\ Replaced(o, None, 0)
      /\ Reheaded(o, None, 0)
      /\ Release(t, o, IF None \in Block THEN None ELSE None)
  BY <1>2, <1>3 DEF Replaced, Reheaded
<1>5. \A x \in Region : huge'[x] = IF x = None THEN 0 ELSE huge[x]
  BY <1>2, <1>3
<1>6. addr'[o] = None /\ \A q \in Obj : q # o => addr'[q] = addr[q]
  BY <1>1, <1>2, OthersStay
<1>7. 0 \in Nat /\ (addr'[o] \in Region \/ None \in Region => addr'[o] = None)
  BY <1>6
<1> QED BY <1>1, <1>2, <1>3, <1>4, <1>5, <1>6, <1>7, HandleStored

-----------------------------------------------------------------------------
(***************************************************************************)
(* The steps of a release, and barriers that begin and end.                *)
(***************************************************************************)
\* Memory outside the pages stays as it is.
LEMMA MemSame ==
  ASSUME Stored, UNCHANGED <<addr, size, header, mem, huge>> PROVE MemOK' /\ InMem'
<1>1. MemOK /\ InMem
  BY DEF Stored
<1>2. MemOK'
  BY <1>1 DEF MemOK
<1>3. ASSUME NEW b \in Block PROVE BlockStored(b)'
  BY <1>1 DEF InMem, BlockStored, Blank, Full
<1>4. ASSUME NEW o \in Obj PROVE HugeStored(o)'
  BY <1>1 DEF InMem, HugeStored, IsHuge, Full
<1>5. ASSUME NEW r \in Region PROVE IdleStored(r)'
  BY <1>1 DEF InMem, IdleStored, Blank
<1> QED BY <1>2, <1>3, <1>4, <1>5 DEF InMem

\* Steps that leave entries and objects as they are.
LEMMA StoredSame ==
  ASSUME Sane, TypeOK', Stored, UNCHANGED <<addr, size, ptr, header, mem, huge, lp, lmem>>,
         \A q \in Obj : Busy(q) => Busy(q)'
  PROVE  Stored'
<1>1. MemOK' /\ InMem'
  BY MemSame
<1>2. TypeOK /\ LocalFacts /\ LocalFacts'
  BY LocalIs, LocalIsNext DEF Sane
<1>3. ASSUME NEW h \in Obj, InLocal(h)', ~Busy(h)' PROVE LocalStored(h)'
  <2>1. InLocal(h) /\ ~Busy(h)
    BY <1>2, <1>3 DEF LocalFacts
  <2>2. LocalStored(h)
    BY DEF Stored, InPages
  <2> QED BY <2>1, <2>2 DEF LocalStored
<1>4. InPages'
  BY <1>3 DEF InPages, LocalStored
<1> QED BY <1>1, <1>4 DEF Stored

\* find_md changes nothing but what its call knows.
LEMMA FindEntryStores ==
  ASSUME Sane, Stored, NEW t \in Thread, FindEntry(t), Sane' PROVE Stored'
<1>1. TypeOK /\ TypeOK' /\ JobFacts /\ JobFacts'
  BY JobIs, JobIsNext DEF Sane
<1>2. UNCHANGED <<addr, size, ptr, header, mem, huge, lp, lmem>>
  BY DEF FindEntry, objs, store, local
<1> DEFINE p == job[t].page
           h == job[t].h
           i == FindMd(lp[p], At(p), ptr[h][2])
           J == [h |-> h, page |-> p, dst |-> job[t].dst, step |-> "count", md |-> i,
                 seen |-> lp[p].freed]
<1>3. ASSUME job' # job PROVE job' = [job EXCEPT ![t] = J] /\ J # None /\ J.h = h
  <2>1. job' = [job EXCEPT ![t].md = i, ![t].step = "count", ![t].seen = lp[p].freed]
    BY <1>3 DEF FindEntry
  <2>2. /\ job[t] \in Job /\ h \in Obj /\ p \in LPage /\ JobOK(t)
        /\ job[t].dst \in Block \cup {None}
    BY <1>1 DEF FindEntry, AtStep, JobFacts, JobsOK, Sane
  <2>3. InLocal(h) /\ ptr[h][1] = p
    BY <2>2 DEF JobOK
  <2>4. \E k : OwnEntry(h, k)
    BY <2>2, <2>3, OwnEntryIs
  <2>5. PICK k : OwnEntry(h, k)
    BY <2>4
  <2>6. /\ lp[p].mds \in Seq(EntryType) /\ lp[p].bump \in Nat /\ lp[p].freed \in Int
        /\ EndToEnd(lp[p].mds, lp[p].bump, At(p)) /\ Len(lp[p].mds) \in Nat
    BY <2>2, PageIs DEF PageOK, Sane
  <2>7. k \in 1 .. Len(lp[p].mds) /\ Start(lp[p].mds, At(p), k) = ptr[h][2]
    BY <2>3, <2>5 DEF OwnEntry
  <2>8. i = k
    BY <2>6, <2>7, FindMdFinds
  <2> HIDE DEF i
  <2>9. J \in Job /\ J # None
    BY <2>2, <2>6, <2>7, <2>8, NoneApart DEF Job
  <2> DEFINE f == lp[p].freed
  <2> HIDE DEF f
  <2>10. job[t] = [h |-> h, page |-> p, dst |-> job[t].dst, step |-> job[t].step,
                   md |-> job[t].md, seen |-> job[t].seen]
    BY <2>2 DEF Job
  <2>11. [job[t] EXCEPT !.md = i, !.step = "count", !.seen = f] = J
    <3> DEFINE d == job[t].dst
               x == job[t].step
               y == job[t].md
               z == job[t].seen
               r == job[t]
    <3>1. r = [h |-> h, page |-> p, dst |-> d, step |-> x, md |-> y, seen |-> z]
          /\ J = [h |-> h, page |-> p, dst |-> d, step |-> "count", md |-> i, seen |-> f]
      BY <2>10 DEF f
    <3> HIDE DEF r, h, p, d, x, y, z, J
    <3>2. [r EXCEPT !.md = i, !.step = "count", !.seen = f] =
            [h |-> h, page |-> p, dst |-> d, step |-> "count", md |-> i, seen |-> f]
      <4> DEFINE q == [h |-> h, page |-> p, dst |-> d, step |-> x, md |-> y, seen |-> z]
                 q1 == [q EXCEPT !.md = i]
                 q2 == [q1 EXCEPT !.step = "count"]
                 q3 == [q2 EXCEPT !.seen = f]
      <4>1. q1 = [h |-> h, page |-> p, dst |-> d, step |-> x, md |-> i, seen |-> z]
        OBVIOUS
      <4> HIDE DEF q1
      <4>2. q2 = [h |-> h, page |-> p, dst |-> d, step |-> "count", md |-> i, seen |-> z]
        BY <4>1
      <4> HIDE DEF q2
      <4>3. q3 = [h |-> h, page |-> p, dst |-> d, step |-> "count", md |-> i, seen |-> f]
        BY <4>2
      <4> QED BY <3>1, <4>3, Zenon DEF q1, q2
    <3> QED BY <3>1, <3>2, Zenon DEF r
  <2>12. DOMAIN job = Thread
    BY <1>1 DEF TypeOK
  <2>13. job' = [job EXCEPT ![t].md = i, ![t].step = "count", ![t].seen = f]
    BY <2>1 DEF f
  <2> HIDE DEF J, h, p
  <2>14. [job EXCEPT ![t].md = i, ![t].step = "count", ![t].seen = f] =
           [job EXCEPT ![t] = [job[t] EXCEPT !.md = i, !.step = "count", !.seen = f]]
    BY <2>12
  <2>15. job' = [job EXCEPT ![t] = J]
    BY <2>11, <2>13, <2>14
  <2>16. J.h = h
    BY DEF J
  <2> QED BY <2>9, <2>15, <2>16
<1> HIDE DEF J
<1>4. \A u \in Thread : job[u] # None => job'[u] # None /\ job'[u].h = job[u].h
  <2>1. CASE job' = job
    BY <2>1
  <2>2. CASE job' # job
    <3>1. \A u \in Thread : job'[u] = IF u = t THEN J ELSE job[u]
      BY <1>1, <1>3, <2>2 DEF TypeOK
    <3> QED BY <1>3, <2>2, <3>1
  <2> QED BY <2>1, <2>2
<1>5. \A q \in Obj : Busy(q) => Busy(q)'
  BY <1>4 DEF Busy
<1> QED BY <1>1, <1>2, <1>5, StoredSame

\* Once a release is over its object is elsewhere.
LEMMA FinishStores ==
  ASSUME Sane, Stored, NEW t \in Thread, Finish(t) PROVE Stored'
<1>1. /\ TypeOK /\ TypeOK' /\ JobFacts /\ LocalFacts' /\ InPages /\ JobsOK
  BY FinishKeeps, JobIs, LocalIsNext DEF Sane, Stored
<1>2. job[t] # None /\ job[t].h \in Obj /\ job[t].dst \in Block \cup {None}
  BY <1>1 DEF Finish, AtStep, JobFacts
<1>3. PICK o \in Obj : o = job[t].h
  BY <1>2
<1>4. /\ ptr' = [ptr EXCEPT ![o] = job[t].dst] /\ job' = [job EXCEPT ![t] = None]
      /\ UNCHANGED <<addr, size, header, mem, huge, lp, lmem>>
  BY <1>3 DEF Finish, objs, local
<1>5. MemOK' /\ InMem'
  BY <1>4, MemSame
<1>6. ptr'[o] \in Block \cup {None} /\ \A q \in Obj : q # o => ptr'[q] = ptr[q]
  BY <1>1, <1>4, <1>2 DEF TypeOK
<1>7. ~InLocal(o)'
  <2>1. ptr'[o] \notin Spot
    BY <1>6, BlocksAndSpots, PlacesApart
  <2> QED BY <1>1, <1>3, <2>1 DEF LocalFacts
<1>8. \A q \in Obj : q # o => (Busy(q) => Busy(q)')
  <2>1. \A u \in Thread : job'[u] = IF u = t THEN None ELSE job[u]
    BY <1>1, <1>4 DEF TypeOK
  <2>2. \A u \in Thread : job[u] # None /\ job[u].h # o => u # t
    BY <1>3
  <2> QED BY <2>1, <2>2 DEF Busy
<1>9. InPages'
  BY <1>1, <1>3, <1>4, <1>6, <1>7, <1>8, PagesStored
<1> QED BY <1>5, <1>9 DEF Stored

\* A call writes the entry of its own object and no other.
LEMMA EntryStores ==
  ASSUME Sane, Sane', Stored, NEW t \in Thread, job[t] # None, job[t].step # "find",
         NEW p \in LPage, p = job[t].page, NEW k, k = job[t].md, NEW e, NEW v,
         EntryPut(p, k, e, v), NEW J \in Job, J.h = job[t].h, job' = [job EXCEPT ![t] = J],
         UNCHANGED <<addr, size, ptr, header, mem, huge, lmem>>
  PROVE  Stored'
<1>1. /\ TypeOK /\ LocalFacts /\ LocalFacts' /\ EntryOK(t) /\ JobFacts
  BY LocalIs, LocalIsNext, JobIs DEF Sane, PagesOK
<1>2. MemOK' /\ InMem'
  BY MemSame
<1>3. J # None /\ \A u \in Thread : job'[u] = IF u = t THEN J ELSE job[u]
  BY <1>1, ApartAssumption DEF TypeOK
<1>4. \A q \in Obj : Busy(q) => Busy(q)'
  BY <1>3 DEF Busy
<1>5. ASSUME NEW h \in Obj, InLocal(h)', ~Busy(h)' PROVE LocalStored(h)'
  <2> DEFINE q == ptr[h][1]
  <2>1. InLocal(h) /\ ~Busy(h) /\ q \in LPage
    BY <1>1, <1>4, <1>5, PlacesApart DEF LocalFacts
  <2>2. PICK i \in 1 .. Len(lp[q].mds) :
          /\ lp[q].mds[i].who = h /\ lp[q].mds[i].size = size[h]
          /\ \A u \in 0 .. size[h] - 1 : lmem[q][ptr[h][2] + u] = h
    BY <2>1 DEF Stored, InPages, LocalStored
  <2>3. Len(lp'[q].mds) = Len(lp[q].mds) /\ lp'[q].mds[i] = lp[q].mds[i]
    <3>1. CASE q # p
      BY <1>1, <3>1 DEF EntryPut, TypeOK
    <3>2. CASE q = p
      <4>1. i # k
        <5>1. lp[p].mds[k].who \in {None, job[t].h}
          BY <1>1 DEF EntryOK
        <5>2. job[t].h # h
          BY <2>1 DEF Busy
        <5> QED BY <2>2, <3>2, <5>1, <5>2, NoneApart
      <4>2. lp[p].mds \in Seq(EntryType)
        BY <1>1 DEF TypeOK, PageType
      <4>3. lp'[p].mds = [lp[p].mds EXCEPT ![k] = e]
        BY <1>1 DEF EntryPut, TypeOK
      <4> DEFINE mds == lp[p].mds
      <4> HIDE DEF mds
      <4>4. Len([mds EXCEPT ![k] = e]) = Len(mds) /\ [mds EXCEPT ![k] = e][i] = mds[i]
        <5>1. mds \in Seq(EntryType) /\ i \in 1 .. Len(mds)
          BY <2>2, <3>2, <4>2 DEF mds
        <5>2. mds = [x \in 1 .. Len(mds) |-> mds[x]] /\ Len(mds) \in Nat
          BY <5>1, EntryFacts
        <5> QED BY <4>1, <5>1, <5>2
      <4> QED BY <3>2, <4>3, <4>4 DEF mds
    <3> QED BY <3>1, <3>2
  <2> QED BY <1>5, <2>2, <2>3 DEF LocalStored
<1>6. InPages'
  BY <1>5 DEF InPages, LocalStored
<1> QED BY <1>2, <1>6 DEF Stored

\* The address in the place of the mapping.
LEMMA PutAddressStores ==
  ASSUME Sane, Stored, NEW t \in Thread, PutAddress(t) PROVE Stored'
<1> DEFINE p   == job[t].page
           k   == job[t].md
           h   == job[t].h
           a   == ptr[h][2]
           mds == lp[p].mds
           e   == [who |-> None, raw |-> a, allocated |-> mds[k].allocated, size |-> mds[k].size]
           J   == [h |-> h, page |-> p, dst |-> job[t].dst, step |-> "flag", md |-> k,
                   seen |-> job[t].seen]
           v   == job[t].seen + mds[k].size
<1>1. /\ TypeOK /\ PagesOK /\ JobsOK /\ JobFacts /\ LocalFacts
      /\ job[t] # None /\ job[t].step = "count"
      /\ UNCHANGED <<addr, size, ptr, header, mem, huge, lmem>>
  BY JobIs, LocalIs DEF Sane, PutAddress, AtStep, objs, store
<1>2. EntryOK(t) /\ JobOK(t)
  BY <1>1 DEF PagesOK, JobsOK
<1>3. /\ p \in LPage /\ k \in Nat /\ h \in Obj /\ job[t].dst \in Block \cup {None}
      /\ job[t].seen \in Int /\ job[t] \in Job
  BY <1>1 DEF JobFacts
<1>4. a \in Nat
  BY <1>1, <1>2, <1>3, PlacesApart DEF JobOK, LocalFacts
<1>5. mds \in Seq(EntryType) /\ k \in 1 .. Len(mds)
  BY <1>1, <1>2, <1>3, PageIs DEF EntryOK
<1>6. mds[k] \in EntryType /\ mds[k].size \in Nat \ {0}
  BY <1>5, EntryFacts
<1>7. e \in EntryType /\ e.who = None /\ e.raw = a /\ e.size = mds[k].size
      /\ e.allocated = mds[k].allocated
  BY <1>4, <1>6 DEF EntryType
<1>8. J \in Job /\ J.h = job[t].h
  BY <1>3 DEF Job
<1>9. job' = [job EXCEPT ![t] = J]
  <2>1. job' = [job EXCEPT ![t] = [job[t] EXCEPT !.step = "flag"]]
    BY DEF PutAddress
  <2>2. [job[t] EXCEPT !.step = "flag"] = J
    BY <1>3 DEF Job
  <2> QED BY <2>1, <2>2
<1>10. v \in Int
  BY <1>3, <1>6
<1>11. EntryPut(p, k, e, v)
  BY <1>1, <1>3, <1>5, <1>7, <1>10, AddressPut
<1>12. Sane'
  BY PutAddressKeeps
<1> HIDE DEF e, J, a, mds, v, k, p, h
<1>13. p = job[t].page /\ k = job[t].md /\ job[t].step # "find"
  BY <1>1 DEF p, k
<1> QED BY <1>1, <1>3, <1>8, <1>9, <1>11, <1>12, <1>13, EntryStores

\* The cleared flag.
LEMMA ClearFlagStores ==
  ASSUME Sane, Stored, NEW t \in Thread, ClearFlag(t) PROVE Stored'
<1> DEFINE p   == job[t].page
           k   == job[t].md
           h   == job[t].h
           mds == lp[p].mds
           e   == [who |-> mds[k].who, raw |-> mds[k].raw, allocated |-> FALSE,
                   size |-> mds[k].size]
           J   == [h |-> h, page |-> p, dst |-> job[t].dst, step |-> "finish", md |-> k,
                   seen |-> job[t].seen]
<1>1. /\ TypeOK /\ PagesOK /\ JobsOK /\ JobFacts
      /\ job[t] # None /\ job[t].step = "flag"
      /\ UNCHANGED <<addr, size, ptr, header, mem, huge, lmem>>
  BY JobIs DEF Sane, ClearFlag, AtStep, objs, store
<1>2. EntryOK(t)
  BY <1>1 DEF PagesOK
<1>3. /\ p \in LPage /\ k \in Nat /\ h \in Obj /\ job[t].dst \in Block \cup {None}
      /\ job[t].seen \in Int /\ job[t] \in Job
  BY <1>1 DEF JobFacts
<1>5. mds \in Seq(EntryType) /\ k \in 1 .. Len(mds)
  BY <1>1, <1>2, <1>3, PageIs DEF EntryOK
<1>6. mds[k] \in EntryType
  BY <1>5, EntryFacts
<1>7. e \in EntryType /\ e.who = mds[k].who /\ e.raw = mds[k].raw /\ e.size = mds[k].size
      /\ e.allocated = FALSE
  BY <1>6 DEF EntryType
<1>8. J \in Job /\ J.h = job[t].h
  BY <1>3 DEF Job
<1>9. job' = [job EXCEPT ![t] = J]
  <2>1. job' = [job EXCEPT ![t] = [job[t] EXCEPT !.step = "finish"]]
    BY DEF ClearFlag
  <2>2. [job[t] EXCEPT !.step = "finish"] = J
    BY <1>3 DEF Job
  <2> QED BY <2>1, <2>2
<1>11. EntryPut(p, k, e, lp[p].freed)
  BY <1>1, <1>3, <1>5, <1>7, FlagPut
<1>12. Sane'
  BY ClearFlagKeeps
<1> HIDE DEF e, J, mds, k, p, h
<1>13. p = job[t].page /\ k = job[t].md /\ job[t].step # "find"
  BY <1>1 DEF p, k
<1> QED BY <1>1, <1>3, <1>8, <1>9, <1>11, <1>12, <1>13, EntryStores

\* Barriers begin and end without a change to memory, and compaction starts so.
LEMMA BarrierStores ==
  ASSUME Sane, Stored,
         (\E t \in Thread : BeginBarrier(t)) \/ StartCompaction \/ EndBarrier
  PROVE  Stored'
<1>1. UNCHANGED <<objs, store, local, job>>
  BY DEF BeginBarrier, StartCompaction, EndBarrier
<1>2. TypeOK'
  BY BeginBarrierKeeps, StartCompactionKeeps, EndBarrierKeeps DEF Sane
<1>3. UNCHANGED <<addr, size, ptr, header, mem, huge, lp, lmem>>
  BY <1>1 DEF objs, store, local
<1>4. \A q \in Obj : Busy(q) => Busy(q)'
  BY <1>1 DEF Busy
<1> QED BY <1>2, <1>3, <1>4, StoredSame

-----------------------------------------------------------------------------
(***************************************************************************)
(* Moves in a barrier.                                                     *)
(***************************************************************************)
\* What a block holds that an object is in.
LEMMA BlockHolds ==
  ASSUME Sane, Stored, NEW h \in Obj, InBlock(h)
  PROVE  /\ ptr[h] \in Block /\ header[ptr[h]] = [who |-> h, size |-> size[h]]
         /\ size[h] \in Nat \ {0} /\ size[h] <= ptr[h][1] /\ SizeOf(h) = size[h]
         /\ mem[ptr[h]] = Full(h, size[h]) /\ \A u \in 0 .. size[h] - 1 : u \in Unit
<1> DEFINE b == ptr[h]
<1>1. TypeOK /\ BlocksOK /\ HeaderFacts /\ InMem
  BY HeaderIs DEF Sane, Stored
<1>2. b \in Block /\ header[b] # None /\ header[b].who = h /\ header[b].size \in Nat \ {0}
  BY <1>1 DEF BlocksOK, InBlock, HeaderFacts
<1>3. header[b].size = size[h] /\ size[h] <= b[1] /\ mem[b] = Full(h, size[h])
  BY <1>1, <1>2 DEF InMem, BlockStored
<1>4. header[b] = [who |-> h, size |-> size[h]]
  <2>1. header[b] \in Header
    BY <1>1, <1>2 DEF TypeOK
  <2> QED BY <1>2, <1>3, <2>1 DEF Header
<1>5. b[1] \in Class
  BY <1>2 DEF Block
<1>6. \A u \in 0 .. size[h] - 1 : u \in Unit
  BY <1>2, <1>3, <1>5, UnitIs
<1>7. SizeOf(h) = size[h]
  BY <1>3 DEF SizeOf, BlockSize
<1> QED BY <1>2, <1>3, <1>4, <1>6, <1>7

\* In a barrier an object in a block has a handle.
LEMMA BlockHandle ==
  ASSUME Sane, NEW h \in Obj, InBlock(h), \A t \in Thread : job[t] = None
  PROVE  addr[h] \notin Region /\ ~Busy(h)
<1>1. InUse(h) /\ HandlesOK
  BY LocalIs DEF Sane, LocalFacts
<1>2. ~Busy(h)
  BY DEF Busy
<1> QED BY <1>1, <1>2, ApartAssumption DEF HandlesOK, HasHandle

\* An object that moves to a lower block takes what the block holds with it.
LEMMA CompactSizedStores ==
  ASSUME Sane, Stored, NEW h \in Obj, CompactSized(h) PROVE Stored'
<1>1. /\ TypeOK /\ MemOK /\ InPages /\ TypeOK' /\ LocalFacts' /\ Sane'
      /\ InBlock(h) /\ \A t \in Thread : job[t] = None
  BY LocalIsNext, CompactSizedKeeps, InBarrier DEF Sane, Stored, CompactSized
<1>2. PICK b \in Block :
        /\ header[b] = None /\ b[1] = ptr[h][1]
        /\ mem' = [mem EXCEPT ![b] = mem[ptr[h]], ![ptr[h]] = Blank]
        /\ header' = [header EXCEPT ![b] = header[ptr[h]], ![ptr[h]] = None]
        /\ ptr' = [ptr EXCEPT ![h] = b]
  BY DEF CompactSized, FreeBlocks
<1>3. UNCHANGED <<addr, size, huge, lp, lmem, job>>
  BY DEF CompactSized, objs, local
<1> DEFINE c == ptr[h]
           s == size[h]
<1>4. /\ c \in Block /\ header[c] = [who |-> h, size |-> s] /\ s \in Nat \ {0}
      /\ s <= c[1] /\ mem[c] = Full(h, s)
  BY <1>1, BlockHolds
<1>5. addr[h] \notin Region /\ ~Busy(h)
  BY <1>1, BlockHandle
<1>6. Source(h) = c
  BY <1>1 DEF Source
<1>7. c # b
  <2>1. header[c] # None
    BY <1>1 DEF Sane, BlocksOK
  <2> QED BY <1>2, <2>1
<1>8. Vacant(b, s)
  BY <1>2, <1>4 DEF Vacant
<1>9. Resized(h, s)
  BY <1>1, <1>3 DEF MemOK, Resized
<1> HIDE DEF s, c
<1>10. ptr[h] = c /\ mem' = [mem EXCEPT ![b] = Full(h, s), ![c] = Blank]
       /\ header' = [header EXCEPT ![b] = [who |-> h, size |-> s], ![c] = None]
  BY <1>2, <1>4 DEF c
<1>11. Written(h, b, c, s)
  BY <1>1, <1>4, <1>7, <1>10, WrittenTwice
<1>12. Headed(h, b, c, s)
  BY <1>1, <1>4, <1>7, <1>10 DEF Headed, TypeOK
<1>13. \A r \in Region : r # Source(h) => huge'[r] = IF r = b THEN s ELSE huge[r]
  BY <1>3, KindsApart
<1>14. /\ \A q \in Obj : q # h => addr'[q] = addr[q]
       /\ addr'[h] \in Region \/ b \in Region => addr'[h] = b
  BY <1>3, <1>5, KindsApart
<1>15. MemOK' /\ InMem'
  BY <1>4, <1>5, <1>6, <1>8, <1>9, <1>11, <1>12, <1>13, <1>14, MemStored
<1>16. /\ \A q \in Obj : q # h => ptr'[q] = ptr[q] /\ size'[q] = size[q] /\ (Busy(q) => Busy(q)')
       /\ ptr'[h] = b
  BY <1>1, <1>2, <1>3 DEF TypeOK, Busy
<1>17. ~InLocal(h)'
  BY <1>1, <1>16, BlocksAndSpots, PlacesApart DEF LocalFacts
<1>18. InPages'
  BY <1>1, <1>3, <1>16, <1>17, PagesStored
<1> QED BY <1>15, <1>18 DEF Stored

\* The entries of a page to which an object has been added.
LEMMA PushMds ==
  ASSUME NEW pg \in PageType, NEW h, NEW s
  PROVE  LET n   == Len(pg.mds)
             new == Push(pg, h, s)
         IN  /\ n \in Nat /\ Len(new.mds) = n + 1
             /\ \A i \in 1 .. n : new.mds[i] = pg.mds[i]
             /\ new.mds[n + 1].who = h /\ new.mds[n + 1].size = s
<1> DEFINE e == [who |-> h, raw |-> None, allocated |-> TRUE, size |-> s]
           new == Push(pg, h, s)
           mds == pg.mds
<1>1. new.mds = Append(mds, e)
  BY DEF Push, PageType
<1>2. mds \in Seq(EntryType)
  BY DEF PageType
<1>3. e.who = h /\ e.size = s
  OBVIOUS
<1> HIDE DEF e, new, mds
<1>4. /\ Len(mds) \in Nat /\ Len(Append(mds, e)) = Len(mds) + 1
      /\ \A i \in 1 .. Len(mds) : Append(mds, e)[i] = mds[i]
      /\ Append(mds, e)[Len(mds) + 1] = e
  BY <1>2
<1> QED BY <1>1, <1>3, <1>4 DEF new, mds

\* An object that goes to the end of a locality page takes its bytes along.
LEMMA MoveToStores ==
  ASSUME Sane, Sane', Stored, phase = "move", NEW h \in Obj, InBlock(h), NEW q \in LPage,
         MoveTo(q, h), lp[q].bump + SizeOf(h) + Len(lp[q].mds) + 1 <= PageUnits,
         UNCHANGED <<addr, size, huge, job>>
  PROVE  Stored'
<1> DEFINE b == ptr[h]
           s == size[h]
           a == lp[q].bump
           n == Len(lp[q].mds)
           N == Push(lp[q], h, s)
<1>1. /\ TypeOK /\ PagesOK /\ MemOK /\ InPages /\ LocalFacts /\ TypeOK' /\ LocalFacts'
      /\ \A t \in Thread : job[t] = None
  BY LocalIs, LocalIsNext, InBarrier DEF Sane, Stored
<1>2. /\ b \in Block /\ s \in Nat \ {0} /\ SizeOf(h) = s /\ mem[b] = Full(h, s)
      /\ \A u \in 0 .. s - 1 : u \in Unit
  BY BlockHolds
<1>3. /\ lp' = [lp EXCEPT ![q] = N]
      /\ lmem' = [lmem EXCEPT ![q] = [u \in DOMAIN @ |-> IF u \in a .. a + s - 1
                                                        THEN Byte(b, u - a) ELSE @[u]]]
      /\ mem' = [mem EXCEPT ![b] = Blank] /\ ptr' = [ptr EXCEPT ![h] = <<q, a>>]
      /\ header' = [header EXCEPT ![b] = None]
  BY <1>2 DEF MoveTo
<1>4. addr[h] \notin Region /\ ~Busy(h) /\ Source(h) = b
  BY <1>1, BlockHandle DEF Source
<1>5. MemOK' /\ InMem'
  <2>1. Written(h, None, b, s)
    BY <1>1, <1>2, <1>3, WrittenBlank
  <2>2. Headed(h, None, b, s)
    BY <1>1, <1>2, <1>3, KindsApart DEF Headed, TypeOK
  <2>3. Resized(h, s) /\ Vacant(None, s)
    BY <1>1 DEF MemOK, Resized, Vacant
  <2>4. \A r \in Region : r # Source(h) => huge'[r] = IF r = None THEN s ELSE huge[r]
    BY KindsApart
  <2>5. /\ \A o \in Obj : o # h => addr'[o] = addr[o]
        /\ addr'[h] \in Region \/ None \in Region => addr'[h] = None
    BY <1>4, KindsApart
  <2> HIDE DEF s, b
  <2> QED BY <1>2, <1>4, <2>1, <2>2, <2>3, <2>4, <2>5, MemStored
<1>6. /\ lp[q] \in PageType /\ a \in Nat /\ n \in Nat
      /\ a + s + n + 1 <= PageUnits
  <2>1. lp[q] \in PageType /\ a \in Nat /\ n \in Nat
    BY <1>1, PageIs
  <2> QED BY <1>2, <2>1
<1>7. /\ Len(N.mds) = n + 1 /\ \A i \in 1 .. n : N.mds[i] = lp[q].mds[i]
      /\ N.mds[n + 1].who = h /\ N.mds[n + 1].size = s
  BY <1>6, PushMds
<1>8. \A r \in LPage : lp'[r] = IF r = q THEN N ELSE lp[r]
  BY <1>1, <1>3 DEF TypeOK
<1>9. /\ \A r \in LPage : r # q => lmem'[r] = lmem[r]
      /\ \A u \in 0 .. PageUnits - 1 :
           lmem'[q][u] = IF u \in a .. a + s - 1 THEN Byte(b, u - a) ELSE lmem[q][u]
  <2>1. lmem = [p \in LPage |-> [u \in 0 .. PageUnits - 1 |-> lmem[p][u]]]
    BY <1>1 DEF TypeOK
  <2>2. DOMAIN lmem = LPage /\ DOMAIN lmem[q] = 0 .. PageUnits - 1
    BY <2>1
  <2> QED BY <1>3, <2>2
<1>10. /\ ptr'[h] = <<q, a>> /\ ptr'[h][1] = q /\ ptr'[h][2] = a
       /\ \A o \in Obj : o # h => ptr'[o] = ptr[o]
  BY <1>1, <1>3 DEF TypeOK
<1>11. \A u \in 0 .. s - 1 : Byte(b, u) = h
  <2>1. \A u \in Unit : u < s => mem[b][u] = h
    BY <1>2 DEF Full
  <2> QED BY <1>2, <2>1, UnitNat DEF Byte
<1> HIDE DEF N, s, b, a, n
<1>12. LocalStored(h)'
  <2>1. n + 1 \in 1 .. Len(lp'[q].mds) /\ lp'[q].mds[n + 1].who = h /\ lp'[q].mds[n + 1].size = s
    BY <1>6, <1>7, <1>8
  <2>2. ASSUME NEW u \in 0 .. s - 1 PROVE lmem'[q][a + u] = h
    <3>1. a + u \in a .. a + s - 1 /\ a + u \in 0 .. PageUnits - 1 /\ (a + u) - a = u
      BY <1>2, <1>6, PageUnitsAssumption
    <3> QED BY <1>9, <1>11, <3>1
  <2>3. size'[h] = s
    BY DEF s
  <2> QED BY <1>10, <2>1, <2>2, <2>3 DEF LocalStored
<1>13. ASSUME NEW o \in Obj, o # h, InLocal(o)', ~Busy(o)' PROVE LocalStored(o)'
  <2> DEFINE p == ptr[o][1]
             d == ptr[o][2]
  <2>1. ptr'[o] = ptr[o] /\ InLocal(o) /\ ~Busy(o)
    BY <1>1, <1>10, <1>13 DEF LocalFacts, Busy
  <2>2. p \in LPage /\ d \in Nat /\ \E i : EntryOf(o, p, i)
    BY <1>1, <2>1, EntryOfIs
  <2>3. PICK i : EntryOf(o, p, i)
    BY <2>2
  <2>4. /\ i \in 1 .. Len(lp[p].mds) /\ lp[p].mds[i].who = o /\ lp[p].mds[i].size = size[o]
        /\ Start(lp[p].mds, At(p), i) = d
        /\ \A u \in 0 .. size[o] - 1 : lmem[p][d + u] = o
    BY <2>3 DEF EntryOf
  <2>5. CASE p # q
    <3>1. lp'[p] = lp[p] /\ lmem'[p] = lmem[p]
      BY <1>8, <1>9, <2>2, <2>5
    <3> QED BY <2>1, <2>4, <3>1 DEF LocalStored
  <2>6. CASE p = q
    <3>1. i \in 1 .. Len(lp'[p].mds) /\ lp'[p].mds[i] = lp[p].mds[i]
      BY <1>6, <1>7, <1>8, <2>4, <2>6 DEF n
    <3>2. d + size[o] <= a /\ size[o] \in Nat
      <4>1. /\ lp[p].mds \in Seq(EntryType) /\ lp[p].bump \in Nat
            /\ EndToEnd(lp[p].mds, lp[p].bump, At(p))
        BY <1>1, <2>2, PageIs DEF PageOK
      <4>2. d + size[o] <= lp[p].bump /\ size[o] \in Nat
        BY <2>4, <4>1, EntryFacts, StartsInside
      <4> QED BY <2>6, <4>2 DEF a
    <3>3. ASSUME NEW u \in 0 .. size[o] - 1 PROVE lmem'[p][d + u] = o
      <4> HIDE DEF d, p
      <4> DEFINE z == size[o]
                 w == d + u
      <4>1. z \in Nat /\ d \in Nat /\ d + z <= a /\ u \in 0 .. z - 1 /\ a \in Nat
            /\ a + s + n + 1 <= PageUnits /\ PageUnits \in Nat /\ s \in Nat /\ n \in Nat
        BY <1>2, <1>6, <2>2, <3>2, PageUnitsAssumption
      <4> HIDE DEF z
      <4>2. w \in Nat /\ w < a /\ w < PageUnits
        BY <4>1
      <4> HIDE DEF w
      <4>3. w \notin a .. a + s - 1 /\ w \in 0 .. PageUnits - 1
        BY <4>1, <4>2
      <4>4. lmem'[q][w] = lmem[q][w]
        BY <1>9, <4>3
      <4> QED BY <2>4, <2>6, <4>4 DEF w
    <3> QED BY <2>1, <2>4, <3>1, <3>3 DEF LocalStored
  <2> QED BY <2>5, <2>6
<1>14. InPages'
  BY <1>12, <1>13 DEF InPages, LocalStored
<1> QED BY <1>5, <1>14 DEF Stored

\* localize() does.
LEMMA LocalizeStores ==
  ASSUME Sane, Stored, NEW h \in Obj, Localize(h) PROVE Stored'
<1> DEFINE p == tcpage[barrier]
           s == SizeOf(h)
<1>1. /\ phase = "move" /\ InBlock(h) /\ s <= MaxLocal /\ Sane'
      /\ UNCHANGED <<addr, size, huge, job>>
  BY LocalizeKeeps DEF Localize, Localizable, objs
<1>2. s \in Nat \ {0}
  BY <1>1, BlockHolds
<1>3. tcpage \in [Thread -> LPage \cup {None}] /\ barrier \in Thread
  BY <1>1, InBarrier DEF Sane, TypeOK
<1>4. PICK q \in LPage :
        MoveTo(q, h) /\ (q \in Suitable(s + 2) \/ q \in Fresh \/ Roomy(q, s))
  <2>1. CASE p # None /\ Roomy(p, s)
    BY <1>3, <2>1 DEF Localize
  <2>2. CASE ~(p # None /\ Roomy(p, s))
    <3>1. PICK q \in Suitable(s + 2) \cup Fresh : MoveTo(q, h)
      BY <2>2 DEF Localize
    <3> QED BY <3>1 DEF Suitable, Fresh
  <2> QED BY <2>1, <2>2
<1>5. lp[q].bump + s + Len(lp[q].mds) + 1 <= PageUnits
  BY <1>1, <1>2, <1>4, RoomFor
<1> QED BY <1>1, <1>4, <1>5, MoveToStores

\* compact() carries every object's entry and bytes along.
LEMMA CompactLocalStores ==
  ASSUME Sane, Stored, NEW p \in LPage, CompactLocal(p), ~wild' PROVE Stored'
<1> DEFINE acc == Pass(p)
           N   == Prune([lp[p] EXCEPT !.mds = acc.mds], acc.at)
<1>1. /\ TypeOK /\ PagesOK /\ LocalFacts /\ \A t \in Thread : job[t] = None
      /\ phase = "compact" /\ PassOK(p) /\ Shifts(p) /\ Sane' /\ TypeOK' /\ LocalFacts'
  BY LocalIs, LocalIsNext, InBarrier, PassIs, ShiftsIs, CompactLocalKeeps
     DEF Sane, CompactLocal
<1>2. /\ lp' = [lp EXCEPT ![p] = Prune([@ EXCEPT !.mds = acc.mds], acc.at)]
      /\ lmem' = [lmem EXCEPT ![p] = acc.mem] /\ Kept(acc.mds) # 0
      /\ UNCHANGED <<addr, size, header, mem, huge, job>>
  BY DEF CompactLocal, Pass, objs
<1>3. lp' = [lp EXCEPT ![p] = N]
  BY <1>2
<1>4. PrunedOK(p, N)
  BY <1>1, <1>2, PrunedIs
<1> HIDE DEF N, acc
<1>5. /\ \A r \in LPage : lp'[r] = IF r = p THEN N ELSE lp[r]
      /\ \A r \in LPage : lmem'[r] = IF r = p THEN acc.mem ELSE lmem[r]
  <2>1. DOMAIN lmem = LPage
    BY <1>1 DEF TypeOK
  <2> QED BY <1>1, <1>2, <1>3, <2>1 DEF TypeOK
<1>6. MemOK' /\ InMem'
  BY <1>2, MemSame
<1>7. ASSUME NEW h \in Obj, InLocal(h)' PROVE LocalStored(h)'
  <2> DEFINE q == ptr[h][1]
             d == ptr[h][2]
  <2>1. ptr[h] \in Spot /\ InLocal(h) /\ q \in LPage /\ ~Busy(h)
    <3>1. ptr'[h] \in Spot
      BY <1>1, <1>7 DEF LocalFacts
    <3>2. ptr[h] \in Spot
      BY <1>1, <3>1 DEF Shifts
    <3> QED BY <1>1, <3>2, PlacesApart DEF LocalFacts, Busy
  <2>2. \E i : EntryOf(h, q, i)
    BY <2>1, EntryOfIs DEF Stored
  <2>3. PICK i : EntryOf(h, q, i)
    BY <2>2
  <2>4. /\ i \in 1 .. Len(lp[q].mds) /\ lp[q].mds[i].who = h /\ lp[q].mds[i].size = size[h]
        /\ Start(lp[q].mds, At(q), i) = d
        /\ \A u \in 0 .. size[h] - 1 : lmem[q][d + u] = h
    BY <2>3 DEF EntryOf
  <2>5. CASE q # p
    <3>1. ptr'[h] = ptr[h] /\ lp'[q] = lp[q] /\ lmem'[q] = lmem[q]
      BY <1>1, <1>5, <2>1, <2>5 DEF Shifts
    <3> QED BY <1>2, <2>4, <3>1 DEF LocalStored
  <2>6. CASE q = p
    <3> DEFINE old == Before(p)
    <3>1. /\ i \in 1 .. Len(old.mds) /\ old.mds[i].who = h /\ h # None
          /\ old.mds[i].size = size[h] /\ Start(old.mds, old.at, i) = d
          /\ \A u \in 0 .. size[h] - 1 : old.mem[d + u] = h
      BY <2>4, <2>6, NoneApart DEF Before
    <3>2. Carried(acc, old)
      BY <1>1 DEF PassOK, Sound, acc
    <3> HIDE DEF old
    <3>3. PICK k \in 1 .. Len(acc.mds) : SameObject(acc, k, old, i)
      BY <3>1, <3>2 DEF Carried
    <3>4. /\ acc.mds[k].who = h /\ acc.mds[k].size = size[h]
          /\ \A u \in 0 .. size[h] - 1 : acc.mem[Start(acc.mds, acc.at, k) + u] = h
      BY <3>1, <3>3 DEF SameObject
    <3>5. Start(acc.mds, acc.at, k) = acc.at[h]
      BY <3>1, <3>4 DEF Start, GetData
    <3>6. k \in 1 .. Len(N.mds) /\ N.mds[k] = acc.mds[k]
      BY <1>4, <3>1, <3>4 DEF PrunedOK, acc
    <3>7. ptr'[h][1] = p /\ ptr'[h][2] = acc.at[h]
      BY <1>1, <2>1, <2>6 DEF Shifts, acc
    <3>8. lp'[p] = N /\ lmem'[p] = acc.mem /\ size'[h] = size[h]
      BY <1>2, <1>5
    <3> QED BY <3>4, <3>5, <3>6, <3>7, <3>8 DEF LocalStored
  <2> QED BY <2>5, <2>6
<1>8. InPages'
  BY <1>7 DEF InPages, LocalStored
<1> QED BY <1>6, <1>8 DEF Stored

-----------------------------------------------------------------------------
(***************************************************************************)
(* Memory holds what it should in every state.                             *)
(***************************************************************************)
StoredInv == IInv /\ (wild \/ Stored)

\* At first there is nothing.
LEMMA StoredInit == Init => Stored
<1> SUFFICES ASSUME Init PROVE Stored
  OBVIOUS
<1>1. /\ \A o \in Obj : addr[o] = None /\ ptr[o] = None
      /\ \A b \in Block : header[b] = None
      /\ \A x \in Block \cup Region : mem[x] = Blank
  BY DEF Init
<1>2. MemOK
  <2>1. size = [o \in Obj |-> 0] /\ mem = [x \in Block \cup Region |-> Blank]
    BY DEF Init
  <2>2. size = [o \in Obj |-> size[o]]
    BY <2>1
  <2>3. mem = [x \in Block \cup Region |-> mem[x]]
    BY <2>1
  <2> QED BY <2>2, <2>3 DEF MemOK
<1>3. InMem
  BY <1>1, KindsApart DEF InMem, BlockStored, HugeStored, IsHuge, IdleStored
<1>4. InPages
  BY <1>1 DEF InPages, LocalStored, InLocal, InUse
<1> QED BY <1>2, <1>3, <1>4 DEF Stored

\* Every action keeps it, or uses memory outside a page.
LEMMA StoredStep ==
  ASSUME Sane, Stored, Next, IInv' PROVE wild' \/ Stored'
<1>1. ASSUME NEW t \in Thread, NEW o \in Obj,
             \/ HallocSmall(t, o) \/ HallocHuge(t, o)
             \/ HandleToHuge(t, o) \/ HugeToHuge(t, o)
             \/ HandleToHandle(t, o) \/ HugeToHandle(t, o)
             \/ Hfree(t, o) \/ HfreeHuge(t, o)
      PROVE  Stored'
  BY <1>1, HallocSmallStores, HallocHugeStores, HandleToHugeStores, HugeToHugeStores,
     HandleToHandleStores, HugeToHandleStores, HfreeStores, HfreeHugeStores
<1>2. ASSUME NEW t \in Thread, NEW o \in Obj, ReadSize(t, o) PROVE wild'
  BY <1>2 DEF ReadSize
<1>3. ASSUME NEW t \in Thread, FindEntry(t) PROVE wild' \/ Stored'
  <2>1. wild' \/ Sane'
    BY <1>3, FindEntryKeeps
  <2> QED BY <1>3, <2>1, FindEntryStores
<1>4. ASSUME NEW t \in Thread, PutAddress(t) \/ ClearFlag(t) \/ Finish(t) PROVE Stored'
  BY <1>4, PutAddressStores, ClearFlagStores, FinishStores
<1>5. ASSUME NEW t \in Mover, BeginBarrier(t) PROVE Stored'
  BY <1>5, BarrierStores, MoverAssumption
<1>6. ASSUME NEW h \in Obj, Localize(h) \/ CompactSized(h) PROVE Stored'
  BY <1>6, LocalizeStores, CompactSizedStores
<1>7. ASSUME NEW p \in LPage, CompactLocal(p) PROVE wild' \/ Stored'
  BY <1>7, CompactLocalStores
<1>8. CASE StartCompaction \/ EndBarrier
  BY <1>8, BarrierStores
<1> QED BY <1>1, <1>2, <1>3, <1>4, <1>5, <1>6, <1>7, <1>8 DEF Next

\* The two invariants together are inductive.
LEMMA StoredInvStep == StoredInv /\ [Next]_vars => StoredInv'
<1> SUFFICES ASSUME StoredInv, [Next]_vars PROVE StoredInv'
  OBVIOUS
<1>1. IInv'
  BY IInvStep DEF StoredInv
<1>2. CASE wild
  <2>1. wild'
    <3>1. CASE UNCHANGED vars
      BY <1>2, <3>1 DEF vars
    <3>2. CASE Next
      <4>1. PICK h \in Obj : Localize(h)
        BY <1>2, <3>2, WildStep
      <4> QED BY <1>2, <4>1 DEF Localize
    <3> QED BY <3>1, <3>2
  <2> QED BY <1>1, <2>1 DEF StoredInv
<1>3. CASE ~wild
  <2>1. Sane /\ Stored
    BY <1>3 DEF StoredInv, IInv
  <2>2. CASE Next
    BY <1>1, <2>1, <2>2, StoredStep DEF StoredInv
  <2>3. CASE UNCHANGED vars
    <3>1. wild' = wild /\ UNCHANGED <<addr, size, ptr, header, mem, huge, lp, lmem, job>>
      BY <2>3 DEF vars, objs, store, local
    <3>2. Sane'
      BY <1>1, <1>3, <3>1 DEF IInv
    <3>3. Stored'
      BY <2>1, <3>1, <3>2, StoredSame DEF Sane, Busy
    <3> QED BY <1>1, <3>3 DEF StoredInv
  <2> QED BY <2>2, <2>3
<1> QED BY <1>2, <1>3

\* Together they imply that moves keep objects.
LEMMA StoredMoves == Sane /\ Stored => ContentsKept /\ SizesAgree /\ CopiesFit
<1> SUFFICES ASSUME Sane, Stored PROVE ContentsKept /\ SizesAgree /\ CopiesFit
  OBVIOUS
<1>1. TypeOK /\ HeaderFacts /\ InMem
  BY HeaderIs DEF Sane, Stored
<1>2. ContentsKept
  <2> SUFFICES ASSUME NEW o \in Obj, addr[o] # None, ~Busy(o)
               PROVE  \A u \in 0 .. size[o] - 1 : Byte(Where(o), u) = o
    BY DEF ContentsKept
  <2>1. HasHandle(o) \/ (IsHuge(o) /\ ~HasHandle(o))
    BY <1>1, ApartAssumption DEF TypeOK, HasHandle, IsHuge
  <2> QED BY <2>1, Contents DEF Where
<1>3. SizesAgree
  BY <1>1, Contents DEF SizesAgree, InMem, HugeStored
<1>4. ASSUME NEW b \in Block, NEW u \in Unit, u >= b[1] PROVE mem[b][u] = None
  <2>1. BlockStored(b)
    BY <1>1 DEF InMem
  <2>2. CASE header[b] = None
    BY <2>1, <2>2 DEF BlockStored, Blank
  <2>3. CASE header[b] # None
    <3> DEFINE h == header[b].who
               s == size[h]
    <3>1. s = header[b].size /\ s <= b[1] /\ mem[b] = Full(h, s) /\ header[b].size \in Nat
      BY <1>1, <2>1, <2>3 DEF BlockStored, HeaderFacts
    <3>2. b[1] \in Nat /\ u \in Nat
      <4>1. b[1] \in Class
        BY DEF Block
      <4> QED BY <4>1, UnitNat, SizesAssumption
    <3>3. s \in Nat
      BY <3>1
    <3> HIDE DEF s, h
    <3>4. ~(u < s)
      BY <1>4, <3>1, <3>2, <3>3
    <3> QED BY <3>1, <3>4 DEF Full
  <2> QED BY <2>2, <2>3
<1>5. ASSUME NEW r \in Region, NEW u \in Unit, u >= huge[r] PROVE mem[r][u] = None
  <2>1. CASE \A o \in Obj : addr[o] # r
    BY <1>1, <2>1 DEF InMem, IdleStored, Blank
  <2>2. ASSUME NEW o \in Obj, addr[o] = r PROVE mem[r][u] = None
    <3>1. size[o] \in HugeSize /\ huge[r] = size[o] /\ mem[r] = Full(o, size[o])
      BY <1>1, <2>2 DEF InMem, HugeStored, IsHuge
    <3>2. size[o] \in Nat /\ u \in Nat
      BY <3>1, SizesPositive, UnitNat
    <3>3. ~(u < size[o])
      BY <1>5, <3>1, <3>2
    <3> QED BY <3>1, <3>3 DEF Full
  <2> QED BY <2>1, <2>2
<1>6. CopiesFit
  BY <1>4, <1>5 DEF CopiesFit
<1> QED BY <1>2, <1>3, <1>6

\* Whatever hrealloc, localize() and the two compactions do with an object, and
\* however frees on its page race with each other, the program finds in it what
\* it has written, the runtime knows its size, and nothing past the end of its
\* block or region has been written (ThreadCache.cpp, Localizer.cpp,
\* LocalityPage.cpp, HugeObjectAllocator.cpp).
THEOREM ObjectsKept == Spec => []MovesKeepObjects
<1>1. Init => StoredInv
  BY SaneInit, StoredInit DEF StoredInv
<1>2. StoredInv => MovesKeepObjects
  BY StoredMoves DEF StoredInv, IInv, MovesKeepObjects
<1> QED BY <1>1, <1>2, StoredInvStep, PTL DEF Spec
=============================================================================
