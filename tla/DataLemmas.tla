----------------------------- MODULE DataLemmas -----------------------------
(***************************************************************************)
(* Facts about numbers, sequences and linked lists that the proofs about   *)
(* several components cite.                                                *)
(***************************************************************************)
EXTENDS LinkedList, Integers, FiniteSetsExt, SequencesExt, SequenceTheorems,
        WellFoundedInduction, TLAPS

-----------------------------------------------------------------------------
(***************************************************************************)
(* The least element of a set of numbers stands in for induction: a claim  *)
(* that fails has a first number it fails for.                             *)
(***************************************************************************)
Less == {r \in Nat \X Nat : r[1] < r[2]}

LEMMA LeastElement ==
  ASSUME NEW T, T \subseteq Nat, T # {}
  PROVE  \E n \in T : \A m \in T : n <= m
<1>1. IsWellFoundedOn(Less, Nat)
  BY NatLessThanWellFounded DEF Less, OpToRel
<1>2. PICK n \in T : \A m \in T : ~(<<m, n>> \in Less)
  BY <1>1, WFMin
<1>3. ASSUME NEW m \in T, m < n PROVE <<m, n>> \in Less
  BY <1>3 DEF Less
<1>4. ASSUME NEW m \in T PROVE n <= m
  <2>1. m \in Nat /\ n \in Nat
    OBVIOUS
  <2>2. ~(m < n)
    BY <1>2, <1>3
  <2> QED BY <2>1, <2>2
<1> QED BY <1>4

LEMMA MinIn == ASSUME NEW T, T \subseteq Nat, T # {} PROVE Min(T) \in T
<1>1. \E n \in T : \A m \in T : n <= m
  BY LeastElement
<1> QED BY <1>1 DEF Min

LEMMA Digit ==
  ASSUME NEW n \in Nat \ {0}, NEW p \in Nat
  PROVE  p % n \in 0 .. n - 1 /\ p \div n \in Nat /\ p = n * (p \div n) + (p % n)
BY SMT

-----------------------------------------------------------------------------
(***************************************************************************)
(* Sequences that get or lose an element.                                  *)
(***************************************************************************)
\* t is s with e before its i-th element.
Inserted(t, s, i, e) ==
  /\ Len(t) = Len(s) + 1
  /\ \A j \in 1 .. Len(s) + 1 :
       t[j] = IF j < i THEN s[j] ELSE IF j = i THEN e ELSE s[j - 1]

LEMMA InsertAtIs ==
  ASSUME NEW S, NEW s \in Seq(S), NEW i \in 1 .. Len(s) + 1, NEW e \in S
  PROVE  InsertAt(s, i, e) \in Seq(S) /\ Inserted(InsertAt(s, i, e), s, i, e)
<1> DEFINE l == SubSeq(s, 1, i - 1)
           r == SubSeq(s, i, Len(s))
<1>1. Len(s) \in Nat /\ \A j \in 1 .. Len(s) : s[j] \in S
  BY LenProperties, ElementOfSeq
<1>2. /\ l \in Seq(S) /\ Len(l) = i - 1
      /\ \A j \in 1 .. i - 1 : l[j] = s[j]
  BY <1>1, SubSeqProperties
<1>3. /\ r \in Seq(S) /\ Len(r) = Len(s) - i + 1
      /\ \A j \in 1 .. Len(s) - i + 1 : r[j] = s[i + j - 1]
  BY <1>1, SubSeqProperties
<1>4. /\ <<e>> \in Seq(S) /\ Len(<<e>>) = 1 /\ <<e>>[1] = e
  OBVIOUS
<1> HIDE DEF l, r
<1>5. /\ l \o <<e>> \in Seq(S) /\ Len(l \o <<e>>) = i
      /\ \A j \in 1 .. i : (l \o <<e>>)[j] = IF j < i THEN s[j] ELSE e
  <2>1. /\ l \o <<e>> \in Seq(S) /\ Len(l \o <<e>>) = i
        /\ \A j \in 1 .. i : (l \o <<e>>)[j] = IF j <= i - 1 THEN l[j] ELSE <<e>>[j - (i - 1)]
    BY <1>1, <1>2, <1>4, ConcatProperties
  <2> QED BY <1>1, <1>2, <1>4, <2>1
<1> DEFINE m == l \o <<e>>
           t == m \o r
<1>7. t = InsertAt(s, i, e)
  BY DEF InsertAt, l, r
<1>8. i + (Len(s) - i + 1) = Len(s) + 1
  BY <1>1
<1> HIDE DEF m
<1>6. /\ t \in Seq(S) /\ Len(t) = Len(s) + 1
      /\ \A j \in 1 .. Len(s) + 1 : t[j] = IF j <= i THEN m[j] ELSE r[j - i]
  <2>1. m \in Seq(S) /\ Len(m) = i
    BY <1>5 DEF m
  <2>2. /\ t \in Seq(S) /\ Len(t) = Len(m) + Len(r)
        /\ \A j \in 1 .. Len(m) + Len(r) : t[j] = IF j <= Len(m) THEN m[j] ELSE r[j - Len(m)]
    BY <1>3, <2>1, ConcatProperties
  <2> HIDE DEF t
  <2>3. Len(m) + Len(r) = Len(s) + 1
    BY <1>1, <1>3, <1>8, <2>1
  <2> QED BY <2>1, <2>2, <2>3, Zenon
<1> HIDE DEF t
<1>9. ASSUME NEW j \in 1 .. Len(s) + 1
      PROVE  t[j] = IF j < i THEN s[j] ELSE IF j = i THEN e ELSE s[j - 1]
  <2>1. CASE j <= i
    <3>1. t[j] = m[j] /\ j \in 1 .. i
      BY <1>1, <1>6, <2>1
    <3> QED BY <1>1, <1>5, <2>1, <3>1 DEF m
  <2>2. CASE ~(j <= i)
    <3>1. t[j] = r[j - i]
      BY <1>1, <1>6, <2>2
    <3>2. j - i \in 1 .. Len(s) - i + 1 /\ i + (j - i) - 1 = j - 1
      BY <1>1, <2>2
    <3>3. r[j - i] = s[j - 1]
      BY <1>3, <3>2, Zenon
    <3> QED BY <2>2, <3>1, <3>3
  <2> QED BY <2>1, <2>2
<1> QED BY <1>6, <1>7, <1>9, Zenon DEF Inserted

LEMMA RemoveAtIs ==
  ASSUME NEW S, NEW s \in Seq(S), NEW i \in 1 .. Len(s)
  PROVE  /\ RemoveAt(s, i) \in Seq(S)
         /\ Len(RemoveAt(s, i)) = Len(s) - 1
         /\ \A j \in 1 .. Len(s) - 1 :
              RemoveAt(s, i)[j] = IF j < i THEN s[j] ELSE s[j + 1]
<1> DEFINE l == SubSeq(s, 1, i - 1)
           r == SubSeq(s, i + 1, Len(s))
<1>1. Len(s) \in Nat /\ \A j \in 1 .. Len(s) : s[j] \in S
  BY LenProperties, ElementOfSeq
<1>2. /\ l \in Seq(S) /\ Len(l) = i - 1
      /\ \A j \in 1 .. i - 1 : l[j] = s[j]
  BY <1>1, SubSeqProperties
<1>3. /\ r \in Seq(S) /\ Len(r) = Len(s) - i
      /\ \A j \in 1 .. Len(s) - i : r[j] = s[i + j]
  <2>1. /\ r \in Seq(S) /\ Len(r) = IF i + 1 <= Len(s) THEN Len(s) - (i + 1) + 1 ELSE 0
        /\ \A j \in 1 .. Len(s) - (i + 1) + 1 : r[j] = s[(i + 1) + j - 1]
    BY <1>1, SubSeqProperties
  <2> HIDE DEF r
  <2>2. Len(s) - (i + 1) + 1 = Len(s) - i /\ \A j \in 1 .. Len(s) - i : (i + 1) + j - 1 = i + j
    BY <1>1
  <2>3. Len(r) = Len(s) - i
    <3>1. Len(r) = IF i + 1 <= Len(s) THEN Len(s) - (i + 1) + 1 ELSE 0
      BY <2>1
    <3> QED BY <1>1, <3>1
  <2> QED BY <2>1, <2>2, <2>3, Zenon
<1> HIDE DEF l, r
<1> DEFINE t == l \o r
<1>4. /\ t \in Seq(S) /\ Len(t) = Len(s) - 1
      /\ \A j \in 1 .. Len(s) - 1 : t[j] = IF j <= i - 1 THEN l[j] ELSE r[j - (i - 1)]
  <2>1. /\ t \in Seq(S) /\ Len(t) = Len(l) + Len(r)
        /\ \A j \in 1 .. Len(l) + Len(r) : t[j] = IF j <= Len(l) THEN l[j] ELSE r[j - Len(l)]
    BY <1>2, <1>3, ConcatProperties
  <2> HIDE DEF t
  <2>2. Len(l) + Len(r) = Len(s) - 1
    BY <1>1, <1>2, <1>3
  <2>3. Len(l) = i - 1
    BY <1>2
  <2> QED BY <2>1, <2>2, <2>3, Zenon
<1>6. t = RemoveAt(s, i)
  BY DEF RemoveAt, l, r
<1> HIDE DEF t
<1>5. ASSUME NEW j \in 1 .. Len(s) - 1
      PROVE  t[j] = IF j < i THEN s[j] ELSE s[j + 1]
  <2>1. CASE j < i
    BY <1>1, <1>2, <1>4, <2>1
  <2>2. CASE ~(j < i)
    <3>1. t[j] = r[j - (i - 1)]
      BY <1>1, <1>4, <2>2
    <3>2. j - (i - 1) \in 1 .. Len(s) - i /\ i + (j - (i - 1)) = j + 1
      BY <1>1, <2>2
    <3>3. r[j - (i - 1)] = s[j + 1]
      BY <1>3, <3>2, Zenon
    <3> QED BY <2>2, <3>1, <3>3
  <2> QED BY <2>1, <2>2
<1> QED BY <1>4, <1>5, <1>6

-----------------------------------------------------------------------------
(***************************************************************************)
(* Linked lists.                                                           *)
(***************************************************************************)
LEMMA ListType == ASSUME NEW f, NEW null, NEW h
                  PROVE  List(f, null, h) \subseteq DOMAIN f
BY DEF List

LEMMA ListLeast ==
  ASSUME NEW f, NEW null, NEW h, NEW S \in SUBSET DOMAIN f,
         h \in S \cup {null}, LinkedIn(f, null, S)
  PROVE  List(f, null, h) \subseteq S
BY DEF List

LEMMA ListOfNull ==
  ASSUME NEW f, NEW null PROVE List(f, null, null) = {}
<1>1. LinkedIn(f, null, {})
  BY DEF LinkedIn
<1> QED BY <1>1, ListLeast

LEMMA ListStart ==
  ASSUME NEW f, NEW null, NEW h \in DOMAIN f, h # null
  PROVE  h \in List(f, null, h)
BY DEF List

LEMMA ListLinked ==
  ASSUME NEW f, NEW null, Links(f, null), NEW h
  PROVE  LinkedIn(f, null, List(f, null, h))
<1> SUFFICES ASSUME NEW b \in List(f, null, h), f[b] # null
             PROVE  f[b] \in List(f, null, h)
  BY DEF LinkedIn
<1>1. b \in DOMAIN f /\ f[b] \in DOMAIN f
  BY ListType DEF Links
<1> SUFFICES ASSUME NEW S \in SUBSET DOMAIN f, h \in S \cup {null}, LinkedIn(f, null, S)
             PROVE  f[b] \in S
  BY <1>1 DEF List
<1>2. b \in S
  BY DEF List
<1> QED BY <1>2 DEF LinkedIn

\* The list from a block of a list is part of it.
LEMMA ListTail ==
  ASSUME NEW f, NEW null, Links(f, null),
         NEW h, NEW b \in List(f, null, h) \cup {null}
  PROVE  List(f, null, b) \subseteq List(f, null, h)
<1>1. List(f, null, h) \in SUBSET DOMAIN f
  BY ListType
<1> QED BY <1>1, ListLinked, ListLeast

\* A list is its head and the list behind the head.
LEMMA ListStep ==
  ASSUME NEW f, NEW null, Links(f, null),
         NEW h \in DOMAIN f
  PROVE  List(f, null, h) = {h} \cup List(f, null, f[h])
<1> DEFINE T == List(f, null, f[h])
           S == {h} \cup T
<1>1. f[h] \in List(f, null, h) \cup {null}
  BY ListStart, ListLinked DEF LinkedIn, Links
<1>2. T \subseteq List(f, null, h)
  BY <1>1, ListTail
<1>3. f[h] \in T \cup {null}
  BY ListStart DEF Links
<1>4. LinkedIn(f, null, S)
  BY <1>3, ListLinked DEF LinkedIn
<1>5. S \in SUBSET DOMAIN f
  BY ListType
<1>6. List(f, null, h) \subseteq S
  BY <1>4, <1>5, ListLeast
<1> QED BY <1>2, <1>6, ListStart DEF Links

\* Links of other blocks do not matter.
LEMMA ListKept ==
  ASSUME NEW f, NEW null, Links(f, null),
         NEW g, Links(g, null), DOMAIN g = DOMAIN f,
         NEW h \in DOMAIN f \cup {null},
         \A b \in List(f, null, h) : g[b] = f[b]
  PROVE  List(g, null, h) = List(f, null, h)
<1>1. h \in List(f, null, h) \cup {null}
  BY ListStart DEF Links
<1>2. LinkedIn(g, null, List(f, null, h))
  BY ListLinked DEF LinkedIn
<1>3. List(g, null, h) \subseteq List(f, null, h)
  BY <1>1, <1>2, ListLeast, ListType
<1>4. LinkedIn(f, null, List(g, null, h))
  BY <1>3, ListLinked DEF LinkedIn
<1>5. h \in List(g, null, h) \cup {null}
  BY ListStart DEF Links
<1>6. List(f, null, h) \subseteq List(g, null, h)
  BY <1>4, <1>5, ListLeast, ListType
<1> QED BY <1>3, <1>6

LEMMA EndsKept ==
  ASSUME NEW f, NEW null, Links(f, null),
         NEW g, Links(g, null), DOMAIN g = DOMAIN f,
         NEW h \in DOMAIN f \cup {null},
         \A b \in List(f, null, h) : g[b] = f[b], Ends(f, null, h)
  PROVE  Ends(g, null, h)
<1>1. List(g, null, h) = List(f, null, h)
  BY ListKept
<1>2. ASSUME NEW b \in List(f, null, h)
      PROVE  List(g, null, g[b]) = List(f, null, f[b])
  <2>1. /\ f[b] \in List(f, null, h) \cup {null}
        /\ f[b] \in DOMAIN f \cup {null} /\ g[b] = f[b]
    BY ListLinked, ListType DEF LinkedIn, Links
  <2>2. List(f, null, f[b]) \subseteq List(f, null, h)
    BY <2>1, ListTail
  <2> QED BY <2>1, <2>2, ListKept
<1> QED BY <1>1, <1>2 DEF Ends

\* A tail of a list that ends does.
LEMMA EndsTail ==
  ASSUME NEW f, NEW null, Links(f, null),
         NEW h, NEW b \in List(f, null, h) \cup {null}, Ends(f, null, h)
  PROVE  Ends(f, null, b)
BY ListTail DEF Ends

\* Linking a block in front of a list it is not on.
LEMMA EndsPush ==
  ASSUME NEW f, NEW null, Links(f, null),
         NEW h \in DOMAIN f \cup {null}, NEW b \in DOMAIN f,
         Ends(f, null, h), b \notin List(f, null, h), f[b] = h
  PROVE  List(f, null, b) = {b} \cup List(f, null, h) /\ Ends(f, null, b)
BY ListStep DEF Ends, Links

\* Taking the head off.
LEMMA EndsPop ==
  ASSUME NEW f, NEW null, Links(f, null),
         NEW h \in DOMAIN f, Ends(f, null, h)
  PROVE  /\ List(f, null, f[h]) = List(f, null, h) \ {h}
         /\ h \in List(f, null, h) /\ Ends(f, null, f[h])
<1>1. h \in List(f, null, h) /\ h \notin List(f, null, f[h])
  BY ListStart DEF Ends, Links
<1>2. f[h] \in List(f, null, h) \cup {null}
  BY <1>1, ListLinked DEF LinkedIn
<1> QED BY <1>1, <1>2, ListStep, EndsTail

\* Writing the link of a block that is not on the list.
LEMMA EndsWritten ==
  ASSUME NEW f, NEW null, Links(f, null),
         NEW b \in DOMAIN f, NEW w \in DOMAIN f \cup {null},
         NEW h \in DOMAIN f \cup {null}, Ends(f, null, h), b \notin List(f, null, h)
  PROVE  LET g == [f EXCEPT ![b] = w]
         IN  List(g, null, h) = List(f, null, h) /\ Ends(g, null, h)
<1> DEFINE g == [f EXCEPT ![b] = w]
<1>1. DOMAIN g = DOMAIN f /\ \A x \in DOMAIN f : g[x] = IF x = b THEN w ELSE f[x]
  OBVIOUS
<1> HIDE DEF g
<1>2. Links(g, null)
  BY <1>1 DEF Links
<1>3. \A x \in List(f, null, h) : g[x] = f[x]
  BY <1>1, ListType
<1>4. List(g, null, h) = List(f, null, h)
  BY <1>1, <1>2, <1>3, ListKept
<1>5. Ends(g, null, h)
  BY <1>1, <1>2, <1>3, EndsKept
<1> QED BY <1>4, <1>5 DEF g

-----------------------------------------------------------------------------
LEMMA MaxIs ==
  ASSUME NEW T, T \subseteq Nat, NEW m \in T, \A k \in T : k <= m
  PROVE  Max(T) = m
<1>1. m \in T /\ \A k \in T : m >= k
  OBVIOUS
<1>2. Max(T) \in T /\ \A k \in T : Max(T) >= k
  BY <1>1, Zenon DEF Max
<1>3. Max(T) >= m /\ Max(T) <= m /\ Max(T) \in Nat /\ m \in Nat
  BY <1>1, <1>2
<1> QED BY <1>3

LEMMA MinIs ==
  ASSUME NEW T, T \subseteq Nat, NEW m \in T, \A k \in T : m <= k
  PROVE  Min(T) = m
<1>1. m \in T /\ \A k \in T : m <= k
  OBVIOUS
<1>2. Min(T) \in T /\ \A k \in T : Min(T) <= k
  BY <1>1, Zenon DEF Min
<1>3. Min(T) <= m /\ Min(T) >= m /\ Min(T) \in Nat /\ m \in Nat
  BY <1>1, <1>2
<1> QED BY <1>3

\* A set of numbers with a bound has a greatest one.
LEMMA GreatestElement ==
  ASSUME NEW n \in Nat, NEW T, T \subseteq 0 .. n, T # {}
  PROVE  \E m \in T : \A k \in T : k <= m
<1> DEFINE U == {k \in 0 .. n : n - k \in T}
<1>1. U \subseteq Nat
  OBVIOUS
<1>2. U # {}
  <2>1. PICK m \in T : TRUE
    OBVIOUS
  <2>2. n - m \in 0 .. n /\ n - (n - m) = m
    BY <2>1
  <2> QED BY <2>1, <2>2
<1>3. PICK k \in U : \A l \in U : k <= l
  BY <1>1, <1>2, LeastElement
<1>4. n - k \in T
  BY <1>3
<1>5. ASSUME NEW m \in T PROVE m <= n - k
  <2>1. n - m \in 0 .. n /\ n - (n - m) = m
    OBVIOUS
  <2>2. n - m \in U
    BY <2>1
  <2>3. k <= n - m /\ k \in 0 .. n /\ m \in 0 .. n
    BY <1>3, <2>2
  <2> QED BY <2>3
<1> QED BY <1>4, <1>5

\* A function defined by recursion exists: step i leads from V[i - 1] to V[i].
Leads(f, n, base, step) ==
  /\ f = [i \in 0 .. n |-> f[i]] /\ f[0] = base
  /\ \A i \in 1 .. n : f[i] = step[i][f[i - 1]]

LEMMA Recursion ==
  ASSUME NEW n \in Nat, NEW V, NEW step, NEW base \in V[0],
         \A i \in 1 .. n : \A v \in V[i - 1] : step[i][v] \in V[i]
  PROVE  \E f : Leads(f, n, base, step) /\ \A i \in 0 .. n : f[i] \in V[i]
<1> DEFINE P(m) == \E f : Leads(f, m, base, step) /\ \A i \in 0 .. m : f[i] \in V[i]
           Wrong == {m \in 0 .. n : ~P(m)}
<1>1. Wrong = {}
  <2> SUFFICES ASSUME Wrong # {} PROVE FALSE
    OBVIOUS
  <2>1. PICK m \in Wrong : \A k \in Wrong : m <= k
    <3>1. Wrong \subseteq Nat
      OBVIOUS
    <3> QED BY <3>1, LeastElement
  <2>2. m \in 0 .. n /\ ~P(m)
    OBVIOUS
  <2>3. CASE m = 0
    <3> DEFINE f == [i \in 0 .. 0 |-> base]
    <3>1. Leads(f, 0, base, step) /\ \A i \in 0 .. 0 : f[i] \in V[i]
      BY DEF Leads
    <3> QED BY <2>2, <2>3, <3>1
  <2>4. CASE m # 0
    <3>1. m - 1 \in 0 .. n /\ ~(m <= m - 1)
      BY <2>2, <2>4
    <3>2. P(m - 1)
      BY <2>1, <3>1
    <3>3. PICK f : Leads(f, m - 1, base, step) /\ \A i \in 0 .. m - 1 : f[i] \in V[i]
      BY <3>2
    <3> HIDE DEF Wrong, P
    <3> DEFINE g == [i \in 0 .. m |-> IF i = m THEN step[m][f[m - 1]] ELSE f[i]]
    <3>4. m \in 1 .. n /\ 0 \in 0 .. m - 1 /\ 0 \in 0 .. m /\ 0 # m /\ m - 1 \in 0 .. m - 1
      BY <2>2, <2>4
    <3>5. \A i \in 0 .. m : g[i] = IF i = m THEN step[m][f[m - 1]] ELSE f[i]
      OBVIOUS
    <3>6. g = [i \in 0 .. m |-> g[i]]
      OBVIOUS
    <3> HIDE DEF g
    <3>7. \A i \in 1 .. m : g[i] = step[i][g[i - 1]]
      <4> SUFFICES ASSUME NEW i \in 1 .. m PROVE g[i] = step[i][g[i - 1]]
        OBVIOUS
      <4>1. i \in 0 .. m /\ i - 1 \in 0 .. m /\ i - 1 # m
        BY <3>4
      <4>2. g[i - 1] = f[i - 1]
        BY <3>5, <4>1, Zenon
      <4>3. CASE i = m
        BY <3>5, <4>1, <4>2, <4>3, Zenon
      <4>4. CASE i # m
        <5>1. i \in 1 .. m - 1
          BY <3>4, <4>4
        <5> QED BY <3>3, <3>5, <4>1, <4>2, <4>4, <5>1, Zenon DEF Leads
      <4> QED BY <4>3, <4>4
    <3>8. \A i \in 0 .. m : g[i] \in V[i]
      <4> SUFFICES ASSUME NEW i \in 0 .. m PROVE g[i] \in V[i]
        OBVIOUS
      <4>1. CASE i = m
        <5>1. f[m - 1] \in V[m - 1]
          BY <3>3, <3>4, Zenon
        <5>2. step[m][f[m - 1]] \in V[m]
          BY <3>4, <5>1, Zenon
        <5> QED BY <3>5, <4>1, <5>2, Zenon
      <4>2. CASE i # m
        <5>1. i \in 0 .. m - 1
          BY <3>4, <4>2
        <5> QED BY <3>3, <3>5, <4>2, <5>1, Zenon
      <4> QED BY <4>1, <4>2
    <3>9. g[0] = base
      BY <3>3, <3>4, <3>5, Zenon DEF Leads
    <3> QED BY <2>2, <3>6, <3>7, <3>8, <3>9, Zenon DEF Leads, P
  <2> QED BY <2>3, <2>4
<1>2. n \in 0 .. n
  OBVIOUS
<1> QED BY <1>1, <1>2, Zenon

\* There is no other such function.
Follows(g, f, n, base, step) ==
  /\ g[0] = base
  /\ \A i \in 1 .. n : g[i - 1] = f[i - 1] => g[i] = step[i][f[i - 1]]

LEMMA RecursionOnce ==
  ASSUME NEW n \in Nat, NEW base, NEW step, NEW f, NEW g,
         Leads(f, n, base, step), Follows(g, f, n, base, step)
  PROVE  \A i \in 0 .. n : g[i] = f[i]
<1> DEFINE Wrong == {i \in 0 .. n : g[i] # f[i]}
<1> SUFFICES ASSUME Wrong # {} PROVE FALSE
  OBVIOUS
<1>1. PICK i \in Wrong : \A k \in Wrong : i <= k
  <2>1. Wrong \subseteq Nat
    OBVIOUS
  <2> QED BY <2>1, LeastElement
<1>2. i \in 0 .. n /\ g[i] # f[i]
  OBVIOUS
<1>3. i # 0
  BY <1>2 DEF Leads, Follows
<1>4. i \in 1 .. n /\ i - 1 \in 0 .. n /\ ~(i <= i - 1)
  BY <1>2, <1>3
<1>5. g[i - 1] = f[i - 1]
  BY <1>1, <1>4
<1> QED BY <1>2, <1>4, <1>5, Zenon DEF Leads, Follows
=============================================================================
