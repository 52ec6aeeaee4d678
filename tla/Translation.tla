----------------------------- MODULE Translation ----------------------------
(***************************************************************************)
(* What the compiler does to one function so that it may use handles       *)
(* (compiler/lib/PointerFlowGraph.cpp, TranslationForest.cpp,              *)
(* Translations.cpp, passes/Escape.cpp, PlaceSafepoints.cpp,               *)
(* PinTracking.cpp): where it translates a pointer, how long it takes the  *)
(* translation to be alive, where it polls, and which cell of the frame's  *)
(* pin set holds the handle meanwhile.                                     *)
(*                                                                         *)
(* A function f is a record: args, the pointers it is given; code, for     *)
(* each block a sequence of instructions, the terminator not included;     *)
(* succ, for each block the sequence of its successors; switches, the      *)
(* blocks that end in a switch, whose last successor is the default.       *)
(* Block 1 is the entry.  An instruction is [op, val, ptr]: "def" gives    *)
(* val a pointer out of nowhere (phi, call); "use" loads from or stores to *)
(* ptr, and val is the pointer it loads, if any; "gep" derives val from    *)
(* ptr; "ext" passes ptr to a function without a body; "call" calls        *)
(* managed code.  A point is <<block, position>>; the terminator is the    *)
(* one after the last instruction.                                         *)
(*                                                                         *)
(* The functions have been through break-crit-edges and loop-simplify, as  *)
(* alaska-transform sees to.                                               *)
(***************************************************************************)
EXTENDS Integers, Sequences, FiniteSets, FiniteSetsExt, SequencesExt, Functions, TLC

CONSTANT None     \* no pointer

Blocks(f)  == DOMAIN f.code
Succs(f, b) == ToSet(f.succ[b])
Term(f, b) == <<b, Len(f.code[b]) + 1>>
Body(f)    == UNION {{<<b, i>> : i \in DOMAIN f.code[b]} : b \in Blocks(f)}
Points(f)  == Body(f) \cup {Term(f, b) : b \in Blocks(f)}
At(f, p)   == f.code[p[1]][p[2]]

\* The least set that contains start and, with an element x, before[x].
Closure(start, before) ==
  LET Grow[S \in SUBSET (start \cup DOMAIN before)] ==
        LET more == S \cup UNION {before[x] : x \in S}
        IN  IF more = S THEN S ELSE Grow[more]
  IN  Grow[start]

\* The same function, computed once and for all.
Table(g) == CHOOSE h \in {g} : h = g

\* Dominance (external: LLVM's DominatorTree).
Dominates(f, b, c) ==
  c \notin Closure({1} \ {b}, [x \in Blocks(f) |-> Succs(f, x) \ {b}])
Precedes(f, p, q) == IF p[1] = q[1] THEN p[2] < q[2] ELSE Dominates(f, p[1], q[1])

\* Natural loops by their headers (external: LLVM's LoopInfo).
Preds(f, b)   == {a \in Blocks(f) : b \in Succs(f, a)}
Latches(f, h) == {b \in Preds(f, h) : Dominates(f, h, b)}
Headers(f)    == {h \in Blocks(f) : Latches(f, h) # {}}
Loop(f, h)    == {h} \cup Closure(Latches(f, h) \ {h},
                                  [x \in Blocks(f) |-> Preds(f, x) \ {h}])

-----------------------------------------------------------------------------
(***************************************************************************)
(* Translations: PointerFlowGraph and TranslationForest.                   *)
(***************************************************************************)

\* Where a pointer comes from: None for an argument.
Def(f, v)  == IF v \in f.args THEN None
              ELSE CHOOSE p \in Body(f) : At(f, p).val = v
IsSource(f, v) == v \in f.args \/ At(f, Def(f, v)).op # "gep"

\* The nodes of the flow graph that are not sources: loads and stores, and the
\* pointers derived from others that lead to one.
Sinks(f) == {p \in Body(f) : At(f, p).op = "use"}
Parent(f) ==
  [p \in {q \in Body(f) : At(f, q).ptr # None} |->
     IF IsSource(f, At(f, p).ptr) THEN {} ELSE {Def(f, At(f, p).ptr)}]
Nodes(f) == Closure(Sinks(f), Parent(f))

\* The root's child on the way to node p.
Child(f, p) == CHOOSE c \in Closure({p}, Parent(f)) : Parent(f)[c] = {}
Children(f, v) == {c \in Nodes(f) : At(f, c).ptr = v}

\* compute_shared_translation: a child shares the translation of the sibling
\* that dominates it, or of the one that sibling shares with.  A translation
\* goes by the child that owns it.
First(f, S) == CHOOSE d \in S : \A e \in S : ~Precedes(f, e, d)
Leader(f, c) ==
  First(f, {d \in Children(f, At(f, c).ptr) : d = c \/ Precedes(f, d, c)})

\* get_outermost_loop_for_translation: loops with the user in them and not the
\* pointer.  (Mutant: any loop with the user in it.)
LoopsAround(f, def, user) == {h \in Headers(f) : user[1] \in Loop(f, h)}
LoopsBetween(f, def, user) ==
  {h \in Headers(f) : user[1] \in Loop(f, h) /\ def[1] \notin Loop(f, h)}

Outermost(f, loops) ==
  CHOOSE h \in loops : \A k \in loops : Loop(f, k) \subseteq Loop(f, h)

\* compute_translation_insertion_location: the translation comes before this
\* point.
Entries(f, h) == Preds(f, h) \ Loop(f, h)
Hoist(f, h, c) ==
  IF Cardinality(Preds(f, h)) = 2 /\ Cardinality(Entries(f, h)) = 1
  THEN Term(f, Max(Entries(f, h))) ELSE c
LiftFrom(f, loops, c) == IF loops = {} THEN c ELSE Hoist(f, Outermost(f, loops), c)
TranslateBefore(f, c) ==
  IF At(f, c).ptr \in f.args THEN <<1, 1>>
  ELSE LiftFrom(f, LoopsBetween(f, Def(f, At(f, c).ptr), c), c)

\* The forest: for each node the translation it uses, and for each translation
\* where it is made.
Births(f, owner) ==
  [owner |-> owner, birth |-> Table([l \in Range(owner) |-> TranslateBefore(f, l)])]
Forest(f) == Births(f, Table([p \in Nodes(f) |-> Leader(f, Child(f, p))]))

BornAt(t, p) == {l \in DOMAIN t.birth : t.birth[l] = p}

\* inst2bounds: the translation an instruction keeps alive.  One that a
\* translation is inserted before keeps that one alive, and nothing else; of
\* several the last one.
Later(p, q) == p[1] > q[1] \/ (p[1] = q[1] /\ p[2] > q[2])
Keeps(t, p) ==
  IF BornAt(t, p) # {}
  THEN CHOOSE l \in BornAt(t, p) : \A m \in BornAt(t, p) \ {l} : Later(l, m)
  ELSE IF p \in DOMAIN t.owner THEN t.owner[p] ELSE None

\* The blocks whose first IN the dataflow adds to the OUT of b's terminator.  Of
\* a switch it asks the cases, and the default is none of them.
Flows(f, b) == IF b \in f.switches THEN ToSet(Front(f.succ[b])) ELSE Succs(f, b)
After(f, p) == IF p = Term(f, p[1]) THEN {<<c, 1>> : c \in Flows(f, p[1])}
               ELSE {<<p[1], p[2] + 1>>}
Before(f, p) == IF p[2] > 1 THEN {<<p[1], p[2] - 1>>}
                ELSE {Term(f, b) : b \in {a \in Blocks(f) : p[1] \in Flows(f, a)}}

\* IN, for each translation the points it is alive at.  At its birth it is not
\* yet.
Alive(f, t) ==
  Table([l \in DOMAIN t.birth |->
    Closure({p \in Points(f) : Keeps(t, p) = l},
            [p \in Points(f) |-> IF p = t.birth[l] THEN {} ELSE Before(f, p)])])

Comes(t, alive, l, p) == p \in alive[l] /\ t.birth[l] # p
Out(f, t, alive, p)   == {l \in DOMAIN alive : \E q \in After(f, p) : Comes(t, alive, l, q)}
In(alive, p)          == {l \in DOMAIN alive : p \in alive[l]}

\* alaska.release goes where a translation is in an instruction's IN and not in
\* its OUT, and on a branch's edges to blocks that do not want it any more.
ReleasedAfter(f, t, alive, p) == In(alive, p) \ Out(f, t, alive, p)
ReleasedOn(f, t, alive, b, c) ==
  IF b \in f.switches THEN {}
  ELSE {l \in In(alive, Term(f, b)) \cap Out(f, t, alive, Term(f, b)) :
          ~Comes(t, alive, l, <<c, 1>>)}

-----------------------------------------------------------------------------
(***************************************************************************)
(* The function after translation, escapes and polls.  Its blocks are      *)
(* <<b>>, and <<b, c, kind>> for those SplitEdge put on the edge from b to *)
(* c: one for releases, one for a poll.  Instructions have gained the      *)
(* field tr, the translation they use, start or end.                       *)
(***************************************************************************)
Ins(op, val, tr) == [op |-> op, val |-> val, tr |-> tr]

\* Escape.cpp translates the argument of an external call right before the
\* call.  What it releases afterwards is the argument and not the root it has
\* translated, so no translation has that release.  insertRootBefore and
\* insertTranslationBefore are one instruction here.
Emitted(f, t, p) ==
  LET i == At(f, p)
  IN  CASE i.op = "ext"          -> <<Ins("translate", i.ptr, p), Ins("ext", i.ptr, p)>>
        [] p \in DOMAIN t.owner -> <<Ins(i.op, i.val, t.owner[p])>>
        [] OTHER                 -> <<Ins(i.op, i.val, None)>>

\* The translations of S start, or end, in no order to rely on.
All(f, op, S) ==
  LET order == SetToSeq(S)
  IN  [k \in DOMAIN order |-> Ins(op, At(f, order[k]).ptr, order[k])]

\* A release after a terminator has no place to go and is dropped.
BlockCode(f, t, alive, b) ==
  LET Upto[i \in 0 .. Len(f.code[b])] ==
        IF i = 0 THEN <<>>
        ELSE Upto[i - 1]
             \o All(f, "translate", BornAt(t, <<b, i>>)) \o Emitted(f, t, <<b, i>>)
             \o All(f, "release", ReleasedAfter(f, t, alive, <<b, i>>))
  IN  Upto[Len(f.code[b])] \o All(f, "translate", BornAt(t, Term(f, b)))

\* PlaceBackedgeSafepoints polls on every edge from a latch to its header.
\* (Mutant: only in loops with no loop around them.)
OuterOnly(f, b, c) ==
  b \in Latches(f, c) /\ \A h \in Headers(f) \ {c} : c \notin Loop(f, h)
Polled(f, b, c) == b \in Latches(f, c)

\* The blocks from b to c.
Way(f, t, alive, b, c) ==
  <<<<b>>>>
  \o (IF ReleasedOn(f, t, alive, b, c) # {} THEN <<<<b, c, "release">>>> ELSE <<>>)
  \o (IF Polled(f, b, c) THEN <<<<b, c, "poll">>>> ELSE <<>>)
  \o <<<<c>>>>

Laid(f, t, alive) ==
  LET ways  == UNION {{Way(f, t, alive, b, c) : c \in Succs(f, b)} : b \in Blocks(f)}
      every == {<<b>> : b \in Blocks(f)} \cup UNION {ToSet(w) : w \in ways}
  IN  [code |-> Table([b \in every |->
                  IF Len(b) = 1 THEN BlockCode(f, t, alive, b[1])
                  ELSE IF b[3] = "poll" THEN <<Ins("poll", None, None)>>
                  ELSE All(f, "release", ReleasedOn(f, t, alive, b[1], b[2]))]),
       next |-> Table([b \in every |->
                  UNION {{w[k + 1] : k \in {j \in 1 .. Len(w) - 1 : w[j] = b}} : w \in ways}])]

Translated(f, t) == Laid(f, t, Alive(f, t))
Instrument(f)    == Translated(f, Forest(f))

-----------------------------------------------------------------------------
(***************************************************************************)
(* PinTracking, and the liveness it computes afresh in extractTranslations *)
(* from the translations and releases it finds in g, an instrumented       *)
(* function.                                                               *)
(***************************************************************************)
Where(g, ops) ==
  UNION {{<<b, i>> : i \in {j \in DOMAIN g.code[b] : g.code[b][j].op \in ops}} :
           b \in DOMAIN g.code}
Ofs(g, p)      == g.code[p[1]][p[2]]
Translations(g) == {Ofs(g, p).tr : p \in Where(g, {"translate"})}
Birth(g, l)    == CHOOSE p \in Where(g, {"translate"}) : Ofs(g, p).tr = l
Deaths(g, l)   == {p \in Where(g, {"release"}) : Ofs(g, p).tr = l}
Statepoints(g) == Where(g, {"call", "ext", "poll"})

\* liveBlocks.
LiveBlocks(g, l) ==
  LET born  == Birth(g, l)[1]
      dying == {p[1] : p \in Deaths(g, l)}
  IN  {born} \cup dying
      \cup Closure(dying \ {born},
                   [c \in DOMAIN g.code |->
                      {b \in DOMAIN g.code \ {born} : c \in g.next[b]}])

\* Translation::isLive.  (Mutant: a block with a release in it does not count.)
EndsBefore(g, l, p) == \A d \in Deaths(g, l) : d[1] # p[1]
Unreleased(g, l, p) == \A d \in Deaths(g, l) : d[1] = p[1] => p[2] < d[2]
IsLive(g, l, p) ==
  /\ p[1] \in LiveBlocks(g, l)
  /\ p[1] = Birth(g, l)[1] => Birth(g, l)[2] < p[2]
  /\ Unreleased(g, l, p)

MustTrack(g) == {l \in Translations(g) : \E p \in Statepoints(g) : IsLive(g, l, p)}

\* Two translations that are alive in one block get different cells.  (Mutant:
\* in the block one of them is made in.)
MeetAtBirth(g, l, m) == Birth(g, l)[1] \in LiveBlocks(g, m)
Interfere(g, l, m)   == LiveBlocks(g, l) \cap LiveBlocks(g, m) # {}

\* The greedy colouring, in no order to rely on.
Colours(g, order) ==
  LET Paint[k \in 0 .. Len(order)] ==
        IF k = 0 THEN <<>>
        ELSE Append(Paint[k - 1],
                    Min(0 .. k \ {Paint[k - 1][j] :
                                    j \in {i \in 1 .. k - 1 : Interfere(g, order[i], order[k])}}))
  IN  Table([l \in ToSet(order) |->
               Paint[Len(order)][CHOOSE k \in DOMAIN order : order[k] = l]])
Cells(g) == Colours(g, SetToSeq(MustTrack(g)))

\* The function the program runs.  A poll, an external call and a call of
\* managed code are statepoints; each records the whole pin set.
Lowered(g) ==
  [code |-> g.code, next |-> g.next, cell |-> Cells(g), trs |-> Translations(g)]
Compile(f) == Lowered(Instrument(f))
=============================================================================
