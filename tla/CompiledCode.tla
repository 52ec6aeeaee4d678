---------------------------- MODULE CompiledCode ----------------------------
(***************************************************************************)
(* A thread in a compiled function, while others stop the world.           *)
(*                                                                         *)
(* At a statepoint a barrier may find the thread: in a poll, in an         *)
(* external call, or further down the stack in managed code.  It pins the  *)
(* handles it finds in the frame's pin set (Barrier says how it gets       *)
(* there) and may move the objects of all others.  What the function has   *)
(* translated before is then worth nothing.                                *)
(***************************************************************************)
EXTENDS Translation

CONSTANT Function   \* the functions of the program, by their names

\* Every instruction has the pointers its kind has.
Shaped(i) ==
  \/ i.op = "def"  /\ i.val # None /\ i.ptr = None
  \/ i.op = "use"  /\ i.ptr # None
  \/ i.op = "gep"  /\ i.val # None /\ i.ptr # None
  \/ i.op = "ext"  /\ i.val = None /\ i.ptr # None
  \/ i.op = "call" /\ i.val = None /\ i.ptr = None
\* Control reaches every block, and none leads back to the entry.
Wellformed(f) ==
  /\ f.code \in Seq(Seq({At(f, p) : p \in Body(f)})) /\ f.code # <<>>
  /\ \A p \in Body(f) : Shaped(At(f, p))
  /\ DOMAIN f.succ = Blocks(f) /\ \A b \in Blocks(f) : Succs(f, b) \subseteq Blocks(f) \ {1}
  /\ Closure({1}, [x \in Blocks(f) |-> Succs(f, x)]) = Blocks(f)
  /\ None \notin f.args /\ None \notin Points(f)
\* Pointers have one definition, which dominates the instructions they are in.
SSA(f) ==
  \A p \in Body(f) :
    /\ At(f, p).val \notin f.args
    /\ At(f, p).val # None => \A q \in Body(f) \ {p} : At(f, q).val # At(f, p).val
    /\ At(f, p).ptr \notin f.args \cup {None} =>
         \E d \in Body(f) : At(f, d).val = At(f, p).ptr /\ Precedes(f, d, p)
\* All cycles are natural loops: none is left without the edges back to headers.
Forward(f, b) == {c \in Succs(f, b) : b \notin Latches(f, c)}
Reducible(f) ==
  \A b \in Blocks(f) :
    b \notin Closure(Forward(f, b), [x \in Blocks(f) |-> Forward(f, x)])

ASSUME FunctionAssumption ==
  \A f \in Range(Function) : Wellformed(f) /\ SSA(f) /\ Reducible(f)

\* Every block leads to one without successors.
Returns(f) ==
  Closure({b \in Blocks(f) : Succs(f, b) = {}}, [x \in Blocks(f) |-> Preds(f, x)]) = Blocks(f)

\* The compiler's work is done once.
Compiled == Table([n \in DOMAIN Function |-> Compile(Function[n])])

VARIABLES
  fn,      \* the function the thread is in
  at,      \* the instruction it is about to execute
  base,    \* translation -> "none", "good" (what it points to is the object) or
           \* "stale"
  cell     \* the frame's pin set: cell -> the pointer whose handle is in it, or
           \* None.  What is in a cell before the first store could be anything
           \* and would pin some object more.

codeVars == <<fn, at, base, cell>>

Source    == Function[fn]
Code      == Compiled[fn]
Here      == Code.code[at[1]][at[2]]
Executing == at[2] \in DOMAIN Code.code[at[1]]

CodeInit ==
  /\ fn \in DOMAIN Function
  /\ at   = <<<<1>>, 1>>
  /\ base = [l \in Code.trs |-> "none"]
  /\ cell = [c \in Range(Code.cell) |-> None]

Advance == at' = <<at[1], at[2] + 1>>

\* A definition gives the pointer another value: what was made of the old one
\* is of no use any more.
Define ==
  /\ Executing /\ Here.op \in {"def", "use", "gep"}
  /\ base' = [l \in DOMAIN base |->
                IF Here.val # None /\ At(Source, l).ptr = Here.val
                THEN "stale" ELSE base[l]]
  /\ cell' = [c \in DOMAIN cell |->
                IF Here.val # None /\ cell[c] = Here.val THEN None ELSE cell[c]]
  /\ Advance /\ UNCHANGED fn

\* alaska_translate, after the handle has been put into its cell if it has one.
Translate ==
  /\ Executing /\ Here.op = "translate"
  /\ base' = [base EXCEPT ![Here.tr] = "good"]
  /\ cell' = IF Here.tr \in DOMAIN Code.cell
             THEN [cell EXCEPT ![Code.cell[Here.tr]] = Here.val] ELSE cell
  /\ Advance /\ UNCHANGED fn

\* alaska.release is lowered to nothing.
Release ==
  /\ Executing /\ Here.op = "release"
  /\ Advance /\ UNCHANGED <<fn, base, cell>>

\* A statepoint, with or without a barrier.
Pinned == Range(cell) \ {None}
Statepoint ==
  /\ Executing /\ Here.op \in {"call", "ext", "poll"}
  /\ \E Moved \in SUBSET ({At(Source, l).ptr : l \in DOMAIN base} \ Pinned) :
       base' = [l \in DOMAIN base |->
                  IF At(Source, l).ptr \in Moved /\ base[l] = "good" THEN "stale"
                  ELSE base[l]]
  /\ Advance /\ UNCHANGED <<fn, cell>>

\* The terminator.
Jump ==
  /\ ~Executing
  /\ \E b \in Code.next[at[1]] : at' = <<b, 1>>
  /\ UNCHANGED <<fn, base, cell>>

CodeNext == Define \/ Translate \/ Release \/ Statepoint \/ Jump

CodeSpec == CodeInit /\ [][CodeNext]_codeVars

-----------------------------------------------------------------------------
(***************************************************************************)
(* Properties.                                                             *)
(***************************************************************************)

\* Whatever the hoisting, the release points and the sharing of pin cells, no
\* load, store or external call ever gets the address of an object from before
\* it moved, or of another object (TranslationForest.cpp, PinTracking.cpp).
\* An external call keeps its argument for as long as it runs.
UsesFresh ==
  Executing =>
    /\ Here.op \in {"use", "ext"} /\ Here.tr # None => base[Here.tr] = "good"
    /\ Here.op = "ext" => At(Source, Here.tr).ptr \in Pinned

\* A thread that does not return from a function polls again and again: no
\* cycle of its blocks is without a poll (PlaceSafepoints.cpp).
PollFree(c) == {b \in DOMAIN c.code : \A i \in DOMAIN c.code[b] : c.code[b][i].op # "poll"}
EveryCyclePolls ==
  \A b \in PollFree(Code) :
    b \notin Closure(Code.next[b] \cap PollFree(Code),
                     [x \in PollFree(Code) |-> Code.next[x] \cap PollFree(Code)])
=============================================================================
