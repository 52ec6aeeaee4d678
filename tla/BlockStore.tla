----------------------------- MODULE BlockStore -----------------------------
(***************************************************************************)
(* What a heap of equally sized blocks promises to the program that uses   *)
(* it: a block that is handed out was available and is not any more, a     *)
(* block that is given back becomes available, and nothing else makes a    *)
(* block appear or disappear.  It says nothing of pages, slabs, owners or  *)
(* free lists; SizedHeap and HandleTable implement it.                     *)
(***************************************************************************)
CONSTANT Block

VARIABLES
  live,        \* the blocks the program holds
  available    \* the blocks it may be given

Init == live = {} /\ available = Block

Alloc == \E b \in available :
  live' = live \cup {b} /\ available' = available \ {b}

Free == \E b \in live :
  live' = live \ {b} /\ available' = available \cup {b}

Next == Alloc \/ Free

Spec == Init /\ [][Next]_<<live, available>>
=============================================================================
