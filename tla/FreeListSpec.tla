---------------------------- MODULE FreeListSpec ----------------------------
(***************************************************************************)
(* What a ShardedFreeList does for its users, with every operation one     *)
(* atomic step on sets.  SizedHeap is written in terms of these steps;     *)
(* ShardedFreeList shows that the linked lists and their compare-and-swap  *)
(* loops implement them.                                                   *)
(***************************************************************************)
CONSTANT Block

VARIABLES
  held,      \* blocks the program holds
  freeing,   \* blocks other threads are in the middle of freeing
  local,     \* blocks the owner can pop
  remote     \* blocks the others have freed

Init == held = Block /\ freeing = {} /\ local = {} /\ remote = {}

Pop == \E b \in local :
  /\ local' = local \ {b} /\ held' = held \cup {b}
  /\ UNCHANGED <<freeing, remote>>

FreeLocal == \E b \in held :
  /\ held' = held \ {b} /\ local' = local \cup {b}
  /\ UNCHANGED <<freeing, remote>>

BeginFreeRemote == \E b \in held :
  /\ held' = held \ {b} /\ freeing' = freeing \cup {b}
  /\ UNCHANGED <<local, remote>>

FreeRemote == \E b \in freeing :
  /\ freeing' = freeing \ {b} /\ remote' = remote \cup {b}
  /\ UNCHANGED <<held, local>>

Swap ==
  /\ local = {}
  /\ local' = remote /\ remote' = {}
  /\ UNCHANGED <<held, freeing>>

Next == Pop \/ FreeLocal \/ BeginFreeRemote \/ FreeRemote \/ Swap

Spec == Init /\ [][Next]_<<held, freeing, local, remote>>
=============================================================================
