----------------------------- MODULE LinkedList -----------------------------
(***************************************************************************)
(* Lists whose links are in the blocks themselves: f gives the link of a   *)
(* block, and the last block links to null.  ShardedFreeList and the list  *)
(* of free pages in HeapTables are such lists.  The facts hold for any     *)
(* number of blocks, and whatever else the links may form: a chain may     *)
(* join another one, or run into a circle.                                 *)
(***************************************************************************)

\* f is such a list structure.
Links(f, null) == /\ null \notin DOMAIN f
                  /\ \A b \in DOMAIN f : f[b] \in DOMAIN f \cup {null}

LinkedIn(f, null, S) == \A b \in S : f[b] \in S \cup {null}

\* The blocks on the list that starts at h: the least set that has h and, with
\* a block, the one it links to.
List(f, null, h) ==
  {b \in DOMAIN f : \A S \in SUBSET DOMAIN f :
                      h \in S \cup {null} /\ LinkedIn(f, null, S) => b \in S}

\* No block of the list that starts at h is behind itself.
Ends(f, null, h) == \A b \in List(f, null, h) : b \notin List(f, null, f[b])
=============================================================================
