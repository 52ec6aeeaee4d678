----------------------------- MODULE MCObjects ------------------------------
(***************************************************************************)
(* Instance of Objects for TLC.                                            *)
(***************************************************************************)
EXTENDS Objects, TLC

\* Two locality pages and no region, or one page and all regions.
MCRooms == {<<LPage, {}>>} \cup {<<{p}, Region>> : p \in LPage}

Symmetry == Permutations(Obj) \cup Permutations(LPage)
=============================================================================
