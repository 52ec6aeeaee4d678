------------------------------ MODULE MCParts -------------------------------
(***************************************************************************)
(* Instance for TLC of the parts of the system that share no state: which  *)
(* of them a behavior is about is decided at its start, and the others     *)
(* stay as they are.                                                       *)
(***************************************************************************)
EXTENDS MCCode, ShardedFreeList, HTLB, LibAlloc, HeapTables, HotnessDump

VARIABLE part

\* Requests on both sides of the bounds of all size classes.
MCAsked ==
  {1, 2, 3} \cup ((0 .. MaxRequest) \cap
    ({16 * ClassWords(c) + d : c \in 0 .. 47, d \in {-1, 0, 1}} \cup {48 * c : c \in 0 .. 100}))
MCFunction == Diamonds \o Whiles \o Nests

\* These functions have no switch, and return from every block.
ASSUME ReturnAssumption == \A f \in Range(Function) : f.switches = {} /\ Returns(f)

PartsInit ==
  /\ part \in {"code", "list", "htlb", "liballoc", "pages", "classes", "dumps"}
  /\ CodeInit
  /\ part # "code" => fn = CHOOSE n \in DOMAIN Function : TRUE
  /\ HTLBInit(IF part = "htlb" THEN Unwritten ELSE {0})
  /\ Init /\ LibInit /\ TableInit /\ DumpInit

Only(vs) == part' = part /\ UNCHANGED vs

PartsNext ==
  \/ part = "code"     /\ CodeNext  /\ Only(<<vars, htlbVars, libVars, tableVars, dumpVars>>)
  \/ part = "list"     /\ Next      /\ Only(<<codeVars, htlbVars, libVars, tableVars, dumpVars>>)
  \/ part = "htlb"     /\ HTLBNext  /\ Only(<<codeVars, vars, libVars, tableVars, dumpVars>>)
  \/ part = "liballoc" /\ LibNext   /\ Only(<<codeVars, vars, htlbVars, tableVars, dumpVars>>)
  \/ part = "pages"    /\ PagesNext /\ Only(<<codeVars, vars, htlbVars, libVars, dumpVars>>)
  \/ part = "classes"  /\ Ask       /\ Only(<<codeVars, vars, htlbVars, libVars, dumpVars>>)
  \/ part = "dumps"    /\ DumpNext  /\ Only(<<codeVars, vars, htlbVars, libVars, tableVars>>)

PartsSpec == PartsInit /\ [][PartsNext]_<<codeVars, vars, htlbVars, libVars, tableVars, dumpVars, part>>
=============================================================================
