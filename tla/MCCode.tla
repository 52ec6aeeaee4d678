------------------------------- MODULE MCCode -------------------------------
(***************************************************************************)
(* Instances of CompiledCode for TLC: functions that have one of a few     *)
(* flow graphs, with every combination of a few instruction sequences in   *)
(* their blocks.                                                           *)
(***************************************************************************)
EXTENDS CompiledCode

I(op, v, p) == [op |-> op, val |-> v, ptr |-> p]
D(v)        == I("def", v, None)            \* v is a phi, or a call's result
U(p)        == I("use", None, p)            \* load or store
L(v, p)     == I("use", v, p)               \* v = load p
G(v, p)     == I("gep", v, p)
C           == I("call", None, None)        \* call managed code
X(p)        == I("ext", None, p)            \* call a library function

\* f(p), or p is found in block b.
Given(b, code) == IF b = 0 THEN code ELSE [code EXCEPT ![b] = <<D("p")>> \o @]

\* The functions that have their pointer from one of the blocks of given, and
\* for each block one of its bodies: the n-th of them takes the digits of n.
Family(given, bodies, succ, switches) ==
  LET radix  == <<Len(given)>> \o [b \in DOMAIN bodies |-> Len(bodies[b])]
      Weight[i \in 1 .. Len(radix) + 1] ==
        IF i = 1 THEN 1 ELSE Weight[i - 1] * radix[i - 1]
      Digit(n, i) == 1 + (((n - 1) \div Weight[i]) % radix[i])
  IN  [n \in 1 .. Weight[Len(radix) + 1] |->
         LET b == given[Digit(n, 1)]
         IN  [args |-> IF b = 0 THEN {"p"} ELSE {},
              code |-> Given(b, [c \in DOMAIN bodies |-> bodies[c][Digit(n, c + 1)]]),
              succ |-> succ, switches |-> switches]]

\* if (..) 2 else 3; 4
Diamonds ==
  Family(<<0, 1>>,
         << <<<<>>, <<U("p")>>, <<U("p"), C>>, <<G("w", "p"), C, U("w")>>>>,
            <<<<>>, <<C>>, <<C, U("p")>>, <<L("q", "p"), C, U("q")>>>>,
            <<<<>>, <<U("p")>>, <<X("p")>>, <<D("r"), U("r"), C, U("r"), U("p")>>>>,
            <<<<>>, <<C, U("p")>>, <<D("s"), U("s"), C, U("s")>>>> >>,
         <<<<2, 3>>, <<4>>, <<4>>, <<>>>>, {})

\* 1; while (2) 3; 4
Whiles ==
  Family(<<0, 1, 2>>,
         << <<<<>>, <<D("r"), U("r")>>>>,
            <<<<>>, <<U("p")>>, <<C>>, <<G("w", "p"), U("w"), C, U("w")>>>>,
            <<<<>>, <<U("p")>>, <<L("q", "p"), C, U("q")>>, <<C, U("p")>>, <<X("p")>>>>,
            <<<<>>, <<U("p")>>, <<C, U("p")>>, <<D("s"), C, U("s")>>>> >>,
         <<<<2>>, <<3, 4>>, <<2>>, <<>>>>, {})

\* 1; while (2) { 3; while (4) 5; 6; 7 } 8
Nested(given, last) ==
  Family(given,
         << <<<<D("r")>>>>, <<<<>>, <<C>>>>, <<<<>>>>, <<<<>>>>,
            <<<<U("p")>>, <<L("q", "p"), C, U("q")>>, <<U("r"), U("p")>>>>,
            <<<<>>, <<U("p")>>, <<D("s"), C, U("s")>>>>, <<<<>>>>, last >>,
         <<<<2>>, <<3, 8>>, <<4>>, <<5, 6>>, <<4>>, <<7>>, <<2>>, <<>>>>, {})
Nests == Nested(<<0, 1, 2>>, <<<<>>, <<C, U("p")>>, <<U("r")>>>>)
         \o Nested(<<4>>, <<<<>>, <<U("r")>>>>)

\* 1; switch (..) { case: 2; case: 3; default: 4 } 5
Switches ==
  Family(<<0, 1>>,
         << <<<<C>>, <<U("p"), C>>>>, <<<<>>, <<U("p")>>>>, <<<<>>>>, <<<<>>, <<U("p")>>>>,
            <<<<>>>> >>,
         <<<<2, 3, 4>>, <<5>>, <<5>>, <<5>>, <<>>>>, {1})

\* 1; for (;;) 2
Endless ==
  Family(<<0, 1>>, << <<<<>>>>, <<<<U("p")>>, <<U("p"), C>>, <<C>>>> >>, <<<<2>>, <<2>>>>, {})
=============================================================================
