-------------------------------- MODULE HTLB --------------------------------
(***************************************************************************)
(* The simulated handle TLB (runtime/sim/HTLB.cpp, rt/sim.cpp), which      *)
(* watches every translation when the runtime is built with it and from    *)
(* time to time names the handles it holds, for the localizer to move      *)
(* their objects together.                                                 *)
(*                                                                         *)
(* Two levels of sets of lines, both with the EXCLUSIVE policy.  Every     *)
(* action runs under htlb_lock.  Hits and misses of the ordinary TLBs, the *)
(* cached addresses and the statistics are left out; the clock of the      *)
(* second level too, since no line keeps what it reads there.              *)
(***************************************************************************)
EXTENDS Integers, FiniteSets, FiniteSetsExt

CONSTANTS
  Handle,      \* the handles, by their IDs
  L1Sets, L1Ways, L2Sets, L2Ways,
  MaxTime,     \* bound: accesses
  Unwritten    \* what last_used may be before it is set: HTLBEntry's
               \* constructor leaves it alone

ASSUME HTLBAssumption ==
  /\ Handle \subseteq Nat \ {0}
  /\ {L1Sets, L1Ways, L2Sets, L2Ways, MaxTime} \subseteq Nat \ {0}
  /\ Unwritten \subseteq Nat

VARIABLES
  l1, l2,      \* set -> way -> line
  time,        \* of the first level
  live,        \* the handles that are not free
  leaving,     \* those that hfree has removed from here and not yet freed
  since,       \* handle -> when it was removed from here last (history)
  aborted      \* the assertion in insert has failed

htlbVars == <<l1, l2, time, live, leaving, since, aborted>>

Empty(used) == [hid |-> 0, valid |-> FALSE, last_used |-> used]

HTLBInit(unwritten) ==
  /\ l1 \in [0 .. L1Sets - 1 -> [1 .. L1Ways -> {Empty(u) : u \in unwritten}]]
  /\ l2 \in [0 .. L2Sets - 1 -> [1 .. L2Ways -> {Empty(u) : u \in unwritten}]]
  /\ time = 0 /\ live = Handle /\ leaving = {} /\ aborted = FALSE
  /\ since = [h \in Handle |-> 0]

-----------------------------------------------------------------------------
Holds(set, h) == {w \in DOMAIN set : set[w].valid /\ set[w].hid = h}

\* The first line that was used least lately, valid or not.
Oldest(set) ==
  Min({w \in DOMAIN set : \A v \in DOMAIN set : set[w].last_used <= set[v].last_used})

\* L2HTLB::pull: a hit leaves the second level.  (Mutant: it stays.)
StaysPulled(level, s, h) == level
Pulled(level, s, h) ==
  IF Holds(level[s], h) = {} THEN level
  ELSE [level EXCEPT ![s][Min(Holds(level[s], h))].valid = FALSE]

\* L1HTLB::access: a miss replaces the oldest line of the first level, looking
\* the handle up if the second does not have it either, and puts the new line,
\* not the one it replaces, into the second level.
Access(h) ==
  LET s     == h % L1Sets
      z     == h % L2Sets
      found == Holds(l2[z], h) # {}
      line  == [hid |-> h, valid |-> found \/ h \in live, last_used |-> time + 1]
      after == Pulled(l2, z, h)
  IN  /\ time < MaxTime /\ ~aborted
      /\ time' = time + 1
      /\ IF Holds(l1[s], h) # {}
         THEN /\ l1' = [l1 EXCEPT ![s][Min(Holds(l1[s], h))].last_used = time + 1]
              /\ UNCHANGED <<l2, aborted>>
         ELSE /\ l1' = [l1 EXCEPT ![s][Oldest(l1[s])] = line]
              /\ aborted' = (line.valid /\ Holds(after[z], h) # {})
              /\ l2' = IF line.valid /\ ~aborted'
                       THEN [after EXCEPT ![z][Oldest(after[z])] = line] ELSE after
  /\ UNCHANGED <<live, leaving, since>>

\* invalidate, for one level.  (Mutant: not the lines of its own set.)
WithoutOthers(level, h) ==
  [s \in DOMAIN level |-> IF s = h % Cardinality(DOMAIN level) THEN level[s]
     ELSE [w \in DOMAIN level[s] |->
             IF level[s][w].hid = h THEN Empty(0) ELSE level[s][w]]]
Without(level, h) ==
  [s \in DOMAIN level |-> [w \in DOMAIN level[s] |->
     IF level[s][w].hid = h THEN Empty(0) ELSE level[s][w]]]

\* hfree: alaska_htlb_sim_invalidate, and then the thread cache's hfree, which
\* does not take htlb_lock.
Invalidate(h) ==
  /\ h \in live \ leaving /\ ~aborted
  /\ l1' = Without(l1, h) /\ l2' = Without(l2, h)
  /\ leaving' = leaving \cup {h} /\ since' = [since EXCEPT ![h] = time]
  /\ UNCHANGED <<time, live, aborted>>

Put(h) ==
  /\ h \in leaving
  /\ leaving' = leaving \ {h} /\ live' = live \ {h}
  /\ UNCHANGED <<l1, l2, time, since, aborted>>

\* halloc hands the handle out again.
Get(h) ==
  /\ h \notin live
  /\ live' = live \cup {h}
  /\ UNCHANGED <<l1, l2, time, leaving, since, aborted>>

\* HTLB::reset.
Reset ==
  /\ ~aborted
  /\ l1' = [s \in DOMAIN l1 |-> [w \in DOMAIN l1[s] |-> [l1[s][w] EXCEPT !.valid = FALSE]]]
  /\ l2' = [s \in DOMAIN l2 |-> [w \in DOMAIN l2[s] |-> Empty(0)]]
  /\ UNCHANGED <<time, live, leaving, since, aborted>>

HTLBNext ==
  \/ \E h \in Handle : Access(h) \/ Invalidate(h) \/ Put(h) \/ Get(h)
  \/ Reset

HTLBSpec == HTLBInit(Unwritten) /\ [][HTLBNext]_htlbVars

-----------------------------------------------------------------------------
Lines(level) == (DOMAIN level) \X (DOMAIN level[0])
Line(level, x) == level[x[1]][x[2]]

\* dump_entries: a word for every line, for a valid one its handle.  Their order
\* is left out (set after set, the least recently used lines first, the zeros of
\* both levels last).
Dumped(level) ==
  [x \in Lines(level) |-> IF Line(level, x).valid THEN Line(level, x).hid ELSE 0]

-----------------------------------------------------------------------------
(***************************************************************************)
(* Properties.                                                             *)
(***************************************************************************)
Named(level) == {x \in Lines(level) : Dumped(level)[x] # 0}

\* A handle has one line per level at most, where a lookup will find it, and so
\* a dump names it once per level at most.
OneLineEach(level) ==
  \A x, y \in Named(level) :
    /\ Line(level, x).hid % Cardinality(DOMAIN level) = x[1]
    /\ Dumped(level)[x] = Dumped(level)[y] => x = y

\* A handle that hfree has removed is held again only if somebody has translated
\* it after that.  (Which is possible: the compiler translates a pointer that
\* may be used, and a free handle stays in the dump until it is used again.)
UsedSinceRemoved(level) ==
  \A x \in Named(level) : Line(level, x).last_used > since[Line(level, x).hid]

\* Whatever the order of translations, frees and resets, and whatever the
\* lines' clocks were to begin with: the assertion in insert holds, the two
\* levels agree on where a handle is, and forget it when it is freed (HTLB.cpp).
HTLBSound ==
  /\ ~aborted
  /\ \A level \in {l1, l2} : OneLineEach(level) /\ UsedSinceRemoved(level)
=============================================================================
