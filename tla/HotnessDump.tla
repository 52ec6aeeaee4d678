----------------------------- MODULE HotnessDump ----------------------------
(***************************************************************************)
(* How the handles in the simulated TLB get to the localizer               *)
(* (runtime/rt/sim.cpp, the buffers of core/Localizer.cpp): a thread whose *)
(* access is the RATE-th writes them to dump_buf and signals a condition;  *)
(* a background thread waits for it and feeds dump_buf to its localizer.   *)
(*                                                                         *)
(* The localizer keeps the buffers it is fed in a list and hands them out  *)
(* again.  The link of the list is the first word of the buffer, and       *)
(* dump_buf is written again while it is in that list.                     *)
(*                                                                         *)
(* What the localizer does with the handles is in Objects.  That no other  *)
(* thread runs meanwhile is not needed here and left out.                  *)
(***************************************************************************)
EXTENDS Integers

CONSTANTS
  Tracker,     \* threads that translate handles
  NoBuffer,    \* nullptr, which is also no handle
  DumpBuf,     \* the address of dump_buf
  HeapBuf,     \* the address of a buffer from the internal allocator
  MaxDumps     \* bound: dumps

ASSUME HotnessAssumption ==
  /\ MaxDumps \in Nat
  /\ NoBuffer # DumpBuf /\ NoBuffer # HeapBuf /\ DumpBuf # HeapBuf
  /\ {NoBuffer, DumpBuf, HeapBuf} \cap Nat = {}
  /\ {"mover", "nobody"} \cap Tracker = {}

VARIABLES
  step,        \* thread -> where it is in alaska_htlb_sim_track
  dump_mutex,  \* its owner: a thread, "mover" or "nobody"
  mover,       \* where the background thread is in its loop
  word,        \* the first word of dump_buf: NoBuffer, the handle of the n-th
               \* dump by the name n, or an address
  dumps,       \* dumps so far; the other words of dump_buf are of the last one
  buffers,     \* the head of the localizer's list, with what word may be
  buf,         \* what get_hotness_buffer has returned last
  woken        \* the value of dumps when the background thread woke up

dumpVars == <<step, dump_mutex, mover, word, dumps, buffers, buf, woken>>

DumpInit ==
  /\ step = [t \in Tracker |-> "app"]
  /\ dump_mutex = "nobody" /\ mover = "start"
  /\ word = NoBuffer /\ dumps = 0
  /\ buffers = NoBuffer /\ buf = NoBuffer /\ woken = 0

-----------------------------------------------------------------------------
(***************************************************************************)
(* alaska_htlb_sim_track, for an access that is the RATE-th.  htlb_lock is *)
(* held to the end.                                                        *)
(***************************************************************************)
Track(t) ==
  /\ dumps < MaxDumps
  /\ \A u \in Tracker : step[u] = "app"
  /\ step' = [step EXCEPT ![t] = "dump"]
  /\ UNCHANGED <<dump_mutex, mover, word, dumps, buffers, buf, woken>>

LockDump(t) ==
  /\ step[t] = "dump" /\ dump_mutex = "nobody"
  /\ dump_mutex' = t
  /\ step' = [step EXCEPT ![t] = "write"]
  /\ UNCHANGED <<mover, word, dumps, buffers, buf, woken>>

\* dump_entries.  The simulated TLB may hold nothing.
WriteDump(t) ==
  /\ step[t] = "write"
  /\ dumps' = dumps + 1
  /\ word' \in {NoBuffer, dumps + 1}
  /\ step' = [step EXCEPT ![t] = "signal"]
  /\ UNCHANGED <<dump_mutex, mover, buffers, buf, woken>>

\* A signal nobody waits for is lost.
SignalDump(t) ==
  /\ step[t] = "signal"
  /\ mover' = IF mover = "wait" THEN "wake" ELSE mover
  /\ dump_mutex' = "nobody"
  /\ step' = [step EXCEPT ![t] = "app"]
  /\ UNCHANGED <<word, dumps, buffers, buf, woken>>

-----------------------------------------------------------------------------
(***************************************************************************)
(* The loop of the background thread.                                      *)
(***************************************************************************)
BeginWait ==
  /\ mover = "start" /\ dump_mutex = "nobody"
  /\ mover' = "wait"
  /\ UNCHANGED <<step, dump_mutex, word, dumps, buffers, buf, woken>>

\* pthread_cond_wait may return without a signal, and the loop does not test
\* whether there is anything new.
WakeUp ==
  /\ mover \in {"wait", "wake"} /\ dump_mutex = "nobody"
  /\ dump_mutex' = "mover"
  /\ mover' = "get" /\ woken' = dumps
  /\ UNCHANGED <<step, word, dumps, buffers, buf>>

\* What is left of the list without its head.  (Mutant: the head stays.)
HeadStays    == buffers
WithoutHead == IF buffers = DumpBuf THEN word ELSE NoBuffer

\* get_hotness_buffer, and the copy to the buffer of what is in dump_buf.
GetBuffer ==
  /\ mover = "get"
  /\ IF buffers = NoBuffer
     THEN buf' = HeapBuf /\ UNCHANGED buffers
     ELSE buf' = buffers /\ buffers' = WithoutHead
  /\ mover' = "feed"
  /\ UNCHANGED <<step, dump_mutex, word, dumps, woken>>

\* The end of feed_hotness_buffer, which gets dump_buf and not the copy.
PushBuffer ==
  /\ mover = "feed"
  /\ word' = buffers /\ buffers' = DumpBuf
  /\ dump_mutex' = "nobody" /\ mover' = "start"
  /\ UNCHANGED <<step, dumps, buf, woken>>

DumpNext ==
  \/ \E t \in Tracker : Track(t) \/ LockDump(t) \/ WriteDump(t) \/ SignalDump(t)
  \/ BeginWait \/ WakeUp \/ GetBuffer \/ PushBuffer

DumpSpec == DumpInit /\ [][DumpNext]_dumpVars

-----------------------------------------------------------------------------
(***************************************************************************)
(* Property.                                                               *)
(***************************************************************************)

\* Although the link of dump_buf in the localizer's list is overwritten by every
\* dump, and wake-ups come late, twice or without a dump: what
\* get_hotness_buffer returns is a buffer, what feed_hotness_buffer takes for
\* handles are handles, all of the last dump (sim.cpp, Localizer.cpp).
DumpsHandled ==
  /\ mover = "get"  => buffers \in {NoBuffer, DumpBuf}
  /\ mover = "feed" => /\ buf \in {HeapBuf, DumpBuf}
                       /\ word \in Nat \cup {NoBuffer}
                       /\ word \in {NoBuffer, woken} /\ dumps = woken
=============================================================================
