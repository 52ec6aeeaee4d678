------------------------------ MODULE Barrier -------------------------------
(***************************************************************************)
(* Stopping the world: Runtime::with_barrier (runtime/include/alaska/      *)
(* Runtime.hpp, core/Runtime.cpp), the compiler runtime's barrier          *)
(* (rt/barrier.cpp) and the thread registry (thread_tracking.in.hpp,       *)
(* ThreadRegistry.hpp).                                                    *)
(*                                                                         *)
(* A caller of with_barrier takes every thread cache's lock and the        *)
(* registry's, patches the poll points of compiled ("managed") code so     *)
(* that they trap, and signals every thread that has not joined.  Traps    *)
(* and signals run one handler: it pins the handles the thread holds       *)
(* translated, waits twice on a pthread barrier - once so that everybody   *)
(* has stopped, once until the caller is done - and unpins.  In between    *)
(* the caller moves objects.                                               *)
(*                                                                         *)
(* One action is one access to state another thread can see; what a thread *)
(* does to its own state in between is part of it.  External, and modelled *)
(* by what the code relies on: signals (one pending SIGUSR2 per thread,    *)
(* blocked while the handler runs, discarded when the disposition is       *)
(* SIG_IGN), pthread_barrier_t, and the stack maps of the compiler.  A     *)
(* thread has one managed frame, whose record lists the translations it    *)
(* holds.                                                                  *)
(***************************************************************************)
EXTENDS Integers, FiniteSets

CONSTANTS
  Thread,      \* the threads
  Settings,    \* the programs, and the machines, the threads may be of
  Handle,      \* the handles the program uses
  None         \* nobody

ASSUME ThreadAssumption ==
  /\ IsFiniteSet(Thread) /\ None \notin Thread
  /\ Settings \subseteq [caller : SUBSET Thread, transient : SUBSET Thread,
                          prompt : BOOLEAN, retries : Nat \ {0}]

VARIABLES
  setting,    \* the one of Settings this behavior is about
  registry,   \* the threads that have joined the ThreadRegistry
  where,      \* thread -> the code it runs, or was interrupted in
  held,       \* thread -> the handles it holds raw pointers of
  mapped,     \* the threads whose managed code is in a call a poll comes right after
  pc,         \* thread -> where it is in with_barrier or in the handler
  ret,        \* thread -> the pc the handler interrupted
  status,     \* thread -> my_state.join_status
  invalid,    \* thread -> invalid_state_abort
  pending,    \* thread -> a SIGUSR2 is pending
  ignored,    \* the process ignores SIGUSR2 and SIGILL
  patched,    \* the poll points trap
  cooled,     \* min_barrier_interval has passed since last_barrier_time
  tcsLock,    \* Runtime::tcs_lock
  tcLock,     \* thread -> who holds its thread cache's lock
  regLock,    \* ThreadRegistry::m_lock, as begin() holds it
  width,      \* barrier_last_num_threads, the count of the_barrier
  arrived,    \* the threads waiting at the_barrier
  todo,       \* begin(): the threads this pass has yet to look at
  sent,       \* begin(): sent_signal
  retries,    \* begin(): retries
  success,    \* begin(): success
  pinned,     \* the handles whose mapping has the pinned bit
  moved       \* the handles the callback has moved

app    == <<registry, where, held, mapped>>
signal == <<invalid, pending, ignored, patched>>
locks  == <<cooled, tcsLock, tcLock, regLock>>
meet   == <<width, arrived>>
loop   == <<todo, sent, retries, success>>
pins   == <<pinned, moved>>
vars   == <<setting, app, pc, ret, status, signal, locks, meet, loop, pins>>

Caller    == setting.caller      \* those that call with_barrier (the runtime's own
                                 \* thread, users of localize_structure)
Transient == setting.transient   \* those that may exit and be created again
Prompt    == setting.prompt      \* a signal is delivered within the 1 ms between
                                 \* two passes
MaxRetries == setting.retries    \* passes of the signalling loop (1000 in the code)

CallerPCs  == {"stamp", "tcs", "locks", "begin", "patch", "signal", "release"}
HandlerPCs == {"join", "joining", "joined", "leave", "leaving", "unpin",
               "ignore", "restore"}
PCs == {"app", "unpatch", "killed"} \cup CallerPCs \cup HandlerPCs

TypeOK ==
  /\ setting \in Settings
  /\ registry \subseteq Thread
  /\ where   \in [Thread -> {"managed", "poll", "library", "heap"}]
  /\ held    \in [Thread -> SUBSET Handle]
  /\ mapped  \subseteq Thread
  /\ pc      \in [Thread -> PCs]
  /\ ret     \in [Thread -> PCs]
  /\ status  \in [Thread -> {"notjoined", "signal", "safepoint",
                             "orchestrator", "abort"}]
  /\ invalid \in [Thread -> BOOLEAN]
  /\ pending \in [Thread -> BOOLEAN]
  /\ ignored \in BOOLEAN /\ patched \in BOOLEAN /\ cooled \in BOOLEAN
  /\ tcsLock \in Thread \cup {None}
  /\ tcLock  \in [Thread -> Thread \cup {None}]
  /\ regLock \in Thread \cup {None}
  /\ width   \in 0 .. Cardinality(Thread)
  /\ arrived \subseteq Thread
  /\ todo    \subseteq Thread
  /\ sent    \in BOOLEAN /\ success \in BOOLEAN
  /\ retries \in 0 .. MaxRetries
  /\ pinned  \subseteq Handle
  /\ moved   \subseteq Handle

Init ==
  /\ setting \in Settings
  /\ registry = Thread \ Transient
  /\ where   = [t \in Thread |-> "library"]
  /\ held    = [t \in Thread |-> {}]
  /\ mapped  = {}
  /\ pc      = [t \in Thread |-> "app"]
  /\ ret     = [t \in Thread |-> "app"]
  /\ status  = [t \in Thread |-> "signal"]
  /\ invalid = [t \in Thread |-> FALSE]
  /\ pending = [t \in Thread |-> FALSE]
  /\ ignored = FALSE /\ patched = FALSE /\ cooled = TRUE
  /\ tcsLock = None /\ regLock = None
  /\ tcLock  = [t \in Thread |-> None]
  /\ width   = 0 /\ arrived = {}
  /\ todo    = {} /\ sent = FALSE /\ retries = 0 /\ success = FALSE
  /\ pinned  = {} /\ moved = {}

-----------------------------------------------------------------------------
(***************************************************************************)
(* Helpers.                                                                *)
(***************************************************************************)

Alive == \A t \in Thread : pc[t] # "killed"

At(t, l)   == Alive /\ pc[t] = l
Goto(t, l) == pc' = [pc EXCEPT ![t] = l]

\* Running its own code, outside with_barrier and the handler.
In(t, code) == At(t, "app") /\ t \in registry /\ where[t] = code

\* get_pinned_handles: the stack walk finds the pin set of every frame whose pc
\* is in pin_map, and those are the polls.  The return address of a call, whose
\* own record parse_stack_map leaves out, is one only where a poll is the next
\* instruction; code interrupted between polls is not there.
InCall(t) == where[t] \in {"library", "heap"}
PinSet(t) == IF where[t] = "poll" \/ (InCall(t) /\ t \in mapped) THEN held[t] ELSE {}

\* pthread_barrier_wait: t arrives, and waits at l; the last of width threads
\* sends everybody on to next.
Wait(t, l, next) ==
  LET here == arrived \cup {t}
  IN  IF Cardinality(here) = width
      THEN /\ arrived' = {}
           /\ pc' = [u \in Thread |-> IF u \in here THEN next ELSE pc[u]]
      ELSE /\ arrived' = here
           /\ Goto(t, l)

-----------------------------------------------------------------------------
(***************************************************************************)
(* The program, as far as the barrier can tell.                            *)
(***************************************************************************)

\* Managed code translates a handle and keeps the raw pointer, or is done
\* with it.
Translate(t) ==
  /\ In(t, "managed")
  /\ \E h \in Handle : held' = [held EXCEPT ![t] = @ \cup {h}]
  /\ UNCHANGED <<registry, where, mapped, pc, ret, status, signal, locks, meet, loop,
                 pins>>

Drop(t) ==
  /\ In(t, "managed")
  /\ \E h \in held[t] : held' = [held EXCEPT ![t] = @ \ {h}]
  /\ UNCHANGED <<registry, where, mapped, pc, ret, status, signal, locks, meet, loop,
                 pins>>

MoveTo(t, code) ==
  /\ where' = [where EXCEPT ![t] = code]
  /\ UNCHANGED <<registry, held, pc, ret, status, signal, meet, loop, pins>>
InPlace == UNCHANGED <<mapped, locks>>

\* A poll is a nop unless it is patched.
ReachPoll(t) == In(t, "managed") /\ MoveTo(t, "poll") /\ InPlace
PassPoll(t)  == In(t, "poll") /\ ~patched /\ MoveTo(t, "managed") /\ InPlace

\* Some calls have a poll as their next instruction, others do not.
CallOut(t) ==
  /\ In(t, "managed")
  /\ MoveTo(t, "library")
  /\ mapped' \in {mapped, mapped \cup {t}}
  /\ UNCHANGED locks

Return(t) ==
  /\ In(t, "library")
  /\ MoveTo(t, IF t \in mapped THEN "poll" ELSE "managed")
  /\ mapped' = mapped \ {t}
  /\ UNCHANGED locks

\* Mutant of EnterHeap: the lock is not taken.
EnterUnlocked(t) ==
  /\ In(t, "library")
  /\ MoveTo(t, "heap")
  /\ InPlace

\* halloc, hfree and hrealloc run under the lock of the thread's own cache.
EnterHeap(t) ==
  /\ In(t, "library") /\ tcLock[t] = None
  /\ tcLock' = [tcLock EXCEPT ![t] = t]
  /\ MoveTo(t, "heap")
  /\ UNCHANGED <<mapped, cooled, tcsLock, regLock>>

LeaveHeap(t) ==
  /\ In(t, "heap")
  /\ tcLock' = [tcLock EXCEPT ![t] = None]
  /\ MoveTo(t, "library")
  /\ UNCHANGED <<mapped, cooled, tcsLock, regLock>>

\* alaska_pthread_trampoline: join() before the thread's own code ...
JoinRegistry(t) ==
  /\ At(t, "app") /\ t \in Transient \ registry /\ regLock = None
  /\ registry' = registry \cup {t}
  /\ UNCHANGED <<where, held, mapped, pc, ret, status, signal, locks, meet, loop,
                 pins>>

\* ... and leave() after it.
LeaveRegistry(t) ==
  /\ In(t, "library") /\ t \in Transient /\ held[t] = {} /\ regLock = None
  /\ registry' = registry \ {t}
  /\ pending' = [pending EXCEPT ![t] = FALSE]
  /\ invalid' = [invalid EXCEPT ![t] = FALSE]
  /\ UNCHANGED <<where, held, mapped, pc, ret, status, ignored, patched, locks, meet,
                 loop, pins>>

-----------------------------------------------------------------------------
(***************************************************************************)
(* The caller: with_barrier, begin() and end().                            *)
(***************************************************************************)

\* 250 ms pass.  Assumed: by then the last round is over for every thread.
Tick ==
  /\ \A t \in Thread : At(t, "app")
  /\ cooled' = TRUE
  /\ UNCHANGED <<app, pc, ret, status, signal, tcsLock, tcLock, regLock, meet,
                 loop, pins>>

\* with_barrier reads last_barrier_time ...
CheckInterval(t) ==
  /\ t \in Caller /\ In(t, "library") /\ cooled
  /\ Goto(t, "stamp")
  /\ UNCHANGED <<app, ret, status, signal, locks, meet, loop, pins>>

\* ... and writes it, with no lock held.
Stamp(t) ==
  /\ At(t, "stamp")
  /\ cooled' = FALSE
  /\ Goto(t, "tcs")
  /\ UNCHANGED <<app, ret, status, signal, tcsLock, tcLock, regLock, meet,
                 loop, pins>>

\* lock_all_thread_caches.
LockTcs(t) ==
  /\ At(t, "tcs") /\ tcsLock = None
  /\ tcsLock' = t
  /\ Goto(t, "locks")
  /\ UNCHANGED <<app, ret, status, signal, cooled, tcLock, regLock, meet, loop,
                 pins>>

\* One after the other, in the order of the set of thread caches.
LockTc(t) ==
  /\ At(t, "locks")
  /\ \E u \in Thread :
       /\ u = CHOOSE v \in Thread : tcLock[v] # t
       /\ tcLock[u] = None
       /\ tcLock' = [tcLock EXCEPT ![u] = t]
       /\ Goto(t, IF \A v \in Thread : tcLock'[v] = t THEN "begin"
                                                     ELSE "locks")
  /\ UNCHANGED <<app, ret, status, signal, cooled, tcsLock, regLock, meet,
                 loop, pins>>

\* The number of threads the_barrier waits for.  (Mutant: the caller is not
\* counted.)
OtherThreads == Cardinality(registry) - 1
NumThreads   == Cardinality(registry)

\* begin(): with the registry locked, everybody is marked as not joined and
\* the_barrier is resized to the number of threads.
Begin(t) ==
  /\ At(t, "begin") /\ regLock = None
  /\ regLock' = t
  /\ status' = [u \in Thread |-> IF u = t THEN "orchestrator"
                                 ELSE IF u \in registry THEN "notjoined"
                                 ELSE status[u]]
  /\ width' = NumThreads
  /\ Goto(t, "patch")
  /\ UNCHANGED <<app, ret, signal, cooled, tcsLock, tcLock, arrived, loop,
                 pins>>

\* patchSignal.
Patch(t) ==
  /\ At(t, "patch")
  /\ patched' = TRUE
  /\ todo' = registry /\ sent' = FALSE /\ retries' = 1 /\ success' = TRUE
  /\ Goto(t, "signal")
  /\ UNCHANGED <<app, ret, status, invalid, pending, ignored, locks, meet,
                 pins>>

\* Whether begin() can still succeed once it has looked at u.  (Mutant: an
\* abort is overlooked.)
AbortMissed(u) == success
StillGood(u)   == success /\ status[u] # "abort"

\* One thread of one pass: signal it if it has not joined, give up moving
\* anything if it could not stop in a state the stack maps describe.
Signal(t) ==
  /\ At(t, "signal")
  /\ \E u \in todo :
       /\ todo' = todo \ {u}
       /\ sent' = (sent \/ status[u] = "notjoined")
       /\ success' = StillGood(u)
       /\ pending' = [pending EXCEPT
                        ![u] = @ \/ (status[u] = "notjoined" /\ ~ignored)]
  /\ UNCHANGED <<app, pc, ret, status, invalid, ignored, patched, locks, meet,
                 retries, pins>>

\* Whether begin() makes another pass.  (Mutants: one too many; never.)
OnePassMore == retries <= MaxRetries
OnePassOnly == FALSE
MayRetry    == retries < MaxRetries

\* The end of a pass: done if everybody has joined, or if the retries are used
\* up, after which begin() waits for the others all the same.
EndPass(t) ==
  /\ At(t, "signal") /\ todo = {}
  /\ IF sent /\ MayRetry
     THEN /\ Prompt => \A u \in Thread : ~pending[u] \/ pc[u] \in HandlerPCs
          /\ todo' = registry /\ sent' = FALSE /\ retries' = retries + 1
          /\ UNCHANGED <<pc, success>>
     ELSE /\ success' = (success /\ ~sent)
          /\ Goto(t, "join")
          /\ UNCHANGED <<todo, sent, retries>>
  /\ UNCHANGED <<app, ret, status, signal, locks, meet, pins>>

\* What the callback may move.  (Mutant: begin()'s failure ignored.)
MovableAlways == SUBSET (Handle \ pinned)
Movable       == IF success THEN SUBSET (Handle \ pinned) ELSE {{}}

\* with_barrier's callback, skipped if begin() failed: any unpinned objects
\* may move.
Callback(t) ==
  /\ At(t, "joined") /\ tcsLock = t
  /\ moved' \in Movable
  /\ Goto(t, "unpatch")
  /\ UNCHANGED <<app, ret, status, signal, locks, meet, loop, pinned>>

\* patchNop.  (Mutant: the polls stay patched.)
PatchLeft == UNCHANGED patched
PatchNop  == patched' = FALSE

\* end() starts with it.
Unpatch(t) ==
  /\ At(t, "unpatch")
  /\ PatchNop
  /\ moved' = {}
  /\ Goto(t, "leave")
  /\ UNCHANGED <<app, ret, status, invalid, pending, ignored, locks, meet,
                 loop, pinned>>

\* end() and with_barrier release everything begin() and lock_all took.
Release(t) ==
  /\ At(t, "release")
  /\ regLock' = None /\ tcsLock' = None
  /\ tcLock' = [u \in Thread |-> None]
  /\ Goto(t, "app")
  /\ UNCHANGED <<app, ret, status, signal, cooled, meet, loop, pins>>

-----------------------------------------------------------------------------
(***************************************************************************)
(* The signal handler, and what caller and participants share.             *)
(***************************************************************************)

\* t enters the handler's tail with the given join reason.
Enter(t, reason) ==
  /\ status'  = [status  EXCEPT ![t] = reason]
  /\ invalid' = [invalid EXCEPT ![t] = FALSE]
  /\ ret' = [ret EXCEPT ![t] = pc[t]]
  /\ Goto(t, "join")

\* SIGUSR2.  In managed code away from a poll the first signal is only noted,
\* so that the thread can run into a poll; the second one aborts the barrier.
Deliver(t) ==
  /\ Alive /\ pending[t] /\ ~ignored /\ pc[t] \notin HandlerPCs
  /\ pending' = [pending EXCEPT ![t] = FALSE]
  /\ IF where[t] = "managed" /\ ~invalid[t]
     THEN /\ invalid' = [invalid EXCEPT ![t] = TRUE]
          /\ UNCHANGED <<pc, ret, status>>
     ELSE Enter(t, CASE where[t] = "managed" -> "abort"
                     [] where[t] = "poll"    -> "safepoint"
                     [] OTHER                -> "signal")
  /\ UNCHANGED <<app, ignored, patched, locks, meet, loop, pins>>

\* A patched poll raises SIGILL; if that is being ignored the kernel kills
\* the process.
Trap(t) ==
  /\ In(t, "poll") /\ patched
  /\ IF ignored THEN Goto(t, "killed") /\ UNCHANGED <<status, invalid, ret>>
                ELSE Enter(t, "safepoint")
  /\ UNCHANGED <<app, pending, ignored, patched, locks, meet, loop, pins>>

\* participant_join: pin, then wait until everybody has.  A thread that is
\* alone does not wait.
Join(t) ==
  /\ At(t, "join")
  /\ pinned' = pinned \cup PinSet(t)
  /\ IF Cardinality(registry) > 1
     THEN Wait(t, "joining", "joined")
     ELSE Goto(t, "joined") /\ UNCHANGED arrived
  /\ UNCHANGED <<app, ret, status, signal, locks, width, loop, moved>>

\* participant_leave: wait until everybody leaves ...
Leave(t) ==
  /\ \/ At(t, "joined") /\ tcsLock # t
     \/ At(t, "leave")
  /\ IF Cardinality(registry) > 1
     THEN Wait(t, "leaving", "unpin")
     ELSE Goto(t, "unpin") /\ UNCHANGED arrived
  /\ UNCHANGED <<app, ret, status, signal, locks, width, loop, pins>>

\* ... and only then unpin what this thread had pinned.
Unpin(t) ==
  /\ At(t, "unpin")
  /\ pinned' = pinned \ PinSet(t)
  /\ Goto(t, IF tcsLock = t THEN "release" ELSE "ignore")
  /\ UNCHANGED <<app, ret, status, signal, locks, meet, loop, moved>>

\* clear_pending_signals: ignoring the signals discards those that are
\* pending, in every thread ...  (Mutant: they survive.)
PendingKept      == UNCHANGED pending
PendingDiscarded == pending' = [u \in Thread |-> FALSE]

Ignore(t) ==
  /\ At(t, "ignore")
  /\ ignored' = TRUE
  /\ PendingDiscarded
  /\ Goto(t, "restore")
  /\ UNCHANGED <<app, ret, status, invalid, patched, locks, meet, loop, pins>>

\* ... then the handler is installed again, and returns.
Restore(t) ==
  /\ At(t, "restore")
  /\ ignored' = FALSE
  /\ Goto(t, ret[t])
  /\ UNCHANGED <<app, ret, status, invalid, pending, patched, locks, meet,
                 loop, pins>>

-----------------------------------------------------------------------------
Program(t) ==
  \/ Translate(t) \/ Drop(t)
  \/ ReachPoll(t) \/ PassPoll(t) \/ CallOut(t) \/ Return(t)
  \/ EnterHeap(t) \/ JoinRegistry(t) \/ LeaveRegistry(t)
  \/ CheckInterval(t)

\* What the runtime does in a thread.
RuntimeStep(t) ==
  \/ LeaveHeap(t)
  \/ Stamp(t) \/ LockTcs(t) \/ LockTc(t) \/ Begin(t) \/ Patch(t)
  \/ Signal(t) \/ EndPass(t) \/ Callback(t) \/ Unpatch(t) \/ Release(t)
  \/ Join(t) \/ Leave(t) \/ Unpin(t) \/ Ignore(t) \/ Restore(t)

Next ==
  /\ UNCHANGED setting
  /\ \/ Tick
     \/ \E t \in Thread :
          Program(t) \/ RuntimeStep(t) \/ Deliver(t) \/ Trap(t)

Spec == Init /\ [][Next]_vars

\* Threads inside the runtime are scheduled, a patched poll traps and a
\* pending signal is delivered, whichever comes first.  Nothing is assumed of
\* the program: it may stay in a library call, or in managed code, for ever.
Progress(t) == UNCHANGED setting /\ (RuntimeStep(t) \/ Trap(t) \/ Deliver(t))
FairSpec    == Spec /\ \A t \in Thread : WF_vars(Progress(t))

-----------------------------------------------------------------------------
(***************************************************************************)
(* Properties.                                                             *)
(***************************************************************************)

\* The world is stopped for t's callback.
Stopped(t) == tcsLock = t /\ pc[t] \in {"joined", "unpatch"}

\* While the callback may move objects every other thread that could hold a
\* translation waits in the handler.
WorldStopped ==
  \A t \in Thread : Stopped(t) =>
    \A u \in registry \ {t} : pc[u] \in {"joined", "leaving"}

\* ... and no thread is in the middle of halloc, hfree or hrealloc, not even
\* one the signal interrupted: pages, free lists and headers are consistent
\* when compaction walks them.
HeapQuiescent ==
  \A t \in Thread : Stopped(t) => \A u \in Thread : where[u] # "heap"

\* The thread is in a call whose return address pin_map does not know: nothing
\* can be said of what it holds (see BeginMarksPins).
Unmapped(t) == InCall(t) /\ t \notin mapped

\* An object never moves while a thread holds a raw pointer to it in a frame the
\* runtime can find, at a poll or in a call before one, or in managed code that no
\* poll has stopped; even though rounds of several callers may follow each other
\* at once and a pin is one bit, which a thread that is late to unpin takes away
\* from the others: the patched poll it comes to makes it pin again.
MovedNotHeld == \A t \in Thread : Unmapped(t) \/ moved \cap held[t] = {}

\* BarrierManager.hpp:17-18: "when `::begin()` returns, all pinned handles
\* must be marked as such".
BeginMarks(T) ==
  \A t \in Thread : pc[t] = "joined" /\ tcsLock = t /\ success =>
    \A u \in T : held[u] \subseteq pinned
BeginMarksPins == BeginMarks(Thread)

\* The same of the threads whose pins a stack walk can find.
FoundPinsMarked == BeginMarks({t \in Thread : ~Unmapped(t)})

\* The two waits of a round use one pthread barrier.  Threads that meet there
\* are in the same wait of the same round: a thread that joined because of a
\* signal left over from an earlier round would be counted in for another.
\* Nobody is drawn into a handler outside a round, or twice in one round, and
\* the caller is never signalled itself.
RoundsSeparate ==
  /\ arrived # {} => regLock # None
  /\ arrived \subseteq registry
  /\ \A t, u \in arrived : pc[t] = pc[u]
  /\ \A t \in Thread : pc[t] \in {"join", "joining"} =>
       /\ regLock # None
       /\ t \in registry
       /\ tcsLock = t \/ status[t] \in {"signal", "safepoint", "abort"}
       /\ \A u \in Thread : Stopped(u) => u = t

\* A poll never traps while SIGILL is ignored, as long as the callers of
\* with_barrier do not overlap.
OneCaller == Cardinality(Caller) <= 1
NotKilled == OneCaller => Alive

\* Once a caller has every lock, its round ends, for it and for everybody it drew
\* in, where signals are prompt.  (Getting the locks is another matter: a mutex
\* promises no thread its turn, and a thread that keeps allocating can keep the
\* caller waiting.)
Outside   == {"app", "stamp", "tcs", "locks"}
RoundEnds ==
  Prompt /\ (\E t \in Thread : pc[t] \notin Outside)
    ~> \A t \in Thread : pc[t] \in Outside
=============================================================================
