---------------------------- MODULE BarrierProofs ---------------------------
(***************************************************************************)
(* Proofs about Barrier, for any number of threads and callers, any number *)
(* of passes and any program.                                              *)
(*                                                                         *)
(* The invariant follows a round through its phases, which the caller's    *)
(* program counter tells: while the threads gather, while they are         *)
(* stopped, and when the caller is on its way out.  pthread_barrier_wait   *)
(* lets nobody go before as many have arrived as are registered, which     *)
(* makes the phases those of everybody in the registry.  A second          *)
(* invariant says what is pinned in them, whoever is late to unpin.        *)
(***************************************************************************)
EXTENDS Barrier, FiniteSetTheorems, TLAPS

\* Where a thread is that takes no part in a round.
AwayPCs   == {"app", "stamp", "tcs", "unpin", "ignore", "restore", "killed"}
\* Where a caller is that has tcs_lock: before its round ...
BeforePCs == {"locks", "begin"}
\* ... and in it.
GatherPCs == {"patch", "signal", "join", "joining"}
StopPCs   == {"joined", "unpatch", "leave", "leaving"}
EndPCs    == {"unpin", "release"}
OwnerPCs  == GatherPCs \cup StopPCs \cup EndPCs

\* What a caller's program counter says of the locks it has, and who else is at
\* work under a thread cache's lock.
LocksOK ==
  /\ regLock # None => tcsLock = regLock
  /\ tcsLock # None =>
       /\ pc[tcsLock] \in BeforePCs \cup OwnerPCs
       /\ pc[tcsLock] \in OwnerPCs <=> regLock = tcsLock
       /\ pc[tcsLock] # "locks" => \A u \in Thread : tcLock[u] = tcsLock
  /\ \A t \in Thread :
       /\ pc[t] \in BeforePCs \cup {"patch", "signal", "unpatch", "leave", "release"}
            => tcsLock = t
       /\ where[t] = "heap" => tcLock[t] = t

\* Where a thread was when the handler interrupted it.
InterruptOK ==
  \A t \in Thread :
    /\ pc[t] \in HandlerPCs /\ tcsLock # t => ret[t] \in {"app", "stamp", "tcs"}
    /\ pc[t] # "app" => t \in registry
    /\ \/ tcsLock = t \/ pc[t] \in {"stamp", "tcs"}
       \/ pc[t] \in HandlerPCs /\ ret[t] # "app"
       => where[t] = "library"

\* While the threads gather each of them has joined this round or is still
\* expected to: it is a thread's own step that changes its status.
Joined(t)   == /\ pc[t] \in {"join", "joining"}
               /\ status[t] \in {"signal", "safepoint", "abort"}
Expected(t) == /\ pc[t] \in AwayPCs
               /\ t \in registry <=> status[t] = "notjoined"

Gathering == \A t \in Thread \ {regLock} : Joined(t) \/ Expected(t)
AllStopped ==
  \A t \in Thread \ {regLock} :
    status[t] # "notjoined" /\ (t \in registry => pc[t] \in {"joined", "leaving"})
AllGone ==
  \A t \in Thread \ {regLock} : status[t] # "notjoined" /\ pc[t] \in AwayPCs

\* The phases of a round, and what is true when there is none.
PhaseOK ==
  /\ arrived = {t \in Thread : pc[t] \in {"joining", "leaving"}}
  /\ regLock = None =>
       \A t \in Thread : status[t] # "notjoined" /\ pc[t] \in AwayPCs \cup BeforePCs
  /\ regLock # None =>
       /\ width = Cardinality(registry)
       /\ status[regLock] # "notjoined"
       /\ pc[regLock] \in GatherPCs => Gathering
       /\ pc[regLock] \in StopPCs => AllStopped
       /\ pc[regLock] \in EndPCs => AllGone

\* A signal that is pending was sent in this round to a thread that has not
\* joined it, or will be discarded before the thread leaves the handler.
PendingOK ==
  \A t \in Thread : pending[t] =>
    status[t] = "notjoined" \/ (pc[t] \in HandlerPCs \ {"restore"} /\ tcsLock # t)

PatchedOK ==
  patched => /\ regLock # None
             /\ pc[regLock] \in {"signal", "join", "joining", "joined", "unpatch"}

IInv == LocksOK /\ InterruptOK /\ PhaseOK /\ PendingOK /\ PatchedOK

USE DEF PCs, CallerPCs, HandlerPCs, AwayPCs, BeforePCs, GatherPCs, StopPCs, EndPCs,
        OwnerPCs, MaxRetries, app, signal, locks, meet, loop, pins, At, In, Goto, Alive

-----------------------------------------------------------------------------
(***************************************************************************)
(* Types.                                                                  *)
(***************************************************************************)

\* What the assumption on Settings says of the number of passes.
LEMMA RetriesType ==
  ASSUME setting \in Settings
  PROVE  setting.retries \in Nat \ {0}
<1>1. setting \in [caller : SUBSET Thread, transient : SUBSET Thread,
                   prompt : BOOLEAN, retries : Nat \ {0}]
  BY ThreadAssumption
<1> QED
  BY <1>1

\* The initial state is of the types TypeOK names.
LEMMA TypeInit == Init => TypeOK
<1> SUFFICES ASSUME Init PROVE TypeOK
  OBVIOUS
<1>1. Cardinality(Thread) \in Nat
  BY FS_CardinalityType, ThreadAssumption
<1>2. setting.retries \in Nat \ {0}
  BY RetriesType DEF Init
<1>3. retries \in 0 .. MaxRetries /\ width \in 0 .. Cardinality(Thread)
  BY <1>1, <1>2 DEF Init
<1>4. /\ where \in [Thread -> {"managed", "poll", "library", "heap"}]
      /\ held \in [Thread -> SUBSET Handle]
      /\ tcLock \in [Thread -> Thread \cup {None}]
  BY DEF Init
<1>5. /\ pc \in [Thread -> PCs] /\ ret \in [Thread -> PCs]
      /\ status \in [Thread -> {"notjoined", "signal", "safepoint", "orchestrator",
                                "abort"}]
      /\ invalid \in [Thread -> BOOLEAN] /\ pending \in [Thread -> BOOLEAN]
  BY DEF Init
<1> QED
  BY <1>3, <1>4, <1>5 DEF Init, TypeOK

\* Every step keeps the types.
LEMMA TypeStep == TypeOK /\ [Next]_vars => TypeOK'
<1> SUFFICES ASSUME TypeOK, [Next]_vars PROVE TypeOK'
  OBVIOUS
<1> USE DEF TypeOK
<1>1. ASSUME UNCHANGED setting, Tick PROVE TypeOK'
  BY <1>1 DEF Tick
<1>2. CASE UNCHANGED vars
  BY <1>2 DEF vars
<1>3. ASSUME UNCHANGED setting, NEW t \in Thread, Program(t) PROVE TypeOK'
  <2>1. CASE Translate(t)
    BY <1>3, <2>1 DEF Translate
  <2>2. CASE Drop(t)
    BY <1>3, <2>2 DEF Drop
  <2>3. CASE ReachPoll(t)
    BY <1>3, <2>3 DEF ReachPoll, MoveTo, InPlace
  <2>4. CASE PassPoll(t)
    BY <1>3, <2>4 DEF PassPoll, MoveTo, InPlace
  <2>5. CASE CallOut(t)
    BY <1>3, <2>5 DEF CallOut, MoveTo
  <2>6. CASE Return(t)
    BY <1>3, <2>6 DEF Return, MoveTo
  <2>7. CASE EnterHeap(t)
    BY <1>3, <2>7 DEF EnterHeap, MoveTo
  <2>8. CASE JoinRegistry(t)
    BY <1>3, <2>8 DEF JoinRegistry, Transient
  <2>9. CASE LeaveRegistry(t)
    BY <1>3, <2>9 DEF LeaveRegistry, Transient
  <2>10. CASE CheckInterval(t)
    BY <1>3, <2>10 DEF CheckInterval, Caller
  <2> QED
    BY <1>3, <2>1, <2>2, <2>3, <2>4, <2>5, <2>6, <2>7, <2>8, <2>9, <2>10 DEF Program
<1>4. ASSUME UNCHANGED setting, NEW t \in Thread, RuntimeStep(t) PROVE TypeOK'
  <2>1. CASE LeaveHeap(t)
    BY <1>4, <2>1 DEF LeaveHeap, MoveTo
  <2>2. CASE Stamp(t)
    BY <1>4, <2>2 DEF Stamp
  <2>3. CASE LockTcs(t)
    BY <1>4, <2>3 DEF LockTcs
  <2>4. CASE LockTc(t)
    BY <1>4, <2>4 DEF LockTc
  <2>5. CASE Begin(t)
    <3>1. Cardinality(registry) \in 0 .. Cardinality(Thread)
      BY FS_Subset, FS_CardinalityType, ThreadAssumption
    <3> QED
      BY <1>4, <2>5, <3>1 DEF Begin, NumThreads
  <2>6. CASE Patch(t)
    <3>1. setting.retries \in Nat \ {0}
      BY RetriesType
    <3>2. retries' \in 0 .. MaxRetries'
      BY <1>4, <2>6, <3>1 DEF Patch
    <3> QED
      BY <1>4, <2>6, <3>2 DEF Patch
  <2>7. CASE Signal(t)
    BY <1>4, <2>7 DEF Signal, StillGood
  <2>8. CASE EndPass(t)
    <3>1. setting.retries \in Nat \ {0}
      BY RetriesType
    <3>2. retries' \in 0 .. MaxRetries'
      BY <1>4, <2>8, <3>1 DEF EndPass, MayRetry
    <3> QED
      BY <1>4, <2>8, <3>2 DEF EndPass, MayRetry
  <2>9. CASE Callback(t)
    BY <1>4, <2>9 DEF Callback, Movable
  <2>10. CASE Unpatch(t)
    BY <1>4, <2>10 DEF Unpatch, PatchNop
  <2>11. CASE Release(t)
    BY <1>4, <2>11 DEF Release
  <2>12. CASE Join(t)
    BY <1>4, <2>12 DEF Join, Wait, PinSet
  <2>13. CASE Leave(t)
    BY <1>4, <2>13 DEF Leave, Wait
  <2>14. CASE Unpin(t)
    BY <1>4, <2>14 DEF Unpin, PinSet
  <2>15. CASE Ignore(t)
    BY <1>4, <2>15 DEF Ignore, PendingDiscarded
  <2>16. CASE Restore(t)
    BY <1>4, <2>16 DEF Restore
  <2> QED
    BY <1>4, <2>1, <2>2, <2>3, <2>4, <2>5, <2>6, <2>7, <2>8, <2>9, <2>10, <2>11,
       <2>12, <2>13, <2>14, <2>15, <2>16 DEF RuntimeStep
<1>5. ASSUME UNCHANGED setting, NEW t \in Thread, Deliver(t) PROVE TypeOK'
  BY <1>5 DEF Deliver, Enter
<1>6. ASSUME UNCHANGED setting, NEW t \in Thread, Trap(t) PROVE TypeOK'
  BY <1>6 DEF Trap, Enter
<1> QED
  BY <1>1, <1>2, <1>3, <1>4, <1>5, <1>6 DEF Next

\* Types of Barrier for any number of threads.
THEOREM TypeCorrect == Spec => []TypeOK
<1> QED
  BY TypeInit, TypeStep, PTL DEF Spec

-----------------------------------------------------------------------------
(***************************************************************************)
(* The phases, one lemma per kind of step.                                 *)
(***************************************************************************)

\* Between rounds, which is how the runtime starts, the phases are trivial.
LEMMA InvInit == Init => IInv
BY ThreadAssumption
DEF Init, IInv, LocksOK, InterruptOK, PhaseOK, PendingOK, PatchedOK

USE DEF TypeOK, IInv, LocksOK, InterruptOK, PhaseOK, Gathering, AllStopped, AllGone,
        Joined, Expected, PendingOK, PatchedOK

\* The program's own steps, outside a round or before it: a thread changes what it
\* holds, where it is, and its own cache's lock.
LEMMA ProgramRuns ==
  ASSUME TypeOK, IInv, NEW t \in Thread,
         Translate(t) \/ Drop(t) \/ ReachPoll(t) \/ PassPoll(t) \/ CallOut(t) \/
         Return(t) \/ EnterHeap(t) \/ LeaveHeap(t)
  PROVE  IInv'
<1>1. CASE Translate(t)
  BY <1>1, ThreadAssumption DEF Translate
<1>2. CASE Drop(t)
  BY <1>2, ThreadAssumption DEF Drop
<1>3. CASE ReachPoll(t)
  BY <1>3, ThreadAssumption DEF ReachPoll, MoveTo, InPlace
<1>4. CASE PassPoll(t)
  BY <1>4, ThreadAssumption DEF PassPoll, MoveTo, InPlace
<1>5. CASE CallOut(t)
  BY <1>5, ThreadAssumption DEF CallOut, MoveTo
<1>6. CASE Return(t)
  BY <1>6, ThreadAssumption DEF Return, MoveTo
<1>7. CASE EnterHeap(t)
  BY <1>7, ThreadAssumption DEF EnterHeap, MoveTo
<1>8. CASE LeaveHeap(t)
  BY <1>8, ThreadAssumption DEF LeaveHeap, MoveTo
<1> QED
  BY <1>1, <1>2, <1>3, <1>4, <1>5, <1>6, <1>7, <1>8

\* The registry changes only while no caller has its lock.
LEMMA RegistryChanges ==
  ASSUME TypeOK, IInv, NEW t \in Thread,
         JoinRegistry(t) \/ LeaveRegistry(t)
  PROVE  IInv'
<1>1. CASE JoinRegistry(t)
  BY <1>1, ThreadAssumption DEF JoinRegistry, Transient
<1>2. CASE LeaveRegistry(t)
  BY <1>2, ThreadAssumption DEF LeaveRegistry, Transient
<1> QED
  BY <1>1, <1>2

\* A caller on its way to the locks.
LEMMA CallerComes ==
  ASSUME TypeOK, IInv, NEW t \in Thread,
         CheckInterval(t) \/ Stamp(t) \/ LockTcs(t)
  PROVE  IInv'
<1>1. CASE CheckInterval(t)
  BY <1>1, ThreadAssumption DEF CheckInterval, Caller
<1>2. CASE Stamp(t)
  BY <1>2, ThreadAssumption DEF Stamp
<1>3. CASE LockTcs(t)
  BY <1>3, ThreadAssumption DEF LockTcs
<1> QED
  BY <1>1, <1>2, <1>3

\* A caller takes the locks of all thread caches, and has them all when it goes on.
LEMMA LockTaken ==
  ASSUME TypeOK, IInv, NEW t \in Thread, LockTc(t)
  PROVE  IInv'
<1>1. tcsLock = t /\ regLock = None
  BY ThreadAssumption DEF LockTc
<1>2. PICK u \in Thread :
        /\ tcLock[u] = None
        /\ tcLock' = [tcLock EXCEPT ![u] = t]
        /\ Goto(t, IF \A v \in Thread : tcLock'[v] = t THEN "begin" ELSE "locks")
  BY DEF LockTc
<1>3. LocksOK'
  <2>1. regLock' = None /\ tcsLock' = t /\ where' = where
    BY <1>1 DEF LockTc
  <2>2. pc'[t] \in {"locks", "begin"}
    BY <1>2
  <2>3. pc'[t] # "locks" => \A v \in Thread : tcLock'[v] = t
    BY <1>2
  <2>4. \A v \in Thread : where[v] = "heap" => tcLock'[v] = v
    BY <1>2, ThreadAssumption
  <2>5. \A v \in Thread \ {t} : pc'[v] = pc[v]
    BY <1>2
  <2> QED
    BY <1>1, <2>1, <2>2, <2>3, <2>4, <2>5, ThreadAssumption
<1>4. InterruptOK'
  BY <1>1, <1>2, ThreadAssumption DEF LockTc
<1>5. PhaseOK' /\ PendingOK' /\ PatchedOK'
  BY <1>1, <1>2, ThreadAssumption DEF LockTc
<1> QED BY <1>3, <1>4, <1>5

\* The caller's own steps from the lock of the registry to the release of it.
\* A round begins when everybody else is away, and expects all in the registry.
LEMMA CallerWorks ==
  ASSUME TypeOK, IInv, NEW t \in Thread,
         Begin(t) \/ Patch(t) \/ Signal(t) \/ EndPass(t) \/ Callback(t) \/
         Unpatch(t) \/ Release(t)
  PROVE  IInv'
<1>1. CASE Begin(t)
  BY <1>1, ThreadAssumption DEF Begin, NumThreads
<1>2. CASE Patch(t)
  BY <1>2, ThreadAssumption DEF Patch
<1>3. CASE Signal(t)
  BY <1>3, ThreadAssumption DEF Signal, StillGood
<1>4. CASE EndPass(t)
  BY <1>4, ThreadAssumption DEF EndPass, MayRetry
<1>5. CASE Callback(t)
  BY <1>5, ThreadAssumption DEF Callback, Movable
<1>6. CASE Unpatch(t)
  BY <1>6, ThreadAssumption DEF Unpatch, PatchNop
<1>7. CASE Release(t)
  BY <1>7, ThreadAssumption DEF Release
<1> QED
  BY <1>1, <1>2, <1>3, <1>4, <1>5, <1>6, <1>7

\* A participant unpins and gets rid of signals it need not follow any more.
LEMMA HandlerEnds ==
  ASSUME TypeOK, IInv, NEW t \in Thread,
         Unpin(t) \/ Ignore(t) \/ Restore(t)
  PROVE  IInv'
<1>1. CASE Unpin(t)
  BY <1>1, ThreadAssumption DEF Unpin, PinSet
<1>2. CASE Ignore(t)
  BY <1>2, ThreadAssumption DEF Ignore, PendingDiscarded
<1>3. CASE Restore(t)
  BY <1>3, ThreadAssumption DEF Restore
<1> QED
  BY <1>1, <1>2, <1>3

\* A thread is drawn into the handler.
LEMMA HandlerBegins ==
  ASSUME TypeOK, IInv, NEW t \in Thread,
         Deliver(t) \/ Trap(t)
  PROVE  IInv'
<1>1. CASE Deliver(t)
  BY <1>1, ThreadAssumption DEF Deliver, Enter
<1>2. CASE Trap(t)
  BY <1>2, ThreadAssumption DEF Trap, Enter
<1> QED
  BY <1>1, <1>2

\* Members of the registry that are as many as the registry are all of it.
LEMMA AllArrived ==
  ASSUME TypeOK, NEW S, S \subseteq registry, Cardinality(S) = Cardinality(registry)
  PROVE  S = registry
BY FS_Subset, FS_CardinalityType, ThreadAssumption

\* Two different things are two.
LEMMA TwoElements ==
  ASSUME NEW t, NEW u, t # u
  PROVE  Cardinality({t} \cup {u}) = 2
<1>1. IsFiniteSet({t}) /\ Cardinality({t}) = 1
  BY FS_Singleton
<1>2. u \notin {t}
  OBVIOUS
<1>3. Cardinality({t} \cup {u}) = Cardinality({t}) + 1
  BY <1>1, <1>2, FS_AddElement, Zenon
<1> QED
  BY <1>1, <1>3

\* A registry of one has nobody but the one that looks.
LEMMA SoleMember ==
  ASSUME TypeOK, NEW t \in registry, ~(Cardinality(registry) > 1)
  PROVE  registry = {t}
<1>1. IsFiniteSet(registry)
  BY FS_Subset, ThreadAssumption
<1>2. ASSUME NEW u \in registry, u # t PROVE FALSE
  <2>1. Cardinality({t} \cup {u}) = 2
    BY <1>2, TwoElements
  <2>2. {t} \cup {u} \subseteq registry
    OBVIOUS
  <2>3. Cardinality({t} \cup {u}) <= Cardinality(registry)
    BY <1>1, <2>2, FS_Subset
  <2>4. 2 <= Cardinality(registry) /\ Cardinality(registry) \in Nat
    BY <2>1, <2>3, <1>1, FS_CardinalityType, Zenon
  <2> QED BY <2>4
<1> QED BY <1>2

\* A thread that joins waits, or is the last one and stops the world.
LEMMA Joins ==
  ASSUME TypeOK, IInv, NEW t \in Thread, Join(t)
  PROVE  /\ regLock \in registry /\ tcsLock = regLock /\ t \in registry
         /\ \/ /\ arrived' = arrived \cup {t}
               /\ pc' = [pc EXCEPT ![t] = "joining"]
            \/ /\ arrived' = {}
               /\ pc' = [u \in Thread |-> IF u \in registry THEN "joined" ELSE pc[u]]
               /\ \A u \in registry : pc[u] \in {"join", "joining"}
               /\ pc[regLock] # "joined"
<1>1. regLock \in registry /\ tcsLock = regLock /\ t \in registry
  BY ThreadAssumption DEF Join
<1>2. CASE ~(Cardinality(registry) > 1)
  <2>1. registry = {t}
    BY <1>1, <1>2, SoleMember
  <2>2. arrived = {}
    BY <1>1, <2>1, ThreadAssumption DEF Join
  <2> QED BY <1>1, <1>2, <2>1, <2>2 DEF Join
<1>3. CASE Cardinality(registry) > 1 /\ Cardinality(arrived \cup {t}) # width
  BY <1>1, <1>3 DEF Join, Wait
<1>4. CASE Cardinality(registry) > 1 /\ Cardinality(arrived \cup {t}) = width
  <2>1. arrived \cup {t} \subseteq registry
    BY <1>1, ThreadAssumption
  <2>2. arrived \cup {t} = registry
    BY <1>1, <1>4, <2>1, AllArrived, ThreadAssumption
  <2>3. pc[regLock] # "joined" /\ \A u \in registry : pc[u] \in {"join", "joining"}
    BY <1>1, <2>2, ThreadAssumption DEF Join
  <2> QED BY <1>1, <1>4, <2>2, <2>3 DEF Join, Wait
<1> QED BY <1>2, <1>3, <1>4

\* Joining keeps the phases: the last arrival turns Gathering into AllStopped.
LEMMA ThreadJoins ==
  ASSUME TypeOK, IInv, NEW t \in Thread, Join(t)
  PROVE  IInv'
<1>1. CASE pc' = [pc EXCEPT ![t] = "joining"] /\ arrived' = arrived \cup {t}
  <2>1. LocksOK' /\ InterruptOK'
    BY <1>1, Joins, ThreadAssumption DEF Join
  <2>2. PhaseOK' /\ PendingOK' /\ PatchedOK'
    BY <1>1, Joins, ThreadAssumption DEF Join
  <2> QED BY <2>1, <2>2
<1>2. CASE /\ arrived' = {}
           /\ pc' = [u \in Thread |-> IF u \in registry THEN "joined" ELSE pc[u]]
           /\ \A u \in registry : pc[u] \in {"join", "joining"}
           /\ pc[regLock] # "joined"
  <2>1. /\ regLock \in registry /\ tcsLock = regLock /\ t \in registry
        /\ regLock' = regLock /\ tcsLock' = tcsLock /\ registry' = registry
        /\ status' = status
    BY Joins DEF Join
  <2>2. \A u \in Thread \ registry : pc[u] = "app"
    BY ThreadAssumption
  <2>3. LocksOK'
    BY <1>2, <2>1, <2>2, ThreadAssumption DEF Join
  <2>4. InterruptOK'
    BY <1>2, <2>1, <2>2, ThreadAssumption DEF Join
  <2>5. PhaseOK'
    BY <1>2, <2>1, <2>2, ThreadAssumption DEF Join
  <2>6. PendingOK' /\ PatchedOK'
    BY <1>2, <2>1, <2>2, ThreadAssumption DEF Join
  <2> QED BY <2>3, <2>4, <2>5, <2>6
<1> QED BY <1>1, <1>2, Joins

\* A thread that leaves waits, or is the last one and lets the others go.
LEMMA Leaves ==
  ASSUME TypeOK, IInv, NEW t \in Thread, Leave(t)
  PROVE  /\ regLock \in registry /\ tcsLock = regLock /\ t \in registry
         /\ \/ /\ arrived' = arrived \cup {t}
               /\ pc' = [pc EXCEPT ![t] = "leaving"]
            \/ /\ arrived' = {}
               /\ pc' = [u \in Thread |-> IF u \in registry THEN "unpin" ELSE pc[u]]
               /\ \A u \in registry : pc[u] \in {"joined", "leave", "leaving"}
               /\ pc[regLock] # "joined"
<1>1. regLock \in registry /\ tcsLock = regLock /\ t \in registry
  BY ThreadAssumption DEF Leave
<1>2. CASE ~(Cardinality(registry) > 1)
  <2>1. registry = {t}
    BY <1>1, <1>2, SoleMember
  <2>2. arrived = {}
    BY <1>1, <2>1, ThreadAssumption DEF Leave
  <2> QED BY <1>1, <1>2, <2>1, <2>2 DEF Leave
<1>3. CASE Cardinality(registry) > 1 /\ Cardinality(arrived \cup {t}) # width
  BY <1>1, <1>3 DEF Leave, Wait
<1>4. CASE Cardinality(registry) > 1 /\ Cardinality(arrived \cup {t}) = width
  <2>1. arrived \cup {t} \subseteq registry
    BY <1>1, ThreadAssumption
  <2>2. arrived \cup {t} = registry
    BY <1>1, <1>4, <2>1, AllArrived, ThreadAssumption
  <2>3. pc[regLock] # "joined" /\ \A u \in registry : pc[u] \in {"joined", "leave", "leaving"}
    BY <1>1, <2>2, ThreadAssumption DEF Leave
  <2> QED BY <1>1, <1>4, <2>2, <2>3 DEF Leave, Wait
<1> QED BY <1>2, <1>3, <1>4

\* Leaving keeps the phases: the last one turns AllStopped into AllGone.
LEMMA ThreadLeaves ==
  ASSUME TypeOK, IInv, NEW t \in Thread, Leave(t)
  PROVE  IInv'
<1>1. CASE pc' = [pc EXCEPT ![t] = "leaving"] /\ arrived' = arrived \cup {t}
  <2>1. LocksOK' /\ InterruptOK'
    BY <1>1, Leaves, ThreadAssumption DEF Leave
  <2>2. PhaseOK' /\ PendingOK' /\ PatchedOK'
    BY <1>1, Leaves, ThreadAssumption DEF Leave
  <2> QED BY <2>1, <2>2
<1>2. CASE /\ arrived' = {}
           /\ pc' = [u \in Thread |-> IF u \in registry THEN "unpin" ELSE pc[u]]
           /\ \A u \in registry : pc[u] \in {"joined", "leave", "leaving"}
           /\ pc[regLock] # "joined"
  <2>1. /\ regLock \in registry /\ tcsLock = regLock /\ t \in registry
        /\ regLock' = regLock /\ tcsLock' = tcsLock /\ registry' = registry
        /\ status' = status
    BY Leaves DEF Leave
  <2>2. \A u \in Thread \ registry : pc[u] = "app"
    BY ThreadAssumption
  <2>3. LocksOK'
    BY <1>2, <2>1, <2>2, ThreadAssumption DEF Leave
  <2>4. InterruptOK'
    BY <1>2, <2>1, <2>2, ThreadAssumption DEF Leave
  <2>5. PhaseOK'
    BY <1>2, <2>1, <2>2, ThreadAssumption DEF Leave
  <2>6. PendingOK' /\ PatchedOK'
    BY <1>2, <2>1, <2>2, ThreadAssumption DEF Leave
  <2> QED BY <2>3, <2>4, <2>5, <2>6
<1> QED BY <1>1, <1>2, Leaves

\* Every step keeps the phases.
LEMMA InvStep == TypeOK /\ IInv /\ [Next]_vars => IInv'
<1> SUFFICES ASSUME TypeOK, IInv, [Next]_vars PROVE IInv'
  OBVIOUS
<1>1. ASSUME NEW t \in Thread, Program(t) \/ RuntimeStep(t) PROVE IInv'
  BY <1>1, ProgramRuns, RegistryChanges, CallerComes, LockTaken, CallerWorks,
     ThreadJoins,
     ThreadLeaves, HandlerEnds DEF Program, RuntimeStep
<1>2. ASSUME NEW t \in Thread, Deliver(t) \/ Trap(t) PROVE IInv'
  BY <1>2, HandlerBegins
<1>3. CASE Tick
  BY <1>3, ThreadAssumption DEF Tick
<1>4. CASE UNCHANGED vars
  BY <1>4 DEF vars
<1> QED
  BY <1>1, <1>2, <1>3, <1>4 DEF Next

\* The phases of rounds follow each other as IInv says.
THEOREM PhasesCorrect == Spec => [](TypeOK /\ IInv)
<1>1. Init => TypeOK /\ IInv
  BY TypeInit, InvInit
<1>2. TypeOK /\ IInv /\ [Next]_vars => TypeOK' /\ IInv'
  BY TypeStep, InvStep
<1> QED
  BY <1>1, <1>2, PTL DEF Spec

-----------------------------------------------------------------------------
(***************************************************************************)
(* What the phases mean for those who rely on the barrier.                 *)
(***************************************************************************)

\* While the callback of with_barrier runs, every other registered thread is
\* between the two waits, however many threads and callers there are.
THEOREM WorldStoppedCorrect == Spec => []WorldStopped
<1>1. TypeOK /\ IInv => WorldStopped
  BY ThreadAssumption DEF WorldStopped, Stopped
<1> QED
  BY <1>1, PhasesCorrect, PTL

\* No halloc, hfree or hrealloc is half done when the callback runs: the caller
\* has the locks of all thread caches.
THEOREM HeapQuiescentCorrect == Spec => []HeapQuiescent
<1>1. TypeOK /\ IInv => HeapQuiescent
  BY ThreadAssumption DEF HeapQuiescent, Stopped
<1> QED
  BY <1>1, PhasesCorrect, PTL

\* Two waits, or two rounds, never meet at the one pthread barrier, though
\* signals may be late and rounds of several callers follow each other.
THEOREM RoundsSeparateCorrect == Spec => []RoundsSeparate
<1>1. TypeOK /\ IInv => RoundsSeparate
  <2> SUFFICES ASSUME TypeOK, IInv PROVE RoundsSeparate
    OBVIOUS
  <2>1. arrived # {} => regLock # None
    BY ThreadAssumption
  <2>2. arrived \subseteq registry
    BY ThreadAssumption
  <2>3. \A t, u \in arrived : pc[t] = pc[u]
    BY ThreadAssumption
  <2>4. ASSUME NEW t \in Thread, pc[t] \in {"join", "joining"}
        PROVE  /\ regLock # None
               /\ t \in registry
               /\ tcsLock = t \/ status[t] \in {"signal", "safepoint", "abort"}
               /\ \A u \in Thread : Stopped(u) => u = t
    BY <2>4, ThreadAssumption DEF Stopped
  <2> QED
    BY <2>1, <2>2, <2>3, <2>4 DEF RoundsSeparate
<1> QED
  BY <1>1, PhasesCorrect, PTL

-----------------------------------------------------------------------------
(***************************************************************************)
(* What moves: nothing that is held where the runtime can find it.         *)
(***************************************************************************)

\* With one caller the stragglers of a round, who unpin and ignore signals, are
\* gone before the next one begins: cooled says that.
LateOK ==
  OneCaller =>
    /\ cooled => \A t \in Thread : pc[t] \in {"app", "stamp", "killed"}
    /\ \A t \in Thread :
         /\ pc[t] \in {"stamp", "tcs", "patch", "signal", "unpatch", "leave", "release"}
                       \cup BeforePCs => t \in Caller
         /\ t \in Caller /\ pc[t] \in {"tcs"} \cup BeforePCs \cup GatherPCs =>
              \A u \in Thread \ {t} : pc[u] \in {"app", "join", "joining", "killed"}
         /\ pc[t] = "stamp" => cooled
         /\ pc[t] \in HandlerPCs /\ tcsLock # t => ret[t] = "app"
    /\ tcsLock # None => tcsLock \in Caller
    /\ ignored => \E t \in Thread : pc[t] = "restore"
    /\ Alive

\* Why a thread is in the handler tells where it was.
ReasonOK ==
  \A t \in Thread : pc[t] \in {"join", "joining", "joined", "leaving"} /\ tcsLock # t =>
    \/ status[t] = "signal" /\ where[t] \in {"library", "heap"}
    \/ status[t] = "safepoint" /\ where[t] = "poll"
    \/ status[t] = "abort"

\* begin() succeeds only if everybody has joined for a good reason.
SuccessOK ==
  regLock # None /\ success =>
    /\ pc[regLock] = "signal" /\ ~sent =>
         \A u \in registry \ todo : status[u] \notin {"notjoined", "abort"}
    /\ pc[regLock] \in {"join", "joining", "joined"} =>
         \A u \in registry : status[u] \notin {"notjoined", "abort"}

\* Nobody joins a round before the polls are patched, and then they stay patched
\* until the caller is done.
PatchedPCs == {"signal", "join", "joining", "joined", "unpatch"}
TrapOK ==
  regLock # None =>
    /\ pc[regLock] = "patch" =>
         \A t \in Thread : /\ pc[t] \notin {"join", "joining"}
                           /\ pending[t] => pc[t] \in HandlerPCs \ {"restore"}
    /\ pc[regLock] \in PatchedPCs => patched

\* What a thread that waits holds is pinned, or somebody else will pin it yet: a
\* thread that is late to unpin it, after an earlier round, holds it in a frame the
\* runtime finds, and comes to no other place before it has joined again.  A thread
\* that is not registered holds nothing.
Waits(t) == pc[t] \in {"joining", "joined", "leaving", "unpatch"}
PinnedOK ==
  /\ \A t \in Thread \ registry : held[t] = {}
  /\ regLock # None /\ pc[regLock] \in PatchedPCs =>
       \A t \in Thread : Waits(t) =>
         \A h \in PinSet(t) :
           h \in pinned \/ \E u \in Thread : ~Waits(u) /\ h \in PinSet(u)

\* Objects are away from where they were only until end() begins.
MovedOK ==
  moved # {} => /\ regLock # None /\ pc[regLock] = "unpatch"
                /\ MovedNotHeld

MInv == LateOK /\ ReasonOK /\ SuccessOK /\ TrapOK /\ PinnedOK /\ MovedOK

\* One caller: two callers are the same.
LEMMA SoleCaller == TypeOK /\ OneCaller => \A t, u \in Caller : t = u
<1> SUFFICES ASSUME TypeOK, OneCaller, NEW t \in Caller, NEW u \in Caller, t # u
             PROVE  FALSE
  OBVIOUS
<1>1. setting \in [caller : SUBSET Thread, transient : SUBSET Thread,
                   prompt : BOOLEAN, retries : Nat \ {0}]
  BY ThreadAssumption
<1>2. Caller \subseteq Thread
  BY <1>1 DEF Caller
<1>3. IsFiniteSet(Caller)
  BY <1>2, FS_Subset, ThreadAssumption
<1>4. {t} \cup {u} \subseteq Caller
  OBVIOUS
<1>5. Cardinality({t} \cup {u}) <= Cardinality(Caller) /\ Cardinality(Caller) \in Nat
  BY <1>3, <1>4, FS_Subset, FS_CardinalityType
<1>6. Cardinality({t} \cup {u}) = 2
  BY TwoElements
<1>7. Cardinality(Caller) <= 1
  BY DEF OneCaller
<1>8. 2 <= Cardinality(Caller)
  BY <1>5, <1>6, Zenon
<1> QED
  BY <1>5, <1>7, <1>8

USE DEF MInv, LateOK, ReasonOK, SuccessOK, TrapOK, PatchedPCs, PinnedOK, Waits,
        MovedOK, MovedNotHeld, Unmapped, InCall, PinSet, OneCaller, Caller

\* At the start nothing is held, pinned or moved.
LEMMA MoveInit == Init => MInv
BY ThreadAssumption DEF Init, Transient

\* A thread holds a handle anew only while it runs, and then nothing is moved.
LEMMA ProgramMoves ==
  ASSUME TypeOK, IInv, MInv, UNCHANGED setting, NEW t \in Thread,
         Translate(t) \/ Drop(t) \/ ReachPoll(t) \/ PassPoll(t) \/ CallOut(t) \/
         Return(t) \/ EnterHeap(t) \/ LeaveHeap(t) \/ JoinRegistry(t) \/
         LeaveRegistry(t)
  PROVE  MInv'
<1>1. CASE Translate(t)
  BY <1>1, SoleCaller, ThreadAssumption DEF Translate
<1>2. CASE Drop(t)
  BY <1>2, SoleCaller, ThreadAssumption DEF Drop
<1>3. CASE ReachPoll(t)
  BY <1>3, SoleCaller, ThreadAssumption DEF ReachPoll, MoveTo, InPlace
<1>4. CASE PassPoll(t)
  BY <1>4, SoleCaller, ThreadAssumption DEF PassPoll, MoveTo, InPlace
<1>5. CASE CallOut(t)
  BY <1>5, SoleCaller, ThreadAssumption DEF CallOut, MoveTo
<1>6. CASE Return(t)
  BY <1>6, SoleCaller, ThreadAssumption DEF Return, MoveTo
<1>7. CASE EnterHeap(t)
  BY <1>7, SoleCaller, ThreadAssumption DEF EnterHeap, MoveTo
<1>8. CASE LeaveHeap(t)
  BY <1>8, SoleCaller, ThreadAssumption DEF LeaveHeap, MoveTo
<1>9. CASE JoinRegistry(t)
  BY <1>9, SoleCaller, ThreadAssumption DEF JoinRegistry,
     Transient
<1>10. CASE LeaveRegistry(t)
  BY <1>10, SoleCaller, ThreadAssumption DEF LeaveRegistry,
     Transient
<1> QED
  BY <1>1, <1>2, <1>3, <1>4, <1>5, <1>6, <1>7, <1>8, <1>9, <1>10

\* When everybody in the registry waits in the current round and begin() has
\* returned success, what is held where the runtime can find it is pinned.
LEMMA AllPinned ==
  ASSUME TypeOK, IInv, MInv, NEW t \in Thread, pc[t] = "joined", tcsLock = t, success,
         NEW u \in Thread, ~Unmapped(u)
  PROVE  held[u] \subseteq pinned
<1>1. regLock = t /\ where[t] = "library"
  BY ThreadAssumption
<1>2. \A v \in registry \ {t} : pc[v] \in {"joined", "leaving"}
  BY <1>1, ThreadAssumption
<1>3. \A v \in registry : Waits(v)
  BY <1>2
<1>4. \A v \in Thread : ~Waits(v) => held[v] = {}
  BY <1>3
<1>5. CASE u \notin registry
  BY <1>5
<1>6. CASE u \in registry
  <2>1. u # t => status[u] \notin {"notjoined", "abort"}
    BY <1>1, <1>6, ThreadAssumption
  <2>2. u # t => tcsLock # u
    OBVIOUS
  <2>3. where[u] \in {"library", "heap", "poll"}
    BY <1>1, <1>2, <1>6, <2>1, <2>2
  <2>4. PinSet(u) = held[u]
    BY <2>3
  <2>5. \A h \in PinSet(u) : h \in pinned \/ \E v \in Thread : ~Waits(v) /\ h \in PinSet(v)
    BY <1>1, <1>3, <1>6, ThreadAssumption
  <2> QED
    BY <1>4, <2>4, <2>5
<1> QED
  BY <1>5, <1>6

\* The caller: the callback finds pinned what the others hold.
LEMMA CallerMoves ==
  ASSUME TypeOK, IInv, MInv, UNCHANGED setting, NEW t \in Thread,
         CheckInterval(t) \/ Stamp(t) \/ LockTcs(t) \/ LockTc(t) \/ Begin(t) \/
         Patch(t) \/ Signal(t) \/ EndPass(t) \/ Callback(t) \/ Unpatch(t) \/
         Release(t)
  PROVE  MInv'
<1>1. CASE CheckInterval(t)
  BY <1>1, SoleCaller, ThreadAssumption DEF CheckInterval, Caller
<1>2. CASE Stamp(t)
  BY <1>2, SoleCaller, ThreadAssumption DEF Stamp
<1>3. CASE LockTcs(t)
  BY <1>3, SoleCaller, ThreadAssumption DEF LockTcs
<1>4. CASE LockTc(t)
  BY <1>4, SoleCaller, ThreadAssumption DEF LockTc
<1>5. CASE Begin(t)
  BY <1>5, SoleCaller, ThreadAssumption DEF Begin, NumThreads
<1>6. CASE Patch(t)
  BY <1>6, SoleCaller, ThreadAssumption DEF Patch
<1>7. CASE Signal(t)
  BY <1>7, SoleCaller, ThreadAssumption DEF Signal, StillGood
<1>8. CASE EndPass(t)
  <2>1. LateOK' /\ ReasonOK' /\ PinnedOK' /\ MovedOK'
    BY <1>8, SoleCaller, ThreadAssumption DEF EndPass, MayRetry
  <2>2. t = regLock /\ todo = {}
    BY <1>8, ThreadAssumption DEF EndPass
  <2>3. CASE sent /\ MayRetry
    BY <1>8, <2>2, <2>3, ThreadAssumption DEF EndPass
  <2>4. CASE ~(sent /\ MayRetry)
    <3>1. success' => success /\ ~sent
      BY <1>8, <2>4 DEF EndPass
    <3>2. success' => \A u \in registry : status[u] \notin {"notjoined", "abort"}
      BY <1>8, <2>2, <3>1, ThreadAssumption DEF EndPass
    <3>3. pc'[regLock] = "join"
      BY <1>8, <2>2, <2>4 DEF EndPass
    <3> QED
      BY <1>8, <3>2, <3>3, <2>1 DEF EndPass
  <2> QED BY <2>1, <2>3, <2>4
<1>9. CASE Callback(t)
  <2>1. pc[t] = "joined" /\ tcsLock = t /\ regLock = t /\ moved' \in Movable
    BY <1>9, ThreadAssumption DEF Callback
  <2>2. \A u \in Thread : Unmapped(u) \/ moved' \cap held[u] = {}
    BY <2>1, AllPinned DEF Movable
  <2>3. MovedOK'
    BY <1>9, <2>1, <2>2 DEF Callback
  <2>4. LateOK' /\ ReasonOK' /\ SuccessOK' /\ TrapOK' /\ PinnedOK'
    BY <1>9, <2>1, SoleCaller, ThreadAssumption DEF Callback
  <2> QED BY <2>3, <2>4
<1>10. CASE Unpatch(t)
  BY <1>10, SoleCaller, ThreadAssumption DEF Unpatch, PatchNop
<1>11. CASE Release(t)
  BY <1>11, SoleCaller, ThreadAssumption DEF Release
<1> QED
  BY <1>1, <1>2, <1>3, <1>4, <1>5, <1>6, <1>7, <1>8, <1>9, <1>10, <1>11

\* The handler: pins are released when nobody is stopped.
LEMMA HandlerMoves ==
  ASSUME TypeOK, IInv, MInv, UNCHANGED setting, NEW t \in Thread,
         Join(t) \/ Leave(t) \/ Unpin(t) \/ Ignore(t) \/ Restore(t) \/
         Deliver(t) \/ Trap(t)
  PROVE  MInv'
<1>1. CASE Join(t)
  <2>1. LateOK'
    BY <1>1, Joins, SoleCaller, ThreadAssumption DEF Join
  <2>2. ReasonOK' /\ SuccessOK' /\ PinnedOK' /\ MovedOK'
    BY <1>1, ThreadAssumption DEF Join, Wait
  <2>3. TrapOK'
    BY <1>1, Joins, ThreadAssumption DEF Join
  <2> QED BY <2>1, <2>2, <2>3
<1>2. CASE Leave(t)
  <2>1. LateOK'
    BY <1>2, SoleCaller, ThreadAssumption DEF Leave, Wait
  <2>2. ReasonOK' /\ SuccessOK' /\ PinnedOK' /\ MovedOK'
    BY <1>2, ThreadAssumption DEF Leave, Wait
  <2>3. TrapOK'
    BY <1>2, Leaves, ThreadAssumption DEF Leave
  <2> QED BY <2>1, <2>2, <2>3
<1>3. CASE Unpin(t)
  BY <1>3, SoleCaller, ThreadAssumption DEF Unpin
<1>4. CASE Ignore(t)
  BY <1>4, SoleCaller, ThreadAssumption DEF Ignore,
     PendingDiscarded
<1>5. CASE Restore(t)
  BY <1>5, SoleCaller, ThreadAssumption DEF Restore
<1>6. CASE Deliver(t)
  BY <1>6, SoleCaller, ThreadAssumption DEF Deliver, Enter
<1>7. CASE Trap(t)
  BY <1>7, SoleCaller, ThreadAssumption DEF Trap, Enter
<1> QED
  BY <1>1, <1>2, <1>3, <1>4, <1>5, <1>6, <1>7

\* Every step keeps what is pinned and moved in order.
LEMMA MoveStep == TypeOK /\ IInv /\ MInv /\ [Next]_vars => MInv'
<1> SUFFICES ASSUME TypeOK, IInv, MInv, [Next]_vars PROVE MInv'
  OBVIOUS
<1>1. ASSUME UNCHANGED setting, NEW t \in Thread, Program(t) \/ RuntimeStep(t)
      PROVE  MInv'
  BY <1>1, ProgramMoves, CallerMoves, HandlerMoves DEF Program, RuntimeStep
<1>2. ASSUME UNCHANGED setting, NEW t \in Thread, Deliver(t) \/ Trap(t)
      PROVE  MInv'
  BY <1>2, HandlerMoves
<1>3. CASE Tick /\ UNCHANGED setting
  BY <1>3, ThreadAssumption DEF Tick
<1>4. CASE UNCHANGED vars
  BY <1>4 DEF vars
<1> QED
  BY <1>1, <1>2, <1>3, <1>4 DEF Next

HIDE DEF TypeOK, IInv, MInv

\* Both invariants hold of every behavior.
LEMMA MovesCorrect == Spec => [](TypeOK /\ IInv /\ MInv)
<1>1. Init => MInv
  BY MoveInit
<1>2. TypeOK /\ IInv /\ MInv /\ [Next]_vars => MInv'
  BY MoveStep
<1> QED
  BY <1>1, <1>2, PhasesCorrect, PTL DEF Spec

\* With one caller of with_barrier no poll traps while SIGILL is ignored, and the
\* process is not killed.
THEOREM NotKilledCorrect == Spec => []NotKilled
<1>1. TypeOK /\ IInv /\ MInv => NotKilled
  BY DEF NotKilled, MInv
<1> QED
  BY <1>1, MovesCorrect, PTL

\* No object moves while a thread holds a raw pointer to it in a frame the runtime
\* can find, or in managed code, with any number of callers.
THEOREM MovedNotHeldCorrect == Spec => []MovedNotHeld
<1>1. TypeOK /\ IInv /\ MInv => MovedNotHeld
  BY DEF MInv
<1> QED
  BY <1>1, MovesCorrect, PTL

\* The promise of BarrierManager.hpp:17-18 is kept for all threads whose frames are
\* in pin_map or in no call, with any number of callers: when begin() has returned
\* success, what they hold is pinned.
THEOREM PinsMarkedCorrect == Spec => []FoundPinsMarked
<1>1. TypeOK /\ IInv /\ MInv => FoundPinsMarked
  BY AllPinned DEF FoundPinsMarked, BeginMarks
<1> QED
  BY <1>1, MovesCorrect, PTL
=============================================================================
