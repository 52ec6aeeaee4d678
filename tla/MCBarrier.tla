------------------------------ MODULE MCBarrier -----------------------------
(***************************************************************************)
(* Instances of Barrier for TLC.                                           *)
(***************************************************************************)
EXTENDS Barrier

CONSTANTS t1, t2, t3

OfThreads(caller, transient, prompt, passes) ==
  [caller |-> caller, transient |-> transient, prompt |-> prompt, retries |-> passes]
\* One caller, and a thread that comes and goes; two callers; one caller and
\* signals that arrive in time; one caller and nobody who comes or goes.
MCSettings ==
  {OfThreads({t1}, {t3}, FALSE, 3), OfThreads({t1, t2}, {}, FALSE, 1)}
PromptSignals == {OfThreads({t1}, {t3}, TRUE, 3)}
SoleCaller    == {OfThreads({t1}, {}, FALSE, 2)}
=============================================================================
