------------------------------- MODULE IdleWork -------------------------------
(***************************************************************************)
(* IdleProfiler::RunWhenIdle with the one slow piece of background work    *)
(* there is, NtfsOptimizer's, as its function.  RunWhenIdle takes any      *)
(* function and no command calls it; the two are put together to see what  *)
(* becomes of work that was begun when the machine was idle.               *)
(***************************************************************************)
EXTENDS IdleProfiler, NtfsOptimizer

workVars == <<vars, ntfsVars>>

WorkInit == Init /\ NtfsInit

(* The function is entered with a file to compress or decompress ...       *)
StartWork ==
    /\ pc = "fn" /\ outcome.kind = "none" /\ Begin /\ UNCHANGED vars

(* ... and returns, or throws through RunWhenIdle, once that is done.      *)
WorkReturns ==
    /\ step = "ready" /\ outcome.kind # "none" /\ FnReturns
    /\ outcome' = NoOutcome /\ touched' = FALSE
    /\ UNCHANGED <<file, step, job, original>>

Profiler == (Call \/ Sampling) /\ UNCHANGED ntfsVars
Work     == StartWork \/ (NtfsStep /\ UNCHANGED vars)

(* Who is there also writes to the file, whoever works on it.              *)
Others ==
    \/ Machine /\ UNCHANGED ntfsVars
    \/ ~calm /\ step # "ready" /\ Write /\ UNCHANGED vars

WorkNext == Profiler \/ Work \/ WorkReturns \/ Others

(* Time passes, and what RunWhenIdle calls returns.                        *)
WorkSpec ==
    /\ WorkInit /\ [][WorkNext]_workVars
    /\ WF_workVars(Tick /\ UNCHANGED ntfsVars)
    /\ WF_workVars(Sampling /\ UNCHANGED ntfsVars)

WorkTypeOK == TypeOK /\ NtfsTypeOK

===============================================================================
