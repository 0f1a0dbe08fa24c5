----------------------------- MODULE IdleProfiler -----------------------------
(***************************************************************************)
(* IdleProfiler (idle_profiler.h, idle_profiler.cpp): RunWhenIdle samples  *)
(* the processor over a window and then the time since the last input, and *)
(* calls its function when both are idle enough; a blocking call polls.    *)
(*                                                                         *)
(* Time passes in ticks.  GetTickCount and the time of the last input wrap *)
(* around.  A sleep ends at its tick; between the two calls that find out  *)
(* how long the user has been idle one tick may pass, and an input occur.  *)
(***************************************************************************)
EXTENDS Integers, FiniteSetsExt

CONSTANTS
    Wrap,           \* GetTickCount is a DWORD: 2^32 milliseconds
    Second,         \* ticks of the processor's window
    Poll,           \* ticks between two polls
    UserThreshold,  \* ticks without input that count as idle
    CpuThreshold    \* <<n, d>>: the fraction n/d of idle processor time

(* Half an idle processor, which a failing call stands for, is not enough. *)
ASSUME IdleConstants ==
    /\ Wrap \in Nat /\ UserThreshold \in Nat /\ Second \in Nat \ {0} /\ Poll \in Nat
    /\ Wrap > UserThreshold + Second + Poll + 1
    /\ CpuThreshold \in Nat \X (Nat \ {0})
    /\ CpuThreshold[2] < 2 * CpuThreshold[1] /\ CpuThreshold[1] <= CpuThreshold[2]

VARIABLES
    tick, lastInput,    \* GetTickCount; the tick of the last input
    away,               \* ticks since that input, UserThreshold for more
    calm,               \* nobody works here, and no call fails
    pc, block, timer,   \* where RunWhenIdle stands; its argument; its sleep
    window,             \* processor time of the window: idle, all
    cpu,                \* cpu_idle_fraction, <<n, d>>
    input, seenAway     \* dwTime; how long ago that input was

env  == <<tick, lastInput, away, calm>>
vars == <<env, pc, block, timer, window, cpu, input, seenAway>>

AtMost(n) == Min({n, UserThreshold})

TypeOK ==
    /\ tick \in 0..Wrap-1 /\ lastInput \in 0..Wrap-1 /\ input \in 0..Wrap-1
    /\ away \in 0..UserThreshold /\ seenAway \in 0..UserThreshold
    /\ away < UserThreshold => (tick - lastInput) % Wrap = away
    /\ calm \in BOOLEAN /\ block \in BOOLEAN
    /\ pc \in {"out", "sample", "window", "user", "ticks", "late", "decide", "sleep", "fn"}
    /\ timer \in 0..Max({Second, Poll}) /\ (timer > 0 => pc \in {"window", "sleep"})
    /\ window \in (0..Second) \X (0..Second) /\ window[1] <= window[2]
    /\ cpu \in (0..Second) \X (1..Max({Second, 2})) /\ cpu[1] <= cpu[2]

Init ==
    /\ tick = 0 /\ lastInput = 0 /\ away = 0 /\ calm = FALSE
    /\ pc = "out" /\ block = FALSE /\ timer = 0
    /\ window = <<0, 0>> /\ cpu = <<0, 1>> /\ input = 0 /\ seenAway = 0

(***************************************************************************)
(* The machine                                                             *)
(***************************************************************************)

(* A tick counts as idle or busy time of the processor, or is not counted  *)
(* yet.  Where a sleep has ended no tick passes, and between the calls one *)
(* at most: after GetLastInputInfo.                                        *)
Tick ==
    /\ timer > 0 \/ pc \in {"out", "fn", "ticks"}
    /\ tick' = (tick + 1) % Wrap /\ away' = AtMost(away + 1)
    /\ timer' = IF timer > 0 THEN timer - 1 ELSE 0
    /\ IF pc = "ticks" THEN pc' = "late" /\ seenAway' = AtMost(seenAway + 1)
                       ELSE UNCHANGED <<pc, seenAway>>
    /\ \E counted \in IF calm THEN {<<1, 1>>} ELSE {<<0, 0>>, <<0, 1>>, <<1, 1>>} :
          window' = IF pc = "window"
                    THEN <<window[1] + counted[1], window[2] + counted[2]>> ELSE window
    /\ UNCHANGED <<lastInput, calm, block, cpu, input>>

Input ==
    /\ ~calm
    /\ lastInput' = tick /\ away' = 0
    /\ UNCHANGED <<tick, calm, pc, block, timer, window, cpu, input, seenAway>>

(* Somebody comes back, or everybody leaves. *)
Change ==
    /\ calm' = ~calm
    /\ UNCHANGED <<tick, lastInput, away, pc, block, timer, window, cpu, input, seenAway>>

(***************************************************************************)
(* RunWhenIdle, WaitUntilIdle and Sample                                   *)
(***************************************************************************)

Call ==
    /\ pc = "out"
    /\ pc' = "sample" /\ block' \in BOOLEAN
    /\ UNCHANGED <<env, timer, window, cpu, input, seenAway>>

(* GetSystemTimes fails: half idle. *)
TimesFail ==
    /\ ~calm /\ timer = 0 /\ pc \in {"sample", "window"}
    /\ pc' = "user" /\ cpu' = <<1, 2>>
    /\ UNCHANGED <<env, block, timer, window, input, seenAway>>

FirstTimes ==
    /\ pc = "sample"
    /\ pc' = "window" /\ timer' = Second /\ window' = <<0, 0>>
    /\ UNCHANGED <<env, block, cpu, input, seenAway>>

(* It is not asked whether any time has been counted. *)
SecondTimesUnasked ==
    /\ pc = "window" /\ timer = 0
    /\ pc' = "user" /\ cpu' = window
    /\ UNCHANGED <<env, block, timer, window, input, seenAway>>

(* No time at all has been counted: idle.                                  *)
SecondTimes ==
    /\ pc = "window" /\ timer = 0
    /\ pc' = "user"
    /\ cpu' = IF window[2] = 0 THEN <<1, 1>> ELSE window
    /\ UNCHANGED <<env, block, timer, window, input, seenAway>>

GetLastInputInfo ==
    /\ pc = "user"
    /\ pc' = "ticks" /\ input' = lastInput /\ seenAway' = away
    /\ UNCHANGED <<env, block, timer, window, cpu>>

(* GetLastInputInfo fails: the user has been idle for no time.             *)
InputUnknown ==
    /\ ~calm /\ pc = "user"
    /\ pc' = "late" /\ input' = tick /\ seenAway' = 0
    /\ UNCHANGED <<env, block, timer, window, cpu>>

ElapsedSwapped == (input - tick) % Wrap

(* Unsigned difference of two DWORDs. *)
Elapsed == (tick - input) % Wrap

IdleEnough == cpu[1] * CpuThreshold[2] >= CpuThreshold[1] * cpu[2]

(* GetTickCount, and what RunWhenIdle does of it: call the function, poll  *)
(* again after a sleep, or give up.  The local variables are gone.         *)
GetTickCount ==
    /\ pc \in {"ticks", "late"}
    /\ IF IdleEnough /\ Elapsed >= UserThreshold THEN pc' = "fn" /\ UNCHANGED timer
       ELSE IF block THEN pc' = "sleep" /\ timer' = Poll
       ELSE pc' = "out" /\ UNCHANGED timer
    /\ window' = <<0, 0>> /\ cpu' = <<0, 1>> /\ input' = 0 /\ seenAway' = 0
    /\ UNCHANGED <<env, block>>

(* The poll asks for the user only. *)
PollUser ==
    /\ pc = "sleep" /\ timer = 0
    /\ pc' = "user"
    /\ UNCHANGED <<env, block, timer, window, cpu, input, seenAway>>

PollAgain ==
    /\ pc = "sleep" /\ timer = 0
    /\ pc' = "sample"
    /\ UNCHANGED <<env, block, timer, window, cpu, input, seenAway>>

FnReturns ==
    /\ pc = "fn"
    /\ pc' = "out"
    /\ UNCHANGED <<env, block, timer, window, cpu, input, seenAway>>

Sampling ==
    \/ FirstTimes \/ SecondTimes \/ TimesFail
    \/ GetLastInputInfo \/ InputUnknown \/ GetTickCount \/ PollAgain

Machine == Tick \/ Input \/ Change

(***************************************************************************)
(* Properties                                                              *)
(***************************************************************************)

(* The function starts only if the user had been away for the threshold    *)
(* when the tick count was read, reckoned from the last input that         *)
(* GetLastInputInfo knew of, and the processor idle in the window:         *)
(* whichever count wraps around, fails or stands still, the sample may say *)
(* busy of an idle machine and never idle of a busy one                    *)
(* (idle_profiler.cpp, Sample).                                            *)
RunsOnlyWhenFoundIdle ==
    [][pc' = "fn" /\ pc # "fn" =>
          /\ seenAway = UserThreshold
          /\ window[1] * CpuThreshold[2] >= CpuThreshold[1] * window[2]]_vars

(* A blocking call gets to run its function if the machine is left alone:  *)
(* neither the wrap of the tick count, which makes a long absence look     *)
(* short, nor the rhythm of the polls keeps it waiting for ever            *)
(* (idle_profiler.cpp, WaitUntilIdle).                                     *)
BlockingCallRuns ==
    <>[]calm => (pc = "sample" /\ block ~> pc = "fn")

===============================================================================
