---------------------------- MODULE IdleWorkProofs ----------------------------
(***************************************************************************)
(* Proofs that the work of IdleProfiler::RunWhenIdle starts only on a      *)
(* machine that was found idle, for any width of the tick count, any       *)
(* window, any poll and any thresholds within the assumptions, and that    *)
(* the savings it reports are real, for any size of a file and a word.     *)
(***************************************************************************)
EXTENDS IdleWork, TLAPS

(* The time since the last input, and what was asked of it, as long as it  *)
(* is below the threshold, is the difference of two counts that wrap.      *)
AwayInv ==
    /\ tick \in 0..(Wrap - 1) /\ lastInput \in 0..(Wrap - 1) /\ input \in 0..(Wrap - 1)
    /\ away \in 0..UserThreshold /\ seenAway \in 0..UserThreshold
    /\ away < UserThreshold => (tick - lastInput) % Wrap = away
    /\ pc \in {"ticks", "late"} /\ seenAway < UserThreshold => (tick - input) % Wrap = seenAway

(* The fraction is that of the window, or stands for one that is not known.*)
WindowInv ==
    /\ window \in Nat \X Nat
    /\ pc \in {"user", "ticks", "late"} =>
          \/ cpu = <<1, 2>>
          \/ cpu = window
          \/ cpu = <<1, 1>> /\ window[2] = 0

(* A sleep is one of the window or one between two polls. *)
TimerInv == timer > 0 => pc \in {"window", "sleep"}

IdleInv == AwayInv /\ WindowInv /\ TimerInv

(* The counter is longer than the threshold, and the share of idle time a  *)
(* proper one.                                                             *)
LEMMA WrapFacts ==
    /\ Wrap \in Int /\ UserThreshold \in Nat /\ Wrap > UserThreshold + 1
    /\ CpuThreshold[1] \in Nat /\ CpuThreshold[2] \in Nat
    /\ CpuThreshold[2] < 2 * CpuThreshold[1]
BY IdleConstants

(* The difference of two counts. *)
LEMMA Difference ==
    ASSUME NEW a \in 0..(Wrap - 1), NEW b \in 0..(Wrap - 1)
    PROVE  (a - b) % Wrap = IF a >= b THEN a - b ELSE a - b + Wrap
<1>1. Wrap \in Int /\ Wrap > 0
    BY WrapFacts
<1> DEFINE d == a - b
           r == (a - b) % Wrap
           q == (a - b) \div Wrap
<1>2. d \in Int /\ d < Wrap /\ d > 0 - Wrap
    BY <1>1
<1>3. r \in Int /\ r >= 0 /\ r < Wrap /\ q \in Int
    BY <1>1, <1>2
<1>4. ASSUME NEW m \in Int, NEW s \in Int, s > 0
      PROVE  m = s * (m \div s) + (m % s)
    BY <1>4, SMT
<1>5. d = Wrap * q + r
    BY <1>1, <1>2, <1>4
<1>6. q \in {-1, 0}
    <2>1. q >= 1 => Wrap * q >= Wrap
        BY <1>1, <1>3
    <2>2. q <= -2 => Wrap * q <= 0 - 2 * Wrap
        BY <1>1, <1>3
    <2> HIDE DEF d, r, q
    <2> QED  BY <1>1, <1>2, <1>3, <1>5, <2>1, <2>2
<1> HIDE DEF r, q
<1>7. r = IF a >= b THEN a - b ELSE a - b + Wrap
    BY <1>1, <1>2, <1>3, <1>5, <1>6
<1> QED  BY <1>7 DEF r

(* A tick adds one, or starts the counter over. *)
LEMMA NextTick ==
    ASSUME NEW a \in 0..(Wrap - 1)
    PROVE  (a + 1) % Wrap = IF a + 1 < Wrap THEN a + 1 ELSE 0
<1>1. Wrap \in Int /\ Wrap > 0 /\ a + 1 \in Int /\ a + 1 > 0 /\ a + 1 <= Wrap
    BY WrapFacts
<1>2. CASE a + 1 < Wrap
    BY <1>1, <1>2
<1>3. CASE a + 1 = Wrap
    BY <1>1, <1>3
<1> QED  BY <1>1, <1>2, <1>3

(* One tick more, and one more in the difference, whichever count has      *)
(* wrapped around.                                                         *)
LEMMA TickCounts ==
    ASSUME NEW a \in 0..(Wrap - 1), NEW b \in 0..(Wrap - 1), (a - b) % Wrap < UserThreshold
    PROVE  (((a + 1) % Wrap) - b) % Wrap = ((a - b) % Wrap) + 1
<1> DEFINE c == (a + 1) % Wrap
<1>1. Wrap \in Int /\ Wrap > UserThreshold + 1 /\ UserThreshold \in Nat
    BY WrapFacts
<1>2. c = IF a + 1 < Wrap THEN a + 1 ELSE 0
    BY NextTick
<1>3. c \in 0..(Wrap - 1)
    BY <1>1, <1>2
<1> HIDE DEF c
<1>4. (c - b) % Wrap = IF c >= b THEN c - b ELSE c - b + Wrap
    BY <1>3, Difference
<1>5. (a - b) % Wrap = IF a >= b THEN a - b ELSE a - b + Wrap
    BY Difference
<1>6. (c - b) % Wrap = ((a - b) % Wrap) + 1
    BY <1>1, <1>2, <1>4, <1>5
<1> QED  BY <1>6 DEF c

(* What the history variable counts stops at the threshold. *)
LEMMA AtMostIs ==
    ASSUME NEW n \in Nat
    PROVE  AtMost(n) = IF n <= UserThreshold THEN n ELSE UserThreshold
BY WrapFacts DEF AtMost, Min

(* Nobody has been away yet, and nothing was sampled. *)
LEMMA InitIdleInv == WorkInit => IdleInv
<1>1. 0 \in 0..(Wrap - 1) /\ 0 \in 0..UserThreshold
    BY WrapFacts
<1>2. (0 - 0) % Wrap = 0
    BY <1>1, Difference
<1> QED  BY <1>1, <1>2 DEF WorkInit, Init, IdleInv, AwayInv, WindowInv, TimerInv

(* What is below the threshold after a tick was so before it. *)
LEMMA TickKeepsIdleInv ==
    ASSUME IdleInv, Tick
    PROVE  IdleInv'
<1>1. /\ tick' = (tick + 1) % Wrap /\ away' = AtMost(away + 1)
      /\ UNCHANGED <<lastInput, input, cpu>>
      /\ timer' = IF timer > 0 THEN timer - 1 ELSE 0
      /\ \/ pc = "ticks" /\ pc' = "late" /\ seenAway' = AtMost(seenAway + 1)
         \/ pc # "ticks" /\ pc' = pc /\ seenAway' = seenAway
      /\ pc \in {"out", "fn", "ticks", "window", "sleep"}
    BY DEF Tick, IdleInv, TimerInv
<1>2. /\ tick \in 0..(Wrap - 1) /\ lastInput \in 0..(Wrap - 1) /\ input \in 0..(Wrap - 1)
      /\ away \in 0..UserThreshold /\ seenAway \in 0..UserThreshold /\ UserThreshold \in Nat
    BY WrapFacts DEF IdleInv, AwayInv
<1>3. tick' \in 0..(Wrap - 1)
    BY <1>1, <1>2, NextTick, WrapFacts
<1>4. /\ AtMost(away + 1) = IF away + 1 <= UserThreshold THEN away + 1 ELSE UserThreshold
      /\ AtMost(seenAway + 1) =
             IF seenAway + 1 <= UserThreshold THEN seenAway + 1 ELSE UserThreshold
    BY <1>2, AtMostIs
<1>5. away' < UserThreshold => (tick' - lastInput') % Wrap = away'
    <2>1. ASSUME away' < UserThreshold
          PROVE  away' = away + 1 /\ (tick - lastInput) % Wrap = away /\ away < UserThreshold
        BY <1>1, <1>2, <1>4, <2>1 DEF IdleInv, AwayInv
    <2> QED  BY <1>1, <1>2, <2>1, TickCounts
<1>6. pc' \in {"ticks", "late"} /\ seenAway' < UserThreshold => (tick' - input') % Wrap = seenAway'
    <2>1. ASSUME pc' \in {"ticks", "late"}, seenAway' < UserThreshold
          PROVE  /\ seenAway' = seenAway + 1 /\ (tick - input) % Wrap = seenAway
                 /\ seenAway < UserThreshold
        BY <1>1, <1>2, <1>4, <2>1 DEF IdleInv, AwayInv
    <2> QED  BY <1>1, <1>2, <2>1, TickCounts
<1>7. AwayInv'
    BY <1>1, <1>2, <1>3, <1>4, <1>5, <1>6 DEF AwayInv
<1>8. WindowInv'
    <2>1. PICK counted \in {<<0, 0>>, <<0, 1>>, <<1, 1>>} :
             window' = IF pc = "window"
                       THEN <<window[1] + counted[1], window[2] + counted[2]>> ELSE window
        BY DEF Tick
    <2>2. window' \in Nat \X Nat /\ (pc # "window" => window' = window)
        BY <2>1 DEF IdleInv, WindowInv
    <2> QED  BY <1>1, <2>2 DEF IdleInv, WindowInv
<1>9. TimerInv'
    BY <1>1 DEF IdleInv, TimerInv
<1> QED  BY <1>7, <1>8, <1>9 DEF IdleInv

(* The last input is never asked for while the profiler holds an answer    *)
(* that a tick could have made too old.                                    *)
LEMMA SampleKeepsIdleInv ==
    ASSUME IdleInv, Input \/ Change \/ Call \/ Sampling \/ FnReturns
    PROVE  IdleInv'
<1>1. tick' = tick /\ tick \in 0..(Wrap - 1) /\ (tick - tick) % Wrap = 0
    <2>1. tick \in 0..(Wrap - 1)
        BY DEF IdleInv, AwayInv
    <2>2. (tick - tick) % Wrap = 0
        BY <2>1, WrapFacts, Difference
    <2> QED  BY <2>1, <2>2 DEF Input, Change, Call, Sampling, FnReturns, FirstTimes, SecondTimes,
                TimesFail, GetLastInputInfo, InputUnknown, GetTickCount, PollAgain, env
<1>2. AwayInv'
    BY <1>1, WrapFacts
    DEF Input, Change, Call, Sampling, FnReturns, FirstTimes, SecondTimes, TimesFail,
        GetLastInputInfo, InputUnknown, GetTickCount, PollAgain, env, IdleInv, AwayInv
<1>3. WindowInv'
    BY DEF Input, Change, Call, Sampling, FnReturns, FirstTimes, SecondTimes, TimesFail,
        GetLastInputInfo, InputUnknown, GetTickCount, PollAgain, IdleInv, WindowInv
<1>4. TimerInv'
    BY DEF Input, Change, Call, Sampling, FnReturns, FirstTimes, SecondTimes, TimesFail,
        GetLastInputInfo, InputUnknown, GetTickCount, PollAgain, IdleInv, TimerInv
<1> QED  BY <1>2, <1>3, <1>4 DEF IdleInv

(* The counts that the profiler takes from the system are those of its     *)
(* history (Sample).                                                       *)
THEOREM IdleInvariant == WorkSpec => []IdleInv
<1>1. IdleInv /\ [WorkNext]_workVars => IdleInv'
    <2>1. ASSUME IdleInv, UNCHANGED vars PROVE IdleInv'
        BY <2>1 DEF vars, env, IdleInv, AwayInv, WindowInv, TimerInv
    <2> QED  BY <2>1, TickKeepsIdleInv, SampleKeepsIdleInv
             DEF WorkNext, Profiler, Work, StartWork, WorkReturns, Others, Machine, workVars
<1> QED  BY InitIdleInv, <1>1, PTL DEF WorkSpec

(* Neither a count that has wrapped around, nor a call that failed, nor a  *)
(* window without any time in it, lets work begin on a machine whose user  *)
(* or processor was busy (Sample, RunWhenIdle).                            *)
THEOREM IdleRunsOnlyWhenFoundIdle == WorkSpec => RunsOnlyWhenFoundIdle
<1>1. ASSUME IdleInv, [WorkNext]_workVars, pc' = "fn", pc # "fn"
      PROVE  /\ seenAway = UserThreshold
             /\ window[1] * CpuThreshold[2] >= CpuThreshold[1] * window[2]
    <2>1. pc \in {"ticks", "late"} /\ IdleEnough /\ Elapsed >= UserThreshold
        BY <1>1 DEF WorkNext, Profiler, Work, StartWork, WorkReturns, Others, Machine, workVars,
            vars, Tick, Input, Change, Call, Sampling, FnReturns, FirstTimes, SecondTimes,
            TimesFail, GetLastInputInfo, InputUnknown, GetTickCount, PollAgain
    <2>2. seenAway = UserThreshold
        BY <1>1, <2>1, WrapFacts DEF IdleInv, AwayInv, Elapsed
    <2>3. CASE cpu = <<1, 2>>
        BY <2>1, <2>3, WrapFacts DEF IdleEnough
    <2>4. CASE cpu = window
        BY <2>1, <2>2, <2>4 DEF IdleEnough
    <2>5. CASE window[2] = 0
        <3>1. window[1] \in Nat
            BY <1>1 DEF IdleInv, WindowInv
        <3> QED  BY <2>2, <2>5, <3>1, WrapFacts
    <2> QED  BY <1>1, <2>1, <2>3, <2>4, <2>5 DEF IdleInv, WindowInv
<1>2. IdleInv /\ [WorkNext]_workVars =>
          [pc' = "fn" /\ pc # "fn" =>
              /\ seenAway = UserThreshold
              /\ window[1] * CpuThreshold[2] >= CpuThreshold[1] * window[2]]_vars
    BY <1>1
<1> QED  BY IdleInvariant, <1>2, PTL DEF WorkSpec, RunsOnlyWhenFoundIdle

(***************************************************************************)
(* The savings                                                             *)
(***************************************************************************)

(* What CompressFile knows of a file that nobody else has written to.      *)
KnownInv ==
    touched = FALSE =>
        /\ step \in {"open", "control"} /\ job = "compress" => original = size
        /\ step = "size" => original = size /\ compressed = TRUE
        /\ outcome.kind \in {"compressed", "already"} =>
              /\ compressed = TRUE /\ outcome.original = size
              /\ outcome.savings \in {0, size - Packed(size)}

JobInv ==
    /\ size \in Nat /\ (touched = TRUE \/ touched = FALSE)
    /\ step = "size" => job = "compress"
    /\ step = "stat" => job = "compress"
    /\ step # "ready" => outcome = NoOutcome

WorkInv == JobInv /\ KnownInv

(* No job has run, and no size is known. *)
LEMMA InitWorkInv == WorkInit => WorkInv
<1> SUFFICES ASSUME WorkInit PROVE WorkInv
    OBVIOUS
<1>1. JobInv
    BY NtfsConstants DEF WorkInit, NtfsInit, JobInv
<1>2. KnownInv
    BY DEF WorkInit, NtfsInit, KnownInv, NoOutcome
<1> QED  BY <1>1, <1>2 DEF WorkInv

(* The fields of a result. *)
LEMMA ResultFields ==
    ASSUME NEW kind, NEW was, NEW disk
    PROVE  /\ Result(kind, was, disk).kind = kind
           /\ Result(kind, was, disk).original = was
           /\ Result(kind, was, disk).savings = was - disk
BY DEF Result

(* Neither a failure nor a size that looks like one makes savings.         *)
LEMMA SizeKeepsWorkInv ==
    ASSUME WorkInv, CompressedSize
    PROVE  WorkInv'
<1>1. /\ UNCHANGED <<size, compressed, touched, job>> /\ step = "size" /\ step' = "ready"
      /\ \/ outcome' = Result("compressed", original,
                              IF OnDisk % Word = Word - 1 THEN original ELSE OnDisk)
         \/ outcome' = Result("compressed", original, original)
    BY DEF CompressedSize, file
<1>2. \/ outcome' = Result("compressed", original, OnDisk)
      \/ outcome' = Result("compressed", original, original)
    BY <1>1
<1>3. JobInv'
    BY <1>1 DEF WorkInv, JobInv
<1>4. ASSUME touched = FALSE
      PROVE  /\ compressed = TRUE /\ outcome'.original = size
             /\ outcome'.savings \in {0, size - Packed(size)}
    <2>1. original = size /\ compressed = TRUE /\ size \in Nat
        BY <1>1, <1>4 DEF WorkInv, JobInv, KnownInv
    <2>2. OnDisk = Packed(size) /\ size - size = 0
        BY <2>1 DEF OnDisk
    <2> QED  BY <1>2, <2>1, <2>2, ResultFields
<1>5. KnownInv'
    BY <1>1, <1>4 DEF KnownInv
<1> QED  BY <1>3, <1>5 DEF WorkInv

(* The attributes say whether the file was compressed before (Stat). *)
LEMMA StatKeepsWorkInv ==
    ASSUME WorkInv, Stat
    PROVE  WorkInv'
<1>1. /\ UNCHANGED <<size, compressed, touched, job>> /\ step = "stat"
      /\ \/ /\ compressed = TRUE /\ step' = "ready" /\ outcome' = Result("already", size, size)
         \/ step' = "open" /\ original' = size /\ outcome' = outcome
    BY DEF Stat, file
<1>2. size \in Nat /\ size - size = 0 /\ job = "compress" /\ outcome.kind = "none"
    BY <1>1 DEF WorkInv, JobInv, NoOutcome
<1>3. JobInv'
    BY <1>1 DEF WorkInv, JobInv
<1>4. KnownInv'
    BY <1>1, <1>2, ResultFields DEF KnownInv
<1> QED  BY <1>3, <1>4 DEF WorkInv

(* The other calls say nothing about the savings. *)
LEMMA CallsKeepWorkInv ==
    ASSUME WorkInv, Open \/ Compress \/ Decompress \/ CallFails \/ Begin
    PROVE  WorkInv'
<1>1. outcome'.kind \notin {"compressed", "already"} /\ size' = size
    BY DEF Open, Compress, Decompress, CallFails, Begin, WorkInv, JobInv, NoOutcome, file
<1>2. JobInv'
    BY DEF Open, Compress, Decompress, CallFails, Begin, WorkInv, JobInv, file
<1>3. KnownInv'
    BY <1>1 DEF Open, Compress, Decompress, CallFails, Begin, WorkInv, JobInv, KnownInv, file
<1> QED  BY <1>2, <1>3 DEF WorkInv

(* A write of another process changes no result that is already given. *)
LEMMA WriteKeepsWorkInv ==
    ASSUME WorkInv, Write, step # "ready"
    PROVE  WorkInv'
<1>1. JobInv'
    BY NtfsConstants DEF Write, WorkInv, JobInv
<1>2. KnownInv'
    BY DEF Write, KnownInv
<1> QED  BY <1>1, <1>2 DEF WorkInv

(* A returning call leaves the result it has given (WorkReturns). *)
LEMMA ReturnKeepsWorkInv ==
    ASSUME WorkInv, WorkReturns
    PROVE  WorkInv'
<1>1. /\ UNCHANGED <<size, compressed, step, job, original>> /\ step = "ready"
      /\ outcome' = NoOutcome /\ touched' = FALSE
    BY DEF WorkReturns, file
<1>2. JobInv' /\ KnownInv'
    BY <1>1 DEF WorkInv, JobInv, KnownInv, NoOutcome
<1> QED  BY <1>2 DEF WorkInv

(* However the calls of CompressFile fail, and however large a file is,    *)
(* the savings that are reported of a file nobody has written to meanwhile *)
(* are those there are, or none.                                           *)
THEOREM WorkSavingsAreReal == WorkSpec => []SavingsAreReal
<1>1. WorkInv /\ [WorkNext]_workVars => WorkInv'
    <2>1. ASSUME WorkInv, UNCHANGED ntfsVars PROVE WorkInv'
        BY <2>1 DEF ntfsVars, file, WorkInv, JobInv, KnownInv
    <2> QED  BY <2>1, SizeKeepsWorkInv, StatKeepsWorkInv, CallsKeepWorkInv, WriteKeepsWorkInv,
                ReturnKeepsWorkInv
             DEF WorkNext, Profiler, Work, StartWork, NtfsStep, Others, workVars
<1>2. WorkInv => SavingsAreReal
    BY DEF WorkInv, JobInv, KnownInv, SavingsAreReal, OnDisk
<1> QED  BY InitWorkInv, <1>1, <1>2, PTL DEF WorkSpec

(***************************************************************************)
(* Types                                                                   *)
(***************************************************************************)

(* No more time is counted in a window than has passed of it, and a        *)
(* fraction never has 0 below the line.                                    *)
SampleInv ==
    /\ calm \in BOOLEAN /\ block \in BOOLEAN
    /\ pc \in {"out", "sample", "window", "user", "ticks", "late", "decide", "sleep", "fn"}
    /\ timer \in 0..Max({Second, Poll})
    /\ window \in (0..Second) \X (0..Second) /\ window[1] <= window[2]
    /\ pc = "window" => window[2] + timer <= Second
    /\ cpu \in (0..Second) \X (1..Max({Second, 2})) /\ cpu[1] <= cpu[2]

(* The longest sleep, and the longest window or the answer of a failure. *)
LEMMA Longest ==
    /\ Second \in Nat /\ Poll \in Nat /\ Second > 0
    /\ Max({Second, Poll}) \in Nat
    /\ Second <= Max({Second, Poll}) /\ Poll <= Max({Second, Poll})
    /\ Max({Second, 2}) \in Nat /\ Second <= Max({Second, 2}) /\ 2 <= Max({Second, 2})
<1>1. Second \in Nat /\ Poll \in Nat /\ Second > 0
    BY IdleConstants
<1>2. ASSUME NEW a \in Nat, NEW b \in Nat
      PROVE  Max({a, b}) \in Nat /\ a <= Max({a, b}) /\ b <= Max({a, b})
    <2>1. CASE a <= b
        <3>1. Max({a, b}) = b
            BY <2>1 DEF Max
        <3> QED  BY <2>1, <3>1
    <2>2. CASE b <= a
        <3>1. Max({a, b}) = a
            BY <2>2 DEF Max
        <3> QED  BY <2>2, <3>1
    <2> QED  BY <2>1, <2>2
<1> QED  BY <1>1, <1>2

(* Nothing is counted yet. *)
LEMMA InitSampleInv == WorkInit => SampleInv /\ NtfsTypeOK
<1> SUFFICES ASSUME WorkInit PROVE SampleInv /\ NtfsTypeOK
    OBVIOUS
<1>1. SampleInv
    <2>1. /\ window = <<0, 0>> /\ cpu = <<0, 1>> /\ timer = 0 /\ pc = "out"
          /\ calm = FALSE /\ block = FALSE
        BY DEF WorkInit, Init
    <2>2. 0 \in 0..Second /\ 0 \in 0..Max({Second, Poll}) /\ 1 \in 1..Max({Second, 2})
        BY Longest
    <2>3. window \in (0..Second) \X (0..Second) /\ cpu \in (0..Second) \X (1..Max({Second, 2}))
        BY <2>1, <2>2
    <2>4. window[1] <= window[2] /\ cpu[1] <= cpu[2]
        BY <2>1
    <2> QED  BY <2>1, <2>2, <2>3, <2>4 DEF SampleInv
<1>2. NtfsTypeOK
    <2>1. /\ size \in 0..MaxSize /\ compressed \in BOOLEAN /\ touched = FALSE
          /\ step = "ready" /\ job = "compress" /\ original = 0 /\ outcome = NoOutcome
        BY DEF WorkInit, NtfsInit
    <2>2. 0 \in 0..MaxSize /\ outcome.kind = "none"
        BY <2>1, NtfsConstants DEF NoOutcome
    <2> QED  BY <2>1, <2>2 DEF NtfsTypeOK
<1> QED  BY <1>1, <1>2

(* A tick counts once at most, and makes the sleep of the window shorter.  *)
LEMMA TickKeepsSampleInv ==
    ASSUME SampleInv, Tick
    PROVE  SampleInv'
<1>1. /\ pc' = pc \/ pc' = "late"
      /\ timer' = IF timer > 0 THEN timer - 1 ELSE 0
      /\ UNCHANGED <<calm, block, cpu>>
      /\ timer > 0 \/ pc \in {"out", "fn", "ticks"}
    BY DEF Tick
<1>2. timer \in Nat /\ timer <= Max({Second, Poll}) /\ Max({Second, Poll}) \in Nat /\ Second \in Nat
    BY Longest DEF SampleInv
<1>3. timer' \in 0..Max({Second, Poll})
    BY <1>1, <1>2
<1>4. PICK counted \in {<<0, 0>>, <<0, 1>>, <<1, 1>>} :
          window' = IF pc = "window"
                    THEN <<window[1] + counted[1], window[2] + counted[2]>> ELSE window
    BY DEF Tick
<1>5. /\ window' \in (0..Second) \X (0..Second) /\ window'[1] <= window'[2]
      /\ pc' = "window" => window'[2] + timer' <= Second
    <2>1. window \in (0..Second) \X (0..Second) /\ window[1] <= window[2]
        BY DEF SampleInv
    <2>2. CASE pc = "window"
        <3>1. timer > 0 /\ timer' = timer - 1 /\ window[2] + timer <= Second
            BY <1>1, <2>2 DEF SampleInv
        <3>2. window' = <<window[1] + counted[1], window[2] + counted[2]>>
            BY <1>4, <2>2
        <3>3. /\ counted[1] \in 0..1 /\ counted[2] \in 0..1 /\ counted[1] <= counted[2]
            BY <1>4
        <3> QED  BY <1>2, <2>1, <3>1, <3>2, <3>3
    <2>3. CASE pc # "window"
        BY <1>1, <1>4, <2>1, <2>3
    <2> QED  BY <2>2, <2>3
<1> QED  BY <1>1, <1>3, <1>5 DEF SampleInv

(* A window without time in it never becomes the fraction (SecondTimes).   *)
LEMMA SampleKeepsSampleInv ==
    ASSUME SampleInv, Input \/ Change \/ Call \/ Sampling \/ FnReturns
    PROVE  SampleInv'
<1>1. /\ Second \in Nat /\ Poll \in Nat /\ Second > 0
      /\ Max({Second, Poll}) \in Nat
      /\ Second <= Max({Second, Poll}) /\ Poll <= Max({Second, Poll})
      /\ Max({Second, 2}) \in Nat /\ Second <= Max({Second, 2}) /\ 2 <= Max({Second, 2})
    BY Longest
<1>2. CASE Input \/ Change \/ Call \/ FnReturns
    BY <1>2 DEF Input, Change, Call, FnReturns, env, SampleInv
<1>3. CASE FirstTimes
    BY <1>1, <1>3 DEF FirstTimes, env, SampleInv
<1>4. CASE SecondTimes
    <2>1. /\ UNCHANGED <<calm, block, timer, window>> /\ pc' = "user"
          /\ cpu' = IF window[2] = 0 THEN <<1, 1>> ELSE window
        BY <1>4 DEF SecondTimes, env
    <2>2. window \in (0..Second) \X (0..Second) /\ window[1] <= window[2]
        BY DEF SampleInv
    <2>3. cpu' \in (0..Second) \X (1..Max({Second, 2})) /\ cpu'[1] <= cpu'[2]
        <3>1. CASE window[2] = 0
            BY <1>1, <2>1, <3>1
        <3>2. CASE window[2] # 0
            BY <1>1, <2>1, <2>2, <3>2
        <3> QED  BY <3>1, <3>2
    <2> QED  BY <2>1, <2>3 DEF SampleInv
<1>5. CASE TimesFail
    BY <1>1, <1>5 DEF TimesFail, env, SampleInv
<1>6. CASE GetLastInputInfo \/ InputUnknown \/ PollAgain
    BY <1>6 DEF GetLastInputInfo, InputUnknown, PollAgain, env, SampleInv
<1>7. CASE GetTickCount
    BY <1>1, <1>7 DEF GetTickCount, env, SampleInv
<1> QED  BY <1>2, <1>3, <1>4, <1>5, <1>6, <1>7 DEF Sampling

(* The sizes a call remembers are those a file may have. *)
LEMMA WorkKeepsNtfsTypeOK ==
    ASSUME NtfsTypeOK, Begin \/ NtfsStep \/ Write \/ WorkReturns
    PROVE  NtfsTypeOK'
<1>1. CASE Begin
    BY <1>1 DEF Begin, file, NtfsTypeOK, NoOutcome
<1>2. CASE Stat
    BY <1>2, ResultFields DEF Stat, file, NtfsTypeOK
<1>3. CASE Open \/ Compress \/ Decompress
    BY <1>3 DEF Open, Compress, Decompress, file, NtfsTypeOK, NoOutcome
<1>4. CASE CallFails
    BY <1>4, NtfsConstants DEF CallFails, file, NtfsTypeOK, NoOutcome
<1>5. CASE CompressedSize
    <2>1. outcome'.kind = "compressed" /\ step' = "ready" /\ original' = 0
        BY <1>5, ResultFields DEF CompressedSize
    <2> QED  BY <1>5, <2>1, NtfsConstants DEF CompressedSize, file, NtfsTypeOK
<1>6. CASE Write
    BY <1>6 DEF Write, NtfsTypeOK
<1>7. CASE WorkReturns
    BY <1>7 DEF WorkReturns, file, NtfsTypeOK, NoOutcome
<1> QED  BY <1>1, <1>2, <1>3, <1>4, <1>5, <1>6, <1>7 DEF NtfsStep

(* The counts stay within the counter's width, what is counted of a window *)
(* within the window, no fraction has 0 below the line, and the time since *)
(* the last input is the difference of two counts that wrap (Sample).      *)
THEOREM WorkTypes == WorkSpec => []WorkTypeOK
<1>1. SampleInv /\ NtfsTypeOK /\ [WorkNext]_workVars => SampleInv' /\ NtfsTypeOK'
    <2>1. ASSUME SampleInv, UNCHANGED vars PROVE SampleInv'
        BY <2>1 DEF vars, env, SampleInv
    <2>2. ASSUME NtfsTypeOK, UNCHANGED ntfsVars PROVE NtfsTypeOK'
        BY <2>2 DEF ntfsVars, file, NtfsTypeOK
    <2> QED  BY <2>1, <2>2, TickKeepsSampleInv, SampleKeepsSampleInv, WorkKeepsNtfsTypeOK
             DEF WorkNext, Profiler, Work, StartWork, WorkReturns, Others, Machine, workVars
<1>2. IdleInv /\ SampleInv /\ NtfsTypeOK => WorkTypeOK
    BY DEF IdleInv, AwayInv, TimerInv, SampleInv, WorkTypeOK, TypeOK
<1> QED  BY IdleInvariant, InitSampleInv, <1>1, <1>2, PTL DEF WorkSpec

===============================================================================
