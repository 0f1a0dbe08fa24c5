--------------------------- MODULE DriveErasureProofs ---------------------------
(***************************************************************************)
(* Proofs about the volume wipe, and about `detect-hidden` and             *)
(* `wipe-volume` on one drive, for drives, volumes, sectors and chunks of  *)
(* any size, any method and any failures.                                  *)
(***************************************************************************)
EXTENDS DriveErasure, WipeMethodsProofs

(***************************************************************************)
(* The volume wipe: a completed wipe has covered every cell, and an        *)
(* aborted one leaves two adjoining layers; on a volume of whole sectors   *)
(* nothing but a failed call aborts it.                                    *)
(***************************************************************************)

(* Where the loops of WipeVolume stand: in a pass the file pointer is at   *)
(* the offset, unless an unnoticed seek failure left it at the end.        *)
PositionInv ==
    /\ phase = "open" => pass = 1 /\ offset = 0 /\ pos = 0
    /\ phase = "pass" => pos \in {0, Capacity}
    /\ phase = "write" => offset < Capacity /\ pos \in {offset, Capacity}
    /\ phase = "done" => offset = Capacity /\ pass = Passes

(* The current pass lies in front of the offset, the pass before behind.   *)
LayerInv ==
    \A i \in Cells \ dirtied :
        cell[i] = IF phase = "pass" \/ i > offset THEN pass - 1 ELSE pass

IInv == TypeOK /\ PositionInv /\ LayerInv

(* Each method has a pass. *)
LEMMA PassesPositive ==
    ASSUME method \in WipeMethod
    PROVE  Passes \in Nat \ {0} /\ Passes = Promised(method)
BY ScheduleLength DEF Passes

(* Nothing is written, and no pass has begun. *)
LEMMA InitIInv == Init => IInv
<1> SUFFICES ASSUME Init PROVE IInv
    OBVIOUS
<1>1. Passes \in Nat \ {0}
    BY PassesPositive DEF Init
<1>2. TypeOK
    <2>1. /\ cell \in [Cells -> 0..Passes] /\ pass \in 1..Passes
          /\ offset \in 0..Capacity /\ pos \in 0..Capacity
        BY <1>1, VolumeOK DEF Init
    <2> QED  BY <2>1 DEF Init, TypeOK
<1>3. PositionInv /\ LayerInv
    BY VolumeOK DEF Init, PositionInv, LayerInv, Cells
<1> QED  BY <1>2, <1>3 DEF IInv

(* A write carries the frontier on by what it wrote, and ends the pass or  *)
(* the wipe when the frontier reaches the capacity.                        *)
LEMMA WriteKeepsIInv ==
    ASSUME IInv, WriteChunk
    PROVE  IInv'
<1>1. PICK n \in Written :
          /\ cell' = [i \in Cells |-> IF i \in (pos + 1)..(pos + n) THEN pass ELSE cell[i]]
          /\ dirtied' = dirtied \ ((pos + 1)..(pos + n))
          /\ pos' = pos + n /\ offset' = offset + n
    BY DEF WriteChunk, AfterWrite
<1>2. /\ offset \in Nat /\ Capacity \in Nat /\ pass \in Nat /\ Passes \in Nat \ {0}
      /\ pass <= Passes /\ offset < Capacity /\ pos \in {offset, Capacity} /\ phase = "write"
    BY PassesPositive, VolumeOK DEF IInv, TypeOK, PositionInv, WriteChunk, AfterWrite
<1>3. n \in Int /\ n >= 1 /\ pos + n <= Capacity
    <2>1. Least(Chunk, Capacity - offset) \in Int
        BY <1>2, VolumeOK DEF Least
    <2>2. n \in 1..ToWrite /\ pos + n <= Capacity
        BY DEF Written
    <2>3. ToWrite \in Int
        BY <2>1, VolumeOK DEF ToWrite, RoundUp
    <2> QED  BY <2>2, <2>3
<1>4. pos = offset /\ pos' = offset' /\ offset' \in 0..Capacity
    BY <1>1, <1>2, <1>3
<1>5. Passes' = Passes /\ method' = method /\ fault' = fault
    BY DEF WriteChunk, AfterWrite, Passes
<1>6. \/ offset' < Capacity /\ phase' = "write" /\ pass' = pass
      \/ offset' = Capacity /\ pass < Passes /\ phase' = "pass" /\ pass' = pass + 1
      \/ offset' = Capacity /\ pass = Passes /\ phase' = "done" /\ pass' = pass
    BY <1>2, <1>4 DEF WriteChunk, AfterWrite
<1>7. TypeOK'
    <2>1. cell' \in [Cells -> 0..Passes]
        BY <1>1, <1>2 DEF IInv, TypeOK
    <2>2. dirtied' \subseteq Cells
        BY <1>1 DEF IInv, TypeOK
    <2> QED  BY <1>2, <1>4, <1>5, <1>6, <2>1, <2>2 DEF IInv, TypeOK
<1>8. PositionInv'
    BY <1>2, <1>4, <1>5, <1>6 DEF PositionInv
<1>9. LayerInv'
    <2>1. SUFFICES ASSUME NEW i \in Cells \ dirtied'
                   PROVE  cell'[i] = IF phase' = "pass" \/ i > offset' THEN pass' - 1 ELSE pass'
        BY DEF LayerInv
    <2>2. i \in Int /\ i <= Capacity /\ i >= 1
        BY <1>2 DEF Cells
    <2>3. CASE i \in (pos + 1)..(pos + n)
        <3>1. cell'[i] = pass
            BY <1>1, <2>3
        <3>2. i <= offset'
            BY <1>1, <1>2, <1>3, <1>4, <2>2, <2>3
        <3> QED  BY <1>2, <1>4, <1>6, <2>2, <3>1, <3>2
    <2>4. CASE i \notin (pos + 1)..(pos + n)
        <3>1. i \in Cells \ dirtied /\ cell'[i] = cell[i]
            BY <1>1, <2>1, <2>4
        <3>2. cell[i] = IF i > offset THEN pass - 1 ELSE pass
            BY <1>2, <3>1 DEF IInv, LayerInv
        <3>3. i > offset <=> i > offset'
            BY <1>1, <1>2, <1>3, <1>4, <2>2, <2>4
        <3> QED  BY <1>2, <1>4, <1>6, <2>2, <3>1, <3>2, <3>3
    <2> QED  BY <2>3, <2>4
<1> QED  BY <1>7, <1>8, <1>9 DEF IInv

(* The other steps of the engine write nothing. *)
LEMMA EngineKeepsIInv ==
    ASSUME IInv, OpenVolume \/ BeginPass \/ WriteRefused \/ WriteFails
    PROVE  IInv'
<1>1. UNCHANGED <<cell, dirtied, method, pass>> /\ Passes' = Passes
    BY DEF OpenVolume, BeginPass, WriteRefused, WriteFails, Passes
<1>2. TypeOK'
    <2>1. offset' \in 0..Capacity /\ pos' \in 0..Capacity
        BY VolumeOK DEF OpenVolume, BeginPass, WriteRefused, WriteFails, IInv, TypeOK
    <2>2. phase' \in {"open", "pass", "write", "done", "thrown"}
        BY DEF OpenVolume, BeginPass, WriteRefused, WriteFails
    <2>3. fault' \in BOOLEAN
        BY DEF OpenVolume, BeginPass, WriteRefused, WriteFails, IInv, TypeOK
    <2> QED  BY <1>1, <2>1, <2>2, <2>3 DEF IInv, TypeOK
<1>3. CASE OpenVolume
    BY <1>1, <1>2, <1>3, VolumeOK
    DEF OpenVolume, IInv, TypeOK, PositionInv, LayerInv, Cells
<1>4. CASE BeginPass
    BY <1>1, <1>2, <1>4, VolumeOK
    DEF BeginPass, IInv, TypeOK, PositionInv, LayerInv, Cells
<1>5. CASE WriteRefused \/ WriteFails
    BY <1>1, <1>2, <1>5 DEF WriteRefused, WriteFails, IInv, PositionInv, LayerInv
<1> QED  BY <1>3, <1>4, <1>5

(* What others write is excepted until the next pass comes to it. *)
LEMMA ForeignKeepsIInv ==
    ASSUME IInv, NEW i \in Cells, ForeignWrite(i)
    PROVE  IInv'
<1>1. UNCHANGED <<method, phase, pass, offset, pos, fault>> /\ Passes' = Passes
    BY DEF ForeignWrite, Passes
<1>2. Passes \in Nat
    BY PassesPositive DEF IInv, TypeOK
<1>3. TypeOK'
    BY <1>1, <1>2 DEF ForeignWrite, IInv, TypeOK
<1>4. PositionInv'
    BY <1>1 DEF IInv, PositionInv
<1>5. LayerInv'
    BY <1>1 DEF ForeignWrite, IInv, TypeOK, LayerInv
<1> QED  BY <1>3, <1>4, <1>5 DEF IInv

(* The pointer is at the offset or at the end, and the cells before and    *)
(* behind it are one pass apart (WipeVolume).                              *)
THEOREM VolumeInvariant == Spec => []IInv
<1>1. IInv /\ [Next]_vars => IInv'
    <2>1. ASSUME IInv, UNCHANGED vars PROVE IInv'
        BY <2>1 DEF vars, IInv, TypeOK, PositionInv, LayerInv, Passes
    <2> QED  BY <2>1, WriteKeepsIInv, EngineKeepsIInv, ForeignKeepsIInv DEF Next, Engine
<1> QED  BY InitIInv, <1>1, PTL DEF Spec

(* Every variable keeps to its range: the offset and the file pointer never *)
(* leave the volume, and the pass number never leaves the schedule.         *)
THEOREM VolumeTypeOK == Spec => []TypeOK
<1>1. IInv => TypeOK
    BY DEF IInv
<1> QED  BY VolumeInvariant, <1>1, PTL

(* A result is returned only for a volume whose every cell has taken the   *)
(* last of the passes promised for the method, unless others wrote to it   *)
(* behind that pass.                                                       *)
THEOREM VolumeCompletedMeansCovered == Spec => []CompletedMeansCovered
<1>1. ASSUME IInv PROVE CompletedMeansCovered
    <2>1. SUFFICES ASSUME phase = "done", NEW i \in Cells \ dirtied
                   PROVE  cell[i] = Promised(method)
        BY DEF CompletedMeansCovered
    <2>2. i \in Int /\ i <= Capacity /\ Capacity \in Nat
        BY VolumeOK DEF Cells
    <2>3. cell[i] = pass /\ pass = Passes
        BY <1>1, <2>1, <2>2 DEF IInv, PositionInv, LayerInv
    <2> QED  BY <1>1, <2>3, PassesPositive DEF IInv, TypeOK
<1> QED  BY VolumeInvariant, <1>1, PTL

(* An aborted wipe leaves at most two layers, the newer one in front. *)
THEOREM VolumePassFrontier == Spec => []PassFrontier
<1>1. ASSUME IInv PROVE PassFrontier
    <2>1. offset \in Int /\ pass \in Int
        BY <1>1, VolumeOK, PassesPositive DEF IInv, TypeOK
    <2>2. SUFFICES ASSUME NEW i \in Cells \ dirtied, NEW j \in Cells \ dirtied, i <= j
                   PROVE  cell[i] \in {cell[j], cell[j] + 1} /\ cell[j] >= pass - 1
        BY DEF PassFrontier
    <2>3. i \in Int /\ j \in Int
        BY VolumeOK DEF Cells
    <2> QED  BY <1>1, <2>1, <2>2, <2>3 DEF IInv, LayerInv
<1> QED  BY VolumeInvariant, <1>1, PTL

(* How far a wipe has come: which pass, and in it the way from the open    *)
(* handle to the seek, the writes and the end, and then the offset.  There *)
(* are as many passes as the schedule has, four stages to each, and the    *)
(* offset never leaves the volume.                                         *)
Stage(where) == CASE where = "open"  -> 0
                  [] where = "pass"  -> 1
                  [] where = "write" -> 2
                  [] OTHER           -> 3

Further ==
    \/ pass' > pass
    \/ pass' = pass /\ Stage(phase') > Stage(phase)
    \/ pass' = pass /\ phase' = phase /\ offset' > offset

(* No call is made in vain: each carries the wipe on, whether it fails or  *)
(* writes little, and nobody else moves the wipe at all.  A wipe therefore *)
(* makes finitely many calls, on a volume and with a schedule of any size  *)
(* (WipeVolume's two loops).                                               *)
THEOREM VolumeProgress ==
    Spec => [][(Engine => Further) /\ (Engine \/ UNCHANGED <<phase, pass, offset>>)]_vars
<1>1. ASSUME IInv, WriteChunk PROVE Further
    <2>1. PICK n \in Written : offset' = offset + n
        BY <1>1 DEF WriteChunk
    <2>2. offset \in Nat /\ pass \in Nat /\ n > 0 /\ n \in Int
        <3>1. offset \in Nat /\ pass \in Nat
            BY <1>1, VolumeOK, PassesPositive DEF IInv, TypeOK
        <3>2. Least(Chunk, Capacity - offset) \in Int
            BY <3>1, VolumeOK DEF Least
        <3>3. ToWrite \in Int
            BY <3>2, VolumeOK DEF ToWrite, RoundUp
        <3> QED  BY <3>1, <3>3 DEF Written
    <2>3. offset' > offset
        BY <2>1, <2>2
    <2>4. /\ phase = "write"
          /\ \/ phase' = phase /\ pass' = pass
             \/ pass' = pass + 1
             \/ phase' = "done" /\ pass' = pass
        BY <1>1 DEF WriteChunk, AfterWrite
    <2> QED  BY <2>2, <2>3, <2>4 DEF Further, Stage
<1>2. ASSUME OpenVolume \/ BeginPass \/ WriteRefused \/ WriteFails PROVE Further
    <2>1. /\ pass' = pass
          /\ \/ phase = "open" /\ phase' \in {"pass", "thrown"}
             \/ phase = "pass" /\ phase' = "write"
             \/ phase = "write" /\ phase' = "thrown"
        BY <1>2 DEF OpenVolume, BeginPass, WriteRefused, WriteFails
    <2>2. Stage(phase') > Stage(phase)
        BY <2>1 DEF Stage
    <2> QED  BY <2>1, <2>2 DEF Further
<1>3. ASSUME NEW i \in Cells, ForeignWrite(i) PROVE UNCHANGED <<phase, pass, offset>>
    BY <1>3 DEF ForeignWrite
<1> DEFINE Move == (Engine => Further) /\ (Engine \/ UNCHANGED <<phase, pass, offset>>)
<1>4. IInv /\ [Next]_vars => [Move]_vars
    <2>1. IInv /\ Next => Move
        BY <1>1, <1>2, <1>3 DEF Next, Engine
    <2> QED  BY <2>1
<1>5. Spec => [][Move]_vars
    <2> HIDE DEF Move
    <2> QED  BY VolumeInvariant, <1>4, PTL DEF Spec
<1> QED  BY <1>5

(***************************************************************************)
(* A healthy volume of whole sectors                                       *)
(***************************************************************************)

(* Division with remainder. *)
LEMMA DivMod ==
    ASSUME NEW m \in Int, NEW s \in Int, s > 0
    PROVE  m = s * (m \div s) + (m % s)
BY SMT

(* Quotient and remainder are unique. *)
LEMMA MultipleRemainder ==
    ASSUME NEW s \in Int, s > 0, NEW q \in Int, NEW r \in 0..(s - 1)
    PROVE  (s * q + r) \div s = q /\ (s * q + r) % s = r
<1> DEFINE m == s * q + r
<1>1. m \in Int
    OBVIOUS
<1>2. m \div s \in Int /\ m % s \in 0..(s - 1)
    BY <1>1
<1>3. m = s * (m \div s) + (m % s)
    BY <1>1, DivMod
<1>4. ASSUME NEW d \in Int, s * d > 0 - s, s * d < s
      PROVE  d = 0
    <2>1. d >= 1 => s * d >= s
        OBVIOUS
    <2>2. d <= -1 => s * d <= 0 - s
        OBVIOUS
    <2> QED  BY <1>4, <2>1, <2>2
<1>5. s * ((m \div s) - q) = r - (m % s)
    BY <1>2, <1>3
<1>6. (m \div s) - q = 0
    BY <1>2, <1>4, <1>5
<1>7. m \div s = q /\ m % s = r
    BY <1>2, <1>3, <1>6
<1> QED  BY <1>7

(* Whole sectors and whole sectors make whole sectors, and less of them    *)
(* are left.                                                               *)
LEMMA WholeSectors ==
    ASSUME NEW a \in Int, NEW b \in Int, a % Sector = 0, b % Sector = 0
    PROVE  (a + b) % Sector = 0 /\ (a - b) % Sector = 0
<1>1. Sector \in Int /\ Sector > 0
    BY VolumeOK
<1>2. a = Sector * (a \div Sector) /\ b = Sector * (b \div Sector)
    BY <1>1, DivMod
<1>3. a \div Sector \in Int /\ b \div Sector \in Int
    BY <1>1
<1>4. ASSUME NEW p \in Int, NEW q \in Int
      PROVE  /\ (Sector * p + Sector * q) % Sector = 0
             /\ (Sector * p - Sector * q) % Sector = 0
    <2>1. /\ Sector * p + Sector * q = Sector * (p + q) + 0
          /\ Sector * p - Sector * q = Sector * (p - q) + 0
        BY <1>1
    <2>2. p + q \in Int /\ p - q \in Int /\ 0 \in 0..(Sector - 1)
        BY <1>1
    <2> QED  BY <1>1, <2>1, <2>2, MultipleRemainder
<1> QED  BY <1>2, <1>3, <1>4

(* What is whole sectors is not rounded up. *)
LEMMA RoundUpOfWhole ==
    ASSUME NEW m \in Int, m % Sector = 0
    PROVE  RoundUp(m) = m
<1>1. Sector \in Int /\ Sector > 0
    BY VolumeOK
<1>2. m = Sector * (m \div Sector) /\ m \div Sector \in Int
    BY <1>1, DivMod
<1>3. Sector - 1 \in 0..(Sector - 1)
    BY <1>1
<1>4. (Sector * (m \div Sector) + (Sector - 1)) \div Sector = m \div Sector
    BY <1>1, <1>2, <1>3, MultipleRemainder
<1>5. m + Sector - 1 = Sector * (m \div Sector) + (Sector - 1)
    BY <1>1, <1>2
<1> QED  BY <1>1, <1>2, <1>4, <1>5 DEF RoundUp

(* As long as no call has failed, the pointer is at the offset, and both   *)
(* are at the start of a sector.                                           *)
HealthyInv ==
    /\ ~fault /\ phase = "write" => pos = offset /\ offset % Sector = 0
    /\ phase = "thrown" => fault

(* On whole sectors no rounded write reaches past the end (ToWrite). *)
LEMMA WriteFits ==
    ASSUME Capacity % Sector = 0, IInv, HealthyInv, phase = "write", ~fault
    PROVE  ~PastEnd
<1>1. /\ offset \in Nat /\ offset < Capacity /\ pos = offset /\ offset % Sector = 0
      /\ Capacity \in Nat /\ Chunk \in Nat /\ Chunk % Sector = 0
    BY VolumeOK DEF IInv, TypeOK, PositionInv, HealthyInv
<1>2. (Capacity - offset) % Sector = 0
    BY <1>1, WholeSectors
<1>3. /\ Least(Chunk, Capacity - offset) % Sector = 0
      /\ Least(Chunk, Capacity - offset) \in Int
      /\ Least(Chunk, Capacity - offset) <= Capacity - offset
    BY <1>1, <1>2 DEF Least
<1>4. ToWrite <= Capacity - offset /\ ToWrite \in Int
    BY <1>3, RoundUpOfWhole DEF ToWrite
<1> QED  BY <1>1, <1>4 DEF PastEnd

(* Only a failed call ends the wipe early. *)
LEMMA StepKeepsHealthyInv ==
    ASSUME Capacity % Sector = 0, IInv, HealthyInv, Next
    PROVE  HealthyInv'
<1>1. CASE OpenVolume
    BY <1>1 DEF OpenVolume, HealthyInv
<1>2. CASE BeginPass
    <2>1. 0 % Sector = 0
        BY VolumeOK
    <2> QED  BY <1>2, <2>1 DEF BeginPass, HealthyInv
<1>3. CASE WriteChunk
    <2>1. PICK n \in Written : pos' = pos + n /\ offset' = offset + n
        BY <1>3 DEF WriteChunk
    <2>2. phase = "write" /\ fault' = fault /\ phase' \in {"write", "pass", "done"}
        BY <1>3 DEF WriteChunk, AfterWrite
    <2>3. ASSUME ~fault', phase' = "write" PROVE pos' = offset' /\ offset' % Sector = 0
        <3>1. pos = offset /\ offset \in Int /\ offset % Sector = 0
            BY <2>2, <2>3, VolumeOK DEF HealthyInv, IInv, TypeOK
        <3>2. /\ n % Sector = 0 \/ pos + n = Capacity
              /\ n \in Int
            <4>1. Least(Chunk, Capacity - offset) \in Int
                BY <3>1, VolumeOK DEF Least
            <4>2. ToWrite \in Int
                BY <4>1, VolumeOK DEF ToWrite, RoundUp
            <4> QED  BY <4>2 DEF Written
        <3>3. offset' % Sector = 0
            BY <2>1, <3>1, <3>2, WholeSectors
        <3> QED  BY <2>1, <3>1, <3>3
    <2> QED  BY <2>2, <2>3 DEF HealthyInv
<1>4. CASE WriteRefused
    <2>1. phase = "write" /\ PastEnd /\ fault' = fault /\ phase' = "thrown"
        BY <1>4 DEF WriteRefused
    <2>2. fault
        BY <2>1, WriteFits
    <2> QED  BY <2>1, <2>2 DEF HealthyInv
<1>5. CASE WriteFails
    BY <1>5 DEF WriteFails, HealthyInv
<1>6. ASSUME NEW i \in Cells, ForeignWrite(i) PROVE HealthyInv'
    BY <1>6 DEF ForeignWrite, HealthyInv
<1> QED  BY <1>1, <1>2, <1>3, <1>4, <1>5, <1>6 DEF Next, Engine

(* A volume of whole sectors on which no call fails is not given up: no    *)
(* write of any pass runs past its end (WipeVolume's rounding).            *)
THEOREM VolumeHealthyCompletes ==
    ASSUME Capacity % Sector = 0
    PROVE  Spec => []HealthyVolumeCompletes
<1>1. IInv /\ HealthyInv /\ [Next]_vars => HealthyInv'
    <2>1. ASSUME UNCHANGED vars, HealthyInv PROVE HealthyInv'
        BY <2>1 DEF vars, HealthyInv
    <2> QED  BY <2>1, StepKeepsHealthyInv
<1>2. Init => HealthyInv
    BY DEF Init, HealthyInv
<1>3. HealthyInv => HealthyVolumeCompletes
    BY DEF HealthyInv, HealthyVolumeCompletes
<1> QED  BY VolumeInvariant, <1>1, <1>2, <1>3, PTL DEF Spec

(***************************************************************************)
(* The two commands: an alarm is true, small drives are reported to the    *)
(* sector, and what the two together leave behind on such a drive has been *)
(* said.                                                                   *)
(***************************************************************************)

Before  == {"open", "length", "native", "compare"}

(* What each step of Detect has left in the report.                        *)
ReportInv ==
    /\ Capacity <= native * ratio
    /\ step \in Before => hpa_detected = FALSE /\ hpa_hidden_sectors = 0
    /\ step \in {"open", "length"} => native_max_sectors = 0
    /\ step \in {"native", "compare", "reported"} /\ warned = FALSE =>
          os_visible_sectors = Capacity
    /\ native_max_sectors \in {0, D!NativeAnswer}
    /\ hpa_detected = TRUE =>
          /\ recommendation = "hidden" /\ native_max_sectors > os_visible_sectors
          /\ hpa_hidden_sectors = native_max_sectors - os_visible_sectors
    /\ step = "reported" /\ hpa_detected = FALSE /\ warned = FALSE =>
          hpa_hidden_sectors = 0 /\ native_max_sectors <= os_visible_sectors

(* The ranges of the sizes, and of the flags. *)
Sizes ==
    /\ native \in 1..MaxNative /\ ratio \in Ratios
    /\ os_visible_sectors \in {0, Capacity} /\ native_max_sectors \in 0..native
    /\ hpa_hidden_sectors \in 0..native
Flags ==
    /\ whole \in BOOLEAN /\ hpa_detected \in BOOLEAN /\ warned \in BOOLEAN
    /\ step \in {"open", "length", "native", "compare", "reported"}
    /\ recommendation \in {"none", "hidden", "sufficient", "rerun"}

DetectInv == D!TypeOK /\ ReportInv

(* The wipe waits for the report. *)
OrderInv == phase # "open" => step = "reported"

(* The answer never names more sectors than there are, and all of them if  *)
(* three registers hold the last address.                                  *)
LEMMA NativeAnswerBound ==
    ASSUME native \in 1..MaxNative
    PROVE  /\ D!NativeAnswer \in 0..native
           /\ native <= Registers /\ D!NativeAnswer > 0 => D!NativeAnswer = native
<1>1. /\ native \in Int /\ native >= 1 /\ Lba28 \in Int /\ Lba28 > 0
      /\ Registers \in Int /\ Registers > 0 /\ Registers <= Lba28
    BY DriveOK
<1>2. D!LastAddress \in Nat /\ D!LastAddress < native
    BY <1>1 DEF D!LastAddress
<1>3. ASSUME NEW n \in Nat
      PROVE  n % Registers \in 0..n /\ (n < Registers => n % Registers = n)
    BY <1>1
<1>4. native <= Registers => D!LastAddress = native - 1
    BY <1>1 DEF D!LastAddress
<1>5. /\ D!LastAddress % Registers \in 0..D!LastAddress
      /\ native <= Registers => D!LastAddress % Registers = native - 1
    BY <1>1, <1>2, <1>3, <1>4
<1> QED  BY <1>1, <1>2, <1>5 DEF D!NativeAnswer

(* A detector that has not run has found nothing. *)
LEMMA InitDetectInv == DriveInit => DetectInv /\ OrderInv
<1> SUFFICES ASSUME DriveInit PROVE DetectInv /\ OrderInv
    OBVIOUS
<1>1. D!TypeOK
    <2>1. Sizes
        BY DriveOK DEF DriveInit, D!Init, Sizes
    <2>2. Flags
        BY DEF DriveInit, D!Init, Flags
    <2> QED  BY <2>1, <2>2 DEF D!TypeOK, Sizes, Flags
<1>2. ReportInv
    BY DEF DriveInit, D!Init, ReportInv, Before
<1>3. OrderInv
    BY DEF DriveInit, Init, OrderInv
<1> QED  BY <1>1, <1>2, <1>3 DEF DetectInv

(* The three calls and the comparison (HpaDetect's Detect). *)
LEMMA DetectKeepsInv ==
    ASSUME DetectInv, OrderInv, D!Detect, UNCHANGED vars
    PROVE  DetectInv' /\ OrderInv'
<1>1. native' = native /\ ratio' = ratio /\ whole' = whole /\ D!NativeAnswer' = D!NativeAnswer
    BY DEF D!Detect, D!OpenDrive, D!OpenFails, D!GetLength, D!AtaReadNativeMax, D!Compare,
           D!drive, D!NativeAnswer, D!LastAddress
<1>2. /\ D!NativeAnswer \in 0..native /\ native \in Nat /\ Capacity \in Nat
      /\ native_max_sectors \in Nat /\ os_visible_sectors \in Nat
    BY NativeAnswerBound, VolumeOK, DriveOK DEF DetectInv, D!TypeOK
<1>3. OrderInv'
    BY DEF OrderInv, vars, D!Detect, D!OpenDrive, D!OpenFails, D!GetLength,
           D!AtaReadNativeMax, D!Compare
<1>4. CASE D!OpenDrive
    <2>1. D!TypeOK'
        <3>1. Sizes'
            BY <1>1, <1>2, <1>4 DEF D!OpenDrive, D!drive, D!report, DetectInv, D!TypeOK, Sizes
        <3>2. Flags'
            BY <1>1, <1>4 DEF D!OpenDrive, D!drive, D!report, DetectInv, D!TypeOK, Flags
        <3> QED  BY <3>1, <3>2 DEF D!TypeOK, Sizes, Flags
    <2>2. ReportInv'
        BY <1>1, <1>2, <1>4
        DEF D!OpenDrive, D!drive, D!report, DetectInv, D!TypeOK, ReportInv, Before
    <2> QED  BY <1>3, <2>1, <2>2 DEF DetectInv
<1>5. CASE D!OpenFails
    <2>1. D!TypeOK'
        <3>1. Sizes'
            BY <1>1, <1>2, <1>5 DEF D!OpenFails, D!drive, DetectInv, D!TypeOK, Sizes
        <3>2. Flags'
            BY <1>1, <1>5 DEF D!OpenFails, D!drive, DetectInv, D!TypeOK, Flags
        <3> QED  BY <3>1, <3>2 DEF D!TypeOK, Sizes, Flags
    <2>2. ReportInv'
        BY <1>1, <1>2, <1>5
        DEF D!OpenFails, D!drive, DetectInv, D!TypeOK, ReportInv, Before
    <2> QED  BY <1>3, <2>1, <2>2 DEF DetectInv
<1>6. CASE D!GetLength
    <2>1. D!TypeOK'
        <3>1. Sizes'
            BY <1>1, <1>2, <1>6 DEF D!GetLength, D!drive, DetectInv, D!TypeOK, Sizes
        <3>2. Flags'
            BY <1>1, <1>6 DEF D!GetLength, D!drive, DetectInv, D!TypeOK, Flags
        <3> QED  BY <3>1, <3>2 DEF D!TypeOK, Sizes, Flags
    <2>2. ReportInv'
        BY <1>1, <1>2, <1>6
        DEF D!GetLength, D!drive, DetectInv, D!TypeOK, ReportInv, Before
    <2> QED  BY <1>3, <2>1, <2>2 DEF DetectInv
<1>7. CASE D!AtaReadNativeMax
    <2>1. D!TypeOK'
        <3>1. Sizes'
            BY <1>1, <1>2, <1>7 DEF D!AtaReadNativeMax, D!drive, DetectInv, D!TypeOK, Sizes
        <3>2. Flags'
            BY <1>1, <1>7 DEF D!AtaReadNativeMax, D!drive, DetectInv, D!TypeOK, Flags
        <3> QED  BY <3>1, <3>2 DEF D!TypeOK, Sizes, Flags
    <2>2. ReportInv'
        BY <1>1, <1>2, <1>7
        DEF D!AtaReadNativeMax, D!drive, DetectInv, D!TypeOK, ReportInv, Before
    <2> QED  BY <1>3, <2>1, <2>2 DEF DetectInv
<1>8. CASE D!Compare
    <2>1. D!TypeOK'
        <3>1. Sizes'
            BY <1>1, <1>2, <1>8 DEF D!Compare, D!drive, DetectInv, D!TypeOK, Sizes
        <3>2. Flags'
            BY <1>1, <1>8 DEF D!Compare, D!drive, DetectInv, D!TypeOK, Flags
        <3> QED  BY <3>1, <3>2 DEF D!TypeOK, Sizes, Flags
    <2>2. ReportInv'
        BY <1>1, <1>2, <1>8
        DEF D!Compare, D!drive, DetectInv, D!TypeOK, ReportInv, Before
    <2> QED  BY <1>3, <2>1, <2>2 DEF DetectInv
<1> QED  BY <1>3, <1>4, <1>5, <1>6, <1>7, <1>8 DEF D!Detect

(* The wipe of the composed system is a volume wipe: what is proved of     *)
(* that above holds of this too.                                           *)
THEOREM DriveImplementsVolume == DriveSpec => Spec
<1>1. [DriveNext]_allVars => [Next]_vars
    BY DEF DriveNext, DetectHidden, WipeStep, Meanwhile, allVars, Next, vars
<1>2. DriveInit => Init
    BY DEF DriveInit
<1> QED  BY <1>1, <1>2, PTL DEF DriveSpec, Spec

(* The wipe keeps its own invariant, whatever the detector has said.       *)
THEOREM DriveInvariant == DriveSpec => [](IInv /\ DetectInv /\ OrderInv)
<1>1. DetectInv /\ OrderInv /\ [DriveNext]_allVars => DetectInv' /\ OrderInv'
    <2>1. ASSUME DetectInv, OrderInv, UNCHANGED detectVars, step = "reported" \/ UNCHANGED vars
          PROVE  DetectInv' /\ OrderInv'
        BY <2>1 DEF detectVars, vars, DetectInv, ReportInv, OrderInv, D!TypeOK, D!NativeAnswer,
                    D!LastAddress, Before
    <2> QED  BY <2>1, DetectKeepsInv
             DEF DriveNext, DetectHidden, WipeStep, Meanwhile, allVars
<1> QED  BY InitDetectInv, VolumeInvariant, DriveImplementsVolume, <1>1, PTL DEF DriveSpec

(* The variables of both commands keep to their ranges; the native size    *)
(* reported never exceeds that of the drive.                               *)
THEOREM DriveErasureTypeOK == DriveSpec => []DriveTypeOK
<1>1. IInv /\ DetectInv => DriveTypeOK
    BY DEF IInv, DetectInv, DriveTypeOK
<1> QED  BY DriveInvariant, <1>1, PTL

(* An alarm about a drive, raised without a warning, is true, and names no *)
(* more sectors than are hidden (Compare).                                 *)
THEOREM DriveAlarmMeansHidden == DriveSpec => []AlarmMeansHidden
<1>1. ASSUME DetectInv, hpa_detected, ~warned
      PROVE  hpa_hidden_sectors <= native * ratio - Capacity
    <2>1. step = "reported"
        BY <1>1 DEF DetectInv, ReportInv, D!TypeOK, Before
    <2>2. /\ os_visible_sectors = Capacity /\ Capacity \in Nat
          /\ hpa_hidden_sectors = native_max_sectors - os_visible_sectors
          /\ native_max_sectors \in Nat /\ native_max_sectors <= native
          /\ native \in Nat /\ ratio \in Nat /\ ratio >= 1
        BY <1>1, <2>1, VolumeOK, DriveOK DEF DetectInv, ReportInv, D!TypeOK
    <2>3. native * ratio \in Nat /\ native <= native * ratio
        BY <2>2
    <2> QED  BY <2>2, <2>3
<1>2. DetectInv => AlarmMeansHidden
    BY <1>1 DEF AlarmMeansHidden, D!AlarmMeansHidden, D!Hidden
<1> QED  BY DriveInvariant, <1>2, PTL

(* The difference of the two sizes is what is hidden when none was cut.    *)
LEMMA ExactOnSmallDrives ==
    ASSUME DetectInv
    PROVE  SmallDriveExact
<1> SUFFICES ASSUME step = "reported", ~warned, native_max_sectors > 0,
                    native <= Registers, ratio = 1
             PROVE  hpa_hidden_sectors = native * ratio - Capacity
                    /\ (hpa_detected <=> native * ratio - Capacity > 0)
    BY DEF SmallDriveExact, D!SmallDriveExact, D!Hidden
<1>1. native \in Nat /\ Capacity \in Nat /\ native * ratio = native
    BY VolumeOK, DriveOK DEF DetectInv, ReportInv, D!TypeOK
<1>2. native_max_sectors = native
    BY NativeAnswerBound DEF DetectInv, ReportInv, D!TypeOK
<1>3. Capacity <= native /\ os_visible_sectors = Capacity
    BY <1>1 DEF DetectInv, ReportInv
<1>4. CASE hpa_detected
    BY <1>1, <1>2, <1>3, <1>4 DEF DetectInv, ReportInv
<1>5. CASE ~hpa_detected
    BY <1>1, <1>2, <1>3, <1>5 DEF DetectInv, ReportInv
<1> QED  BY <1>4, <1>5

(* A drive of 512-byte sectors that three registers can number is reported *)
(* to the sector, if it answered both queries (NativeAnswer, Compare).     *)
THEOREM DriveSmallDriveExact == DriveSpec => []SmallDriveExact
BY DriveInvariant, ExactOnSmallDrives, PTL

(* On such a drive the two commands together leave nothing behind unsaid:  *)
(* either every cell of it has taken all the passes, or the detector has   *)
(* said that there is more.                                                *)
THEOREM DriveErasedOrTold == DriveSpec => []ErasedOrTold
<1>1. ASSUME DetectInv, OrderInv, CompletedMeansCovered, phase = "done", whole, ~warned,
             native_max_sectors > 0, native <= Registers, ratio = 1
      PROVE  Erased \/ recommendation = "hidden"
    <2>1. step = "reported"
        BY <1>1 DEF OrderInv
    <2>2. hpa_detected <=> D!Hidden > 0
        BY <1>1, <2>1, ExactOnSmallDrives DEF SmallDriveExact, D!SmallDriveExact
    <2>3. CASE hpa_detected
        BY <1>1, <2>3 DEF DetectInv, ReportInv
    <2>4. CASE ~hpa_detected
        <3>1. D!Hidden = 0
            BY <1>1, <2>2, <2>4, VolumeOK, DriveOK DEF DetectInv, ReportInv, D!TypeOK, D!Hidden
        <3> QED  BY <1>1, <3>1 DEF Erased, CompletedMeansCovered
    <2> QED  BY <2>3, <2>4
<1>2. DetectInv /\ OrderInv /\ CompletedMeansCovered => ErasedOrTold
    BY <1>1 DEF ErasedOrTold
<1> QED  BY DriveInvariant, VolumeCompletedMeansCovered, DriveImplementsVolume, <1>2, PTL

=================================================================================
