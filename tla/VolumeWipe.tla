------------------------------ MODULE VolumeWipe ------------------------------
(***************************************************************************)
(* WipeEngine::WipeVolume (wipe_engine.cpp): every pass of the schedule is *)
(* written over a raw volume with unbuffered, sector-aligned writes.  The  *)
(* volume is neither locked nor dismounted and its handle shares writing,  *)
(* so a mounted file system may write to it all the while.                 *)
(*                                                                         *)
(* Sizes are in the smallest unit a capacity can be a multiple of; Sector  *)
(* is the 4096 bytes (kSector) that every write is rounded up to.  A cell  *)
(* holds 0 while it is data and k once pass k was the last to write it.    *)
(***************************************************************************)
EXTENDS WipeMethods

CONSTANTS
    Capacity,   \* the length the volume reports, in units
    Sector,     \* kSector, in units
    Chunk,      \* kChunkSz, in units: a multiple of Sector
    Clips,      \* the device cuts a write at its end (FALSE: it refuses it)
    Faults,     \* the calls that may fail: "open", "seek", "write"
    Foreign     \* others write to the volume meanwhile

ASSUME VolumeOK ==
    /\ Capacity \in Nat \ {0} /\ Sector \in Nat \ {0} /\ Chunk \in Nat \ {0}
    /\ Chunk % Sector = 0
    /\ Clips \in BOOLEAN /\ Foreign \in BOOLEAN
    /\ Faults \subseteq {"open", "seek", "write"}

VARIABLES
    cell,       \* what each unit of the volume holds
    dirtied,    \* cells that others wrote, and no pass has been over since
    method,     \* the --method option
    phase, pass, offset,
    pos,        \* the file pointer of hVolume
    fault       \* a call on the volume failed

vars == <<cell, dirtied, method, phase, pass, offset, pos, fault>>

Cells  == 1..Capacity
Passes == Len(BuildPasses(method))
Ended  == phase \in {"done", "thrown"}

TypeOK ==
    /\ cell \in [Cells -> 0..Passes] /\ dirtied \subseteq Cells
    /\ method \in WipeMethod
    /\ phase \in {"open", "pass", "write", "done", "thrown"}
    /\ pass \in 1..Passes
    /\ offset \in 0..Capacity /\ pos \in 0..Capacity
    /\ fault \in BOOLEAN

Init ==
    /\ cell = [i \in Cells |-> 0] /\ dirtied = {}
    /\ method \in WipeMethod
    /\ phase = "open" /\ pass = 1 /\ offset = 0 /\ pos = 0 /\ fault = FALSE

(* CreateFileW, the length query and VirtualAlloc: any may fail and throw. *)
OpenVolume ==
    /\ phase = "open"
    /\ \/ phase' = "pass" /\ UNCHANGED fault
       \/ "open" \in Faults /\ phase' = "thrown" /\ fault' = TRUE
    /\ UNCHANGED <<cell, dirtied, method, pass, offset, pos>>

(* The buffer is filled and the pointer goes to the start; the result of   *)
(* SetFilePointerEx is not looked at.                                      *)
BeginPass ==
    /\ phase = "pass"
    /\ phase' = "write" /\ offset' = 0
    /\ \/ pos' = 0 /\ UNCHANGED fault
       \/ "seek" \in Faults /\ fault' = TRUE /\ UNCHANGED pos
    /\ UNCHANGED <<cell, dirtied, method, pass>>

Least(m, n) == IF m <= n THEN m ELSE n

(* Rounding up one sector too many when nothing is to be rounded. *)
RoundUpOver(n) == (n \div Sector + 1) * Sector

(* The length is rounded up to a sector boundary. *)
RoundUp(n) == ((n + Sector - 1) \div Sector) * Sector
ToWrite == RoundUp(Least(Chunk, Capacity - offset))
PastEnd == pos + ToWrite > Capacity

(* The lengths a successful WriteFile may report: whole sectors, and only  *)
(* a device that clips ends a write at its last, partial sector.           *)
Written ==
    {n \in 1..ToWrite : /\ pos + n <= Capacity
                        /\ n % Sector = 0 \/ pos + n = Capacity
                        /\ PastEnd => Clips}

(* The pass counter is not advanced. *)
AfterWriteSamePass ==
    \/ offset' < Capacity /\ UNCHANGED <<phase, pass>>
    \/ offset' >= Capacity /\ pass < Passes /\ phase' = "pass" /\ UNCHANGED pass
    \/ offset' >= Capacity /\ pass = Passes /\ phase' = "done" /\ UNCHANGED pass

(* The loop over the passes runs once too often. *)
AfterWriteOneMore ==
    \/ offset' < Capacity /\ UNCHANGED <<phase, pass>>
    \/ offset' >= Capacity /\ pass <= Passes /\ phase' = "pass" /\ pass' = pass + 1
    \/ offset' >= Capacity /\ pass > Passes /\ phase' = "done" /\ UNCHANGED pass

(* while (offset < total_bytes), inside the loop over the passes. *)
AfterWrite ==
    \/ offset' < Capacity /\ UNCHANGED <<phase, pass>>
    \/ offset' >= Capacity /\ pass < Passes /\ phase' = "pass" /\ pass' = pass + 1
    \/ offset' >= Capacity /\ pass = Passes /\ phase' = "done" /\ UNCHANGED pass

(* offset += to_write: a short write leaves a hole. *)
WriteChunkAssumed ==
    /\ phase = "write"
    /\ \E n \in Written :
          /\ cell' = [i \in Cells |-> IF i \in (pos + 1)..(pos + n) THEN pass ELSE cell[i]]
          /\ dirtied' = dirtied \ ((pos + 1)..(pos + n))
          /\ pos' = Least(pos + ToWrite, Capacity) /\ offset' = Least(offset + ToWrite, Capacity)
    /\ AfterWrite
    /\ UNCHANGED <<method, fault>>

WriteChunk ==
    /\ phase = "write"
    /\ \E n \in Written :
          /\ cell' = [i \in Cells |-> IF i \in (pos + 1)..(pos + n) THEN pass ELSE cell[i]]
          /\ dirtied' = dirtied \ ((pos + 1)..(pos + n))
          /\ pos' = pos + n /\ offset' = offset + n
    /\ AfterWrite
    /\ UNCHANGED <<method, fault>>

(* The device refuses a write that runs past its end: WriteFile fails and  *)
(* WipeVolume throws, with no result.                                      *)
WriteRefused ==
    /\ phase = "write" /\ PastEnd /\ (Clips => pos = Capacity)
    /\ phase' = "thrown"
    /\ UNCHANGED <<cell, dirtied, method, pass, offset, pos, fault>>

WriteFails ==
    /\ phase = "write" /\ "write" \in Faults
    /\ phase' = "thrown" /\ fault' = TRUE
    /\ UNCHANGED <<cell, dirtied, method, pass, offset, pos>>

Engine == OpenVolume \/ BeginPass \/ WriteChunk \/ WriteRefused \/ WriteFails

(* The mounted file system, or any other program, writes a cell. *)
ForeignWrite(i) ==
    /\ Foreign /\ ~Ended
    /\ cell' = [cell EXCEPT ![i] = 0] /\ dirtied' = dirtied \cup {i}
    /\ UNCHANGED <<method, phase, pass, offset, pos, fault>>

Next == Engine \/ \E i \in Cells : ForeignWrite(i)

Spec == Init /\ [][Next]_vars
FairSpec == Spec /\ WF_vars(Engine)

(***************************************************************************)
(* Properties                                                              *)
(***************************************************************************)

(* When WipeVolume returns a result, every cell holds the last of the      *)
(* passes that the documentation promises for the method, although writes  *)
(* may be short, a failed seek goes unnoticed and others write to the      *)
(* volume; all but what they wrote behind the last pass, which nothing     *)
(* comes back to.                                                          *)
CompletedMeansCovered ==
    phase = "done" => \A i \in Cells \ dirtied : cell[i] = Promised(method)

(* Wherever a wipe stands or was aborted, the cells hold at most two       *)
(* layers, the newer one in front, and never an older one than the pass    *)
(* before, but for what others wrote behind the current pass: no pass      *)
(* starts before the last one is complete, and each goes over what others  *)
(* have written since the one before.                                      *)
PassFrontier ==
    \A i, j \in Cells \ dirtied :
        i <= j => cell[i] \in {cell[j], cell[j] + 1} /\ cell[j] >= pass - 1

(* README.md:120, "Performs overwrite passes on all OS-accessible          *)
(* sectors": a volume on which no call fails is wiped to its end.          *)
HealthyVolumeCompletes == phase = "thrown" => fault

(* WipeVolume returns or throws.                                           *)
Terminates == <>Ended

==============================================================================
