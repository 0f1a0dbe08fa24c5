----------------------------- MODULE NtfsOptimizer -----------------------------
(***************************************************************************)
(* NtfsOptimizer (optimizer.cpp): CompressFile and DecompressFile call the *)
(* file system four times and three, while others write to the file.       *)
(*                                                                         *)
(* A size is counted in units; a compressed file takes Packed(size) on the *)
(* disk.  GetCompressedFileSize answers with two words and uses the low    *)
(* word's largest value to say that it failed.                             *)
(***************************************************************************)
EXTENDS Integers

CONSTANTS
    MaxSize,        \* bound: the largest size
    Word,           \* 2^32
    CallFaults      \* what may fail: "stat", "open", "control", "size"

ASSUME NtfsConstants ==
    /\ MaxSize \in Nat /\ Word \in Nat \ {0}
    /\ CallFaults \subseteq {"stat", "open", "control", "size"}

VARIABLES
    size, compressed,   \* the file
    touched,            \* others wrote to it, or set its attribute, since the call
    step, job,          \* where the call stands, and which of the two it is
    original, outcome   \* its local variable; CompressionResult or exception

file     == <<size, compressed>>
ntfsVars == <<file, touched, step, job, original, outcome>>

Packed(s) == (s + 1) \div 2
OnDisk    == IF compressed THEN Packed(size) ELSE size
NoOutcome == [kind |-> "none", original |-> 0, on_disk |-> 0, savings |-> 0]
Result(kind, was, disk) ==
    [kind |-> kind, original |-> was, on_disk |-> disk, savings |-> was - disk]

NtfsTypeOK ==
    /\ size \in 0..MaxSize /\ compressed \in BOOLEAN /\ touched \in BOOLEAN
    /\ step \in {"ready", "stat", "open", "control", "size"} /\ job \in {"compress", "decompress"}
    /\ original \in 0..MaxSize
    /\ outcome.kind \in {"none", "compressed", "already", "done", "failed"}

NtfsInit ==
    /\ size \in 0..MaxSize /\ compressed \in BOOLEAN /\ touched = FALSE
    /\ step = "ready" /\ job = "compress" /\ original = 0 /\ outcome = NoOutcome

Begin ==
    /\ step = "ready"
    /\ \/ job' = "compress" /\ step' = "stat"
       \/ job' = "decompress" /\ step' = "open"
    /\ touched' = FALSE /\ outcome' = NoOutcome
    /\ UNCHANGED <<file, original>>

(* ThrowWin32; no handle is open, or it has been closed. *)
CallFails ==
    /\ \/ step \in {"stat", "open"} /\ step \in CallFaults
       \/ step = "control" /\ job = "compress" /\ "control" \in CallFaults
    /\ step' = "ready" /\ outcome' = [NoOutcome EXCEPT !.kind = "failed"]
    /\ original' = 0 /\ UNCHANGED <<file, touched, job>>

(* GetFileAttributesEx; a compressed file is left as it is.                *)
Stat ==
    /\ step = "stat"
    /\ IF compressed
       THEN step' = "ready" /\ outcome' = Result("already", size, size) /\ UNCHANGED original
       ELSE step' = "open" /\ original' = size /\ UNCHANGED outcome
    /\ UNCHANGED <<file, touched, job>>

Open ==
    /\ step = "open" /\ step' = "control"
    /\ UNCHANGED <<file, touched, job, original, outcome>>

(* FSCTL_SET_COMPRESSION with COMPRESSION_FORMAT_DEFAULT. *)
Compress ==
    /\ step = "control" /\ job = "compress"
    /\ step' = "size" /\ compressed' = TRUE
    /\ UNCHANGED <<size, touched, job, original, outcome>>

(* A failure to tell the size counts as a size of nothing. *)
CompressedSizeZero ==
    /\ step = "size"
    /\ step' = "ready" /\ original' = 0
    /\ \/ outcome' = Result("compressed", original, OnDisk)
       \/ "size" \in CallFaults /\ outcome' = Result("compressed", original, 0)
    /\ UNCHANGED <<file, touched, job>>

(* The size on the disk, by its two words: the low word's largest value is *)
(* taken for a failure, and a failure for no savings.                      *)
CompressedSize ==
    /\ step = "size"
    /\ step' = "ready" /\ original' = 0
    /\ \/ outcome' = Result("compressed", original,
                            IF OnDisk % Word = Word - 1 THEN original ELSE OnDisk)
       \/ "size" \in CallFaults /\ outcome' = Result("compressed", original, original)
    /\ UNCHANGED <<file, touched, job>>

(* With COMPRESSION_FORMAT_NONE; the result of the call is not asked for.  *)
Decompress ==
    /\ step = "control" /\ job = "decompress"
    /\ \/ compressed' = FALSE
       \/ "control" \in CallFaults /\ UNCHANGED compressed
    /\ step' = "ready" /\ outcome' = [NoOutcome EXCEPT !.kind = "done"]
    /\ UNCHANGED <<size, touched, job, original>>

NtfsStep == Stat \/ Open \/ Compress \/ CompressedSize \/ Decompress \/ CallFails

(* The file is open to others for reading and writing all the while.       *)
Write ==
    /\ size' \in 0..MaxSize /\ size' # size /\ touched' = TRUE
    /\ UNCHANGED <<compressed, step, job, original, outcome>>

(***************************************************************************)
(* Properties                                                              *)
(***************************************************************************)

(* If nobody has written to the file since the call began, the savings it  *)
(* reports are those there are, or none: a call that fails, or a size that *)
(* reads like a failure, never makes them larger (optimizer.cpp,           *)
(* CompressFile).  A file that grows in between makes them anything.       *)
SavingsAreReal ==
    outcome.kind \in {"compressed", "already"} /\ ~touched =>
        /\ compressed /\ outcome.original = size
        /\ outcome.savings \in {0, size - OnDisk}

===============================================================================
