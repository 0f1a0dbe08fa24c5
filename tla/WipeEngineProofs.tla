--------------------------- MODULE WipeEngineProofs ---------------------------
(***************************************************************************)
(* Proofs about the file wipe, for any set of files, any file and buffer   *)
(* sizes, any method, and any interference by other processes: a run       *)
(* without errors has erased what it listed, nothing is unlinked before    *)
(* the whole schedule has run over it, the passes come in order, a passed   *)
(* verification has found every listed file gone, every listed file is     *)
(* counted or reported, and the engine as a whole implements the abstract  *)
(* erasure of SecureErase.                                                 *)
(***************************************************************************)
EXTENDS WipeEngine, WipeMethodsProofs, FiniteSetTheorems

Looping == phase \in {"next", "open", "write", "delete"}
Wiping  == phase \in {"open", "write", "delete"}

(* WipePath is through with file f: it is neither waiting nor being wiped. *)
Settled(f) ==
    \/ phase \in {"verify", "done", "thrown"}
    \/ f \notin todo /\ ~(Wiping /\ f = file)

(* The locals of WipeFile while it runs. *)
LocalInv ==
    /\ Wiping => file \in listed /\ file \notin todo /\ file \notin wipeErr
    /\ Looping => todo \cap wipeErr = {}
    /\ phase = "open" => size > 0
    /\ phase = "write" => /\ file \in present /\ written < size
                          /\ written <= Len(data[file])
    /\ phase = "collect" => listed = {}

(* Files that are still to be wiped hold their user data. *)
WaitingInv ==
    \A f \in File \ touched :
        phase = "collect" \/ (Looping /\ f \in todo) =>
            \A i \in 1..Len(data[f]) : data[f][i] = 0

(* The file being wiped holds the current pass up to the offset and the    *)
(* pass before it behind; when it is to be deleted it holds the last pass. *)
LayerInv ==
    Wiping /\ file \notin touched =>
        \A i \in 1..Len(data[file]) :
            data[file][i] = IF phase = "delete" THEN Passes
                            ELSE IF phase = "write" /\ i <= written THEN pass
                            ELSE pass - 1

(* The same of any file, up to the sampled size: what the passes have gone *)
(* over holds their last, though others may grow the file or put another   *)
(* in its place, unless that came when the last pass was over.             *)
SampledInv ==
    /\ phase = "write" => \A i \in 1..written : data[file][i] = pass
    /\ phase = "delete" /\ file \in present \ unseen =>
           size <= Len(data[file]) /\ \A i \in 1..size : data[file][i] = Passes

SizeInv ==
    phase \in {"open", "write"} /\ file \notin touched => size = Len(data[file])

(* A file that nobody wrote to has left residue only if it is gone. *)
ResidueInv == residue \cap present \subseteq touched

(* A file that WipePath is through with is reported, or it is erased. *)
OutcomeInv ==
    \A f \in listed \ touched :
        Settled(f) => f \in wipeErr \cup delErr \/ (f \notin present /\ f \notin residue)

(* The verification has found gone what it has looked at. *)
VerifyInv ==
    /\ phase = "verify" => (listed \ todo) \cap present \subseteq unseen
    /\ passed => phase = "done" /\ listed \cap present \subseteq unseen

IInv ==
    /\ TypeOK /\ LocalInv /\ WaitingInv /\ LayerInv /\ SampledInv /\ SizeInv
    /\ ResidueInv /\ OutcomeInv /\ VerifyInv

(* The method has a pass. *)
LEMMA PassesPositive == Passes \in Nat \ {0}
BY ConstantsOK, ScheduleLength DEF Passes

(* Writing n units of pass p at offset w, inside a file or at its end. *)
LEMMA OverwriteResult ==
    ASSUME NEW units \in Seq(0..Passes), NEW w \in Nat, NEW n \in Nat, NEW p \in 0..Passes,
           w <= Len(units)
    PROVE  /\ Overwrite(units, w, n, p) \in Seq(0..Passes)
           /\ Len(Overwrite(units, w, n, p)) = IF w + n > Len(units) THEN w + n ELSE Len(units)
           /\ \A i \in 1..Len(Overwrite(units, w, n, p)) :
                  Overwrite(units, w, n, p)[i] = IF i \in (w + 1)..(w + n) THEN p ELSE units[i]
<1> DEFINE len == IF w + n > Len(units) THEN w + n ELSE Len(units)
           new == [i \in 1..len |-> IF i \in (w + 1)..(w + n) THEN p ELSE units[i]]
<1>1. Len(units) \in Nat /\ len \in Nat
    OBVIOUS
<1>2. ASSUME NEW i \in 1..len
      PROVE  (IF i \in (w + 1)..(w + n) THEN p ELSE units[i]) \in 0..Passes
    <2>1. CASE i \in (w + 1)..(w + n)
        BY <2>1
    <2>2. CASE i \notin (w + 1)..(w + n)
        <3>1. i \in 1..Len(units)
            BY <1>1, <1>2, <2>2
        <3> QED  BY <2>2, <3>1, PassesPositive
    <2> QED  BY <2>1, <2>2
<1>3. new \in Seq(0..Passes) /\ Len(new) = len
    BY <1>1, <1>2
<1>4. Overwrite(units, w, n, p) = new
    BY DEF Overwrite
<1> QED  BY <1>3, <1>4

(* A write may lengthen a file, and never shortens it. *)
LEMMA OverwriteLength ==
    ASSUME NEW units \in Seq(0..Passes), NEW w \in Nat, NEW n \in Nat, NEW p \in 0..Passes,
           w <= Len(units)
    PROVE  Len(Overwrite(units, w, n, p)) = IF w + n > Len(units) THEN w + n ELSE Len(units)
<1> DEFINE len == IF w + n > Len(units) THEN w + n ELSE Len(units)
<1>1. Len(units) \in Nat
    OBVIOUS
<1>2. len \in Nat
    BY <1>1
<1>3. Len([i \in 1..len |-> IF i \in (w + 1)..(w + n) THEN p ELSE units[i]]) = len
    BY <1>2
<1> QED  BY <1>3 DEF Overwrite

(* A write reaches the units it is for and no other. *)
LEMMA OverwriteUnits ==
    ASSUME NEW units \in Seq(0..Passes), NEW w \in Nat, NEW n \in Nat, NEW p \in 0..Passes,
           w <= Len(units)
    PROVE  \A i \in 1..Len(Overwrite(units, w, n, p)) :
               Overwrite(units, w, n, p)[i] = IF i \in (w + 1)..(w + n) THEN p ELSE units[i]
BY OverwriteResult

(* No file has been written to. *)
LEMMA InitIInv ==
    ASSUME Init
    PROVE  IInv
<1>1. PICK len \in [File -> 0..MaxUnits] : data = [f \in File |-> [i \in 1..len[f] |-> 0]]
    BY DEF Init
<1>2. ASSUME NEW f \in File
      PROVE  /\ data[f] \in Seq(0..Passes)
             /\ \A i \in 1..Len(data[f]) : data[f][i] = 0
    <2>1. len[f] \in Nat /\ data[f] = [i \in 1..len[f] |-> 0]
        BY <1>1, ConstantsOK
    <2>2. ASSUME NEW k \in Nat, NEW zeros, zeros = [i \in 1..k |-> 0]
          PROVE  zeros \in Seq(0..Passes) /\ Len(zeros) = k /\ \A i \in 1..k : zeros[i] = 0
        <3>1. 0 \in 0..Passes
            BY PassesPositive
        <3> QED  BY <2>2, <3>1
    <2> QED  BY <2>1, <2>2
<1>3. data \in [File -> Seq(0..Passes)]
    BY <1>1, <1>2
<1>4. TypeOK
    <2>1. size \in Nat /\ pass \in 1..Passes /\ written \in Nat
          /\ bytesWiped \in Nat /\ filesProcessed \in Nat
        BY PassesPositive DEF Init
    <2> QED  BY <1>3, <2>1 DEF Init, TypeOK, Phases
<1>5. LocalInv /\ LayerInv /\ SampledInv /\ SizeInv /\ ResidueInv /\ OutcomeInv /\ VerifyInv
    BY DEF Init, LocalInv, LayerInv, SampledInv, SizeInv, ResidueInv, OutcomeInv, VerifyInv,
           Wiping, Looping
<1>6. WaitingInv
    BY <1>2 DEF WaitingInv
<1> QED  BY <1>4, <1>5, <1>6 DEF IInv

(***************************************************************************)
(* The steps of the engine                                                 *)
(***************************************************************************)

(* Listing writes to no file (CollectFiles). *)
LEMMA CollectKeepsIInv ==
    ASSUME IInv, CollectThrows \/ CollectFiles
    PROVE  IInv'
<1>1. UNCHANGED <<disk, loc, wipeErr, delErr, tally, passed>> /\ phase = "collect"
    BY DEF CollectThrows, CollectFiles, errs
<1>2. listed = {}
    BY <1>1 DEF IInv, LocalInv
<1>3. /\ listed' \subseteq File /\ todo' \subseteq listed' /\ scanErr' \in BOOLEAN
      /\ phase' \in {"next", "thrown"} /\ wipeErr = {} /\ delErr = {}
      /\ phase' = "thrown" => listed' = {}
      /\ phase' = "next" => todo' = listed'
    BY <1>2 DEF CollectThrows, CollectFiles, errs, IInv, TypeOK
<1>4. TypeOK'
    BY <1>1, <1>3 DEF IInv, TypeOK, disk, medium, loc, tally, Phases
<1>5. LocalInv' /\ LayerInv' /\ SampledInv' /\ SizeInv' /\ ResidueInv'
    BY <1>1, <1>3 DEF IInv, LocalInv, LayerInv, SampledInv, SizeInv, ResidueInv, Wiping, Looping,
                      disk, medium
<1>6. WaitingInv'
    BY <1>1, <1>3 DEF IInv, WaitingInv, disk, medium
<1>7. OutcomeInv'
    BY <1>1, <1>3 DEF OutcomeInv, Settled
<1>8. VerifyInv'
    BY <1>1, <1>3 DEF IInv, VerifyInv
<1> QED  BY <1>4, <1>5, <1>6, <1>7, <1>8 DEF IInv

(* The size is sampled before the first pass (WipeFile). *)
LEMMA StatKeepsIInv ==
    ASSUME IInv, NEW f \in File, StatFile(f)
    PROVE  IInv'
<1>1. /\ UNCHANGED <<disk, listed, errs, bytesWiped, passed>>
      /\ phase = "next" /\ f \in todo /\ f \in present /\ todo' = todo \ {f}
      /\ file' = f /\ size' = Len(data[f]) /\ pass' = 1 /\ written' = 0
      /\ \/ size' = 0 /\ phase' = "delete" /\ filesProcessed' = filesProcessed + 1
         \/ size' > 0 /\ phase' = "open" /\ UNCHANGED filesProcessed
    BY DEF StatFile
<1>2. Len(data[f]) \in Nat /\ data' = data /\ touched' = touched /\ present' = present
    BY <1>1 DEF IInv, TypeOK, disk, medium
<1>3. TypeOK'
    BY <1>1, <1>2, PassesPositive DEF IInv, TypeOK, disk, medium, errs, Phases
<1>4. LocalInv'
    BY <1>1 DEF IInv, TypeOK, LocalInv, Wiping, Looping, errs
<1>5. WaitingInv'
    BY <1>1, <1>2 DEF IInv, WaitingInv, Looping
<1>6. LayerInv' /\ SampledInv' /\ SizeInv'
    <2>1. f \notin touched => \A i \in 1..Len(data[f]) : data[f][i] = 0
        BY <1>1 DEF IInv, WaitingInv, Looping
    <2>2. size' = 0 => 1..Len(data[f]) = {}
        BY <1>1
    <2>3. SampledInv'
        BY <1>1, <1>2, <2>2 DEF SampledInv
    <2> QED  BY <1>1, <1>2, <2>1, <2>2, <2>3 DEF LayerInv, SizeInv, Wiping
<1>7. ResidueInv' /\ VerifyInv'
    BY <1>1 DEF IInv, ResidueInv, VerifyInv, disk, medium
<1>8. OutcomeInv'
    BY <1>1 DEF IInv, OutcomeInv, Settled, Wiping, disk, medium, errs
<1> QED  BY <1>3, <1>4, <1>5, <1>6, <1>7, <1>8 DEF IInv

(* The two steps that give a file up: its error is on record. *)
LEMMA FailKeepsIInv ==
    ASSUME IInv, WipeFails \/ \E f \in File : StatFails(f)
    PROVE  IInv'
<1>1. PICK f \in listed :
          /\ UNCHANGED <<disk, listed, loc, scanErr, delErr, tally, passed>>
          /\ phase' = "next" /\ wipeErr' = wipeErr \cup {f}
          /\ \/ phase = "next" /\ f \in todo /\ todo' = todo \ {f}
             \/ phase \in {"open", "write"} /\ f = file /\ todo' = todo
    BY DEF WipeFails, StatFails, IInv, TypeOK, LocalInv, Wiping
<1>2. TypeOK'
    BY <1>1 DEF IInv, TypeOK, disk, medium, loc, tally, Phases
<1>3. LocalInv'
    BY <1>1 DEF IInv, LocalInv, Wiping, Looping
<1>4. WaitingInv'
    BY <1>1 DEF IInv, WaitingInv, Looping, disk, medium
<1>5. LayerInv' /\ SampledInv' /\ SizeInv' /\ ResidueInv' /\ VerifyInv'
    BY <1>1 DEF IInv, LayerInv, SampledInv, SizeInv, ResidueInv, VerifyInv, Wiping, disk, medium
<1>6. OutcomeInv'
    BY <1>1 DEF IInv, OutcomeInv, Settled, Wiping, disk, medium
<1> QED  BY <1>2, <1>3, <1>4, <1>5, <1>6 DEF IInv

(* A pass begins at the start of the file. *)
LEMMA OpenKeepsIInv ==
    ASSUME IInv, OpenPass
    PROVE  IInv'
<1>1. /\ UNCHANGED <<medium, listed, todo, file, size, pass, errs, tally, passed>>
      /\ phase = "open" /\ phase' = "write" /\ written' = 0 /\ file \in present
      /\ unseen' = unseen \ {file}
    BY DEF OpenPass
<1>2. file \in File /\ Len(data[file]) \in Nat
    BY <1>1 DEF IInv, TypeOK
<1>3. TypeOK'
    BY <1>1 DEF IInv, TypeOK, medium, errs, tally, Phases
<1>4. LocalInv'
    BY <1>1, <1>2 DEF IInv, TypeOK, LocalInv, Wiping, Looping, medium, errs
<1>5. WaitingInv'
    BY <1>1 DEF IInv, WaitingInv, Looping, medium
<1>6. LayerInv' /\ SampledInv' /\ SizeInv'
    BY <1>1, <1>2 DEF IInv, LayerInv, SampledInv, SizeInv, Wiping, medium
<1>7. ResidueInv' /\ VerifyInv'
    BY <1>1 DEF IInv, ResidueInv, VerifyInv, medium
<1>8. OutcomeInv'
    BY <1>1 DEF IInv, OutcomeInv, Settled, Wiping, medium, errs
<1> QED  BY <1>3, <1>4, <1>5, <1>6, <1>7, <1>8 DEF IInv

(* What one WriteFile does to the file, and where it leaves the loops. *)
LEMMA WriteResult ==
    ASSUME IInv, WriteChunk
    PROVE  \E n \in Nat \ {0} :
              /\ written \in Nat /\ written' = written + n /\ written' <= size
              /\ file \in File
              /\ data' \in [File -> Seq(0..Passes)]
              /\ \A g \in File \ {file} : data'[g] = data[g]
              /\ Len(data'[file]) =
                     IF written' > Len(data[file]) THEN written' ELSE Len(data[file])
              /\ \A i \in 1..Len(data'[file]) :
                     data'[file][i] = IF i \in (written + 1)..written' THEN pass
                                      ELSE data[file][i]
<1>1. PICK n \in 1..BufUnits :
          /\ n <= size - written
          /\ data' = [data EXCEPT ![file] = Overwrite(@, written, n, pass)]
          /\ written' = written + n
    BY DEF WriteChunk, AfterWrite
<1>2. /\ file \in File /\ written \in Nat /\ size \in Nat /\ pass \in 0..Passes
      /\ data \in [File -> Seq(0..Passes)] /\ written <= Len(data[file])
    BY PassesPositive DEF IInv, TypeOK, LocalInv, Wiping, WriteChunk, AfterWrite
<1>3. n \in Nat \ {0} /\ written' <= size
    BY <1>1, <1>2, ConstantsOK
<1>4. /\ data'[file] = Overwrite(data[file], written, n, pass)
      /\ \A g \in File \ {file} : data'[g] = data[g]
    BY <1>1, <1>2
<1>5. /\ data'[file] \in Seq(0..Passes)
      /\ Len(data'[file]) =
             IF written + n > Len(data[file]) THEN written + n ELSE Len(data[file])
      /\ \A i \in 1..Len(data'[file]) :
             data'[file][i] = IF i \in (written + 1)..(written + n) THEN pass
                              ELSE data[file][i]
    <2>1. data[file] \in Seq(0..Passes) /\ n \in Nat
        BY <1>2, <1>3
    <2>2. written \in Nat /\ pass \in 0..Passes /\ written <= Len(data[file])
        BY <1>2
    <2>3. Overwrite(data[file], written, n, pass) \in Seq(0..Passes)
        BY <2>1, <2>2, OverwriteResult
    <2>4. Len(Overwrite(data[file], written, n, pass)) =
              IF written + n > Len(data[file]) THEN written + n ELSE Len(data[file])
        BY <2>1, <2>2, OverwriteLength
    <2>5. \A i \in 1..Len(Overwrite(data[file], written, n, pass)) :
              Overwrite(data[file], written, n, pass)[i] =
                  IF i \in (written + 1)..(written + n) THEN pass ELSE data[file][i]
        BY <2>1, <2>2, OverwriteUnits
    <2> QED  BY <1>4, <2>3, <2>4, <2>5
<1>6. data' \in [File -> Seq(0..Passes)]
    BY <1>1, <1>2, <1>4, <1>5
<1> WITNESS n \in Nat \ {0}
<1> QED  BY <1>1, <1>2, <1>3, <1>4, <1>5, <1>6

(* A write moves the border between two passes by what it wrote. *)
LEMMA WriteKeepsIInv ==
    ASSUME IInv, WriteChunk
    PROVE  IInv'
<1>1. PICK n \in Nat \ {0} :
          /\ written \in Nat /\ written' = written + n /\ written' <= size
          /\ file \in File
          /\ data' \in [File -> Seq(0..Passes)]
          /\ \A g \in File \ {file} : data'[g] = data[g]
          /\ Len(data'[file]) =
                 IF written' > Len(data[file]) THEN written' ELSE Len(data[file])
          /\ \A i \in 1..Len(data'[file]) :
                 data'[file][i] = IF i \in (written + 1)..written' THEN pass
                                  ELSE data[file][i]
    BY WriteResult
<1>2. /\ UNCHANGED <<present, residue, touched, unseen, listed, todo, file, size, errs, passed>>
      /\ phase = "write" /\ size \in Nat /\ pass \in 1..Passes
      /\ bytesWiped \in Nat /\ filesProcessed \in Nat
      /\ data \in [File -> Seq(0..Passes)] /\ Len(data[file]) \in Nat
      /\ Len(data'[file]) \in Nat
    BY <1>1 DEF WriteChunk, AfterWrite, IInv, TypeOK
<1>3. \/ written' < size /\ phase' = "write" /\ pass' = pass /\ UNCHANGED tally
      \/ /\ written' = size /\ phase' = "open" /\ pass' = pass + 1 /\ pass < Passes
         /\ UNCHANGED tally
      \/ /\ written' = size /\ phase' = "delete" /\ pass' = pass /\ pass = Passes
         /\ bytesWiped' = bytesWiped + size /\ filesProcessed' = filesProcessed + 1
    BY <1>2 DEF WriteChunk, AfterWrite
<1>4. TypeOK'
    <2>1. pass' \in 1..Passes /\ written' \in Nat /\ phase' \in Phases
        BY <1>1, <1>2, <1>3, PassesPositive DEF Phases
    <2>2. bytesWiped' \in Nat /\ filesProcessed' \in Nat
        BY <1>2, <1>3 DEF tally
    <2> QED  BY <1>1, <1>2, <2>1, <2>2 DEF IInv, TypeOK, errs
<1>5. LocalInv'
    <2>1. file \in listed /\ file \notin todo /\ file \notin wipeErr /\ file \in present
        BY <1>2 DEF IInv, LocalInv, Wiping
    <2>2. todo \cap wipeErr = {}
        BY <1>2 DEF IInv, LocalInv, Looping
    <2>3. size > 0 /\ written' <= Len(data'[file])
        BY <1>1, <1>2
    <2> QED  BY <1>2, <1>3, <2>1, <2>2, <2>3 DEF LocalInv, errs
<1>6. WaitingInv'
    <2>1. file \notin todo
        BY <1>2 DEF IInv, LocalInv, Wiping
    <2>2. phase' # "collect"
        BY <1>3
    <2>3. SUFFICES ASSUME NEW f \in File \ touched, f \in todo
                   PROVE  \A i \in 1..Len(data'[f]) : data'[f][i] = 0
        BY <1>2, <2>2 DEF WaitingInv, Looping
    <2>4. \A i \in 1..Len(data[f]) : data[f][i] = 0
        BY <1>2, <2>3 DEF IInv, WaitingInv, Looping
    <2>5. data'[f] = data[f]
        BY <1>1, <2>1, <2>3
    <2> QED  BY <2>4, <2>5
<1>7. LayerInv' /\ SizeInv'
    <2>1. SUFFICES ASSUME file \notin touched PROVE LayerInv' /\ SizeInv'
        BY <1>2 DEF LayerInv, SizeInv
    <2>2. size = Len(data[file]) /\ Len(data'[file]) = size
        BY <1>1, <1>2, <2>1 DEF IInv, SizeInv
    <2>3. \A i \in 1..size : data[file][i] = IF i <= written THEN pass ELSE pass - 1
        BY <1>2, <2>1, <2>2 DEF IInv, LayerInv, Wiping
    <2>4. \A i \in 1..size : data'[file][i] = IF i <= written' THEN pass ELSE pass - 1
        BY <1>1, <1>2, <2>2, <2>3
    <2>5. SizeInv'
        BY <1>2, <2>2 DEF SizeInv
    <2>6. ASSUME NEW i \in 1..size
          PROVE  data'[file][i] = IF phase' = "delete" THEN Passes
                                  ELSE IF phase' = "write" /\ i <= written' THEN pass'
                                  ELSE pass' - 1
        <3>1. data'[file][i] = IF i <= written' THEN pass ELSE pass - 1
            BY <2>4
        <3>2. CASE phase' = "write"
            BY <1>3, <3>1, <3>2
        <3>3. CASE phase' = "open"
            BY <1>2, <1>3, <3>1, <3>3
        <3>4. CASE phase' = "delete"
            BY <1>2, <1>3, <3>1, <3>4
        <3> QED  BY <1>3, <3>2, <3>3, <3>4
    <2>7. Passes' = Passes
        BY DEF Passes
    <2> QED  BY <1>2, <2>2, <2>5, <2>6, <2>7 DEF LayerInv
<1>8. SampledInv'
    <2>1. \A i \in 1..written : data[file][i] = pass
        BY <1>2 DEF IInv, SampledInv
    <2>2. written' <= Len(data'[file])
        BY <1>1, <1>2
    <2>3. ASSUME NEW i \in 1..written' PROVE data'[file][i] = pass
        <3>1. i \in 1..Len(data'[file]) /\ (i \in 1..written \/ i \in (written + 1)..written')
            BY <1>1, <1>2, <2>2, <2>3
        <3>2. data'[file][i] = IF i \in (written + 1)..written' THEN pass ELSE data[file][i]
            BY <1>1, <3>1
        <3>3. CASE i \in (written + 1)..written'
            BY <3>2, <3>3
        <3>4. CASE i \notin (written + 1)..written'
            BY <2>1, <3>1, <3>2, <3>4
        <3> QED  BY <3>3, <3>4
    <2>4. Passes' = Passes
        BY DEF Passes
    <2> QED  BY <1>2, <1>3, <2>2, <2>3, <2>4 DEF SampledInv
<1>9. ResidueInv' /\ VerifyInv'
    BY <1>2, <1>3 DEF IInv, ResidueInv, VerifyInv
<1>10. OutcomeInv'
    BY <1>2, <1>3 DEF IInv, OutcomeInv, Settled, Wiping, errs
<1> QED  BY <1>4, <1>5, <1>6, <1>7, <1>8, <1>9, <1>10 DEF IInv

(* A file of which every unit holds the last pass leaves no residue.       *)
LEMMA DeleteKeepsIInv ==
    ASSUME IInv, DeleteFile
    PROVE  IInv'
<1>1. /\ UNCHANGED <<data, touched, listed, todo, loc, errs, tally, passed>>
      /\ phase = "delete" /\ phase' = "next" /\ file \in present
      /\ present' = present \ {file} /\ unseen' = unseen \ {file}
      /\ residue' = IF UserData(file) THEN residue \cup {file} ELSE residue
    BY DEF DeleteFile, Unlink
<1>2. file \in File /\ file \in listed
    BY <1>1 DEF IInv, TypeOK, LocalInv, Wiping
<1>3. file \notin touched => ~UserData(file) /\ file \notin residue
    BY <1>1, <1>2, PassesPositive
    DEF IInv, LayerInv, ResidueInv, UserData, Wiping
<1>4. TypeOK'
    BY <1>1, <1>2 DEF IInv, TypeOK, loc, errs, tally, Phases
<1>5. LocalInv' /\ WaitingInv' /\ LayerInv' /\ SampledInv' /\ SizeInv' /\ VerifyInv'
    BY <1>1 DEF IInv, LocalInv, WaitingInv, LayerInv, SampledInv, SizeInv, VerifyInv,
                Wiping, Looping, loc, errs
<1>6. ResidueInv'
    BY <1>1, <1>3 DEF IInv, ResidueInv
<1>7. OutcomeInv'
    BY <1>1, <1>3 DEF IInv, OutcomeInv, Settled, Wiping, loc, errs
<1> QED  BY <1>4, <1>5, <1>6, <1>7 DEF IInv

(* A deletion that fails is reported. *)
LEMMA DeleteFailsKeepsIInv ==
    ASSUME IInv, DeleteFails
    PROVE  IInv'
<1>1. /\ UNCHANGED <<disk, listed, todo, loc, scanErr, wipeErr, tally, passed>>
      /\ phase = "delete" /\ phase' = "next" /\ delErr' = delErr \cup {file}
      /\ file \in listed
    BY DEF DeleteFails, IInv, LocalInv, Wiping
<1>2. TypeOK'
    BY <1>1 DEF IInv, TypeOK, disk, medium, loc, tally, Phases
<1>3. /\ LocalInv' /\ WaitingInv' /\ LayerInv' /\ SampledInv' /\ SizeInv'
      /\ ResidueInv' /\ VerifyInv'
    BY <1>1 DEF IInv, LocalInv, WaitingInv, LayerInv, SampledInv, SizeInv, ResidueInv, VerifyInv,
                Wiping, Looping, loc, disk, medium
<1>4. OutcomeInv'
    BY <1>1 DEF IInv, OutcomeInv, Settled, Wiping, disk, medium, loc
<1> QED  BY <1>2, <1>3, <1>4 DEF IInv

(* The end of the loop, and the verification. *)
LEMMA VerifyKeepsIInv ==
    ASSUME IInv,
           LoopEnds \/ CheckThrows \/ VerificationPasses \/ \E f \in File : CheckGone(f)
    PROVE  IInv'
<1>1. /\ UNCHANGED <<medium, listed, loc, errs, tally>> /\ unseen' \subseteq unseen
      /\ phase \in {"next", "verify"} /\ phase' \in {"verify", "done", "thrown"}
      /\ todo' \subseteq listed /\ passed' \in BOOLEAN
    BY DEF LoopEnds, CheckThrows, VerificationPasses, CheckGone, IInv, TypeOK, disk
<1>2. TypeOK'
    BY <1>1 DEF IInv, TypeOK, disk, medium, loc, errs, tally, Phases
<1>3. LocalInv' /\ WaitingInv' /\ LayerInv' /\ SampledInv' /\ SizeInv' /\ ResidueInv'
    BY <1>1 DEF IInv, LocalInv, WaitingInv, LayerInv, SampledInv, SizeInv, ResidueInv,
                Wiping, Looping, disk, medium
<1>4. OutcomeInv'
    <2>1. phase = "next" => todo = {}
        BY DEF LoopEnds, CheckThrows, VerificationPasses, CheckGone
    <2> QED  BY <1>1, <2>1 DEF IInv, OutcomeInv, Settled, Wiping, disk, medium, errs
<1>5. VerifyInv'
    <2>1. CASE LoopEnds
        BY <1>1, <2>1 DEF LoopEnds, IInv, VerifyInv, disk, medium
    <2>2. CASE CheckThrows
        BY <1>1, <2>2 DEF CheckThrows, IInv, VerifyInv, disk, medium
    <2>3. CASE VerificationPasses
        BY <1>1, <2>3 DEF VerificationPasses, IInv, VerifyInv, disk, medium
    <2>4. ASSUME NEW f \in File, CheckGone(f) PROVE VerifyInv'
        BY <1>1, <2>4 DEF CheckGone, IInv, VerifyInv, disk, medium
    <2> QED  BY <2>1, <2>2, <2>3, <2>4
<1> QED  BY <1>2, <1>3, <1>4, <1>5 DEF IInv

(***************************************************************************)
(* The steps of other processes                                            *)
(***************************************************************************)

(* Others append to a file, which is then excepted. *)
LEMMA GrowKeepsIInv ==
    ASSUME IInv, NEW f \in File, Grow(f)
    PROVE  IInv'
<1>1. /\ UNCHANGED <<present, residue, unseen, phase, listed, todo, loc, errs, tally, passed>>
      /\ f \in present /\ data' = [data EXCEPT ![f] = Append(@, 0)]
      /\ touched' = touched \cup {f}
    BY DEF Grow
<1>2. /\ data[f] \in Seq(0..Passes) /\ 0 \in 0..Passes /\ data \in [File -> Seq(0..Passes)]
      /\ file' = file /\ written' = written /\ written \in Nat
    BY <1>1, PassesPositive DEF IInv, TypeOK, loc
<1>3. Append(data[f], 0) \in Seq(0..Passes) /\ Len(Append(data[f], 0)) = Len(data[f]) + 1
    BY <1>2
<1>4. /\ data' \in [File -> Seq(0..Passes)]
      /\ \A g \in File \ {f} : data'[g] = data[g]
      /\ Len(data'[f]) = Len(data[f]) + 1 /\ Len(data[f]) \in Nat
    BY <1>1, <1>2, <1>3
<1>5. TypeOK'
    BY <1>1, <1>4 DEF IInv, TypeOK, loc, errs, tally
<1>6. LocalInv'
    <2>1. phase = "write" => written <= Len(data'[file])
        <3>1. CASE file = f
            BY <1>2, <1>4, <3>1 DEF IInv, LocalInv
        <3>2. CASE file # f
            BY <1>4, <3>2 DEF IInv, LocalInv, TypeOK
        <3> QED  BY <3>1, <3>2
    <2> QED  BY <1>1, <1>2, <2>1 DEF IInv, LocalInv, Wiping, Looping, loc, errs
<1>7. WaitingInv'
    BY <1>1, <1>4 DEF IInv, WaitingInv, Looping
<1>8. LayerInv' /\ SizeInv'
    <2>1. Wiping => file \in File
        BY DEF IInv, TypeOK, LocalInv
    <2>2. Wiping /\ file \notin touched' => data'[file] = data[file]
        BY <1>1, <1>4, <2>1
    <2> QED  BY <1>1, <2>2 DEF IInv, LayerInv, SizeInv, Wiping, loc, Passes
<1>9. SampledInv'
    <2>1. Wiping => file \in File /\ size' = size /\ pass' = pass
        BY <1>1 DEF IInv, TypeOK, LocalInv, loc
    <2>2. \A i \in 1..Len(data[f]) : data'[f][i] = data[f][i]
        BY <1>1, <1>2, <1>3
    <2>3. Wiping => /\ Len(data[file]) \in Nat /\ Len(data[file]) <= Len(data'[file])
                    /\ \A i \in 1..Len(data[file]) : data'[file][i] = data[file][i]
        <3>1. CASE Wiping /\ file = f
            BY <1>4, <2>2, <3>1
        <3>2. CASE Wiping /\ file # f
            BY <1>2, <1>4, <2>1, <3>2
        <3> QED  BY <3>1, <3>2
    <2>4. ASSUME phase = "write"
          PROVE  \A i \in 1..written : data'[file][i] = pass
        BY <1>2, <2>3, <2>4 DEF IInv, LocalInv, SampledInv, Wiping
    <2>5. ASSUME phase = "delete", file \in present \ unseen
          PROVE  size <= Len(data'[file]) /\ \A i \in 1..size : data'[file][i] = Passes
        <3>1. size <= Len(data[file]) /\ \A i \in 1..size : data[file][i] = Passes
            BY <2>5 DEF IInv, SampledInv
        <3>2. size \in Nat /\ Len(data'[file]) \in Nat
            BY <1>4, <2>1, <2>5 DEF IInv, TypeOK, Wiping
        <3> QED  BY <2>3, <2>5, <3>1, <3>2 DEF Wiping
    <2>6. Passes' = Passes
        BY DEF Passes
    <2> QED  BY <1>1, <1>2, <2>1, <2>4, <2>5, <2>6 DEF SampledInv, Wiping
<1>10. ResidueInv' /\ OutcomeInv' /\ VerifyInv'
    BY <1>1 DEF IInv, ResidueInv, OutcomeInv, VerifyInv, Settled, Wiping, loc, errs
<1> QED  BY <1>5, <1>6, <1>7, <1>8, <1>9, <1>10 DEF IInv

(* Others unlink a file: its data stays behind, and the wipe fails or      *)
(* finds it gone.                                                          *)
LEMMA RemoveKeepsIInv ==
    ASSUME IInv, NEW f \in File, Remove(f)
    PROVE  IInv'
<1>1. /\ UNCHANGED <<data, touched, phase, listed, todo, loc, errs, tally, passed>>
      /\ f \in present /\ ~HandleOpen(f) /\ present' = present \ {f}
      /\ unseen' = unseen \ {f}
      /\ residue' = IF UserData(f) THEN residue \cup {f} ELSE residue
    BY DEF Remove, Unlink
<1>2. TypeOK'
    BY <1>1 DEF IInv, TypeOK, loc, errs, tally
<1>3. LocalInv'
    BY <1>1 DEF IInv, LocalInv, HandleOpen, Wiping, Looping, loc, errs
<1>4. WaitingInv' /\ LayerInv' /\ SampledInv' /\ SizeInv' /\ ResidueInv'
    BY <1>1 DEF IInv, WaitingInv, LayerInv, SampledInv, SizeInv, ResidueInv, Wiping, Looping,
        loc, Passes
<1>5. OutcomeInv' /\ VerifyInv'
    BY <1>1 DEF IInv, OutcomeInv, VerifyInv, Settled, Wiping, loc, errs
<1> QED  BY <1>2, <1>3, <1>4, <1>5 DEF IInv

(* Others make a file anew, which is then excepted. *)
LEMMA CreateKeepsIInv ==
    ASSUME IInv, NEW f \in File, Create(f)
    PROVE  IInv'
<1>1. /\ UNCHANGED <<residue, phase, listed, todo, loc, errs, tally, passed>>
      /\ f \notin present /\ present' = present \cup {f}
      /\ data' = [data EXCEPT ![f] = <<0>>] /\ touched' = touched \cup {f}
      /\ unseen' = unseen \cup {f}
    BY DEF Create
<1>2. /\ data \in [File -> Seq(0..Passes)] /\ <<0>> \in Seq(0..Passes)
      /\ file' = file /\ written' = written
    BY <1>1, PassesPositive DEF IInv, TypeOK, loc
<1>3. data' \in [File -> Seq(0..Passes)] /\ \A g \in File \ {f} : data'[g] = data[g]
    BY <1>1, <1>2
<1>4. TypeOK'
    BY <1>1, <1>3 DEF IInv, TypeOK, loc, errs, tally
<1>5. Wiping => file \in File
    BY DEF IInv, TypeOK, LocalInv
<1>6. LocalInv'
    <2>1. phase = "write" => file # f
        BY <1>1 DEF IInv, LocalInv
    <2>2. phase = "write" => data'[file] = data[file]
        BY <1>3, <1>5, <2>1 DEF Wiping
    <2> QED  BY <1>1, <1>2, <2>2 DEF IInv, LocalInv, Wiping, Looping, loc, errs
<1>7. WaitingInv'
    BY <1>1, <1>3 DEF IInv, WaitingInv, Looping
<1>8. LayerInv' /\ SizeInv'
    <2>1. Wiping /\ file \notin touched' => data'[file] = data[file]
        BY <1>1, <1>3, <1>5
    <2> QED  BY <1>1, <2>1 DEF IInv, LayerInv, SizeInv, Wiping, loc, Passes
<1>9. SampledInv'
    <2>1. Wiping /\ file # f => data'[file] = data[file]
        BY <1>3, <1>5
    <2>2. phase = "write" => file # f
        BY <1>1 DEF IInv, LocalInv
    <2> QED  BY <1>1, <1>2, <2>1, <2>2 DEF IInv, SampledInv, Wiping, loc, Passes
<1>10. ResidueInv' /\ OutcomeInv' /\ VerifyInv'
    BY <1>1 DEF IInv, ResidueInv, OutcomeInv, VerifyInv, Settled, Wiping, loc, errs
<1> QED  BY <1>4, <1>6, <1>7, <1>8, <1>9, <1>10 DEF IInv

(* Where nothing changes, nothing is lost. *)
LEMMA StutterKeepsIInv ==
    ASSUME IInv, UNCHANGED vars
    PROVE  IInv'
BY DEF vars, disk, medium, loc, errs, tally, IInv, TypeOK, LocalInv, WaitingInv, LayerInv,
       SampledInv, SizeInv, ResidueInv, OutcomeInv, VerifyInv, Settled, Wiping, Looping, Passes

(* Loops, disk, errors and tallies agree at every moment of the run        *)
(* (WipePath, WipeFile).                                                   *)
THEOREM FileWipeInvariant == Spec => []IInv
<1>1. IInv /\ [Next]_vars => IInv'
    BY CollectKeepsIInv, StatKeepsIInv, FailKeepsIInv, OpenKeepsIInv, WriteKeepsIInv,
       DeleteKeepsIInv, DeleteFailsKeepsIInv, VerifyKeepsIInv,
       GrowKeepsIInv, RemoveKeepsIInv, CreateKeepsIInv, StutterKeepsIInv
    DEF Next, Engine, Others
<1> QED  BY InitIInv, <1>1, PTL DEF Spec

(* Every variable keeps to its range. *)
THEOREM FileWipeTypeOK == Spec => []TypeOK
<1>1. IInv => TypeOK
    BY DEF IInv
<1> QED  BY FileWipeInvariant, <1>1, PTL

(* A run of WipePath without errors has erased and unlinked all it listed. *)
THEOREM FileWipeSuccessMeansErased == Spec => []SuccessMeansErased
<1>1. IInv => SuccessMeansErased
    BY DEF IInv, OutcomeInv, SuccessMeansErased, Settled, Errors
<1> QED  BY FileWipeInvariant, <1>1, PTL

(* A verification that passed has found every listed file gone, and what   *)
(* is there was made anew behind it (WipePath's all_of).                   *)
THEOREM FileWipeVerifiedMeansGone == Spec => []VerifiedMeansGone
<1>1. IInv => VerifiedMeansGone
    BY DEF IInv, VerifyInv, VerifiedMeansGone
<1> QED  BY FileWipeInvariant, <1>1, PTL

(* No file is unlinked before the last pass has reached its every unit, or *)
(* every unit up to the sampled size of a file that others wrote to,       *)
(* unless they put it there behind the last pass (WipeFile, WipePath).     *)
THEOREM FileWipeUnlinkOnlyErased == Spec => UnlinkOnlyErased
<1>1. ASSUME IInv, [Next]_vars, NEW f \in present \ present', phase' # phase, f \notin unseen
      PROVE  /\ f \notin wipeErr'
             /\ \A i \in 1..(IF f \in touched THEN size ELSE Len(data[f])) :
                    data[f][i] = Passes
    <2>1. DeleteFile /\ f = file
        BY <1>1 DEF Next, Engine, Others, CollectThrows, CollectFiles, StatFile, StatFails,
            OpenPass, WriteChunk, WipeFails, DeleteFile, DeleteFails, LoopEnds, CheckGone,
            CheckThrows, VerificationPasses, Grow, Remove, Create, Unlink, vars, disk, medium
    <2>2. phase = "delete" /\ file \in present \ unseen /\ wipeErr' = wipeErr
        BY <1>1, <2>1 DEF DeleteFile, errs
    <2>3. file \notin wipeErr
        BY <1>1, <2>2 DEF IInv, LocalInv, Wiping
    <2>4. CASE f \in touched
        <3>1. \A i \in 1..size : data[file][i] = Passes
            BY <1>1, <2>1, <2>2 DEF IInv, SampledInv
        <3> QED  BY <2>1, <2>2, <2>3, <2>4, <3>1
    <2>5. CASE f \notin touched
        <3>1. \A i \in 1..Len(data[file]) : data[file][i] = Passes
            BY <1>1, <2>1, <2>2, <2>5 DEF IInv, LayerInv, Wiping
        <3> QED  BY <2>1, <2>2, <2>3, <2>5, <3>1
    <2> QED  BY <2>4, <2>5
<1> DEFINE Kept ==
        \A f \in present \ present' :
            phase' # phase /\ f \notin unseen =>
                /\ f \notin wipeErr'
                /\ \A i \in 1..(IF f \in touched THEN size ELSE Len(data[f])) :
                       data[f][i] = Passes
<1>2. IInv /\ [Next]_vars => [Kept]_vars
    BY <1>1
<1>3. Spec => [][Kept]_vars
    <2> HIDE DEF Kept
    <2> QED  BY FileWipeInvariant, <1>2, PTL DEF Spec
<1> QED  BY <1>3 DEF UnlinkOnlyErased

(* Each unit takes the passes one after the other, in schedule order. *)
THEOREM FileWipePassesInOrder == Spec => PassesInOrder
<1>1. ASSUME IInv, [Next]_vars, NEW f \in File \ touched', NEW i \in 1..Len(data[f])
      PROVE  data'[f][i] \in {data[f][i], data[f][i] + 1}
    <2>1. CASE WriteChunk
        <3>1. PICK n \in Nat \ {0} :
                  /\ written \in Nat /\ written' = written + n /\ file \in File
                  /\ \A g \in File \ {file} : data'[g] = data[g]
                  /\ Len(data'[file]) =
                         IF written' > Len(data[file]) THEN written' ELSE Len(data[file])
                  /\ \A k \in 1..Len(data'[file]) :
                         data'[file][k] = IF k \in (written + 1)..written' THEN pass
                                          ELSE data[file][k]
            BY <1>1, <2>1, WriteResult
        <3>2. phase = "write" /\ touched' = touched /\ pass \in Nat /\ Len(data[f]) \in Nat
            BY <1>1, <2>1, PassesPositive DEF WriteChunk, AfterWrite, IInv, TypeOK
        <3>3. CASE f # file
            BY <3>1, <3>3
        <3>4. CASE f = file
            <4>1. data[f][i] = IF i <= written THEN pass ELSE pass - 1
                BY <1>1, <3>2, <3>4 DEF IInv, LayerInv, Wiping
            <4>2. data'[f][i] = IF i \in (written + 1)..written' THEN pass ELSE data[f][i]
                BY <3>1, <3>2, <3>4
            <4> QED  BY <3>1, <3>2, <4>1, <4>2
        <3> QED  BY <3>3, <3>4
    <2>2. CASE ~WriteChunk
        <3>1. data'[f] = data[f]
            BY <1>1, <2>2 DEF Next, Engine, Others, CollectThrows, CollectFiles, StatFile,
                StatFails, OpenPass, WipeFails, DeleteFile, DeleteFails, LoopEnds, CheckGone,
                CheckThrows, VerificationPasses, Grow, Remove, Create, vars, disk, medium,
                IInv, TypeOK
        <3> QED  BY <3>1
    <2> QED  BY <2>1, <2>2
<1>2. IInv /\ [Next]_vars =>
          [ \A f \in File \ touched' : \A i \in 1..Len(data[f]) :
                data'[f][i] \in {data[f][i], data[f][i] + 1} ]_vars
    BY <1>1
<1> QED  BY FileWipeInvariant, <1>2, PTL DEF Spec, PassesInOrder

(***************************************************************************)
(* The count of the files                                                  *)
(***************************************************************************)

(* The files WipeFile has returned for.                                    *)
Counted ==
    listed \ (todo \cup wipeErr \cup (IF phase \in {"open", "write"} THEN {file} ELSE {}))

CountInv ==
    /\ phase = "collect" => filesProcessed = 0
    /\ Looping => filesProcessed = Cardinality(Counted)
    /\ phase \in {"verify", "done"} => filesProcessed = Cardinality(listed \ wipeErr)

(* One more file. *)
LEMMA CountOneMore ==
    ASSUME NEW f \in File, NEW S \in SUBSET File, f \notin S
    PROVE  Cardinality(S \cup {f}) = Cardinality(S) + 1
<1>1. IsFiniteSet(S)
    BY ConstantsOK, FS_Subset
<1> QED  BY <1>1, FS_AddElement

(* A step that leaves the set of counted files alone, and the tally.       *)
LEMMA CountStays ==
    ASSUME CountInv, Looping, Looping', Counted' = Counted, filesProcessed' = filesProcessed
    PROVE  CountInv'
BY DEF CountInv, Looping

(* A file that is through with the loop is one more that is counted. *)
LEMMA CountGrows ==
    ASSUME IInv, CountInv, Looping, Looping', NEW f \in File, f \notin Counted,
           Counted' = Counted \cup {f}, filesProcessed' = filesProcessed + 1
    PROVE  CountInv'
<1>1. Counted \in SUBSET File
    BY DEF IInv, TypeOK, Counted
<1>2. filesProcessed' = Cardinality(Counted')
    BY <1>1, CountOneMore DEF CountInv
<1> QED  BY <1>2 DEF CountInv, Looping

(* The tally goes up when a file leaves the loop and at no other time. *)
LEMMA StepKeepsCountInv ==
    ASSUME IInv, CountInv, [Next]_vars
    PROVE  CountInv'
<1>1. CASE CollectThrows \/ CheckThrows \/ VerificationPasses \/ \E f \in File : CheckGone(f)
    BY <1>1 DEF CollectThrows, CheckThrows, VerificationPasses, CheckGone, CountInv, Looping,
                tally, errs
<1>2. CASE CollectFiles
    <2>1. Counted' = {} /\ filesProcessed' = 0 /\ phase' = "next"
        BY <1>2 DEF CollectFiles, CountInv, Counted, IInv, TypeOK, LocalInv, tally
    <2> QED  BY <2>1, FS_EmptySet DEF CountInv, Looping
<1>3. ASSUME NEW f \in File, StatFile(f)
      PROVE  CountInv'
    <2>1. /\ f \in todo /\ f \in listed /\ f \notin wipeErr /\ phase = "next"
          /\ todo' = todo \ {f} /\ file' = f /\ listed' = listed /\ wipeErr' = wipeErr
        BY <1>3 DEF StatFile, IInv, TypeOK, LocalInv, Looping, errs
    <2>2. CASE phase' = "delete" /\ filesProcessed' = filesProcessed + 1
        <3>1. Counted' = Counted \cup {f} /\ f \notin Counted
            BY <2>1, <2>2 DEF Counted
        <3> QED  BY <2>1, <2>2, <3>1, CountGrows DEF Looping
    <2>3. CASE phase' = "open" /\ filesProcessed' = filesProcessed
        <3>1. Counted' = Counted
            BY <2>1, <2>3 DEF Counted
        <3> QED  BY <2>1, <2>3, <3>1, CountStays DEF Looping
    <2> QED  BY <1>3, <2>2, <2>3 DEF StatFile
<1>4. ASSUME NEW f \in File, StatFails(f)
      PROVE  CountInv'
    <2>1. Counted' = Counted /\ Looping /\ Looping' /\ filesProcessed' = filesProcessed
        BY <1>4 DEF StatFails, Counted, Looping, tally
    <2> QED  BY <2>1, CountStays
<1>5. CASE OpenPass \/ WipeFails \/ DeleteFile \/ DeleteFails
    <2>1. Counted' = Counted /\ Looping /\ Looping' /\ filesProcessed' = filesProcessed
        BY <1>5 DEF OpenPass, WipeFails, DeleteFile, DeleteFails, Counted, Looping, tally, loc, errs
    <2> QED  BY <2>1, CountStays
<1>6. CASE WriteChunk
    <2>1. /\ UNCHANGED <<listed, todo, file, wipeErr>> /\ phase = "write"
          /\ file \in listed /\ file \notin todo /\ file \notin wipeErr /\ file \in File
          /\ \/ phase' \in {"write", "open"} /\ filesProcessed' = filesProcessed
             \/ phase' = "delete" /\ filesProcessed' = filesProcessed + 1
        BY <1>6 DEF WriteChunk, AfterWrite, IInv, TypeOK, LocalInv, Wiping, errs, tally
    <2>2. CASE phase' = "delete" /\ filesProcessed' = filesProcessed + 1
        <3>1. Counted' = Counted \cup {file} /\ file \notin Counted
            BY <2>1, <2>2 DEF Counted
        <3>2. \A f \in File : f = file => CountInv'
            BY <2>1, <2>2, <3>1, CountGrows DEF Looping
        <3> QED  BY <2>1, <3>2
    <2>3. CASE phase' \in {"write", "open"} /\ filesProcessed' = filesProcessed
        <3>1. Counted' = Counted
            BY <2>1, <2>3 DEF Counted
        <3> QED  BY <2>1, <2>3, <3>1, CountStays DEF Looping
    <2> QED  BY <2>1, <2>2, <2>3
<1>7. CASE LoopEnds
    <2>1. /\ phase = "next" /\ todo = {} /\ phase' \in {"verify", "done"}
          /\ listed' = listed /\ wipeErr' = wipeErr /\ filesProcessed' = filesProcessed
        BY <1>7 DEF LoopEnds, errs, tally
    <2>2. Counted = listed \ wipeErr
        BY <2>1 DEF Counted
    <2> QED  BY <2>1, <2>2 DEF CountInv, Looping
<1>8. CASE UNCHANGED vars \/ Others
    <2>1. UNCHANGED <<phase, listed, todo, file, wipeErr, filesProcessed>>
        BY <1>8 DEF vars, Others, Grow, Remove, Create, loc, errs, tally
    <2>2. Counted' = Counted
        BY <2>1 DEF Counted
    <2> QED  BY <2>1, <2>2 DEF CountInv, Looping
<1> QED  BY <1>1, <1>2, <1>3, <1>4, <1>5, <1>6, <1>7, <1>8 DEF Next, Engine

(* The files that the result counts and those it reports are, together and *)
(* once each, the files that were listed (WipePath's tally).               *)
THEOREM FileWipeEveryFileAccounted == Spec => []EveryFileAccounted
<1>1. Init => CountInv
    BY DEF Init, CountInv, Looping
<1>2. IInv /\ CountInv /\ [Next]_vars => CountInv'
    BY StepKeepsCountInv
<1>3. ASSUME IInv, CountInv PROVE EveryFileAccounted
    <2>1. IsFiniteSet(listed) /\ listed \cap wipeErr = wipeErr
        BY <1>3, ConstantsOK, FS_Subset DEF IInv, TypeOK
    <2>2. Cardinality(listed \ wipeErr) = Cardinality(listed) - Cardinality(wipeErr)
        BY <2>1, FS_Difference
    <2> QED  BY <1>3, <2>2 DEF CountInv, EveryFileAccounted
<1> QED  BY FileWipeInvariant, <1>1, <1>2, <1>3, PTL DEF Spec

(***************************************************************************)
(* Progress                                                                *)
(***************************************************************************)

(* The run goes from the listing through the files to the verification and *)
(* its end; a file, through its passes to its deletion and to the next.    *)
Chapter(where) == CASE where = "collect" -> 0
                    [] where \in {"next", "open", "write", "delete"} -> 1
                    [] where = "verify" -> 2
                    [] OTHER -> 3
Page(where) == CASE where = "delete" -> 1
                 [] where = "next"   -> 2
                 [] OTHER            -> 0

(* What is compared first: the chapter, the files that are left, where the *)
(* one at hand stands, its pass, whether it is open, what is written of it.*)
Further ==
    \/ Chapter(phase') > Chapter(phase)
    \/ Chapter(phase') = Chapter(phase) /\ todo' \subseteq todo /\ todo' # todo
    \/ /\ Chapter(phase') = Chapter(phase) /\ todo' = todo
       /\ \/ Page(phase') > Page(phase)
          \/ phase' = "open" /\ phase = "write" /\ pass' > pass
          \/ phase' = "write" /\ phase = "open" /\ pass' = pass
          \/ /\ phase' = "write" /\ phase = "write" /\ pass' = pass
             /\ written' > written /\ written' <= size' /\ size' = size

(* Every call brings the run on, also one that fails, and other processes  *)
(* can neither turn it back nor prolong it: chapters, files, passes and    *)
(* sampled sizes being finite, so is the run (WipePath's and WipeFile's    *)
(* loops).                                                                 *)
THEOREM FileWipeProgress ==
    Spec => [][(Engine => Further) /\ (Engine \/ UNCHANGED <<phase, todo, loc>>)]_vars
<1> DEFINE Move == (Engine => Further) /\ (Engine \/ UNCHANGED <<phase, todo, loc>>)
<1>1. ASSUME IInv, CollectThrows \/ CollectFiles \/ CheckThrows \/ VerificationPasses \/ LoopEnds
      PROVE  Further
    <2>1. \/ phase = "collect" /\ phase' \in {"thrown", "next"}
          \/ phase = "next" /\ phase' \in {"verify", "done"}
          \/ phase = "verify" /\ phase' \in {"thrown", "done"}
        BY <1>1 DEF CollectThrows, CollectFiles, CheckThrows, VerificationPasses, LoopEnds
    <2>2. Chapter(phase') > Chapter(phase)
        BY <2>1 DEF Chapter
    <2> QED  BY <2>2 DEF Further
<1>2. ASSUME NEW f \in File, StatFile(f) \/ StatFails(f) PROVE Further
    <2>1. /\ f \in todo /\ todo' = todo \ {f}
          /\ phase = "next" /\ phase' \in {"delete", "open", "next"}
        BY <1>2 DEF StatFile, StatFails
    <2>2. Chapter(phase') = Chapter(phase)
        BY <2>1 DEF Chapter
    <2> QED  BY <2>1, <2>2 DEF Further
<1>3. ASSUME NEW f \in File, CheckGone(f) PROVE Further
    <2>1. CASE phase' = phase
        BY <1>3, <2>1 DEF CheckGone, Further
    <2>2. CASE phase' # phase
        <3>1. phase = "verify" /\ phase' = "done"
            BY <1>3, <2>2 DEF CheckGone
        <3>2. Chapter(phase') > Chapter(phase)
            BY <3>1 DEF Chapter
        <3> QED  BY <3>2 DEF Further
    <2> QED  BY <2>1, <2>2
<1>4. ASSUME OpenPass PROVE Further
    <2>1. phase = "open" /\ phase' = "write" /\ todo' = todo /\ pass' = pass
        BY <1>4 DEF OpenPass
    <2>2. Chapter(phase') = Chapter(phase)
        BY <2>1 DEF Chapter
    <2> QED  BY <2>1, <2>2 DEF Further
<1>5. ASSUME WipeFails \/ DeleteFile \/ DeleteFails PROVE Further
    <2>1. phase \in {"open", "write", "delete"} /\ phase' = "next" /\ todo' = todo
        BY <1>5 DEF WipeFails, DeleteFile, DeleteFails
    <2>2. Chapter(phase') = Chapter(phase) /\ Page(phase') > Page(phase)
        BY <2>1 DEF Chapter, Page
    <2> QED  BY <2>1, <2>2 DEF Further
<1>6. ASSUME IInv, WriteChunk PROVE Further
    <2>1. PICK n \in 1..BufUnits : n <= size - written /\ written' = written + n
        BY <1>6 DEF WriteChunk
    <2>2. /\ phase = "write" /\ todo' = todo /\ size' = size
          /\ \/ phase' = "write" /\ pass' = pass
             \/ phase' = "open" /\ pass' = pass + 1
             \/ phase' = "delete"
        BY <1>6 DEF WriteChunk, AfterWrite
    <2>3. size \in Nat /\ written \in Nat /\ pass \in Nat /\ n \in Nat /\ n > 0
        BY <1>6, PassesPositive, ConstantsOK DEF IInv, TypeOK
    <2>4. written' > written /\ written' <= size
        BY <2>1, <2>3
    <2>5. Chapter(phase') = Chapter(phase)
        BY <2>2 DEF Chapter
    <2>6. phase' = "delete" => Page(phase') > Page(phase)
        BY <2>2 DEF Page
    <2> QED  BY <2>2, <2>3, <2>4, <2>5, <2>6 DEF Further
<1>7. ASSUME Others PROVE UNCHANGED <<phase, todo, loc>>
    BY <1>7 DEF Others, Grow, Remove, Create
<1>8. IInv /\ [Next]_vars => [Move]_vars
    <2>1. IInv /\ Engine => Further
        BY <1>1, <1>2, <1>3, <1>4, <1>5, <1>6 DEF Engine
    <2>2. IInv /\ Next => Move
        BY <1>7, <2>1 DEF Next
    <2> QED  BY <2>2
<1>9. Spec => [][Move]_vars
    <2> HIDE DEF Move
    <2> QED  BY FileWipeInvariant, <1>8, PTL DEF Spec
<1> QED  BY <1>9

(***************************************************************************)
(* The tally of the bytes                                                  *)
(***************************************************************************)

(* While nobody else has written, bytesWiped is that of the files counted. *)
BytesInv ==
    touched = {} =>
        /\ phase = "collect" => bytesWiped = 0
        /\ Looping => bytesWiped = Cardinality(Units(Counted))
        /\ phase \in {"verify", "done"} => bytesWiped = Cardinality(Units(listed \ wipeErr))

(* The units of finitely many files are finitely many. *)
LEMMA UnitsFinite ==
    ASSUME IInv, NEW S \in SUBSET File
    PROVE  IsFiniteSet(Units(S)) /\ Cardinality(Units(S)) \in Nat
<1> DEFINE blocks == {{f} \X (1..Len(data[f])) : f \in S}
           block  == [f \in S |-> {f} \X (1..Len(data[f]))]
<1>1. IsFiniteSet(S)
    BY ConstantsOK, FS_Subset
<1>2. block \in Surjection(S, blocks)
    BY DEF Surjection
<1>3. IsFiniteSet(blocks)
    BY <1>1, <1>2, FS_Surjection
<1>4. ASSUME NEW f \in S
      PROVE  IsFiniteSet({f} \X (1..Len(data[f])))
    <2>1. Len(data[f]) \in Nat
        BY DEF IInv, TypeOK
    <2>2. \A n \in Nat : IsFiniteSet(1..n)
        BY FS_Interval
    <2>3. IsFiniteSet({f})
        BY FS_Singleton
    <2>4. IsFiniteSet(1..Len(data[f]))
        BY <2>1, <2>2
    <2> QED  BY <2>3, <2>4, FS_Product
<1>5. \A T \in blocks : IsFiniteSet(T)
    BY <1>4
<1>6. IsFiniteSet(UNION blocks)
    BY <1>3, <1>5, FS_UNION
<1> QED  BY <1>6, FS_CardinalityType DEF Units

(* One more file has its own units. *)
LEMMA UnitsAdd ==
    ASSUME IInv, NEW S \in SUBSET File, NEW f \in File, f \notin S
    PROVE  Cardinality(Units(S \cup {f})) = Cardinality(Units(S)) + Len(data[f])
<1> DEFINE n   == Len(data[f])
           new == {f} \X (1..n)
<1>1. n \in Nat
    BY DEF IInv, TypeOK
<1>2. IsFiniteSet(new) /\ Cardinality(new) = n
    <2>1. IsFiniteSet({f}) /\ Cardinality({f}) = 1
        BY FS_Singleton
    <2>2. IsFiniteSet(1..n) /\ Cardinality(1..n) = n
        BY <1>1, FS_Interval
    <2>3. IsFiniteSet({f} \X (1..n))
          /\ Cardinality({f} \X (1..n)) = Cardinality({f}) * Cardinality(1..n)
        <3> HIDE DEF n
        <3> QED  BY <2>1, <2>2, FS_Product, Zenon
    <2> QED  BY <1>1, <2>1, <2>2, <2>3
<1>3. Units(S \cup {f}) = Units(S) \cup new
    <2> SUFFICES ASSUME NEW x
                 PROVE  x \in Units(S \cup {f}) <=> x \in Units(S) \cup new
        OBVIOUS
    <2>1. x \in Units(S) <=> \E g \in S : x \in {g} \X (1..Len(data[g]))
        BY DEF Units
    <2>2. x \in Units(S \cup {f}) <=> \E g \in S \cup {f} : x \in {g} \X (1..Len(data[g]))
        BY DEF Units
    <2> QED  BY <2>1, <2>2
<1>4. Units(S) \cap new = {}
    BY DEF Units
<1> HIDE DEF n, new
<1>5. Cardinality(Units(S) \cap new) = 0 /\ IsFiniteSet(Units(S)) /\ Cardinality(Units(S)) \in Nat
    BY <1>4, FS_EmptySet, UnitsFinite
<1>6. Cardinality(Units(S) \cup new)
          = Cardinality(Units(S)) + Cardinality(new) - Cardinality(Units(S) \cap new)
    BY <1>2, <1>5, FS_Union
<1>7. Cardinality(Units(S) \cup new) = Cardinality(Units(S)) + n
    BY <1>1, <1>2, <1>5, <1>6
<1> QED  BY <1>3, <1>7 DEF n

(* The engine's own writes leave every file as long as it was.             *)
LEMMA LengthsStay ==
    ASSUME IInv, [Next]_vars, touched' = {}
    PROVE  touched = {} /\ \A S \in SUBSET File : Units(S)' = Units(S)
<1>1. touched = {}
    BY DEF Next, Engine, Others, CollectThrows, CollectFiles, StatFile, StatFails, OpenPass,
           WriteChunk, WipeFails, DeleteFile, DeleteFails, LoopEnds, CheckGone, CheckThrows,
           VerificationPasses, Grow, Remove, Create, vars, disk, medium
<1>2. \A f \in File : Len(data'[f]) = Len(data[f])
    <2>1. CASE WriteChunk
        <3>1. PICK n \in Nat \ {0} :
                  /\ written' <= size /\ written \in Nat /\ written' = written + n
                  /\ \A g \in File \ {file} : data'[g] = data[g]
                  /\ Len(data'[file]) =
                         IF written' > Len(data[file]) THEN written' ELSE Len(data[file])
            BY <2>1, WriteResult
        <3>2. size = Len(data[file])
            BY <1>1, <2>1 DEF WriteChunk, IInv, SizeInv, TypeOK
        <3> QED  BY <3>1, <3>2
    <2>2. CASE data' = data
        BY <2>2
    <2>3. data' = data \/ WriteChunk
        BY DEF Next, Engine, Others, CollectThrows, CollectFiles, StatFile, StatFails, OpenPass,
               WipeFails, DeleteFile, DeleteFails, LoopEnds, CheckGone, CheckThrows,
               VerificationPasses, Grow, Remove, Create, vars, disk, medium
    <2> QED  BY <2>1, <2>2, <2>3
<1>3. ASSUME NEW S \in SUBSET File
      PROVE  Units(S)' = Units(S)
    BY <1>2 DEF Units
<1> QED  BY <1>1, <1>3

(* A step in the loop that leaves the counted files alone, and the tally.  *)
LEMMA BytesStay ==
    ASSUME IInv, BytesInv, [Next]_vars, touched' = {}, Looping, Looping',
           Counted' = Counted, bytesWiped' = bytesWiped
    PROVE  BytesInv'
<1>1. Counted \in SUBSET File
    BY DEF IInv, TypeOK, Counted
<1>2. Units(Counted)' = Units(Counted)
    <2>1. ASSUME NEW S \in SUBSET File, S = Counted
          PROVE  Units(Counted)' = Units(Counted)
        BY <2>1, LengthsStay DEF Units
    <2> QED  BY <1>1, <2>1
<1>3. bytesWiped' = Cardinality(Units(Counted)')
    BY <1>2, LengthsStay DEF BytesInv
<1> QED  BY <1>3 DEF BytesInv, Looping

(* A file that is through with the loop adds its size.                     *)
LEMMA BytesGrow ==
    ASSUME IInv, BytesInv, [Next]_vars, touched' = {}, Looping, Looping',
           NEW f \in File, f \notin Counted, Counted' = Counted \cup {f},
           bytesWiped' = bytesWiped + Len(data[f])
    PROVE  BytesInv'
<1>1. Counted \in SUBSET File /\ Counted \cup {f} \in SUBSET File
    BY DEF IInv, TypeOK, Counted
<1>2. bytesWiped' = Cardinality(Units(Counted \cup {f}))
    BY <1>1, UnitsAdd, LengthsStay DEF BytesInv
<1>3. Units(Counted)' = Units(Counted \cup {f})
    <2>1. ASSUME NEW S \in SUBSET File, S = Counted \cup {f}
          PROVE  Units(Counted)' = Units(Counted \cup {f})
        BY <2>1, LengthsStay DEF Units
    <2> QED  BY <1>1, <2>1
<1> QED  BY <1>2, <1>3 DEF BytesInv, Looping

(* The bytes are added when a file leaves the loop and at no other time.   *)
LEMMA StepKeepsBytesInv ==
    ASSUME IInv, BytesInv, [Next]_vars
    PROVE  BytesInv'
<1> SUFFICES ASSUME touched' = {}
             PROVE  BytesInv'
    BY DEF BytesInv
<1>0. touched = {} /\ Units({}) = {}
    BY LengthsStay DEF Units
<1>1. CASE CollectThrows \/ CheckThrows
    BY <1>1 DEF CollectThrows, CheckThrows, BytesInv, Looping
<1>2. CASE CollectFiles
    <2>1. Counted' = {} /\ bytesWiped' = 0 /\ phase' = "next"
        BY <1>0, <1>2 DEF CollectFiles, BytesInv, Counted, IInv, TypeOK, LocalInv, tally
    <2>2. Units(Counted)' = {}
        BY <2>1 DEF Units
    <2> QED  BY <2>1, <2>2, FS_EmptySet DEF BytesInv, Looping
<1>3. ASSUME NEW f \in File, StatFile(f)
      PROVE  BytesInv'
    <2>1. /\ f \in todo /\ f \in listed /\ f \notin wipeErr /\ phase = "next"
          /\ todo' = todo \ {f} /\ file' = f /\ listed' = listed /\ wipeErr' = wipeErr
          /\ bytesWiped' = bytesWiped /\ bytesWiped \in Nat
        BY <1>3 DEF StatFile, IInv, TypeOK, LocalInv, Looping, errs
    <2>2. CASE phase' = "delete" /\ size' = 0
        <3>1. Counted' = Counted \cup {f} /\ f \notin Counted
            BY <2>1, <2>2 DEF Counted
        <3>2. bytesWiped' = bytesWiped + Len(data[f])
            BY <1>3, <2>1, <2>2 DEF StatFile
        <3> QED  BY <2>1, <2>2, <3>1, <3>2, BytesGrow DEF Looping
    <2>3. CASE phase' = "open"
        <3>1. Counted' = Counted
            BY <2>1, <2>3 DEF Counted
        <3> QED  BY <2>1, <2>3, <3>1, BytesStay DEF Looping
    <2> QED  BY <1>3, <2>2, <2>3 DEF StatFile
<1>4. ASSUME NEW f \in File, StatFails(f)
      PROVE  BytesInv'
    <2>1. Counted' = Counted /\ Looping /\ Looping' /\ bytesWiped' = bytesWiped
        BY <1>4 DEF StatFails, Counted, Looping, tally
    <2> QED  BY <2>1, BytesStay
<1>5. CASE OpenPass \/ WipeFails \/ DeleteFile \/ DeleteFails
    <2>1. Counted' = Counted /\ Looping /\ Looping' /\ bytesWiped' = bytesWiped
        BY <1>5 DEF OpenPass, WipeFails, DeleteFile, DeleteFails, Counted, Looping, tally, loc, errs
    <2> QED  BY <2>1, BytesStay
<1>6. CASE WriteChunk
    <2>1. /\ UNCHANGED <<listed, todo, file, wipeErr>> /\ phase = "write"
          /\ file \in listed /\ file \notin todo /\ file \notin wipeErr /\ file \in File
          /\ size = Len(data[file])
          /\ \/ phase' \in {"write", "open"} /\ bytesWiped' = bytesWiped
             \/ phase' = "delete" /\ bytesWiped' = bytesWiped + size
        BY <1>0, <1>6
        DEF WriteChunk, AfterWrite, IInv, TypeOK, LocalInv, SizeInv, Wiping, errs, tally
    <2>2. CASE phase' = "delete" /\ bytesWiped' = bytesWiped + size
        <3>1. Counted' = Counted \cup {file} /\ file \notin Counted
            BY <2>1, <2>2 DEF Counted
        <3>2. \A f \in File : f = file => BytesInv'
            BY <2>1, <2>2, <3>1, BytesGrow DEF Looping
        <3> QED  BY <2>1, <3>2
    <2>3. CASE phase' \in {"write", "open"} /\ bytesWiped' = bytesWiped
        <3>1. Counted' = Counted
            BY <2>1, <2>3 DEF Counted
        <3> QED  BY <2>1, <2>3, <3>1, BytesStay DEF Looping
    <2> QED  BY <2>1, <2>2, <2>3
<1>7. CASE LoopEnds
    <2>1. /\ phase = "next" /\ todo = {} /\ phase' \in {"verify", "done"}
          /\ listed' = listed /\ wipeErr' = wipeErr /\ UNCHANGED <<data, bytesWiped>>
        BY <1>7 DEF LoopEnds, errs, tally, disk, medium
    <2>2. Counted = listed \ wipeErr
        BY <2>1 DEF Counted
    <2> QED  BY <1>0, <2>1, <2>2 DEF BytesInv, Looping, Units
<1>8. CASE VerificationPasses \/ \E f \in File : CheckGone(f)
    <2>1. /\ phase = "verify" /\ phase' \in {"verify", "done"}
          /\ UNCHANGED <<data, listed, wipeErr, bytesWiped>>
        BY <1>8 DEF VerificationPasses, CheckGone, disk, medium, errs, tally
    <2> QED  BY <1>0, <2>1 DEF BytesInv, Looping, Units
<1>9. CASE UNCHANGED vars \/ Others
    <2>1. /\ UNCHANGED <<phase, listed, todo, file, wipeErr, bytesWiped>>
          /\ listed \ wipeErr \in SUBSET File /\ Counted \in SUBSET File
        BY <1>9 DEF vars, Others, Grow, Remove, Create, loc, errs, tally, IInv, TypeOK, Counted
    <2>2. Counted' = Counted /\ (listed \ wipeErr)' = listed \ wipeErr
        BY <2>1 DEF Counted
    <2>3. data' = data
        BY <1>0, <1>9 DEF vars, Others, Grow, Remove, Create, disk, medium
    <2> QED  BY <1>0, <2>1, <2>2, <2>3 DEF BytesInv, Looping, Units
<1> QED  BY <1>1, <1>2, <1>3, <1>4, <1>5, <1>6, <1>7, <1>8, <1>9 DEF Next, Engine

(* When nobody else wrote, bytes_wiped is the size of the files listed and *)
(* not reported, whatever their number and sizes (WipePath's sum).         *)
THEOREM FileWipeBytesMatchErased == Spec => []BytesMatchErased
<1>1. Init => BytesInv
    BY DEF Init, BytesInv, Looping
<1>2. IInv /\ BytesInv /\ [Next]_vars => BytesInv'
    BY StepKeepsBytesInv
<1>3. BytesInv => BytesMatchErased
    BY DEF BytesInv, BytesMatchErased
<1> QED  BY FileWipeInvariant, <1>1, <1>2, <1>3, PTL DEF Spec

(***************************************************************************)
(* The refinement of SecureErase                                           *)
(***************************************************************************)

States   == [f \in File |-> StateOf(f)]
Reported == wipeErr \cup delErr

(* A file about which nothing has changed is as far as it was. *)
LEMMA SameState ==
    ASSUME NEW f \in File, data'[f] = data[f], f \in present <=> f \in present',
           f \in residue <=> f \in residue', f \in touched <=> f \in touched'
    PROVE  StateOf(f)' = StateOf(f)
BY DEF StateOf, UserData, Passes

(* So have they all when nobody touches the disk.                          *)
LEMMA SameDisk ==
    ASSUME UNCHANGED medium
    PROVE  States' = States
BY SameState DEF States, medium

(* The state of a file nobody else wrote to, read off its units. *)
LEMMA StateOfPresent ==
    ASSUME IInv, NEW f \in present \ touched
    PROVE  /\ StateOf(f) \in {"data", "scrubbed", "erased"}
           /\ StateOf(f) = "data" => UserData(f)
           /\ StateOf(f) # "data" => ~UserData(f)
<1>1. StateOf(f) \in {"data", "scrubbed", "erased"} /\ (StateOf(f) = "data" => UserData(f))
    BY DEF StateOf
<1>2. ASSUME StateOf(f) # "data" PROVE ~UserData(f)
    BY <1>2, PassesPositive DEF StateOf, UserData
<1> QED  BY <1>1, <1>2

(* A file that takes a way the abstraction has, all else the same.         *)
LEMMA MoveIsStep ==
    ASSUME NEW f \in File, Running, Running',
           \A g \in File \ {f} : StateOf(g)' = StateOf(g),
           StateOf(f)' \in Erase!Onward[StateOf(f)],
           listed' = listed, Reported' = Reported
    PROVE  Erase!Next
<1>1. Verdict = "none" /\ Verdict' = "none"
    BY DEF Verdict, Running
<1>2. States' = [States EXCEPT ![f] = StateOf(f)']
    BY DEF States
<1>3. Erase!Move(f)
    BY <1>1, <1>2 DEF Erase!Move, States, Reported
<1> QED  BY <1>1, <1>3 DEF Erase!Next

(* Where a step may take a file, as the table has it. *)
LEMMA OnwardTable ==
    /\ \A s \in {"data", "scrubbed", "erased", "gone", "lost", "foreign"} :
           s \in Erase!Onward[s] /\ "foreign" \in Erase!Onward[s]
    /\ \A s \in {"data", "scrubbed", "erased"} : s \in Erase!Onward["data"]
    /\ \A s \in {"scrubbed", "erased"} : s \in Erase!Onward["scrubbed"]
    /\ "lost" \in Erase!Onward["data"]
    /\ "gone" \in Erase!Onward["scrubbed"] /\ "gone" \in Erase!Onward["erased"]
BY DEF Erase!Onward, Erase!States

(* Each file is in one of the states of SecureErase. *)
LEMMA StateOfRange ==
    ASSUME NEW f \in File
    PROVE  StateOf(f) \in {"data", "scrubbed", "erased", "gone", "lost", "foreign"}
BY DEF StateOf

(* A pass leaves no user data where there was none, and a file that is     *)
(* still to be written has a unit the last pass has not reached.           *)
LEMMA WriteMoves ==
    ASSUME IInv, WriteChunk, NEW f \in File, f = file
    PROVE  Erase!Next
<1>1. PICK n \in Nat \ {0} :
          /\ written \in Nat /\ written' = written + n /\ written' <= size
          /\ \A g \in File \ {f} : data'[g] = data[g]
          /\ Len(data'[f]) = IF written' > Len(data[f]) THEN written' ELSE Len(data[f])
          /\ \A i \in 1..Len(data'[f]) :
                 data'[f][i] = IF i \in (written + 1)..written' THEN pass ELSE data[f][i]
    BY WriteResult
<1>2. /\ UNCHANGED <<present, residue, touched, listed, errs>>
      /\ phase = "write" /\ phase' \in {"write", "open", "delete"}
      /\ size \in Nat /\ pass \in 1..Passes /\ written < size
      /\ f \in present /\ Len(data[f]) \in Nat
    BY DEF WriteChunk, AfterWrite, IInv, TypeOK, LocalInv
<1>3. \A g \in File \ {f} : StateOf(g)' = StateOf(g)
    BY <1>1, <1>2, SameState
<1>4. StateOf(f)' \in Erase!Onward[StateOf(f)]
    <2>1. CASE f \in touched
        <3>1. StateOf(f) = "foreign" /\ StateOf(f)' = "foreign"
            BY <1>2, <2>1 DEF StateOf
        <3> QED  BY <3>1, OnwardTable
    <2>2. CASE f \notin touched
        <3>1. size = Len(data[f]) /\ Len(data'[f]) = size
            BY <1>1, <1>2, <2>2 DEF IInv, SizeInv
        <3>2. size \in 1..Len(data[f]) /\ data[f][size] = pass - 1
            <4>1. size \in 1..Len(data[f]) /\ ~(size <= written)
                BY <1>1, <1>2, <3>1
            <4> QED  BY <1>2, <2>2, <4>1 DEF IInv, LayerInv, Wiping
        <3>3. StateOf(f) # "erased"
            <4>1. data[f][size] # Passes
                BY <1>2, <3>2, PassesPositive
            <4> QED  BY <1>2, <2>2, <3>2, <4>1 DEF StateOf
        <3>4. StateOf(f) \in {"data", "scrubbed"}
            BY <1>2, <2>2, <3>3, StateOfPresent
        <3>5. StateOf(f)' \in {"data", "scrubbed", "erased"}
            BY <1>2, <2>2 DEF StateOf
        <3>6. ASSUME StateOf(f) = "scrubbed" PROVE StateOf(f)' # "data"
            <4>1. \A i \in 1..Len(data[f]) : data[f][i] # 0
                BY <1>2, <2>2, <3>6, StateOfPresent DEF UserData
            <4>2. \A i \in 1..Len(data'[f]) : data'[f][i] # 0
                BY <1>1, <1>2, <3>1, <4>1
            <4>3. ~UserData(f)'
                BY <4>2 DEF UserData
            <4> QED  BY <4>3 DEF StateOf
        <3> QED  BY <3>4, <3>5, <3>6, OnwardTable
    <2> QED  BY <2>1, <2>2
<1>5. listed' = listed /\ Reported' = Reported /\ Running /\ Running'
    BY <1>2 DEF Reported, Running, errs
<1> QED  BY <1>3, <1>4, <1>5, MoveIsStep

(* What is unlinked without touching by others has had its last pass.      *)
LEMMA DeleteMoves ==
    ASSUME IInv, DeleteFile, NEW f \in File, f = file
    PROVE  Erase!Next
<1>1. /\ UNCHANGED <<data, touched, listed, errs>>
      /\ phase = "delete" /\ phase' = "next" /\ f \in present
      /\ present' = present \ {f}
      /\ residue' = IF UserData(f) THEN residue \cup {f} ELSE residue
    BY DEF DeleteFile, Unlink
<1>2. \A g \in File \ {f} : StateOf(g)' = StateOf(g)
    BY <1>1, SameState
<1>3. StateOf(f)' \in Erase!Onward[StateOf(f)]
    <2>1. CASE f \in touched
        <3>1. StateOf(f) = "foreign" /\ StateOf(f)' = "foreign"
            BY <1>1, <2>1 DEF StateOf
        <3> QED  BY <3>1, OnwardTable
    <2>2. CASE f \notin touched
        <3>1. StateOf(f) = "erased"
            BY <1>1, <2>2 DEF IInv, LayerInv, Wiping, StateOf
        <3>2. ~UserData(f) /\ f \notin residue
            BY <1>1, <2>2, <3>1, StateOfPresent DEF IInv, ResidueInv
        <3>3. StateOf(f)' = "gone"
            BY <1>1, <2>2, <3>2 DEF StateOf
        <3> QED  BY <3>1, <3>3, OnwardTable
    <2> QED  BY <2>1, <2>2
<1>4. listed' = listed /\ Reported' = Reported /\ Running /\ Running'
    BY <1>1 DEF Reported, Running, errs
<1> QED  BY <1>2, <1>3, <1>4, MoveIsStep

(* Others may unlink what is not erased, and so lose it.                   *)
LEMMA RemoveMoves ==
    ASSUME IInv, NEW f \in File, Remove(f)
    PROVE  Erase!Next
<1>1. /\ UNCHANGED <<data, touched, phase, listed, errs>>
      /\ Running /\ f \in present /\ present' = present \ {f}
      /\ residue' = IF UserData(f) THEN residue \cup {f} ELSE residue
    BY DEF Remove, Unlink
<1>2. \A g \in File \ {f} : StateOf(g)' = StateOf(g)
    BY <1>1, SameState
<1>3. StateOf(f)' \in Erase!Onward[StateOf(f)]
    <2>1. CASE f \in touched
        <3>1. StateOf(f) = "foreign" /\ StateOf(f)' = "foreign"
            BY <1>1, <2>1 DEF StateOf
        <3> QED  BY <3>1, OnwardTable
    <2>2. CASE f \notin touched
        <3>1. /\ StateOf(f) \in {"data", "scrubbed", "erased"}
              /\ StateOf(f) = "data" <=> UserData(f)
            BY <1>1, <2>2, StateOfPresent
        <3>2. f \notin residue
            BY <1>1, <2>2 DEF IInv, ResidueInv
        <3>3. StateOf(f)' = IF UserData(f) THEN "lost" ELSE "gone"
            BY <1>1, <2>2, <3>2 DEF StateOf
        <3> QED  BY <3>1, <3>3, OnwardTable
    <2> QED  BY <2>1, <2>2
<1>4. listed' = listed /\ Reported' = Reported /\ Running /\ Running'
    BY <1>1 DEF Reported, Running, errs
<1> QED  BY <1>2, <1>3, <1>4, MoveIsStep

(* A file that others have written to is no longer the engine's.           *)
LEMMA ForeignMoves ==
    ASSUME IInv, NEW f \in File, Grow(f) \/ Create(f)
    PROVE  Erase!Next
<1>1. /\ UNCHANGED <<residue, phase, listed, errs>>
      /\ Running /\ touched' = touched \cup {f}
      /\ \A g \in File \ {f} : data'[g] = data[g] /\ (g \in present' <=> g \in present)
    BY DEF Grow, Create, IInv, TypeOK
<1>2. \A g \in File \ {f} : StateOf(g)' = StateOf(g)
    BY <1>1, SameState
<1>3. StateOf(f)' = "foreign"
    BY <1>1 DEF StateOf
<1>4. StateOf(f)' \in Erase!Onward[StateOf(f)]
    BY <1>3, StateOfRange, OnwardTable
<1>5. listed' = listed /\ Reported' = Reported /\ Running /\ Running'
    BY <1>1 DEF Reported, Running, errs
<1> QED  BY <1>2, <1>4, <1>5, MoveIsStep

(* An error is on record for a file that was listed. *)
LEMMA ReportIsStep ==
    ASSUME NEW f \in listed, UNCHANGED <<medium, listed>>, IInv,
           Running, Running', Reported' = Reported \cup {f}
    PROVE  Erase!Next
<1>1. f \in File /\ States' = States /\ Verdict = "none" /\ Verdict' = "none"
    BY SameDisk DEF IInv, TypeOK, Verdict, Running
<1>2. Erase!Report(f)
    BY <1>1 DEF Erase!Report, States, Reported
<1> QED  BY <1>1, <1>2 DEF Erase!Next

(* Each exception the loop catches is an error about a listed file.        *)
LEMMA FailReports ==
    ASSUME IInv, NEW f \in File,
           StatFails(f) \/ (f = file /\ (WipeFails \/ DeleteFails))
    PROVE  Erase!Next
<1>1. f \in listed
    BY DEF StatFails, WipeFails, DeleteFails, IInv, TypeOK, LocalInv, Wiping
<1>2. UNCHANGED <<medium, listed>> /\ Running /\ Running' /\ Reported' = Reported \cup {f}
    BY DEF StatFails, WipeFails, DeleteFails, Running, Reported, disk
<1> QED  BY <1>1, <1>2, ReportIsStep

(* A run ends clean only when all it listed has come to the end of its way. *)
LEMMA DoneIsEnd ==
    ASSUME IInv, Running, phase' = "done", UNCHANGED <<medium, listed, errs>>,
           \A f \in listed : Settled(f)
    PROVE  Erase!Next
<1>1. /\ States' = States /\ Reported' = Reported /\ Verdict = "none"
      /\ Errors' = Errors /\ Verdict' = IF Errors THEN "errors" ELSE "clean"
    BY SameDisk DEF Verdict, Running, Reported, Errors, errs
<1>2. CASE Errors
    <2>1. Erase!EndUnclean
        BY <1>1, <1>2 DEF Erase!EndUnclean, States, Reported
    <2> QED  BY <1>1, <2>1 DEF Erase!Next
<1>3. CASE ~Errors
    <2>1. Reported = {}
        BY <1>3 DEF Errors, Reported
    <2>2. ASSUME NEW f \in listed PROVE f \in File /\ StateOf(f) \in {"gone", "foreign"}
        <3>1. f \in File
            BY DEF IInv, TypeOK
        <3>2. f \notin touched => f \notin present /\ f \notin residue
            BY <2>1 DEF IInv, OutcomeInv, Reported
        <3> QED  BY <3>1, <3>2 DEF StateOf
    <2>3. \A f \in listed : States[f] \in {"gone", "foreign"}
        BY <2>2 DEF States
    <2>4. Erase!EndClean
        BY <1>1, <1>3, <2>1, <2>3 DEF Erase!EndClean, States, Reported
    <2> QED  BY <1>1, <2>4 DEF Erase!Next
<1> QED  BY <1>2, <1>3

(* An exception that is not caught gives no clean verdict.                 *)
LEMMA ThrowIsEnd ==
    ASSUME Running, phase' = "thrown", UNCHANGED <<medium, listed, errs>>
    PROVE  Erase!Next
<1>1. /\ States' = States /\ Reported' = Reported
      /\ Verdict = "none" /\ Verdict' = "exception"
    BY SameDisk DEF Verdict, Running, Reported, errs
<1>2. Erase!EndUnclean
    BY <1>1 DEF Erase!EndUnclean, States, Reported
<1> QED  BY <1>1, <1>2 DEF Erase!Next

(* Listing touches no file.                                                *)
LEMMA ListIsStep ==
    ASSUME IInv, CollectFiles
    PROVE  Erase!Next
<1>1. /\ UNCHANGED <<medium, wipeErr, delErr>> /\ listed = {} /\ listed' \subseteq File
      /\ Running /\ Running'
    BY DEF CollectFiles, IInv, TypeOK, LocalInv, Running, disk
<1>2. States' = States /\ Reported' = Reported /\ Verdict = "none" /\ Verdict' = "none"
    BY <1>1, SameDisk DEF Verdict, Running, Reported
<1>3. Erase!List
    BY <1>1, <1>2 DEF Erase!List, States, Reported
<1> QED  BY <1>2, <1>3 DEF Erase!Next

(* What the engine does between the files is not seen. *)
LEMMA UnseenSteps ==
    ASSUME UNCHANGED <<medium, listed, errs>>, (Running /\ Running') \/ phase' = phase
    PROVE  UNCHANGED <<States, listed, Reported, Verdict>>
<1>1. States' = States /\ Reported' = Reported /\ Errors' = Errors
    BY SameDisk DEF Reported, Errors, errs
<1> QED  BY <1>1 DEF Verdict, Running

(* Every call, and every interference, is a step of SecureErase or none.   *)
LEMMA StepsAreEraseSteps ==
    ASSUME IInv, [Next]_vars
    PROVE  Erase!Next \/ UNCHANGED <<States, listed, Reported, Verdict>>
<1>1. CASE CollectThrows \/ CheckThrows
    BY <1>1, ThrowIsEnd DEF CollectThrows, CheckThrows, Running, disk
<1>2. CASE CollectFiles
    BY <1>2, ListIsStep
<1>3. CASE WipeFails \/ DeleteFails \/ DeleteFile \/ WriteChunk
    <2>1. file \in File
        BY <1>3 DEF WipeFails, DeleteFails, DeleteFile, WriteChunk, IInv, TypeOK, LocalInv, Wiping
    <2> QED  BY <1>3, <2>1, FailReports, DeleteMoves, WriteMoves
<1>4. ASSUME NEW f \in File, StatFails(f)
      PROVE  Erase!Next
    BY <1>4, FailReports
<1>5. ASSUME NEW f \in File, Grow(f) \/ Remove(f) \/ Create(f)
      PROVE  Erase!Next
    BY <1>5, ForeignMoves, RemoveMoves
<1>6. ASSUME NEW f \in File, StatFile(f)
      PROVE  UNCHANGED <<States, listed, Reported, Verdict>>
    BY <1>6, UnseenSteps DEF StatFile, Running, disk
<1>7. CASE OpenPass
    BY <1>7, UnseenSteps DEF OpenPass, Running
<1>8. CASE UNCHANGED vars
    BY <1>8, UnseenSteps DEF vars, disk
<1>9. CASE LoopEnds \/ VerificationPasses \/ \E f \in File : CheckGone(f)
    <2>1. /\ UNCHANGED <<medium, listed, errs>> /\ Running
          /\ phase = "verify" \/ (phase = "next" /\ todo = {})
          /\ phase' = "done" \/ Running'
        BY <1>9 DEF LoopEnds, VerificationPasses, CheckGone, Running, disk
    <2>2. \A f \in listed : Settled(f)
        BY <2>1 DEF Settled, Wiping
    <2> QED  BY <2>1, <2>2, DoneIsEnd, UnseenSteps
<1> QED  BY <1>1, <1>2, <1>3, <1>4, <1>5, <1>6, <1>7, <1>8, <1>9 DEF Next, Engine, Others

(* Listed files start with their data; an empty one has none to erase.     *)
LEMMA InitIsEraseInit == Init => Erase!Init
<1> SUFFICES ASSUME Init PROVE Erase!Init
    OBVIOUS
<1>1. ASSUME NEW f \in File PROVE StateOf(f) \in {"data", "erased"}
    <2>1. \A i \in 1..Len(data[f]) : data[f][i] = 0
        BY InitIInv DEF IInv, WaitingInv, Init
    <2>2. f \in present /\ f \notin touched
        BY DEF Init
    <2>3. CASE UserData(f)
        BY <2>2, <2>3 DEF StateOf
    <2>4. CASE ~UserData(f)
        BY <2>1, <2>2, <2>4 DEF StateOf, UserData
    <2> QED  BY <2>3, <2>4
<1>2. States \in [File -> {"data", "erased"}]
    BY <1>1 DEF States
<1>3. listed = {} /\ Reported = {} /\ Verdict = "none"
    BY DEF Init, Reported, Verdict
<1> QED  BY <1>2, <1>3 DEF Erase!Init, States, Reported

(* The calls of WipePath implement the promise of an erasure, for any      *)
(* files, methods and buffers, and under any interference.                 *)
THEOREM FileWipeImplementsSecureErase == Spec => ImplementsSecureErase
<1>1. IInv /\ [Next]_vars => [Erase!Next]_(Erase!vars)
    BY StepsAreEraseSteps DEF Erase!vars, States, Reported
<1> QED  BY FileWipeInvariant, InitIsEraseInit, <1>1, PTL
         DEF Spec, ImplementsSecureErase, Erase!Spec

==============================================================================
