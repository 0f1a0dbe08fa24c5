------------------------------ MODULE HpaDetect ------------------------------
(***************************************************************************)
(* HiddenStorageDetector (detection.cpp): `securewipe detect-hidden`       *)
(* compares the length of what it opened, a drive or a volume on it, with  *)
(* the drive's native size.  The length comes in bytes and is divided by   *)
(* 512; the native size comes as the last sector's address, from which     *)
(* the code takes three 8-bit registers.  Each query may fail on its own.  *)
(*                                                                         *)
(* Sizes are in units of 512 bytes, except that native counts the drive's  *)
(* own sectors, of Ratio units each.                                       *)
(***************************************************************************)
EXTENDS Integers

CONSTANTS
    Length,     \* what the opened handle covers
    MaxNative,  \* bound: the drive's sectors
    Ratios,     \* sector sizes: 1 for 512 bytes, 8 for 4096
    Registers,  \* the values of three registers: 2^24
    Lba28,      \* the addresses the command can return: 2^28
    Faults      \* the calls that may fail: "open", "length", "native"

VARIABLES
    native, ratio,          \* the drive's sectors, and their size
    whole,                  \* what was opened is the drive, not a volume
    step,                   \* where Detect stands
    os_visible_sectors, native_max_sectors,
    hpa_detected, hpa_hidden_sectors,
    warned,                 \* there are warnings
    recommendation

drive  == <<native, ratio, whole>>
report == <<os_visible_sectors, native_max_sectors, hpa_detected,
            hpa_hidden_sectors, warned, recommendation>>
vars   == <<drive, step, report>>

TypeOK ==
    /\ native \in 1..MaxNative /\ ratio \in Ratios /\ whole \in BOOLEAN
    /\ step \in {"open", "length", "native", "compare", "reported"}
    /\ os_visible_sectors \in {0, Length} /\ native_max_sectors \in 0..native
    /\ hpa_detected \in BOOLEAN /\ warned \in BOOLEAN
    /\ hpa_hidden_sectors \in 0..native
    /\ recommendation \in {"none", "hidden", "sufficient", "rerun"}

(* Any drive that holds what was opened.                                   *)
Init ==
    /\ native \in 1..MaxNative /\ ratio \in Ratios /\ whole \in BOOLEAN
    /\ Length <= native * ratio
    /\ step = "open"
    /\ os_visible_sectors = 0 /\ native_max_sectors = 0
    /\ hpa_detected = FALSE /\ hpa_hidden_sectors = 0
    /\ warned = FALSE /\ recommendation = "none"

OpenDrive ==
    /\ step = "open" /\ step' = "length"
    /\ UNCHANGED <<drive, report>>

(* Access denied, or any other error: a warning, and a report all the same.*)
OpenFails ==
    /\ step = "open" /\ "open" \in Faults
    /\ step' = "reported"
    /\ warned' = TRUE /\ recommendation' = "rerun"
    /\ UNCHANGED <<drive, os_visible_sectors, native_max_sectors, hpa_detected,
                   hpa_hidden_sectors>>

(* The failure leaves no trace in the report. *)
GetLengthUnwarned ==
    /\ step = "length" /\ step' = "native"
    /\ os_visible_sectors' \in {0, Length}
    /\ UNCHANGED <<drive, warned, native_max_sectors, hpa_detected,
                   hpa_hidden_sectors, recommendation>>

(* IOCTL_DISK_GET_LENGTH_INFO; when it fails the length stays 0.           *)
GetLength ==
    /\ step = "length" /\ step' = "native"
    /\ \/ os_visible_sectors' = Length /\ UNCHANGED warned
       \/ "length" \in Faults /\ warned' = TRUE /\ UNCHANGED os_visible_sectors
    /\ UNCHANGED <<drive, native_max_sectors, hpa_detected, hpa_hidden_sectors,
                   recommendation>>

(* The address of the last sector, as the device returns it.               *)
LastAddress == (IF native < Lba28 THEN native ELSE Lba28) - 1

(* The address itself is taken for the number of sectors. *)
NativeAnswerOffByOne == LastAddress % Registers

(* Bits 24 to 27 are in the device register, which is not read; an address *)
(* of 0 is taken for no answer.                                            *)
NativeAnswer ==
    LET lba == LastAddress % Registers
    IN  IF lba = 0 THEN 0 ELSE lba + 1

(* The pass-through may fail, or leave the registers that are read at 0:   *)
(* 0, and nothing is said in the report.                                   *)
AtaReadNativeMax ==
    /\ step = "native" /\ step' = "compare"
    /\ \/ native_max_sectors' = NativeAnswer
       \/ "native" \in Faults /\ native_max_sectors' = 0
    /\ UNCHANGED <<drive, os_visible_sectors, hpa_detected, hpa_hidden_sectors,
                   warned, recommendation>>

(* That there is no warning is asked first. *)
CompareWarningsFirst ==
    /\ step = "compare" /\ step' = "reported"
    /\ hpa_detected' = (native_max_sectors > os_visible_sectors)
    /\ hpa_hidden_sectors' = IF hpa_detected' THEN native_max_sectors - os_visible_sectors ELSE 0
    /\ recommendation' =
          IF ~warned THEN "sufficient"
          ELSE IF hpa_detected' THEN "hidden" ELSE "rerun"
    /\ UNCHANGED <<drive, os_visible_sectors, native_max_sectors, warned>>

(* Two sizes are compared, either of which may be 0 for not known.         *)
Compare ==
    /\ step = "compare" /\ step' = "reported"
    /\ \/ /\ native_max_sectors > os_visible_sectors
          /\ hpa_detected' = TRUE
          /\ hpa_hidden_sectors' = native_max_sectors - os_visible_sectors
          /\ recommendation' = "hidden"
       \/ /\ native_max_sectors <= os_visible_sectors
          /\ recommendation' = IF warned THEN "rerun" ELSE "sufficient"
          /\ UNCHANGED <<hpa_detected, hpa_hidden_sectors>>
    /\ UNCHANGED <<drive, os_visible_sectors, native_max_sectors, warned>>

Detect == OpenDrive \/ OpenFails \/ GetLength \/ AtaReadNativeMax \/ Compare

Spec == Init /\ [][Detect]_vars

(***************************************************************************)
(* Properties                                                              *)
(***************************************************************************)

(* What lies on the drive behind what the system shows of it.              *)
Hidden == native * ratio - Length

(* An alarm about a drive, raised without a warning, is true and does not  *)
(* name more sectors than are hidden, however the native size was cut      *)
(* short or the sectors were mistaken for smaller ones (Compare).          *)
AlarmMeansHidden ==
    hpa_detected /\ ~warned /\ whole => hpa_hidden_sectors <= Hidden

(* A drive of 512-byte sectors that three registers can number is reported *)
(* to the sector, if it answered both queries.                             *)
SmallDriveExact ==
    (/\ step = "reported" /\ ~warned /\ whole
     /\ native_max_sectors > 0 /\ native <= Registers /\ ratio = 1)
        => hpa_hidden_sectors = Hidden /\ (hpa_detected <=> Hidden > 0)

==============================================================================
