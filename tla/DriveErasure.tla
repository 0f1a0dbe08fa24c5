----------------------------- MODULE DriveErasure -----------------------------
(***************************************************************************)
(* `detect-hidden` and then `wipe-volume` on one and the same drive: what  *)
(* HpaDetect says about the drive against what VolumeWipe reaches of it.   *)
(* Both ask the handle for its length, which ends where the hidden part    *)
(* of the drive begins.                                                    *)
(***************************************************************************)
EXTENDS VolumeWipe

CONSTANTS MaxNative, Ratios, Registers, Lba28, DetectFaults

ASSUME DriveOK ==
    /\ MaxNative \in Nat /\ Ratios \subseteq Nat \ {0}
    /\ Registers \in Nat \ {0} /\ Lba28 \in Nat \ {0} /\ Registers <= Lba28

VARIABLES
    native, ratio, whole, step, os_visible_sectors, native_max_sectors,
    hpa_detected, hpa_hidden_sectors, warned, recommendation

D == INSTANCE HpaDetect WITH Length <- Capacity, Faults <- DetectFaults

detectVars ==
    <<native, ratio, whole, step, os_visible_sectors, native_max_sectors,
      hpa_detected, hpa_hidden_sectors, warned, recommendation>>
allVars == <<vars, detectVars>>

DriveTypeOK == TypeOK /\ D!TypeOK

DriveInit == Init /\ D!Init

(* The detector only reads; the wipe is started when it has reported.      *)
DetectHidden == D!Detect /\ UNCHANGED vars
WipeStep     == step = "reported" /\ Engine /\ UNCHANGED detectVars
Meanwhile    == step = "reported" /\ (\E i \in Cells : ForeignWrite(i)) /\ UNCHANGED detectVars

DriveNext == DetectHidden \/ WipeStep \/ Meanwhile

DriveSpec ==
    /\ DriveInit /\ [][DriveNext]_allVars
    /\ WF_allVars(DetectHidden) /\ WF_allVars(WipeStep)

(***************************************************************************)
(* Properties                                                              *)
(***************************************************************************)

(* No part of the drive has escaped the last pass, but what others wrote   *)
(* behind it.                                                              *)
Erased ==
    /\ D!Hidden = 0
    /\ \A i \in Cells \ dirtied : cell[i] = Promised(method)

AlarmMeansHidden == D!AlarmMeansHidden
SmallDriveExact  == D!SmallDriveExact

(* On a drive that three registers can number and that answered, the two   *)
(* commands together leave nothing behind unsaid: after a wipe that        *)
(* returned, the whole drive is erased or the detector has said what is    *)
(* hidden (Detect's comparison, WipeVolume's loop).                        *)
ErasedOrTold ==
    (/\ phase = "done" /\ whole /\ ~warned
     /\ native_max_sectors > 0 /\ native <= Registers /\ ratio = 1)
        => Erased \/ recommendation = "hidden"

(* detection.cpp:153, "No hidden storage regions detected. Standard wipe   *)
(* procedures are sufficient.": when the detector has said so of a drive,  *)
(* a wipe that returned has erased the drive.                              *)
SufficientMeansErased ==
    phase = "done" /\ whole /\ recommendation = "sufficient" => Erased

===============================================================================
