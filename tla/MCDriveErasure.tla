--------------------------- MODULE MCDriveErasure ---------------------------
(***************************************************************************)
(* A drive with whole sectors, two of them or three of which are visible,  *)
(* and native sizes from below to above what three registers can number.   *)
(***************************************************************************)
EXTENDS DriveErasure

AllFaults    == {"open", "seek", "write"}
DetectFailures == {"open", "length", "native"}
NoFaults     == {}
SectorSizes  == {1, 2}
Only512      == {1}
=============================================================================
