---------------------------- MODULE MCVolumeWipe ----------------------------
(***************************************************************************)
(* A volume with a partial sector at its end.                              *)
(***************************************************************************)
EXTENDS VolumeWipe

NoFaults  == {}
=============================================================================
