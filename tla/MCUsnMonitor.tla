---------------------------- MODULE MCUsnMonitor ----------------------------
(***************************************************************************)
(* Short journals, with everything that makes the read, the insert or the  *)
(* process fail, or with a journal that is only trimmed.                   *)
(***************************************************************************)
EXTENDS UsnMonitor

AllEvents == {"trim", "recreate", "locked", "kill"}
OnlyTrim  == {"trim"}
=============================================================================
