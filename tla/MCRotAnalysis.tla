----------------------------- MODULE MCRotAnalysis -----------------------------
(* Two paths: the log of a file system with access times, and a backup     *)
(* copy with a temporary name on one without.  The scanners are alike.      *)
EXTENDS RotAnalysis, TLC
CONSTANTS log, copy
MCMarks == [p \in Path |-> IF p = log THEN {"log"} ELSE {"temporary", "duplicate"}]
Both == {log, copy}
OnlyCopy == {copy}
Symmetry == Permutations(Scanner)

(* Once the report is made, scanners change nothing that it says: they are *)
(* not followed further.  (Each may have stopped before it, see ScanStops.)*)
ScansMatter == phase = "reported" => \A s \in Scanner : DOMAIN rec[s] = {}
===============================================================================
