----------------------------- MODULE SecureErase -----------------------------
(***************************************************************************)
(* What a file wipe promises, without its calls, offsets and passes.  A    *)
(* file moves in one direction, from data that can be read to a file that  *)
(* is gone; and a run that ends without a report has moved every listed    *)
(* file to the end of that way.  Other processes may do as they like with  *)
(* a file, which is then foreign, or lost when they unlink its data.       *)
(***************************************************************************)
EXTENDS FiniteSets

CONSTANT File

VARIABLES
    state,      \* how far each file has come
    listed,     \* the files to erase
    reported,   \* those with an error
    verdict     \* how the run ended

vars == <<state, listed, reported, verdict>>

States == {"data", "scrubbed", "erased", "gone", "lost", "foreign"}

(* Where a file may be after one step: a scrubbed file has no unit left    *)
(* that was not overwritten, an erased one has the last pass all over.     *)
Onward ==
    [s \in States |->
        CASE s = "data"     -> {"data", "scrubbed", "erased", "lost", "foreign"}
          [] s = "scrubbed" -> {"scrubbed", "erased", "gone", "foreign"}
          [] s = "erased"   -> {"erased", "gone", "foreign"}
          [] s = "gone"     -> {"gone", "foreign"}
          [] s = "lost"     -> {"lost", "foreign"}
          [] s = "foreign"  -> {"foreign"}]

Init ==
    /\ state \in [File -> {"data", "erased"}]
    /\ listed = {} /\ reported = {} /\ verdict = "none"

List ==
    /\ listed = {} /\ listed' \subseteq File
    /\ UNCHANGED <<state, reported, verdict>>

Move(f) ==
    /\ \E s \in Onward[state[f]] : state' = [state EXCEPT ![f] = s]
    /\ UNCHANGED <<listed, reported, verdict>>

Report(f) ==
    /\ f \in listed /\ reported' = reported \cup {f}
    /\ UNCHANGED <<state, listed, verdict>>

EndClean ==
    /\ reported = {} /\ \A f \in listed : state[f] \in {"gone", "foreign"}
    /\ verdict' = "clean"
    /\ UNCHANGED <<state, listed, reported>>

EndUnclean ==
    /\ verdict' \in {"errors", "exception"}
    /\ UNCHANGED <<state, listed, reported>>

Next ==
    /\ verdict = "none"
    /\ List \/ (\E f \in File : Move(f) \/ Report(f)) \/ EndClean \/ EndUnclean

Spec == Init /\ [][Next]_vars

==============================================================================
