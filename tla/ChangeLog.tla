------------------------------ MODULE ChangeLog ------------------------------
(***************************************************************************)
(* What the change monitor promises, without journal identifiers, buffers  *)
(* and signals: a log to which the changes of the volume are appended one  *)
(* by one, in order and, while a session lasts, without a gap.  A session  *)
(* may end at any moment; the next one begins with what happens after it   *)
(* was started.                                                            *)
(***************************************************************************)
EXTENDS Integers, Sequences

VARIABLES
    made,       \* how many changes there were: they are numbered 0..made-1
    mark,       \* the first change the session has not logged
    log,        \* the changes logged so far
    running     \* a session is on

vars == <<made, mark, log, running>>

Init == made \in Nat /\ mark = made /\ log = <<>> /\ running = TRUE

Change ==
    /\ made' = made + 1
    /\ UNCHANGED <<mark, log, running>>

LogNext ==
    /\ running /\ mark < made
    /\ log' = Append(log, mark) /\ mark' = mark + 1
    /\ UNCHANGED <<made, running>>

(* What the session had begun to handle is forgotten. *)
End ==
    /\ running /\ running' = FALSE
    /\ mark' \in mark..made
    /\ UNCHANGED <<made, log>>

Start ==
    /\ ~running /\ running' = TRUE
    /\ mark' = made
    /\ UNCHANGED <<made, log>>

Next == Change \/ LogNext \/ End \/ Start

Spec == Init /\ [][Next]_vars

==============================================================================
