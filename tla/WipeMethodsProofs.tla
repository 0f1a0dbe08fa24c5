-------------------------- MODULE WipeMethodsProofs --------------------------
(***************************************************************************)
(* The lengths of the pass schedules.                                      *)
(***************************************************************************)
EXTENDS WipeMethods, TLAPS

(* The schedules have the lengths that the README promises. *)
THEOREM ScheduleLength ==
    ASSUME NEW m \in WipeMethod
    PROVE  Len(BuildPasses(m)) = Promised(m) /\ Promised(m) \in Nat \ {0}
<1>1. Len(GutmannFixed) = 30
    BY DEF GutmannFixed
<1>2. Len(Gutmann) = 35
    BY <1>1 DEF Gutmann, GutmannFixed
<1>3. CASE m \in {"NistClear", "SinglePassRandom"}
    BY <1>3 DEF BuildPasses, Promised
<1>4. CASE m \in {"NistPurge", "Dod3Pass"}
    BY <1>4 DEF BuildPasses, Promised
<1>5. CASE m = "Gutmann35Pass"
    BY <1>2, <1>5 DEF BuildPasses, Promised
<1> QED  BY <1>3, <1>4, <1>5 DEF WipeMethod

=============================================================================
