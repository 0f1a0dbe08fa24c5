----------------------------- MODULE WipeMethods -----------------------------
(***************************************************************************)
(* The wipe methods of wipe_engine.h and the pass schedules that           *)
(* BuildPasses (wipe_engine.cpp) returns for them.  The file wipe and the  *)
(* volume wipe both run these schedules, and a certificate names the       *)
(* method in the spelling of WipeMethodName.                               *)
(***************************************************************************)
EXTENDS Integers, Sequences

(* enum class WipeMethod *)
WipeMethod ==
    {"NistClear", "NistPurge", "Dod3Pass", "SinglePassRandom", "Gutmann35Pass"}

(* PassPattern: the byte a pass writes, or "random" for a generated buffer. *)
Random == "random"
Zeros  == 0
Ones   == 255

(* The constant bytes of passes 5 to 34 of the Gutmann schedule. *)
GutmannFixed ==
    <<85, 170, 146, 73, 36, 0, 17, 34, 51, 68, 85, 102, 119, 136, 153,
      170, 187, 204, 221, 238, 255, 146, 73, 36, 109, 182, 219, 73, 146, 36>>

Gutmann ==
    <<Random, Random, Random, Random>> \o GutmannFixed \o <<Random>>

(* One constant byte short: the schedule with a dropped table entry. *)
BuildPassesShort(method) ==
    CASE method = "NistClear"        -> <<Zeros>>
      [] method = "SinglePassRandom" -> <<Random>>
      [] method = "Gutmann35Pass"    -> Tail(Gutmann)
      [] OTHER                       -> <<Zeros, Ones, Random>>

BuildPasses(method) ==
    CASE method = "NistClear"                   -> <<Zeros>>
      [] method \in {"NistPurge", "Dod3Pass"}   -> <<Zeros, Ones, Random>>
      [] method = "SinglePassRandom"            -> <<Random>>
      [] method = "Gutmann35Pass"               -> Gutmann

(* The passes that the README's table of wipe methods promises.            *)
Promised(m) ==
    CASE m = "NistClear"               -> 1
      [] m \in {"NistPurge", "Dod3Pass"} -> 3
      [] m = "SinglePassRandom"        -> 1
      [] m = "Gutmann35Pass"           -> 35

==============================================================================
