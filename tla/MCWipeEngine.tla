---------------------------- MODULE MCWipeEngine ----------------------------
(***************************************************************************)
(* The file wipe on a directory of two files, with every interference and  *)
(* with none.                                                              *)
(***************************************************************************)
EXTENDS WipeEngine

CONSTANTS f1, f2

NoFile     == {}
OneFile    == {f1}
TwoFiles   == {f1, f2}
Everything == {"grow", "remove", "create"}
Nobody     == {}
Either     == BOOLEAN
Verifying  == {TRUE}
=============================================================================
