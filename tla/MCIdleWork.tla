------------------------------ MODULE MCIdleWork ------------------------------
(* A tick count that wraps after a few polls; a size of three units fills  *)
(* the low word, or would if it were stored uncompressed.                  *)
EXTENDS IdleWork
NineTenths == <<9, 10>>
===============================================================================
