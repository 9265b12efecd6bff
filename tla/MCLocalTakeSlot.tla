---------------------------- MODULE MCLocalTakeSlot ----------------------------
(* Model-checking instance of LocalTakeSlot.                                 *)
EXTENDS LocalTakeSlot
===============================================================================
