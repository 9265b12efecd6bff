------------------------------ MODULE MCTakeSlot ------------------------------
(* Model-checking instance of TakeSlot.                                      *)
EXTENDS TakeSlot
===============================================================================
