------------------------------ MODULE MCSchedule ------------------------------
(* Model-checking instance of Schedule: every dependency graph on N nodes.   *)
EXTENDS Schedule
===============================================================================
