------------------------------- MODULE MCBuild --------------------------------
(* Model-checking instance of Build: every registration graph on N nodes,    *)
(* every storage kind, every dependency-first order.                         *)
EXTENDS Build
===============================================================================
