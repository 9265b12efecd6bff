------------------------------- MODULE MCResolve -------------------------------
(* Model-checking instances of Resolve.                                      *)
EXTENDS Resolve
===============================================================================
