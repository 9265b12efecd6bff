----------------------------- MODULE MCTypeLookup ------------------------------
(* Model-checking instance of TypeLookup: three registrations, whose types    *)
(* contain up to two lookups.                                                 *)
EXTENDS TypeLookup

S(i) == [node |-> i, dyn |-> FALSE]
D(i) == [node |-> i, dyn |-> TRUE]

Contents == {<<>>, <<S(0)>>, <<S(1)>>, <<S(0), S(2)>>, <<S(1), S(2)>>, <<S(2), S(2)>>,
             <<D(1), S(2)>>, <<S(Missing), S(0)>>}
Extras == {<<>>, <<S(1)>>, <<D(2), S(0)>>}
QuerySets == {{}, {0, 2}, {1, Missing}}
===============================================================================
