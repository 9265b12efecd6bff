-------------------------------- MODULE MCScope --------------------------------
(* Model-checking instance of Scope, with names that extend one another.     *)
EXTENDS Scope

CONSTANTS MaxSpace, MaxGroup    \* bounds on the bytes of a namespace and a group

DefaultText == <<1, 0>>
Children == {<<1>>, <<1, 1>>}
Spaces == {<<1, 0>>, <<0>>}
Groups == {<<1, 0, 1>>, <<1, 0, 1, 0>>}

Text(length) == UNION {[1 .. n -> Byte] : n \in 0 .. length}

\* Two registrations have equal restriction keys exactly when they have the same
\* namespace and group: no prefix, extension by NUL bytes, padding, or shift of
\* bytes between namespace and group makes different ones collide.  Keys do not
\* depend on the state: the first one is enough to compare every pair of short
\* names.
RestrictionExact ==
    at = <<>> /\ named = 0 =>
        \A s, r \in Text(MaxSpace), g, h \in Text(MaxGroup) :
            (Equal(Restriction(s, g), Restriction(r, h)) = "Yes") <=> (s = r /\ g = h)
===============================================================================
