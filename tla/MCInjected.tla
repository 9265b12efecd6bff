------------------------------ MODULE MCInjected ------------------------------
(* Registrations of small types under up to two bounds, and constructors that *)
(* declare modules two deep.                                                  *)
EXTENDS Injected

HomeModule == <<"crate", "outer", "home">>

Ups(n) == [i \in 1 .. n |-> "super"]

Ops == {"wrap", "self_wrap", "box", "ref", "mut", "paren", "tuple"}
Twice(leaves) == [around : UNION {[1 .. n -> Ops] : n \in 0 .. 2}, leaf : leaves]

Params == {<<"param">>}
Projections == {<<"projected", {}>>, <<"projected", {"Clone"}>>,
                <<"projected", {"Copy", "Clone"}>>}
\* V, self::V, super::V, super::super::V, self::super::V, crate::V and ::V.
Named ==
    {<<"named", PathOf(p \o <<"V">>)>> :
        p \in {<<>>, <<"self">>, Ups(1), Ups(2), <<"self", "super">>, <<"crate">>}}
    \cup {<<"named", [PathOf(<<"V">>) EXCEPT !.colon = TRUE]>>}

Spellings == {"Copy", "::core::marker::Copy", "other::Copy", "Dup", "CopySub",
              "Clone", "::core::clone::Clone", "CloneSub"}
Bounded1 == [around : {<<>>, <<"wrap">>, <<"paren", "wrap", "paren">>, <<"tuple">>}, leaf : Params]
Bounds == [ty : Bounded1, trait : Spellings]
UpToTwo == {{b, c} : b, c \in Bounds} \cup {{}}

\* Paths that can stand at a depth of the source.
Paths(level) ==
    {PathOf(p \o <<"X">>) :
        p \in {<<>>, <<"self">>, <<"crate">>} \cup {Ups(n) : n \in 1 .. level + 2}}
    \cup {[PathOf(<<"X">>) EXCEPT !.colon = TRUE]}
    \cup (IF level = 0 THEN {PathOf(<<"n", "X">>), PathOf(<<"self", "super", "X">>)} ELSE {})
    \cup {[PathOf(<<"self", "Tr", "Item">>) EXCEPT !.position = 2]}
    \cup {[PathOf(<<"super", "X">>) EXCEPT !.form = "in"]}

Sources ==
    {<<p>> : p \in Paths(0)}
    \cup {<<Begin, p, Begin, q, End, r, End, s>> :
              p \in Paths(1), q \in Paths(2), r \in Paths(1), s \in Paths(0)}

Of(types, bounds, sources) ==
    [ty : types, bounds : bounds, shadowed : BOOLEAN, fresh : BOOLEAN, source : sources]

Moving(sources) ==
    [ty : [around : {<<>>}, leaf : Params], bounds : {{}}, shadowed : {FALSE}, fresh : {FALSE},
     source : sources]

MCRegistrations ==
    <<Of(Twice(Params), UpToTwo, {<<>>}),
      Of(Twice(Projections \cup Named), {{}}, {<<>>}),
      Moving(Sources)>>

\* These registrations are the ones that the move is meant for.
ASSUME RegistrationsTyped ==
    \A i \in DOMAIN MCRegistrations : \A r \in MCRegistrations[i] :
        r \in Registration /\ (r.ty.leaf[1] = "named" => Movable(0, r.ty.leaf[2]))
ASSUME SourcesBalanced ==
    /\ Levels(<<>>, <<0>>)
    /\ \A s \in Sources :
          Levels(s, IF Len(s) = 1 THEN <<0, 0>> ELSE <<0, 1, 1, 2, 2, 1, 1, 0, 0>>)

\* Restrictions and qualified paths that begin with super.
Shifted ==
    {<<Super>>, <<[PathOf(<<"super", "Tr", "Item">>) EXCEPT !.position = 2]>>}

\* mod n { ... self::super::super::X ... }
Climbing == {<<Begin, PathOf(<<"self", "super", "super", "X">>), End>>}

ShiftedRegistrations == <<Moving(Shifted \cup Climbing)>>
ClimbingRegistrations == <<Moving(Climbing)>>
===============================================================================
