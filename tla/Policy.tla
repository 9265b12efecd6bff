-------------------------------- MODULE Policy --------------------------------
(***************************************************************************)
(* Which storage a registered type gets: the search for explicit bounds      *)
(* (systasis-macros/src/generic_policy.rs) for a type that mentions the      *)
(* function's generics, rustc's own answer (src/storage/policy.rs) for any   *)
(* other, and the checks that refuse a wrong guess.                          *)
(*                                                                          *)
(* A type has a leaf, <<"param">> (the type parameter T), <<"named", path>>   *)
(* or a child's registered type <<"projected", its policy>>, and around it,   *)
(* from the outside in, "wrap" (W<_>, derives Copy and Clone), "self_wrap"    *)
(* (the same type spelt self::W<_>), "box" (Box<_>), "ref", "mut", "paren" or *)
(* "tuple" ((_,)).  A bound is a type and the spelling of a trait.            *)
(***************************************************************************)
EXTENDS Rebase

Type == [around : Seq(STRING),
         leaf : {<<"param">>} \cup ({"named"} \X Path)
                \cup ({"projected"} \X SUBSET {"Copy", "Clone"})]

\* The registered type mentions the function's generics; a child's type is that
\* of a container with this function's arguments.
depends_on_generics(ty) == ty.leaf[1] \in {"param", "projected"}

\* The operand of the outermost n constructors.
Operand(ty, n) == [ty EXCEPT !.around = SubSeq(@, n + 1, Len(@))]

\* Only outer parentheses removed.
UngroupedOutside(ty) == Operand(ty, Leading(ty.around, "paren"))

\* Parentheses do not change a type's identity; its structure does.
Ungrouped(around) == LET Kept(op) == op # "paren" IN SelectSeq(around, Kept)
ungrouped_type_spelling(ty) == [ty EXCEPT !.around = Ungrouped(@)]

CopySpelling == {"Copy", "::core::marker::Copy"}
CloneSpelling == {"Clone", "::core::clone::Clone"}

BoundedOutside(ty, bounds, spellings) ==
    \E b \in bounds : b.trait \in spellings /\ b.ty = UngroupedOutside(ty)

\* A bound on the whole registered type, not on an argument of it.
Bounded(ty, bounds, spellings) ==
    \E b \in bounds :
        /\ b.trait \in spellings
        /\ ungrouped_type_spelling(b.ty) = ungrouped_type_spelling(ty)

\* A shared reference is Copy; grouping is ignored, here and in bounds.
has_explicit_copy_bound(ty, bounds) ==
    LET around == UngroupedOutside(ty).around
    IN  \/ around # <<>> /\ around[1] = "ref"
        \/ Bounded(ty, bounds, CopySpelling)

has_explicit_clone_bound(ty, bounds) ==
    has_explicit_copy_bound(ty, bounds) \/ Bounded(ty, bounds, CloneSpelling)

-------------------------------------------------------------------------------
(* rustc                                                                     *)

\* What a bound's spelling says of its type.  A user trait may shadow the
\* prelude's Copy; Dup renames it; CopySub and CloneSub have it as supertrait.
Implies(trait, shadowed) ==
    IF trait = "other::Copy" \/ (trait = "Copy" /\ shadowed) THEN {}
    ELSE IF trait \in {"Copy", "::core::marker::Copy", "Dup", "CopySub"} THEN {"Copy", "Clone"}
    ELSE {"Clone"}

\* Two types named V, of different modules, and a third at the crate root.
Declares(item) ==
    IF item = Append(Home, "V") THEN {"Copy", "Clone"}
    ELSE IF item = <<"crate", "V">> THEN {"Clone"}
    ELSE {}

\* The type itself, whichever way it is spelt.
Identity(ty) ==
    [ungrouped_type_spelling(ty) EXCEPT
        !.around = [i \in DOMAIN @ |-> IF @[i] = "self_wrap" THEN "wrap" ELSE @[i]]]

\* Constructors that have a trait when their operand has it.
Passing(trait) ==
    {"wrap", "self_wrap", "paren", "tuple"} \cup IF trait = "Clone" THEN {"box"} ELSE {}

\* A trait that rustc establishes in a module, from the bounds or from impls:
\* of the type or, passed on, of an operand in it.
Proves(module, ty, trait, bounds, shadowed) ==
    \E n \in 0 .. Len(ty.around) :
        /\ \A i \in 1 .. n : ty.around[i] \in Passing(trait)
        /\ \/ \E b \in bounds :
                 /\ trait \in Implies(b.trait, shadowed)
                 /\ Identity(b.ty) = Identity(Operand(ty, n))
           \/ n < Len(ty.around) /\ ty.around[n + 1] = "ref"
           \/ /\ n = Len(ty.around)
              /\ \/ ty.leaf[1] = "named" /\ trait \in Declares(Meaning(module, ty.leaf[2])[1])
                 \/ ty.leaf[1] = "projected" /\ trait \in ty.leaf[2]
===============================================================================
