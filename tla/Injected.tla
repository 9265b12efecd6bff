------------------------------- MODULE Injected -------------------------------
(***************************************************************************)
(* One registration on its way into the generated module: expand_inner       *)
(* selects its storage policy (generate.rs), the flags and the constructor   *)
(* become items of `mod __systasis_injected`, rebase::generated_module walks  *)
(* those items, and rustc compiles what came out.                            *)
(*                                                                          *)
(* A registration has a type, the bounds of the function, whether a user      *)
(* trait shadows the prelude's Copy, whether it is fresh, and the source of    *)
(* its constructor: a sequence of paths and of the Begin and End of modules.  *)
(* The specification is called InjectedSpec, so that one module can extend    *)
(* this one and Registry, the other step of the expansion.                   *)
(***************************************************************************)
EXTENDS Policy

CONSTANT Registrations    \* a sequence of sets of registrations

VARIABLES registration,   \* the one being expanded
          phase,          \* declared, moving, accepted or rejected
          policy,         \* Policy<copy, clone> of a generic type, or "flags"
          items,          \* what generated_module still has to visit
          todo,           \* the rest of the item it is visiting
          nested_modules, \* Rebase's counter
          depth,          \* modules really around the next path
          emitted         \* what came out, and where it stood

injected_vars == <<registration, phase, policy, items, todo, nested_modules, depth, emitted>>

Begin == [module |-> "begin"]
End == [module |-> "end"]

PathOf(segments) ==
    [colon |-> FALSE, segments |-> segments, position |-> 0, form |-> "path"]
Super == [PathOf(<<"super">>) EXCEPT !.form = "restricted"]
ParentImport == PathOf(<<"super", "*">>)

InjectedInit ==
    /\ \E i \in DOMAIN Registrations : registration \in Registrations[i]
    /\ phase = "declared" /\ policy = "flags"
    /\ items = <<>> /\ todo = <<>> /\ emitted = <<>>
    /\ nested_modules = 0 /\ depth = 0

generic == depends_on_generics(registration.ty)

-------------------------------------------------------------------------------
(* expand_inner                                                              *)

\* Exactly a child's type: projected_policy inherits the child's choice.
Inherited(ty) == ty.around = <<>> /\ ty.leaf[1] = "projected"

Explicit(r) ==
    LET copy == has_explicit_copy_bound(r.ty, r.bounds)
        clone == has_explicit_clone_bound(r.ty, r.bounds)
    IN  IF ~copy /\ ~clone /\ Inherited(r.ty)
        THEN [copy |-> "Copy" \in r.ty.leaf[2], clone |-> "Clone" \in r.ty.leaf[2]]
        ELSE [copy |-> copy, clone |-> clone]

\* The generated items: the parent import, two constants that ask rustc about a
\* type without generics, and the constructor's function.
SelectPolicy ==
    /\ phase = "declared"
    /\ phase' = "moving"
    /\ policy' = IF generic THEN Explicit(registration) ELSE "flags"
    /\ items' = <<[visibility |-> ParentImport, body |-> <<>>]>>
                \o (IF generic THEN <<>>
                    ELSE <<[visibility |-> Super, body |-> <<registration.ty.leaf[2]>>]>>)
                \o <<[visibility |-> Super, body |-> registration.source]>>
    /\ UNCHANGED <<registration, todo, nested_modules, depth, emitted>>

-------------------------------------------------------------------------------
(* rebase::generated_module                                                  *)

Emit(generated, source, moved) ==
    emitted' = Append(emitted, [generated |-> generated, depth |-> depth,
                                source |-> source, moved |-> moved])

\* `use super::*` is left as it is.
SkipImport ==
    /\ phase = "moving" /\ todo = <<>> /\ items # <<>>
    /\ Head(items).visibility = ParentImport
    /\ items' = Tail(items)
    /\ Emit(TRUE, ParentImport, ParentImport)
    /\ UNCHANGED <<registration, phase, policy, todo, nested_modules, depth>>

\* Rebase::default().visit_item_mut(item): the visit reaches the item's own
\* visibility too, which is put back afterwards.
VisitItem ==
    /\ phase = "moving" /\ todo = <<>> /\ items # <<>>
    /\ Head(items).visibility # ParentImport
    /\ items' = Tail(items) /\ todo' = Head(items).body
    /\ nested_modules' = 0
    /\ Emit(TRUE, Head(items).visibility, Head(items).visibility)
    /\ UNCHANGED <<registration, phase, policy, depth>>

VisitPath ==
    /\ todo # <<>> /\ Head(todo) \notin {Begin, End}
    /\ todo' = Tail(todo)
    /\ Emit(FALSE, Head(todo), Rebased(nested_modules, Head(todo)))
    /\ UNCHANGED <<registration, phase, policy, items, nested_modules, depth>>

EnterModule ==
    /\ todo # <<>> /\ Head(todo) = Begin
    /\ todo' = Tail(todo)
    /\ nested_modules' = nested_modules + 1
    /\ depth' = depth + 1
    /\ UNCHANGED <<registration, phase, policy, items, emitted>>

LeaveModule ==
    /\ todo # <<>> /\ Head(todo) = End
    /\ todo' = Tail(todo)
    /\ nested_modules' = nested_modules - 1
    /\ depth' = depth - 1
    /\ UNCHANGED <<registration, phase, policy, items, emitted>>

-------------------------------------------------------------------------------
(* rustc                                                                     *)

Known(r, trait) == Proves(Home, r.ty, trait, r.bounds, r.shadowed)

\* Pick::<type>::IS_COPY and IS_CLONE, in the generated module.
Flag(trait) ==
    Proves(Generated, [registration.ty EXCEPT !.leaf = <<"named", emitted[3].moved>>], trait,
           {}, registration.shadowed)

AcceptsWithoutCheck(r) ==
    /\ Explicit(r).copy => Known(r, "Copy")
    /\ Explicit(r).clone => Known(r, "Clone")

\* Select<T> needs the trait that the policy claims; the verify_generic_ calls
\* refuse a fallback from a trait that is known after all.
Accepts(r) ==
    r.fresh \/
        /\ Explicit(r).copy => Known(r, "Copy")
        /\ Explicit(r).clone => Known(r, "Clone")
        /\ Inherited(r.ty) \/ (Known(r, "Copy") => Explicit(r).copy)
        /\ Inherited(r.ty) \/ (Known(r, "Clone") => Explicit(r).clone)

\* After the walk, which the declaration form (build_errors) does without.
Compile ==
    /\ phase = "moving" /\ todo = <<>> /\ items = <<>>
    /\ IF generic
       THEN phase' = (IF Accepts(registration) THEN "accepted" ELSE "rejected") /\ UNCHANGED policy
       ELSE phase' = "accepted" /\ policy' = [copy |-> Flag("Copy"), clone |-> Flag("Clone")]
    /\ UNCHANGED <<registration, items, todo, nested_modules, depth, emitted>>

Done == phase \in {"accepted", "rejected"} /\ UNCHANGED injected_vars

InjectedNext ==
    \/ SelectPolicy
    \/ SkipImport \/ VisitItem \/ VisitPath \/ EnterModule \/ LeaveModule
    \/ Compile \/ Done

InjectedSpec == InjectedInit /\ [][InjectedNext]_injected_vars

-------------------------------------------------------------------------------
(* The registrations the move is meant for.                                  *)

\* The depth at each place of a source, down to its end: its modules are closed,
\* and its paths can stand where they are.
Levels(source, levels) ==
    /\ levels \in [1 .. Len(source) + 1 -> Nat] /\ levels[Len(source) + 1] = 0
    /\ \A i \in 1 .. Len(source) :
          \/ source[i] = Begin /\ levels[i + 1] = levels[i] + 1
          \/ source[i] = End /\ levels[i] = levels[i + 1] + 1
          \/ source[i] \in Path /\ Movable(levels[i], source[i]) /\ levels[i + 1] = levels[i]

Balanced(source) == \E levels : Levels(source, levels) /\ levels[1] = 0

\* A registration as expand_inner finds it.  Bounds are on types of parameters.
Registration ==
    [ty : Type, shadowed : BOOLEAN, fresh : BOOLEAN, source : Seq(Path \cup {Begin, End}),
     bounds : SUBSET [ty : {ty \in Type : ty.leaf = <<"param">>}, trait : STRING]]

\* The paths of a registration, its type's included, can be moved.
WellFormed(r) ==
    /\ r \in Registration
    /\ r.ty.leaf[1] = "named" => Movable(0, r.ty.leaf[2])
    /\ Balanced(r.source)

-------------------------------------------------------------------------------
(* Properties.                                                               *)

\* "Source-relative paths are preserved when hoisted": whatever modules the moved
\* source declares, each of its paths means what it meant where it was written,
\* and the generated visibilities and import stay as generated.
PathsPreserved ==
    \A i \in DOMAIN emitted :
        LET e == emitted[i]
        IN  IF e.generated THEN e.moved = e.source
            ELSE KeepsMeaning(e.depth, e.source, e.moved)

\* Storage is never guessed: an accepted registration is copied, cloned or
\* consumed exactly as rustc knows its type where it was declared, however a
\* bound was spelt, renamed, shadowed or implied, and wherever the type's path
\* was moved.
PolicyExact ==
    phase = "accepted" /\ ~registration.fresh =>
        policy = [copy |-> Known(registration, "Copy"), clone |-> Known(registration, "Clone")]

\* The advice of the rejections helps: a registration refused because a trait is
\* known indirectly is accepted once the registered type is bounded explicitly.
AdviceHelps ==
    phase = "rejected" =>
        LET trait == IF Known(registration, "Copy") THEN "::core::marker::Copy"
                     ELSE "::core::clone::Clone"
            bound == [ty |-> registration.ty, trait |-> trait]
        IN  \/ \E t \in {"Copy", "Clone"} : ~Known(registration, t) /\
                  Explicit(registration)[IF t = "Copy" THEN "copy" ELSE "clone"]
            \/ Accepts([registration EXCEPT !.bounds = @ \cup {bound}])
===============================================================================
