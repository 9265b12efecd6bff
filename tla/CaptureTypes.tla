----------------------------- MODULE CaptureTypes -----------------------------
(***************************************************************************)
(* The types captures.rs gives to the bindings of an annotated pattern, and *)
(* what Rust gives them.  A macro sees a type as written: an alias is only a *)
(* path, so a binding below one gets a projection, <Alias as Trait>::Output, *)
(* which rustc evaluates later by the helper traits the macro emits.        *)
(* Parenthesised types and patterns are transparent and left out.           *)
(***************************************************************************)
EXTENDS Integers, Sequences

-------------------------------------------------------------------------------
(* syn::Type and syn::Pat, as far as the analysis tells them apart.          *)

Atom == [k |-> "atom"]
RefTo(mutable, t) == [k |-> "ref", mutable |-> mutable, of |-> t]
Tuple(ts) == [k |-> "tuple", elems |-> ts]
\* The length is a literal, a concrete const path, or a generic parameter.
Array(t, form, n) == [k |-> "array", elem |-> t, form |-> form, len |-> n]
Slice(t) == [k |-> "slice", elem |-> t]
\* A path naming another type; generic when it has arguments or names a parameter.
Alias(t, generic) == [k |-> "alias", of |-> t, generic |-> generic]
Project(trait, arg, t) == [k |-> "projection", trait |-> trait, arg |-> arg, of |-> t]
NoType == [k |-> "none"]

IsPath(t) == t.k \in {"atom", "alias", "projection"}

\* modifier is "", "mut", "ref" or "ref mut"; rest marks `name @ ..`
Ident(name, modifier, rest) ==
    [k |-> "ident", name |-> name, modifier |-> modifier, rest |-> rest]
Wild == [k |-> "wild"]
Rest == [k |-> "rest"]
TuplePat(ps) == [k |-> "tuple", elems |-> ps]
SlicePat(ps) == [k |-> "slice", elems |-> ps]
RefPat(p) == [k |-> "reference", pat |-> p]
\* Struct, tuple-struct and or-patterns, name @ subpattern.
OtherPat(names) == [k |-> "other", names |-> names]

SliceRest(p) == p.k = "rest" \/ (p.k = "ident" /\ p.rest)

RECURSIVE PatternNames(_)
PatternNames(p) ==
    CASE p.k = "ident" -> {p.name}
      [] p.k = "other" -> p.names
      [] p.k = "reference" -> PatternNames(p.pat)
      [] p.k \in {"tuple", "slice"} -> UNION {PatternNames(p.elems[i]) : i \in DOMAIN p.elems}
      [] OTHER -> {}

-------------------------------------------------------------------------------
(* BindingMode.                                                              *)

Dereferenced(mode, mutable) == IF mode = "ref" \/ ~mutable THEN "ref" ELSE "ref mut"

BoundType(mode, t) ==
    CASE mode = "move" -> t
      [] mode = "ref" -> RefTo(FALSE, t)
      [] mode = "ref mut" -> RefTo(TRUE, t)

\* The mode of one binding: an explicit modifier replaces the inherited mode.
ModeOf(p, mode) ==
    CASE p.modifier = "" -> mode
      [] p.modifier = "mut" -> "move"
      [] OTHER -> p.modifier

-------------------------------------------------------------------------------
(* observe_annotated_pattern: the pairs <<name, type>> it records.           *)

\* Position in the tuple type of the pattern's i-th element.
Aligned(p, t, i) ==
    IF \E r \in 1 .. i - 1 : p.elems[r].k = "rest"
    THEN Len(t.elems) - Len(p.elems) + i
    ELSE i

ExplicitCount(p) == Len(SelectSeq(p.elems, LAMBDA e : ~SliceRest(e)))

\* The type of `name @ ..` in an array pattern, or NoType.
ArrayRest(p, t) ==
    LET explicit == ExplicitCount(p)
    IN  CASE explicit = 0 -> t
          [] t.form # "generic" -> Array(t.elem, t.form, t.len - explicit)
          [] OTHER -> NoType

ArrayArity(p, t) ==
    LET explicit == ExplicitCount(p)
        rests == Len(p.elems) - explicit
    IN  /\ rests <= 1
        /\ t.form = "literal" =>
              explicit <= t.len /\ (rests = 0 => explicit = t.len)

\* The type of `name @ ..` below an alias: the whole sequence, the associated
\* const's remainder of a concrete alias, nothing for a generic array, and the
\* slice remainder where only a slice can be meant.
PathRest(p, t, mode, refutable) ==
    LET explicit == ExplicitCount(p)
        source == BoundType(mode, t)
    IN  CASE explicit = 0 -> Project("WholeSequence", <<0, 0>>, source)
          [] t.k = "atom" \/ (t.k = "alias" /\ ~t.generic) ->
                Project("ArrayTail", <<explicit, 0>>, source)
          [] ~refutable -> NoType
          [] OTHER -> Project("SliceTail", <<0, 0>>, source)

RECURSIVE Observe(_, _, _, _)

\* observe_slice_element
ObserveElement(p, element, rest, mode, refutable) ==
    CASE ~SliceRest(p) -> Observe(p, element, mode, refutable)
      [] p.k = "ident" /\ rest # NoType ->
            Observe([p EXCEPT !.rest = FALSE], rest, mode, refutable)
      [] OTHER -> {}

Observe(p, t, mode, refutable) ==
    LET Elements == DOMAIN p.elems
    IN  CASE p.k = "ident" /\ ~p.rest -> {<<p.name, BoundType(ModeOf(p, mode), t)>>}
          [] p.k = "reference" /\ t.k = "ref" -> Observe(p.pat, t.of, "move", refutable)
          [] p.k \in {"tuple", "slice"} /\ t.k = "ref" ->
                Observe(p, t.of, Dereferenced(mode, t.mutable), refutable)
          [] p.k = "tuple" /\ t.k = "tuple" ->
                LET explicit == Len(SelectSeq(p.elems, LAMBDA e : e.k # "rest"))
                    fits == \/ explicit = Len(t.elems)
                            \/ explicit < Len(t.elems) /\ explicit < Len(p.elems)
                IN  UNION {Observe(p.elems[i], t.elems[Aligned(p, t, i)], mode, refutable) :
                           i \in {j \in Elements : fits /\ p.elems[j].k # "rest"}}
          [] p.k = "slice" /\ t.k = "array" ->
                UNION {ObserveElement(p.elems[i], t.elem, ArrayRest(p, t), mode, refutable) :
                       i \in {j \in Elements : ArrayArity(p, t)}}
          [] p.k = "slice" /\ t.k = "slice" ->
                UNION {ObserveElement(p.elems[i], t.elem, t, mode, refutable) :
                       i \in {j \in Elements : ExplicitCount(p) + 1 >= Len(p.elems)}}
          [] p.k = "slice" /\ IsPath(t) ->
                LET source == BoundType(mode, t)
                    element == Project("Element", <<0, 0>>, source)
                    \* The whole source is borrowed before it is projected.
                    borrowed(e) == Project("WholeSequence", <<0, 0>>,
                                           BoundType(e.modifier, source))
                IN  UNION {IF /\ ExplicitCount(p) = 0
                              /\ p.elems[i].k = "ident"
                              /\ p.elems[i].modifier \in {"ref", "ref mut"}
                           THEN {<<p.elems[i].name, borrowed(p.elems[i])>>}
                           ELSE ObserveElement(p.elems[i], element,
                                    PathRest(p, t, mode, refutable), "move", refutable) :
                           i \in Elements}
          [] p.k = "tuple" /\ IsPath(t) ->
                UNION {Observe(p.elems[i],
                               Project("Tuple", <<Len(p.elems), i>>, BoundType(mode, t)),
                               "move", refutable) :
                       i \in {j \in Elements : \A r \in Elements : p.elems[r].k # "rest"}}
          [] p.k = "reference" /\ IsPath(t) ->
                Observe(p.pat, Project("Deref", <<0, 0>>, t), "move", refutable)
          [] OTHER -> {}

-------------------------------------------------------------------------------
(* projection_helpers: the emitted traits, as rustc evaluates them.  A path    *)
(* is replaced by what it names; a projection no impl covers is stuck.         *)

Stuck == [k |-> "stuck"]

\* __systasis_CaptureThroughMut
ThroughMutAlways(mode) == "mutable"

ThroughMut(mode) == IF mode = "owned" THEN "mutable" ELSE mode

\* __systasis_CaptureWrap
Wrap(mode, t) ==
    CASE mode = "owned" -> t
      [] mode = "shared" -> RefTo(FALSE, t)
      [] mode = "mutable" -> RefTo(TRUE, t)

\* __systasis_CaptureSliceWrap: an owned slice has no impl.
SliceWrap(mode, t) == IF mode = "owned" THEN Stuck ELSE Wrap(mode, Slice(t))

\* The impls for tuples, arrays and slices, under a mode.
Output(trait, arg, t, mode) ==
    CASE trait = "Tuple" /\ t.k = "tuple" /\ Len(t.elems) = arg[1] -> Wrap(mode, t.elems[arg[2]])
      [] trait = "Element" /\ t.k \in {"array", "slice"} -> Wrap(mode, t.elem)
      [] trait = "ArrayTail" /\ t.k = "array" -> Wrap(mode, [t EXCEPT !.len = @ - arg[1]])
      [] trait = "WholeSequence" /\ t.k = "array" -> Wrap(mode, t)
      [] trait \in {"ArrayTail", "WholeSequence", "SliceTail"} /\ t.k = "slice" ->
            SliceWrap(mode, t.elem)
      [] OTHER -> Stuck

\* The impls for references, which pass a mode on.
RECURSIVE Through(_, _, _, _)
Through(trait, arg, t, mode) ==
    CASE trait = "Deref" -> IF t.k = "ref" THEN t.of ELSE Stuck
      [] t.k = "ref" /\ trait # "Deref" ->
            Through(trait, arg, t.of, IF t.mutable THEN ThroughMut(mode) ELSE "shared")
      [] OTHER -> Output(trait, arg, t, mode)

RECURSIVE Normal(_)
Normal(t) ==
    CASE t.k = "ref" -> RefTo(t.mutable, Normal(t.of))
      [] t.k = "tuple" -> Tuple([i \in DOMAIN t.elems |-> Normal(t.elems[i])])
      [] t.k = "array" -> Array(Normal(t.elem), IF t.form = "generic" THEN "generic" ELSE "literal", t.len)
      [] t.k = "slice" -> Slice(Normal(t.elem))
      [] t.k = "alias" -> Normal(t.of)
      [] t.k = "projection" -> Through(t.trait, t.arg, Normal(t.of), "owned")
      [] OTHER -> t

-------------------------------------------------------------------------------
(* Rust's own typing of a pattern against a type without aliases.  `through`  *)
(* is the set of mutabilities of the references an implicit dereference went  *)
(* through since the last explicit reference pattern.                         *)

Implicit(through, t) ==
    IF through = {} THEN t ELSE RefTo(FALSE \notin through, t)

RECURSIVE RustTypes(_, _, _)
RustTypes(p, t, through) ==
    CASE p.k = "ident" ->
            {<<p.name, CASE p.modifier = "" -> Implicit(through, t)
                         [] p.modifier = "mut" -> t
                         [] OTHER -> RefTo(p.modifier = "ref mut", t)>>}
      [] p.k = "reference" -> RustTypes(p.pat, t.of, {})
      [] p.k \in {"tuple", "slice"} /\ t.k = "ref" ->
            RustTypes(p, t.of, through \cup {t.mutable})
      [] p.k = "tuple" /\ t.k = "tuple" ->
            LET missing == Len(t.elems) - Len(p.elems)
                place(i) == IF \E r \in 1 .. i : p.elems[r].k = "rest" THEN i + missing ELSE i
            IN  UNION {RustTypes(p.elems[i], t.elems[place(i)], through) :
                       i \in {j \in DOMAIN p.elems : p.elems[j].k # "rest"}}
      [] p.k = "slice" /\ t.k \in {"array", "slice"} ->
            LET fixed == Len(SelectSeq(p.elems, LAMBDA e : ~SliceRest(e)))
                tail == IF t.k = "slice" THEN t ELSE [t EXCEPT !.len = @ - fixed]
            IN  UNION {RustTypes(p.elems[i], IF SliceRest(p.elems[i]) THEN tail ELSE t.elem,
                                 through) : i \in DOMAIN p.elems}
      [] OTHER -> {}

\* The names whose types an annotation does not tell (docs/CAPTURE_LIMITS.md):
\* struct fields, a tuple alias matched with `..`, whose arity is unknown, and in
\* an irrefutable pattern the remainder of a path that is not known to name a
\* concrete array.  Below a path the type is NoType.
RECURSIVE Untold(_, _, _)
Untold(p, t, refutable) ==
    LET opaque == t = NoType \/ IsPath(t)
        Parts(i, u) == Untold(p.elems[i], u, refutable)
    IN  CASE p.k = "other" -> p.names
          [] p.k = "reference" -> Untold(p.pat, IF opaque THEN NoType ELSE t.of, refutable)
          [] p.k \in {"tuple", "slice"} /\ t.k = "ref" -> Untold(p, t.of, refutable)
          [] p.k = "tuple" /\ opaque ->
                IF \E i \in DOMAIN p.elems : p.elems[i].k = "rest" THEN PatternNames(p)
                ELSE UNION {Parts(i, NoType) : i \in DOMAIN p.elems}
          [] p.k = "tuple" /\ t.k = "tuple" ->
                LET missing == Len(t.elems) - Len(p.elems)
                    place(i) == IF \E r \in 1 .. i : p.elems[r].k = "rest" THEN i + missing ELSE i
                IN  UNION {Parts(i, t.elems[place(i)]) :
                           i \in {j \in DOMAIN p.elems : p.elems[j].k # "rest"}}
          [] p.k = "slice" /\ opaque ->
                LET concrete == t.k = "alias" /\ ~t.generic
                    whole == \A i \in DOMAIN p.elems : SliceRest(p.elems[i])
                IN  UNION {IF SliceRest(p.elems[i])
                           THEN IF whole \/ concrete \/ refutable THEN {} ELSE PatternNames(p.elems[i])
                           ELSE Parts(i, NoType) : i \in DOMAIN p.elems}
          [] p.k = "slice" /\ t.k \in {"array", "slice"} ->
                UNION {Parts(i, t.elem) : i \in {j \in DOMAIN p.elems : ~SliceRest(p.elems[j])}}
          [] OTHER -> {}

\* Does rustc accept the pattern?  From edition 2024 on, modifiers and reference
\* patterns are not allowed below an implicit dereference.
RECURSIVE RustAccepts(_, _, _, _, _)
RustAccepts(p, t, through, refutable, edition) ==
    CASE p.k = "ident" ->
            /\ p.modifier # "" => through = {} \/ edition < 2024
            /\ p.modifier = "ref mut" => FALSE \notin through
            /\ t.k = "slice" => \/ p.modifier \in {"ref", "ref mut"}
                                \/ p.modifier = "" /\ through # {}
      [] p.k = "reference" ->
            /\ t.k = "ref" /\ ~t.mutable
            /\ through = {} \/ edition < 2024
            /\ RustAccepts(p.pat, t.of, {}, refutable, edition)
      [] p.k \in {"tuple", "slice"} /\ t.k = "ref" ->
            RustAccepts(p, t.of, through \cup {t.mutable}, refutable, edition)
      [] p.k = "tuple" /\ t.k = "tuple" ->
            LET rests == {i \in DOMAIN p.elems : p.elems[i].k = "rest"}
                missing == Len(t.elems) - Len(p.elems)
                place(i) == IF \E r \in 1 .. i : r \in rests THEN i + missing ELSE i
            IN  /\ IF rests = {} THEN missing = 0 ELSE missing >= -1
                /\ \A i \in DOMAIN p.elems \ rests :
                      RustAccepts(p.elems[i], t.elems[place(i)], through, refutable, edition)
      [] p.k = "slice" /\ t.k \in {"array", "slice"} ->
            LET rests == {i \in DOMAIN p.elems : SliceRest(p.elems[i])}
                fixed == Len(SelectSeq(p.elems, LAMBDA e : ~SliceRest(e)))
                tail == IF t.k = "slice" THEN t ELSE [t EXCEPT !.len = @ - fixed]
            IN  /\ Len(p.elems) <= fixed + 1
                /\ t.k = "slice" => refutable \/ (fixed = 0 /\ rests # {})
                /\ t.k = "array" =>
                      IF t.form = "generic" THEN fixed = 0 /\ rests # {}
                      ELSE IF rests = {} THEN fixed = t.len ELSE fixed <= t.len
                /\ \A i \in DOMAIN p.elems :
                      RustAccepts(p.elems[i], IF i \in rests THEN tail ELSE t.elem,
                                  through, refutable, edition)
      [] OTHER -> p.k \in {"wild", "rest", "other"}
===============================================================================
