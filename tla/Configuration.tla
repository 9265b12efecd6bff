----------------------------- MODULE Configuration -----------------------------
(***************************************************************************)
(* Conditional declarations (configuration.rs).  A macro cannot evaluate    *)
(* cfg predicates, so the first pass emits a struct with one unit field per  *)
(* predicate, rustc drops the fields whose predicates are false, and a       *)
(* second pass over the same function keeps the statements whose fields      *)
(* survived.  Fields are matched by number: both passes must count alike,    *)
(* whatever they find selected.                                              *)
(*                                                                          *)
(* A statement has attributes and a body of nested statements; a node of     *)
(* kind "expr" is a conditional expression in another position.              *)
(***************************************************************************)
EXTENDS Naturals, Sequences, SequencesExt

CONSTANTS Block,    \* function bodies: sequences of statements
          Truth     \* assignments of the predicates

VARIABLES source,   \* the function's block
          truth,    \* what the compiler's configuration makes of predicates
          stage,    \* source, selected, configured or resumed
          fields,   \* fields of the helper struct
          active,   \* numbers of the fields rustc kept
          output    \* the block the second pass hands to the expansion

vars == <<source, truth, stage, fields, active, output>>

Cfg(p) == [kind |-> "cfg", pred |-> p, inner |-> <<>>]
CfgAttr(p, inner) == [kind |-> "cfg_attr", pred |-> p, inner |-> inner]
Other == [kind |-> "other", pred |-> "none", inner |-> <<>>]
Node(kind, attrs, body) == [kind |-> kind, attrs |-> attrs, body |-> body]

-------------------------------------------------------------------------------
(* rustc's own configuration of an attributed node, attributes in order: a    *)
(* false cfg discards it at once, a true cfg_attr is replaced by what it holds. *)

RECURSIVE Configured(_, _)
Configured(attrs, evaluated) ==
    IF attrs = <<>> THEN [present |-> TRUE, attrs |-> <<>>, evaluated |-> evaluated]
    ELSE LET a == Head(attrs)
             now == evaluated \cup {a.pred}
         IN  CASE a.kind = "cfg" ->
                    IF truth[a.pred] THEN Configured(Tail(attrs), now)
                    ELSE [present |-> FALSE, attrs |-> <<>>, evaluated |-> now]
               [] a.kind = "cfg_attr" ->
                    Configured((IF truth[a.pred] THEN a.inner ELSE <<>>) \o Tail(attrs), now)
               [] OTHER ->
                    LET rest == Configured(Tail(attrs), evaluated)
                    IN  [rest EXCEPT !.attrs = <<a>> \o @]

\* What is left of a block, and the predicates it took to find out.
RECURSIVE Compiled(_)
Compiled(block) ==
    IF block = <<>> THEN [block |-> <<>>, evaluated |-> {}]
    ELSE LET n == Head(block)
             own == Configured(n.attrs, {})
             below == IF own.present THEN Compiled(n.body) ELSE [block |-> <<>>, evaluated |-> {}]
             rest == Compiled(Tail(block))
         IN  [block |-> (IF own.present THEN <<Node(n.kind, own.attrs, below.block)>> ELSE <<>>)
                        \o rest.block,
              evaluated |-> own.evaluated \cup below.evaluated \cup rest.evaluated]

-------------------------------------------------------------------------------
(* Selection, the visitor of both passes.  Its state `s` has the counter, the *)
(* fields so far, the gates inherited from ancestors and earlier attributes,  *)
(* and the enabled fields (all of them in the first pass).                    *)

RECURSIVE selects_source(_)
selects_source(a) ==
    \/ a.kind = "cfg"
    \/ a.kind = "cfg_attr" /\ \E i \in 1 .. Len(a.inner) : selects_source(a.inner[i])

\* selection_meta: only the configuration part of an attribute.
RECURSIVE selection_meta(_)
selection_meta(a) ==
    IF ~selects_source(a) THEN <<>>
    ELSE IF a.kind = "cfg" THEN <<a>>
    ELSE <<CfgAttr(a.pred, FlattenSeq([i \in 1 .. Len(a.inner) |-> selection_meta(a.inner[i])]))>>

Metas(attrs) == FlattenSeq([i \in 1 .. Len(attrs) |-> selection_meta(attrs[i])])

conditionUngated(s, p) ==
    [s EXCEPT !.next = @ + 1, !.fields = Append(@, <<Cfg(p)>>)]

\* condition: one more field, carrying the gates and its own predicate.
condition(s, p) ==
    [s EXCEPT !.next = @ + 1, !.fields = Append(@, Append(s.gates, Cfg(p)))]

EnabledNext(s) == s.all \/ s.next + 1 \in s.active

\* active.contains(name), or the first pass.
Enabled(s) == s.all \/ s.next \in s.active

\* attributes: cfg and cfg_attr are resolved, everything else is kept.
RECURSIVE attributes(_, _)
attributes(s, attrs) ==
    IF attrs = <<>> THEN s
    ELSE LET a == Head(attrs)
             counted == condition(s, a.pred)
             inner == attributes([counted EXCEPT !.gates = Append(@, Cfg(a.pred)),
                                                 !.present = TRUE, !.attrs = <<>>], a.inner)
             seen ==
                CASE a.kind = "cfg" -> [counted EXCEPT !.present = @ /\ Enabled(s)]
                  [] a.kind = "cfg_attr" /\ selects_source(a) ->
                        IF Enabled(s)
                        THEN [inner EXCEPT !.present = @ /\ s.present, !.attrs = s.attrs \o @]
                        ELSE [inner EXCEPT !.present = s.present, !.attrs = s.attrs]
                  [] OTHER -> [s EXCEPT !.attrs = Append(@, a)]
         IN  attributes([seen EXCEPT !.gates = s.gates \o selection_meta(a)], Tail(attrs))

\* Attributes that belong to a statement; other positions are left to rustc.
Lifted(n) == IF n.kind = "stmt" THEN n.attrs ELSE <<>>

\* visit_block_mut, visit_expr_mut: discarded descendants are traversed, too.
RECURSIVE visit_block(_, _)
visit_block(s, block) ==
    IF block = <<>> THEN [s EXCEPT !.block = <<>>]
    ELSE LET n == Head(block)
             opaque == n.kind = "expr" /\ \E i \in 1 .. Len(n.attrs) : selects_source(n.attrs[i])
             own == attributes([s EXCEPT !.present = TRUE, !.attrs = <<>>], Lifted(n))
             below == IF opaque THEN [own EXCEPT !.block = <<>>]
                      ELSE visit_block([own EXCEPT !.gates = s.gates \o Metas(Lifted(n))], n.body)
             kept == IF opaque THEN n
                     ELSE Node(n.kind, IF n.kind = "stmt" THEN own.attrs ELSE n.attrs, below.block)
             rest == visit_block([below EXCEPT !.gates = s.gates], Tail(block))
         IN  [rest EXCEPT !.block = (IF own.present THEN <<kept>> ELSE <<>>) \o @]

\* Selection::new
Selection(all, enabled) ==
    [next |-> 0, fields |-> <<>>, gates |-> <<>>, all |-> all, active |-> enabled,
     present |-> TRUE, attrs |-> <<>>, block |-> <<>>]

Init ==
    /\ source \in Block /\ truth \in Truth
    /\ stage = "source"
    /\ fields = <<>> /\ active = {} /\ output = <<>>

\* select: None, without fields, expands the function as it is.
Select ==
    /\ stage = "source"
    /\ fields' = visit_block(Selection(TRUE, {}), source).fields
    /\ IF fields' = <<>> THEN stage' = "resumed" /\ output' = source
       ELSE stage' = "selected" /\ UNCHANGED output
    /\ UNCHANGED <<source, truth, active>>

\* rustc expands the derive input: field k - 1 is named selected_{k - 1}.
Configure ==
    /\ stage = "selected"
    /\ active' = {k - 1 : k \in {j \in 1 .. Len(fields) : Configured(fields[j], {}).present}}
    /\ stage' = "configured"
    /\ UNCHANGED <<source, truth, fields, output>>

\* resume
Resume ==
    /\ stage = "configured"
    /\ output' = visit_block(Selection(FALSE, active), source).block
    /\ stage' = "resumed"
    /\ UNCHANGED <<source, truth, fields, active>>

Next == Select \/ Configure \/ Resume \/ (stage = "resumed" /\ UNCHANGED vars)

Spec == Init /\ [][Next]_vars

-------------------------------------------------------------------------------
(* Properties.                                                               *)

\* The two passes select what the compiler would have selected: the block given
\* to the expansion compiles to the same statements as the original one, in the
\* same order and with the same attributes.
SelectsAsCompiler ==
    stage = "resumed" => Compiled(output).block = Compiled(source).block

\* The helper struct makes rustc evaluate no predicate that it would not have
\* met in the original function, so that a predicate below a disabled ancestor,
\* or after a false cfg, need not even be valid.
NoForeignPredicate ==
    stage = "configured" =>
        UNION {Configured(fields[j], {}).evaluated : j \in 1 .. Len(fields)}
            \subseteq Compiled(source).evaluated
===============================================================================
