------------------------------ MODULE MCCaptures ------------------------------
(***************************************************************************)
(* Two families of configuration functions for Captures: every way to bind a *)
(* captured name, with a closure that just uses it, and every way a closure   *)
(* can hide an outer name, under simple bindings.                            *)
(***************************************************************************)
EXTENDS Captures

Container == Other("container", {})
Uses == {Node("use", {n}, <<>>) : n \in Name}
X == Node("use", {"x"}, <<>>)
Y == Node("use", {"y"}, <<>>)

-------------------------------------------------------------------------------
(* Patterns and types.                                                       *)

Modifier == {"", "mut", "ref", "ref mut"}
Ids(n) == {Ident(n, m, FALSE) : m \in Modifier}
Rests(n) == {Ident(n, m, TRUE) : m \in Modifier}
Aliased(S) == S \cup {Alias(t, g) : t \in S, g \in BOOLEAN}
Named(S) == S \cup {Alias(t, FALSE) : t \in S}
Referenced(S) == S \cup {RefTo(m, t) : t \in S, m \in BOOLEAN}

Leaf == {Atom, RefTo(FALSE, Atom), RefTo(TRUE, Atom)}
Flat == {Tuple(<<a, Atom>>) : a \in Leaf}
           \cup {Array(a, "literal", 2) : a \in Leaf}
           \cup {Tuple(<<Atom, Atom, RefTo(FALSE, Atom)>>)}
           \cup {Array(Atom, f, 2) : f \in {"const", "generic"}}
FlatType == Referenced(Named(Referenced(Aliased(Flat))))
SliceType == Aliased({RefTo(m, t) : m \in BOOLEAN, t \in Aliased({Slice(a) : a \in Leaf})})

Single == Ids("x") \cup {RefPat(i) : i \in Ids("x")}
FlatPat ==
    {TuplePat(<<p, q>>) : p \in Single, q \in {Wild, Rest, Ident("y", "", FALSE)}}
        \cup {TuplePat(<<Rest, p>>) : p \in Single}
        \cup {SlicePat(<<p, q>>) : p \in Single, q \in {Wild, Rest} \cup Rests("y")}
        \cup {SlicePat(<<q>>) : q \in Rests("x")}
FlatPats == FlatPat \cup {RefPat(p) : p \in FlatPat}

\* Patterns two levels deep over types two levels deep.
DeepType == Referenced(Named({Tuple(<<t, Atom>>) :
    t \in Named(Referenced(Named({Tuple(<<Atom, Atom>>), Array(Atom, "literal", 2)})))}))
DeepPat == {TuplePat(<<p, Wild>>) :
    p \in {TuplePat(<<i, Ident("y", "", FALSE)>>) : i \in Single}
              \cup {SlicePat(<<i, Ident("y", "", TRUE)>>) : i \in Single}}

\* What rustc accepts of them.  A `ref` remainder of an aliased slice below a
\* reference pattern is left out: its projection has no impl, and rustc says so.
Accepted(Pats, Types, refutable) ==
    UNION {LET n == Normal(t)
           IN  {<<p, t>> : p \in {q \in Pats : RustAccepts(q, n, {}, refutable, Edition)}} :
           t \in Types}

Bindings ==
    {Local(b[1], b[2], FALSE) : b \in Accepted(FlatPats, FlatType, FALSE)
                                  \cup Accepted(DeepPat, DeepType, FALSE)}
    \cup {Local(b[1], b[2], TRUE) : b \in Accepted(FlatPat, SliceType, TRUE)}

UsesBoth == Node("closure", {}, <<Node("other", {}, <<X, Y, X>>)>>)

Typing ==
    {[args |-> <<Argument(Ident("y", "", FALSE), Atom)>>,
      body |-> <<b, Container>>, closure |-> UsesBoth] : b \in Bindings}

-------------------------------------------------------------------------------
(* Closures.                                                                 *)

Block(stmts) == Node("block", {}, stmts)
Statement ==
    {Node("let", {n}, <<u>>) : n \in Name, u \in Uses}
        \cup {Node("let", {"x"}, <<u, Block(<<v>>)>>) : u \in Uses, v \in Uses}
        \cup {Node(k, {"x"}, <<>>) : k \in {"item", "type_item", "import", "type_import",
                                            "self_import", "glob"}}
        \cup {Node("glob", {}, <<>>)} \cup Uses
Condition ==
    Uses \cup {Node("condition", {"x"}, <<u>>) : u \in Uses}
         \cup {Node("other", {}, <<Node("condition", {"x"}, <<u>>), v>>) : u \in Uses, v \in Uses}
Arm ==
    {Node("arm", b, <<u>>) : b \in {{}, {"x"}}, u \in Uses}
        \cup {Node("arm", b, <<g, u>>) : b \in {{}, {"x"}}, g \in Condition, u \in Uses}

Nested ==
    {Node("if", {}, <<c, Block(<<u>>)>>) : c \in Condition, u \in Uses}
        \cup {Node("if", {}, <<c, Block(<<X>>), u>>) : c \in Condition, u \in Uses}
        \cup {Node("while", {}, <<c, Block(<<u>>)>>) : c \in Condition, u \in Uses}
        \cup {Node("for", b, <<u, Block(<<X>>)>>) : b \in {{}, {"x"}}, u \in Uses}
        \cup {Node("match", {}, <<u, a, Node("arm", {}, <<X>>)>>) : u \in Uses, a \in Arm}
        \cup {Node("closure", b, <<u>>) : b \in {{}, {"x"}, {"y"}}, u \in Uses}
        \cup {Node(k, {}, <<>>) : k \in {"macro", "verbatim"}}

Body ==
    {Block(<<s, t, X>>) : s \in Statement, t \in Statement}
        \cup {Block(<<s, Node("other", {}, <<n, X>>)>>) : s \in Statement, n \in Nested}
        \cup {Node("other", {}, <<Block(<<s, n>>), X, Y>>) :
              s \in {Node("let", {"x"}, <<X>>), Node("glob", {"y"}, <<>>)}, n \in Nested}

Typed(n) == Local(Ident(n, "", FALSE), Atom, FALSE)
Untyped(n) == Local(Ident(n, "", FALSE), NoType, FALSE)
Outside ==
    {[args |-> <<Argument(Ident("x", "", FALSE), Atom)>>, body |-> body] :
     body \in {<<Typed("y"), Container>>, <<Untyped("y"), Container>>,
               <<Container, Other("item", {"x"}), Typed("y")>>}}

\* Every statement the function itself can have around the container.
Around ==
    {Other(k, {n}) : k \in {"item", "type_item", "import", "type_import", "self_import", "glob",
                            "local_import"}, n \in Name}
        \cup {Other(k, {}) : k \in {"macro", "item_macro", "macro_definition"}}
        \cup {Typed("x"), Untyped("x"), Local(OtherPat({"x"}), Atom, FALSE)}

Scoping ==
    {[args |-> o.args, body |-> o.body, closure |-> Node("closure", p, <<b>>)] :
     o \in Outside, p \in {{}, {"y"}}, b \in Body}

Shadowing ==
    {[args |-> <<Argument(Ident("x", "", FALSE), Atom)>>, body |-> <<s, t, Container, u>>,
      closure |-> UsesBoth] : s \in Around, t \in Around, u \in Around}

MCFunctions == <<Typing, Scoping, Shadowing>>

\* The first family alone.
TypedFunctions == <<Typing>>
===============================================================================
