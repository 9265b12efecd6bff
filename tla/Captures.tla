------------------------------- MODULE Captures -------------------------------
(***************************************************************************)
(* Capture reconstruction (systasis-macros/src/captures.rs): from the        *)
(* configuration function's bindings and one constructor closure to the      *)
(* closure's plan.  A reconstructed plan replaces each use of an outer        *)
(* binding by a field of the capture record; when the analysis meets anything *)
(* it cannot decide it gives up, and the closure is stored as written, so     *)
(* that rustc selects the captures.                                          *)
(*                                                                          *)
(* The visitor is a traversal of a syntax tree; its call stack is `agenda`,   *)
(* a sequence of visits and scope operations still to do.                     *)
(***************************************************************************)
EXTENDS CaptureTypes, FiniteSets

CONSTANTS Name,      \* identifiers
          Functions, \* families of configuration functions
          Edition    \* edition of the crate that contains them

ASSUME EditionAssumption == Edition \in {2021, 2024}

VARIABLES function,   \* the function: arguments, statements, constructor
          observed,   \* how many of its parts Bindings has been through
          types,      \* Bindings.types: a name's type, NoType, or absent
          uncertain,  \* Bindings.uncertain is set
          agenda,     \* what the visitor has left to do
          scopes,     \* Visitor.scopes: names bound inside the closure
          globs,      \* Visitor.glob_scopes
          captures,   \* Visitor.captures: the record's fields in order
          rewritten,  \* uses replaced by a field: <<position, index>>
          rejected,   \* Visitor.error is set
          plan        \* "none", "reconstructed" or "native"

vars == <<function, observed, types, uncertain, agenda, scopes, globs, captures,
          rewritten, rejected, plan>>

\* Syntax: a node's kind, the names it binds (or the name it uses) and its
\* children.  A block's children are its statements, a match's its scrutinee
\* and arms, an arm's its guard, if any, and its body.
Node(kind, names, parts) == [kind |-> kind, names |-> names, parts |-> parts]

RECURSIVE HasMacro(_)
HasMacro(node) ==
    node.kind = "macro" \/ \E i \in DOMAIN node.parts : HasMacro(node.parts[i])

\* A function's argument or statement, in `function.args` and `function.body`.
Argument(pat, type) == [kind |-> "argument", pat |-> pat, type |-> type]
Local(pat, type, refutable) ==
    [kind |-> "let", pat |-> pat, type |-> type, refutable |-> refutable]
Other(kind, names) == [kind |-> kind, names |-> names]

Init ==
    /\ \E i \in DOMAIN Functions : function \in Functions[i]
    /\ observed = 0
    /\ types = <<>>
    /\ uncertain = FALSE
    /\ agenda = <<>>
    /\ scopes = <<{}>>
    /\ globs = <<FALSE>>
    /\ captures = <<>>
    /\ rewritten = {}
    /\ rejected = FALSE
    /\ plan = "none"

-------------------------------------------------------------------------------
(* Bindings: arguments, then block-wide items, then statements up to the      *)
(* container.                                                                 *)

Items == SelectSeq(function.body, LAMBDA s : s.kind \notin {"let", "macro", "container"})
Before ==
    LET container == CHOOSE i \in DOMAIN function.body : function.body[i].kind = "container"
    IN  SelectSeq(SubSeq(function.body, 1, container), LAMBDA s : s.kind \in {"let", "macro"})
Parts == function.args \o Items \o Before
Part == Parts[observed + 1]

\* observe_pattern: every name it binds, with the type its annotation yields.
ObservePattern(pat, type, refutable) ==
    LET typed == IF type = NoType THEN {} ELSE Observe(pat, type, "move", refutable)
        typedNames == {b[1] : b \in typed}
    IN  [n \in DOMAIN types \cup PatternNames(pat) |->
            IF n \in typedNames THEN (CHOOSE b \in typed : b[1] = n)[2]
            ELSE IF n \in PatternNames(pat) THEN NoType ELSE types[n]]

ObserveArgument ==
    /\ Part.kind = "argument"
    /\ types' = ObservePattern(Part.pat, Part.type, FALSE)
    /\ UNCHANGED uncertain

\* observe_statement on a let: the new names hide earlier ones, typed or not.
ObserveLocal ==
    /\ Part.kind = "let"
    /\ types' = ObservePattern(Part.pat, Part.type, Part.refutable)
    /\ UNCHANGED uncertain

\* A value item, a constructor among them, hides an argument of its name.
ObserveItem ==
    /\ Part.kind \in {"item", "type_item"}
    /\ LET hidden == IF Part.kind = "item" THEN Part.names ELSE {}
       IN  types' = [n \in DOMAIN types \ hidden |-> types[n]]
    /\ UNCHANGED uncertain

\* An explicit import that is independent of the function's own items and
\* cannot collide with an argument is copied; any other is not understood.
ObserveImport ==
    /\ Part.kind \in {"import", "type_import", "glob", "self_import", "local_import"}
    /\ uncertain' = (\/ uncertain
                     \/ Part.kind \in {"glob", "self_import", "local_import"}
                     \/ Part.names \cap DOMAIN types # {})
    /\ UNCHANGED types

\* An invoked macro may bind anything; a plain macro_rules definition binds nothing.
ObserveMacro ==
    /\ Part.kind \in {"macro", "item_macro", "macro_definition"}
    /\ uncertain' = (uncertain \/ Part.kind # "macro_definition")
    /\ UNCHANGED types

ObserveBindings ==
    /\ observed < Len(Parts)
    /\ ObserveArgument \/ ObserveLocal \/ ObserveItem \/ ObserveImport \/ ObserveMacro
    /\ observed' = observed + 1
    /\ UNCHANGED <<function, agenda, scopes, globs, captures, rewritten, rejected, plan>>

-------------------------------------------------------------------------------
(* The visitor.                                                              *)

Visit(node, at) == [do |-> "visit", node |-> node, at |-> at]
Push(names, glob) == [do |-> "push", names |-> names, glob |-> glob]
Bind(names) == [do |-> "bind", names |-> names]
Pop == [do |-> "pop"]

\* prepare: a body with a macro is left to rustc; otherwise the visitor starts
\* on the closure, unless the bindings are uncertain.
Prepare ==
    /\ plan = "none" /\ observed = Len(Parts)
    /\ IF HasMacro(function.closure) \/ uncertain
       THEN plan' = "native" /\ UNCHANGED agenda
       ELSE plan' = "visiting" /\ agenda' = <<Visit(function.closure, <<>>)>>
    /\ UNCHANGED <<function, observed, types, uncertain, scopes, globs, captures,
                   rewritten, rejected>>

Bound(n) == \E i \in DOMAIN scopes : n \in scopes[i]

\* The use becomes a field of the record, a new one at the first use of n.
Field(n, at) ==
    LET known == {i \in DOMAIN captures : captures[i][1] = n}
    IN  /\ captures' = IF known = {} THEN Append(captures, <<n, types[n]>>) ELSE captures
        /\ rewritten' = rewritten \cup
              {<<at, IF known = {} THEN Len(captures) + 1 ELSE CHOOSE i \in known : TRUE>>}
        /\ UNCHANGED rejected

UseGlobsFirst(n, at) ==
    IF n \notin DOMAIN types
    THEN UNCHANGED <<captures, rewritten, rejected>>
    ELSE IF \E i \in DOMAIN globs : globs[i]
    THEN rejected' = TRUE /\ UNCHANGED <<captures, rewritten>>
    ELSE IF Bound(n)
    THEN UNCHANGED <<captures, rewritten, rejected>>
    ELSE IF types[n] = NoType
    THEN rejected' = TRUE /\ UNCHANGED <<captures, rewritten>>
    ELSE Field(n, at)

\* capture_index, and the replacement of the path by the field.
Use(n, at) ==
    IF Bound(n) \/ n \notin DOMAIN types
    THEN UNCHANGED <<captures, rewritten, rejected>>
    ELSE IF types[n] = NoType \/ (\E i \in DOMAIN globs : globs[i])
    THEN rejected' = TRUE /\ UNCHANGED <<captures, rewritten>>
    ELSE Field(n, at)

Top == Head(agenda)
Does(task) == agenda # <<>> /\ Top.do = task
Visits(kinds) == Does("visit") /\ Top.node.kind \in kinds

VisitPath ==
    /\ Visits({"use"})
    /\ \E n \in Top.node.names : Use(n, Top.at)
    /\ agenda' = Tail(agenda)
    /\ UNCHANGED <<scopes, globs>>

\* Statements in the block that name a value for the whole of it.
ItemNames(block) ==
    UNION {block.parts[i].names :
           i \in {j \in DOMAIN block.parts : block.parts[j].kind \in {"item", "import", "type_import"}}}

HasGlob(block) == \E i \in DOMAIN block.parts : block.parts[i].kind = "glob"

\* A block-local import of the name of an outer binding may mean its type only.
UnresolvedImport(block) ==
    \E i \in DOMAIN block.parts :
        \/ block.parts[i].kind = "self_import"
        \/ /\ block.parts[i].kind \in {"import", "type_import"}
           /\ block.parts[i].names \cap DOMAIN types # {}

Child(node, at, i) == Visit(node.parts[i], Append(at, i))
Children(node, at) == [i \in DOMAIN node.parts |-> Child(node, at, i)]

\* visit_block_mut on a let: initializer, else block, and only then the names.
LocalSteps(node, at) ==
    Children(node, at) \o <<Bind(node.names)>>

IfLeaksIntoElse(node, at) ==
    <<Push({}, FALSE), Child(node, at, 1), Child(node, at, 2)>>
        \o (IF Len(node.parts) = 3 THEN <<Child(node, at, 3)>> ELSE <<>>) \o <<Pop>>

\* Expr::If: the condition's bindings end before the else branch.
IfSteps(node, at) ==
    <<Push({}, FALSE), Child(node, at, 1), Child(node, at, 2), Pop>>
        \o (IF Len(node.parts) = 3 THEN <<Child(node, at, 3)>> ELSE <<>>)

\* One arm of Expr::Match: the guard sees the pattern's names.
ArmSteps(node, at) ==
    <<Push({}, FALSE), Bind(node.names)>> \o Children(node, at) \o <<Pop>>

\* The rest of visit_expr_mut, visit_block_mut and visit_expr_closure_mut.
Steps(node, at) ==
    CASE node.kind = "closure" ->
            <<Push({}, FALSE), Bind(node.names), Child(node, at, 1), Pop>>
      [] node.kind = "block" ->
            <<Push(ItemNames(node), HasGlob(node))>> \o Children(node, at) \o <<Pop>>
      [] node.kind = "let" -> LocalSteps(node, at)
      [] node.kind = "for" ->
            <<Child(node, at, 1), Push({}, FALSE), Bind(node.names), Child(node, at, 2), Pop>>
      [] node.kind = "if" -> IfSteps(node, at)
      [] node.kind = "while" -> <<Push({}, FALSE), Child(node, at, 1), Child(node, at, 2), Pop>>
      [] node.kind = "condition" -> <<Child(node, at, 1), Bind(node.names)>>
      [] node.kind = "arm" -> ArmSteps(node, at)
      [] OTHER -> Children(node, at)   \* calls, operators, fields, match

VisitInside ==
    /\ Does("visit") /\ Top.node.kind # "use"
    /\ LET node == Top.node
       IN  /\ agenda' = Steps(node, Top.at) \o Tail(agenda)
           /\ rejected' = (\/ rejected
                           \/ node.kind = "verbatim"
                           \/ node.kind = "block" /\ UnresolvedImport(node))
    /\ UNCHANGED <<scopes, globs, captures, rewritten>>

EnterScope ==
    /\ Does("push")
    /\ scopes' = Append(scopes, Top.names)
    /\ globs' = Append(globs, Top.glob)
    /\ agenda' = Tail(agenda)
    /\ UNCHANGED <<captures, rewritten, rejected>>

BindNames ==
    /\ Does("bind")
    /\ scopes' = [scopes EXCEPT ![Len(scopes)] = @ \cup Top.names]
    /\ agenda' = Tail(agenda)
    /\ UNCHANGED <<globs, captures, rewritten, rejected>>

LeaveScope ==
    /\ Does("pop")
    /\ scopes' = SubSeq(scopes, 1, Len(scopes) - 1)
    /\ globs' = SubSeq(globs, 1, Len(globs) - 1)
    /\ agenda' = Tail(agenda)
    /\ UNCHANGED <<captures, rewritten, rejected>>

Traverse ==
    /\ VisitPath \/ VisitInside \/ EnterScope \/ BindNames \/ LeaveScope
    /\ UNCHANGED <<function, observed, types, uncertain, plan>>

\* A rejected analysis restarts from the closure as written: neither captures
\* nor rewrites of the abandoned clone survive.
Finish ==
    /\ plan = "visiting" /\ agenda = <<>>
    /\ IF rejected
       THEN plan' = "native" /\ captures' = <<>> /\ rewritten' = {}
       ELSE plan' = "reconstructed" /\ UNCHANGED <<captures, rewritten>>
    /\ UNCHANGED <<function, observed, types, uncertain, agenda, scopes, globs, rejected>>

Done == plan \in {"reconstructed", "native"} /\ UNCHANGED vars

Next == ObserveBindings \/ Prepare \/ Traverse \/ Finish \/ Done

Spec == Init /\ [][Next]_vars

-------------------------------------------------------------------------------
(* Rust's name resolution, as the reference: what a use of a name denotes,    *)
(* computed on the tree and not by a traversal.                               *)

\* Names a condition or a let brings into scope for what follows it.
RECURSIVE Introduces(_)
Introduces(node) ==
    CASE node.kind \in {"let", "condition"} -> node.names
      [] node.kind = "other" -> UNION {Introduces(node.parts[i]) : i \in DOMAIN node.parts}
      [] OTHER -> {}

IntroducedBefore(node, i) == UNION {Introduces(node.parts[j]) : j \in 1 .. i - 1}

\* Value names of a whole block; glob[g] is what a glob import of g brings.
Hoisted(block, glob) ==
    UNION {IF s.kind \in {"item", "import"} THEN s.names
           ELSE IF s.kind = "glob" THEN glob[s.names] ELSE {} :
           s \in {block.parts[i] : i \in DOMAIN block.parts}}

\* Names bound inside the closure that child i of a node sees.
Sees(node, i, env, glob) ==
    CASE node.kind = "closure" -> env \cup node.names
      [] node.kind = "block" -> env \cup Hoisted(node, glob) \cup IntroducedBefore(node, i)
      [] node.kind = "arm" -> env \cup node.names \cup IntroducedBefore(node, i)
      [] node.kind = "for" /\ i = 2 -> env \cup node.names
      [] node.kind = "other" \/ (node.kind \in {"if", "while"} /\ i = 2) ->
            env \cup IntroducedBefore(node, i)
      [] OTHER -> env

\* Uses that denote nothing inside the closure: <<position, name>>.
RECURSIVE Free(_, _, _, _)
Free(node, at, env, glob) ==
    IF node.kind = "use" THEN {<<at, n>> : n \in node.names \ env}
    ELSE UNION {Free(node.parts[i], Append(at, i), Sees(node, i, env, glob), glob) :
                i \in DOMAIN node.parts}

FreeUses(glob) == Free(function.closure, <<>>, {}, glob)
Imported == [names \in SUBSET Name |-> names]
Everything == [names \in SUBSET Name |-> Name]
Nothing == [names \in SUBSET Name |-> {}]

\* The local binding of the configuration function a name denotes at the
\* container: the last let before it, or an argument no item hides.
LetsOf(n) == SelectSeq(Before, LAMBDA s : s.kind = "let" /\ n \in PatternNames(s.pat))
ArgsOf(n) == SelectSeq(function.args, LAMBDA s : n \in PatternNames(s.pat))
Hidden(n) == \E i \in DOMAIN Items : Items[i].kind \in {"item", "import"} /\ n \in Items[i].names
Denotes(n) ==
    IF LetsOf(n) # <<>> THEN <<LetsOf(n)[Len(LetsOf(n))]>>
    ELSE IF Hidden(n) THEN <<>> ELSE ArgsOf(n)
Outer(n) == Denotes(n) # <<>>

-------------------------------------------------------------------------------
(* Properties.                                                               *)

\* A reconstructed closure reads the capture record exactly where the closure
\* as written reads an outer binding: every such use, whatever let, pattern,
\* parameter, item or import surrounds it, becomes the field of that binding,
\* no other use does, and no binding is captured twice.  A closure that falls
\* back to rustc is untouched.
ReconstructionExact ==
    /\ plan = "reconstructed" =>
          LET uses == {u \in FreeUses(Imported) : Outer(u[2])}
          IN  /\ {<<r[1], captures[r[2]][1]>> : r \in rewritten} = uses
              /\ {r[1] : r \in rewritten} = {u[1] : u \in uses}
              /\ Cardinality({captures[i][1] : i \in DOMAIN captures}) = Len(captures)
    /\ plan = "native" => captures = <<>> /\ rewritten = {}

\* The field of a captured binding has the type the binding has in the
\* configuration function, through references, aliases, slices and shadowing.
CapturedTypesExact ==
    plan = "reconstructed" =>
        \A i \in DOMAIN captures :
            LET binding == Head(Denotes(captures[i][1]))
            IN  /\ binding.type # NoType
                /\ <<captures[i][1], Normal(captures[i][2])>> \in
                      RustTypes(binding.pat, Normal(binding.type), {})

RECURSIVE Within(_)
Within(node) == {node} \cup UNION {Within(node.parts[i]) : i \in DOMAIN node.parts}

\* Does an import bring a name, in whatever namespace, that S contains?
Imports(s, S) == s.kind \in {"import", "type_import"} /\ s.names \cap S # {}

\* The analysis gives up only on what it cannot know: a macro, syntax it does not
\* parse, an import that may hide an argument or an outer binding or that depends
\* on a local item, a glob around a use of an outer binding, or a use of one whose
\* type its annotation does not tell.  A use of the closure's own names, an import
\* of another name or a pattern the annotation covers never costs a constructor
\* its reconstruction.
FallbackJustified ==
    plan = "native" =>
        \/ \E i \in DOMAIN Parts :
              \/ Parts[i].kind \in {"macro", "item_macro", "glob", "self_import", "local_import"}
              \/ Imports(Parts[i], {n \in Name : ArgsOf(n) # <<>>})
        \/ \E node \in Within(function.closure) :
              \/ node.kind \in {"macro", "verbatim", "self_import"}
              \/ Imports(node, {n \in Name : Outer(n)})
        \/ \E u \in FreeUses(Nothing) \ FreeUses(Everything) : Outer(u[2])
        \/ \E u \in FreeUses(Imported) :
              /\ Outer(u[2])
              /\ LET b == Head(Denotes(u[2]))
                 IN  \/ b.type = NoType
                     \/ u[2] \in Untold(b.pat, b.type, b.kind = "let" /\ b.refutable)
===============================================================================
