-------------------------------- MODULE Registry --------------------------------
(***************************************************************************)
(* From the declarations in systasis_container! to the registrations and    *)
(* resolver names of the generated container: parsing of groups, namespaces  *)
(* and children (parse.rs, child.rs), overriding, and the naming of the      *)
(* public methods (generate.rs), with every conflict the expansion reports.  *)
(*                                                                          *)
(* An interface path is a number, its place in the order of path spellings;  *)
(* Ident is its last segment, likewise ordered, and Words the snake-case     *)
(* words of an identifier.  A method name is the sequence of its words.      *)
(***************************************************************************)
EXTENDS Naturals, Sequences, SequencesExt

CONSTANTS Spelling,    \* interface groups as written: sequences of paths
          Ident,       \* the last segment of each path
          Words,       \* snake-case words of each identifier
          Kind,        \* registration macros used (a subset of Kinds)
          Space,       \* namespaces, "default" included
          ChildName,   \* names children may be given: words, too
          Unchecked,   \* cfg!(feature = "resolve_unchecked")
          MaxDecls     \* bound on the declarations, children included

Kinds == {"value", "type", "type_with", "try_type_with"}

ASSUME DefaultAssumption == "default" \in Space
ASSUME KindAssumption == Kind \subseteq Kinds
ASSUME PathAssumption ==
    DOMAIN Ident \subseteq Nat /\ Spelling \subseteq Seq(DOMAIN Ident)
ASSUME WordsAssumption ==
    /\ DOMAIN Words \subseteq Nat
    /\ \A p \in DOMAIN Ident : Ident[p] \in DOMAIN Words
    /\ \A w \in DOMAIN Words : Words[w] \in Seq(STRING)

VARIABLES decls,     \* registrations as declared
          children,  \* register_container! names, in order
          stage,     \* what the expansion is doing
          regs,      \* registrations that were not overridden
          named,     \* how many of them have their methods
          known      \* method_names: the resolver names so far

vars == <<decls, children, stage, regs, named, known>>

Stage == {"parse", "override", "spaces", "methods", "accessors", "ok",
          "duplicate child", "space conflict", "name conflict", "accessor conflict"}

-------------------------------------------------------------------------------
(* Parsing.                                                                  *)

\* The elements of s in ascending order, repeated ones side by side.
Sorted(s) ==
    LET from == CHOOSE p \in Surjection(DOMAIN s, DOMAIN s) :
                    \A i, j \in DOMAIN s : i < j => s[p[i]] <= s[p[j]]
    IN  [i \in DOMAIN s |-> s[from[i]]]

\* The elements of s at some positions, in the same order.
Retained(s, positions) ==
    LET kept[n \in 0 .. Len(s)] ==
            IF n = 0 THEN <<>>
            ELSE IF n \in positions THEN Append(kept[n - 1], s[n]) ELSE kept[n - 1]
    IN  kept[Len(s)]

\* sort_by_cached_key and dedup_by: equal neighbours are merged.
Canonical(spelled) ==
    LET sorted == Sorted(spelled)
    IN  Retained(sorted, {i \in DOMAIN sorted : i = 1 \/ sorted[i - 1] # sorted[i]})

\* namespace.key(&interface)
KeyOf(r) == <<r.group, r.space>>

Init ==
    /\ decls = <<>> /\ children = <<>>
    /\ stage = "parse"
    /\ regs = <<>> /\ named = 0 /\ known = {}

\* One register_value!, register_type! or register_type_with!.
Declare(spelled, space, kind) ==
    /\ stage = "parse" /\ Len(decls) + Len(children) < MaxDecls
    /\ decls' = Append(decls, [group |-> Canonical(spelled), space |-> space, kind |-> kind])
    /\ UNCHANGED <<children, stage, regs, named, known>>

\* One register_container!.
DeclareChild(name) ==
    /\ stage = "parse" /\ Len(decls) + Len(children) < MaxDecls
    /\ children' = Append(children, name)
    /\ UNCHANGED <<decls, stage, regs, named, known>>

Repeated(s) == \E i, j \in 1 .. Len(s) : i < j /\ s[i] = s[j]

\* validate_names
EndParse ==
    /\ stage = "parse"
    /\ stage' = IF Repeated(children) THEN "duplicate child" ELSE "override"
    /\ UNCHANGED <<decls, children, regs, named, known>>

-------------------------------------------------------------------------------
(* Overriding.                                                               *)

WinsFirst(i) == \A j \in 1 .. i - 1 : KeyOf(decls[j]) # KeyOf(decls[i])

\* winners[key] == i: no later declaration has the same key.
Wins(i) == \A j \in i + 1 .. Len(decls) : KeyOf(decls[j]) # KeyOf(decls[i])

Winning == Retained(decls, {i \in DOMAIN decls : Wins(i)})

Override ==
    /\ stage = "override"
    /\ regs' = Winning
    /\ stage' = "spaces"
    /\ UNCHANGED <<decls, children, named, known>>

\* child.name against the named namespaces of the winning registrations.
CheckSpaces ==
    /\ stage = "spaces"
    /\ stage' = IF \E i \in 1 .. Len(regs), k \in 1 .. Len(children) :
                       regs[i].space # "default" /\ <<regs[i].space>> = children[k]
                THEN "space conflict" ELSE "methods"
    /\ UNCHANGED <<decls, children, regs, named, known>>

-------------------------------------------------------------------------------
(* Naming.                                                                   *)

\* names.sort() and join("_"), each name in snake case.
Snake(group) ==
    LET names == Sorted([k \in DOMAIN group |-> Ident[group[k]]])
        joined[n \in 0 .. Len(group)] ==
            IF n = 0 THEN <<>> ELSE joined[n - 1] \o Words[names[n]]
    IN  joined[Len(group)]

Around(front, back) == [front |-> front, back |-> back]

\* The operations and the names of their methods, before the namespace is added.
Operations ==
    [Owned |-> Around(<<"resolve">>, <<>>),
     TryOwned |-> Around(<<"try", "resolve">>, <<>>),
     Shared |-> Around(<<"resolve">>, <<"ref">>),
     TryShared |-> Around(<<"try", "resolve">>, <<"ref">>),
     TryExclusive |-> Around(<<"try", "resolve">>, <<"ref", "mut">>),
     CloneValue |-> Around(<<"resolve", "clone">>, <<>>),
     TryCloneValue |-> Around(<<"try", "resolve", "clone">>, <<>>),
     DynShared |-> Around(<<"resolve">>, <<"dyn", "ref">>),
     TryDynShared |-> Around(<<"try", "resolve">>, <<"dyn", "ref">>),
     UncheckedOwned |-> Around(<<"resolve">>, <<"unchecked">>),
     UncheckedShared |-> Around(<<"resolve">>, <<"ref", "unchecked">>),
     UncheckedExclusive |-> Around(<<"resolve">>, <<"ref", "mut", "unchecked">>)]

Offered(r) ==
    CASE r.kind = "try_type_with" -> {"TryOwned"}
      [] r.kind = "type_with" -> {"Owned", "TryOwned"}
      [] r.kind = "type" -> {"Owned", "TryOwned", "CloneValue", "TryCloneValue"}
      [] OTHER -> {"Owned", "TryOwned", "CloneValue", "TryCloneValue"}
                  \cup IF Unchecked THEN {"UncheckedOwned"} ELSE {}

BaseName(r, o) == Operations[o].front \o Snake(r.group) \o Operations[o].back

\* The name of a method in its namespace, and its alias in the default one.
SpaceSuffixes(r) == IF r.space = "default" THEN {<<>>, <<"in", "default">>} ELSE {<<"in", r.space>>}
Emitted(r) == {BaseName(r, o) \o suffix : o \in Offered(r), suffix \in SpaceSuffixes(r)}

RecordedWithoutAlias(r) ==
    {BaseName(r, o) \o (IF r.space = "default" THEN <<>> ELSE <<"in", r.space>>) : o \in Offered(r)}

\* names.insert, for methods and aliases.
Recorded(r) == Emitted(r)

\* known.insert for every name of the next registration.
NameMethods ==
    /\ stage = "methods" /\ named < Len(regs)
    /\ LET names == Recorded(regs[named + 1])
       IN  IF names \cap known # {}
           THEN /\ stage' = "name conflict"
                /\ UNCHANGED <<named, known>>
           ELSE /\ known' = known \cup names
                /\ named' = named + 1
                /\ UNCHANGED stage
    /\ UNCHANGED <<decls, children, regs>>

EndMethods ==
    /\ stage = "methods" /\ named = Len(regs)
    /\ stage' = "accessors"
    /\ UNCHANGED <<decls, children, regs, named, known>>

\* method_names.contains_key(child.name)
CheckAccessors ==
    /\ stage = "accessors"
    /\ stage' = IF \E k \in 1 .. Len(children) : children[k] \in known
                THEN "accessor conflict" ELSE "ok"
    /\ UNCHANGED <<decls, children, regs, named, known>>

Primary(r, o) == BaseName(r, o) \o (IF r.space = "default" THEN <<>> ELSE <<"in", r.space>>)

FitsPrimary(r, o, name) == name = Primary(r, o)

Fits(r, o, name) ==
    \/ name = Primary(r, o)
    \/ r.space = "default" /\ name = Primary(r, o) \o <<"in", "default">>

Patterns ==
    <<"Owned", "TryOwned", "Shared", "TryShared", "TryExclusive", "CloneValue", "TryCloneValue",
      "DynShared", "TryDynShared", "UncheckedOwned", "UncheckedShared", "UncheckedExclusive">>

\* scopegen::operation: the first pattern a method's name fits.
Operation(r, name) ==
    LET fitting == {i \in 1 .. Len(Patterns) : Fits(r, Patterns[i], name)}
    IN  IF fitting = {} THEN "none"
        ELSE Patterns[CHOOSE i \in fitting : \A j \in fitting : i <= j]

Finished == stage \in Stage \ {"parse", "override", "spaces", "methods", "accessors"}

Next ==
    \/ \E s \in Spelling, n \in Space, k \in Kind : Declare(s, n, k)
    \/ \E c \in ChildName : DeclareChild(c)
    \/ EndParse \/ Override \/ CheckSpaces \/ NameMethods \/ EndMethods \/ CheckAccessors
    \/ Finished /\ UNCHANGED vars

Spec == Init /\ [][Next]_vars

-------------------------------------------------------------------------------
(* Properties.                                                               *)

Same(r, q) == ToSet(r.group) = ToSet(q.group) /\ r.space = q.space

\* The last declaration of an interface wins: whatever order and repetitions a
\* group is spelt with, each declared identity is left with one registration,
\* the last one, and registrations keep their relative order.
LastWins ==
    stage \notin {"parse", "override", "duplicate child"} =>
        /\ \A i \in 1 .. Len(decls) :
              \E k \in 1 .. Len(regs) :
                 /\ Same(regs[k], decls[i])
                 /\ \A l \in 1 .. Len(regs) : l # k => ~Same(regs[l], decls[i])
                 /\ (\A j \in i + 1 .. Len(decls) : ~Same(decls[j], decls[i]))
                       => regs[k] = decls[i]
        /\ \A k, l \in 1 .. Len(regs) : k < l =>
              \E i, j \in 1 .. Len(decls) : i < j /\ regs[k] = decls[i] /\ regs[l] = decls[j]

\* An accepted container has no two inherent methods of one name, accessors and
\* namespace aliases included, and a name conflict is reported only for one.
NamesUnique ==
    LET Clash == \E i, j \in 1 .. Len(regs) : i < j /\ Emitted(regs[i]) \cap Emitted(regs[j]) # {}
    IN  /\ stage = "ok" => /\ ~Clash
                           /\ \A k \in 1 .. Len(children), i \in 1 .. Len(regs) :
                                 children[k] \notin Emitted(regs[i])
        /\ stage = "name conflict" => Clash

\* Scopes of an accepted container recognize every generated method as the
\* operation it performs, so that the restrictions on consuming operations apply
\* to the right methods.
OperationRecognized ==
    stage = "accessors" =>
      \A k \in 1 .. Len(regs) : \A o \in Offered(regs[k]), suffix \in SpaceSuffixes(regs[k]) :
          Operation(regs[k], BaseName(regs[k], o) \o suffix) = o
===============================================================================
