--------------------------------- MODULE Scope ---------------------------------
(***************************************************************************)
(* Restricted descriptors of nested containers: the mask types of           *)
(* src/scoped/mask.rs, AsScope and ReScope as scopegen::descriptor           *)
(* implements them, and the Borrowed metadata that names a registration by   *)
(* path (scopegen.rs, child_codegen.rs).                                     *)
(*                                                                          *)
(* The state is one descriptor on its way through the container tree, with   *)
(* `excluded` remembering in plain terms what its restrictions were meant to *)
(* protect.  All of this happens in types; a step here is one projection of  *)
(* the restriction type.                                                     *)
(***************************************************************************)
EXTENDS Key

CONSTANTS Child,      \* names of every container's children
          Space,      \* its namespaces, Default included
          Group,      \* its interface groups
          MaxNames,   \* bound on the restrictions named
          MaxDepth    \* bound on the nesting

ASSUME NamesAssumption ==    \* "child name conflicts with a local namespace"
    Child \cap Space = {} /\ Default \in Space

VARIABLES at,        \* child names from the container where the walk began
          mask,      \* the descriptor's restriction type
          excluded,  \* protected registrations, by absolute path
          named      \* restrictions named so far

vars == <<at, mask, excluded, named>>

Empty == <<"Empty">>
Mask(k, tail) == <<"Mask", k, tail>>
Union(a, b) == <<"Union", a, b>>
Nested(k, m) == <<"Nested", k, m>>

\* Blocked<Key>: restrictions that belong to a child do not apply here.
RECURSIVE Blocked(_, _)
Blocked(m, k) ==
    IF m[1] = "Mask" THEN Or(Equal(k, m[2]), Blocked(m[3], k))
    ELSE IF m[1] = "Union" THEN Or(Blocked(m[2], k), Blocked(m[3], k))
    ELSE "No"

SelectMask(answer, m) == IF answer = "Yes" THEN m ELSE Empty

\* ForChild<Key>: local restrictions are dropped, the child's own are kept.
RECURSIVE ForChild(_, _)
ForChild(m, k) ==
    IF m[1] = "Mask" THEN ForChild(m[3], k)
    ELSE IF m[1] = "Union" THEN Union(ForChild(m[2], k), ForChild(m[3], k))
    ELSE IF m[1] = "Nested" THEN SelectMask(Equal(k, m[2]), m[3])
    ELSE Empty

\* Borrowed<Path, Key>::Mask: local, in a namespace, or below a child.
RECURSIVE BorrowedBy(_, _)
BorrowedBy(path, group) ==
    IF path = <<>> THEN Mask(Restriction(Default, group), Empty)
    ELSE IF Len(path) = 1 /\ Head(path) \in Space
    THEN Mask(Restriction(Head(path), group), Empty)
    ELSE Nested(key(Head(path)), BorrowedBy(Tail(path), group))

\* Lookup paths: children, then possibly a namespace.
ChildPath == UNION {[1 .. n -> Child] : n \in 0 .. MaxDepth}
Path == ChildPath \cup {Append(p, s) : p \in ChildPath, s \in Space}

\* The registration a path and group denote, seen from `from`.
Target(from, path, group) ==
    IF path # <<>> /\ path[Len(path)] \in Space
    THEN [at |-> from \o SubSeq(path, 1, Len(path) - 1), space |-> path[Len(path)], group |-> group]
    ELSE [at |-> from \o path, space |-> Default, group |-> group]

Init == at = <<>> /\ mask = Empty /\ excluded = {} /\ named = 0

Name(registration) ==
    /\ named < MaxNames
    /\ named' = named + 1
    /\ excluded' = excluded \cup {registration}
    /\ UNCHANGED at

\* AsScope::<Mask<K, M>>::scope(&container): a local key ahead of the others.
ScopeWithKey(space, group) ==
    /\ at = <<>>
    /\ Name(Target(at, <<space>>, group))
    /\ mask' = Mask(Restriction(space, group), mask)

\* The masks a parent imposes on a child it registers: Union<mask, tail>.
ScopeWithBorrow(path, group) ==
    /\ at = <<>>
    /\ Name(Target(at, path, group))
    /\ mask' = Union(BorrowedBy(path, group), mask)

RescopeReplaces(path, group) ==
    /\ Name(Target(at, path, group))
    /\ mask' = BorrowedBy(path, group)

\* ReScope<More>::rescope: the backing is scoped by Union<Restrictions, More>.
Rescope(path, group) ==
    /\ Name(Target(at, path, group))
    /\ mask' = Union(mask, BorrowedBy(path, group))

\* A child accessor: the child's stored descriptor, rescoped by what is left for
\* it of the parent's restrictions.
Descend(c) ==
    /\ Len(at) < MaxDepth
    /\ at' = Append(at, c)
    /\ mask' = Union(Empty, ForChild(mask, key(c)))
    /\ UNCHANGED <<excluded, named>>

Next ==
    \/ \E s \in Space, g \in Group : ScopeWithKey(s, g)
    \/ \E p \in Path, g \in Group : ScopeWithBorrow(p, g) \/ Rescope(p, g)
    \/ \E c \in Child : Descend(c)

Spec == Init /\ [][Next]_vars

-------------------------------------------------------------------------------
(* Properties.                                                               *)

\* However a descriptor was reached, its ownership operations on a registration
\* are excluded exactly when some restriction along the way named it: rescoping
\* and descending neither weaken an exclusion nor spread one to a sibling, to
\* another namespace, or to the parent.
ExclusionsExact ==
    \A s \in Space, g \in Group :
        (Blocked(mask, Restriction(s, g)) = "Yes")
            <=> [at |-> at, space |-> s, group |-> g] \in excluded
===============================================================================
