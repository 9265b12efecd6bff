------------------------------ MODULE TypeLookup -------------------------------
(***************************************************************************)
(* How the expansion finds a registration's dependencies (analysis.rs and   *)
(* the loop of generate.rs that drives it): registered_type! lookups are     *)
(* replaced by the type they name, whose own lookups are expanded in turn,   *)
(* and then resolve! queries are collected.  The result is the graph that    *)
(* Schedule orders.                                                          *)
(*                                                                          *)
(* A type is the sequence of lookups it contains.  The traversal goes on     *)
(* after an error, which a later one replaces; it is reported at the end of  *)
(* the registration.                                                         *)
(***************************************************************************)
EXTENDS Integers, Sequences, SequencesExt

CONSTANTS N,         \* number of registrations
          Content,   \* types as declared: sequences of lookups
          Extra,     \* lookups a value or constructor may contain
          Queries    \* sets of queries it may contain

Node == 0 .. N - 1
Missing == N                       \* an interface that is not registered
Lookup == [node : 0 .. N, dyn : BOOLEAN]

ASSUME NAssumption == N \in Nat
ASSUME ContentAssumption == Content \cup Extra \subseteq Seq(Lookup)
ASSUME QueriesAssumption == \A q \in Queries : q \subseteq 0 .. N

VARIABLES types,     \* original_types
          dynamic,   \* registrations with an `as dyn` target
          reg,       \* the registration being analysed
          extra,     \* lookups of its value and constructor
          queries,   \* their queries
          stack,     \* traversal: the lookups left at each level of expansion
          active,    \* registrations being expanded, outermost first
          deps,      \* dependencies found
          error,     \* lookup.error or queries.error
          stage      \* begin, lookup, query, ok or err

inputs == <<types, dynamic>>
vars == <<types, dynamic, reg, extra, queries, stack, active, deps, error, stage>>

None == <<"none">>

Init ==
    /\ types \in [Node -> Content]
    /\ dynamic \in SUBSET Node
    /\ reg = 0
    /\ extra = <<>> /\ queries = {}
    /\ stack = <<>> /\ active = <<>>
    /\ deps = {} /\ error = None
    /\ stage = "begin"

\* A new TypeLookup visits the registration's type, value and constructor.
Begin(e, q) ==
    /\ stage = "begin" /\ reg < N
    /\ extra' = e /\ queries' = q
    /\ stack' = <<types[reg] \o e>>
    /\ active' = <<>> /\ deps' = {} /\ error' = None
    /\ stage' = "lookup"
    /\ UNCHANGED <<inputs, reg>>

Pending == stage = "lookup" /\ Last(stack) # <<>>
lookup == Head(Last(stack))
Rest == Front(stack) \o <<Tail(Last(stack))>>

Fail(e) ==
    /\ error' = e
    /\ stack' = Rest
    /\ UNCHANGED <<inputs, reg, extra, queries, active, deps, stage>>

\* "unregistered type lookup", "dyn type lookup requires an as dyn registration"
RejectLookup ==
    /\ Pending
    /\ \/ lookup.node = Missing /\ Fail(<<"unregistered">>)
       \/ lookup.node # Missing /\ lookup.dyn /\ lookup.node \notin dynamic /\ Fail(<<"not dyn">>)

ReplaceDynForgets ==
    /\ Pending
    /\ lookup.dyn /\ lookup.node \in dynamic
    /\ stack' = Rest
    /\ UNCHANGED <<inputs, reg, extra, queries, active, deps, error, stage>>

\* A dyn lookup is replaced by its target without expanding it.
ReplaceDyn ==
    /\ Pending
    /\ lookup.dyn /\ lookup.node \in dynamic
    /\ deps' = deps \cup {lookup.node}
    /\ stack' = Rest
    /\ UNCHANGED <<inputs, reg, extra, queries, active, error, stage>>

Expands == Pending /\ ~lookup.dyn /\ lookup.node \in Node

ReportWholePath ==
    /\ Expands
    /\ lookup.node \in ToSet(active)
    /\ Fail(<<"cycle">> \o active \o <<lookup.node>>)

\* "Only the repeated suffix is cyclic"
ReportCycle ==
    /\ Expands
    /\ \E start \in 1 .. Len(active) :
          /\ active[start] = lookup.node
          /\ Fail(<<"cycle">> \o SubSeq(active, start, Len(active)) \o <<lookup.node>>)

\* active.push(index), then visit the type put in the lookup's place.
Expand ==
    /\ Expands
    /\ lookup.node \notin ToSet(active)
    /\ active' = Append(active, lookup.node)
    /\ deps' = deps \cup {lookup.node}
    /\ stack' = Append(Rest, types[lookup.node])
    /\ UNCHANGED <<inputs, reg, extra, queries, error, stage>>

\* active.pop()
EndExpansion ==
    /\ stage = "lookup" /\ Last(stack) = <<>> /\ Len(stack) > 1
    /\ stack' = Front(stack)
    /\ active' = Front(active)
    /\ UNCHANGED <<inputs, reg, extra, queries, deps, error, stage>>

EndLookup ==
    /\ stage = "lookup" /\ stack = <<<<>>>>
    /\ stage' = IF error = None THEN "query" ELSE "err"
    /\ UNCHANGED <<inputs, reg, extra, queries, stack, active, deps, error>>

\* Queries adds each queried registration; "unregistered dependency" or a removed
\* borrowing query otherwise.
VisitQueries ==
    /\ stage = "query"
    /\ deps' = deps \cup (queries \ {Missing})
    /\ IF Missing \in queries
       THEN error' = <<"unregistered">> /\ stage' = "err" /\ UNCHANGED reg
       ELSE reg' = reg + 1 /\ stage' = "begin" /\ UNCHANGED error
    /\ UNCHANGED <<inputs, extra, queries, stack, active>>

\* Every registration has its dependencies: on to schedule().
EndAnalysis ==
    /\ stage = "begin" /\ reg = N
    /\ stage' = "ok"
    /\ UNCHANGED <<inputs, reg, extra, queries, stack, active, deps, error>>

Work ==
    \/ \E e \in Extra, q \in Queries : Begin(e, q)
    \/ RejectLookup \/ ReplaceDyn \/ ReportCycle \/ Expand \/ EndExpansion
    \/ EndLookup \/ VisitQueries \/ EndAnalysis

Next == Work \/ (stage \in {"ok", "err"} /\ UNCHANGED vars)

Spec == Init /\ [][Next]_vars

-------------------------------------------------------------------------------
(* Properties.                                                               *)

StaticIn(lookups) == {l.node : l \in {k \in ToSet(lookups) : ~k.dyn}} \cap Node
DynIn(lookups) == {l.node : l \in {k \in ToSet(lookups) : k.dyn}} \cap Node

\* R holds what the lookups name and what the types in it name in turn.
Closed(declared, lookups, R) ==
    StaticIn(lookups) \subseteq R /\ \A i \in R : StaticIn(declared[i]) \subseteq R

\* Registrations whose declared types are part of the expansion of some lookups.
Reached(declared, lookups) ==
    CHOOSE S \in SUBSET Node :
        Closed(declared, lookups, S)
            /\ \A R \in SUBSET S : Closed(declared, lookups, R) => R = S

own == types[reg] \o extra
Texts == {own} \cup {types[i] : i \in Reached(types, own)}

\* The dependencies of an accepted registration are exactly what its expanded
\* type needs, through any number of lookups, and the trait objects it names.
CollectsAll ==
    stage = "query" => deps = Reached(types, own) \cup UNION {DynIn(t) : t \in Texts}

\* The expansion never ends, or meets a lookup that cannot be replaced.
Cyclic == \E i \in Reached(types, own) : i \in Reached(types, types[i])
Faulty == \E t \in Texts, l \in Lookup :
             l \in ToSet(t) /\ (l.node = Missing \/ (l.dyn /\ l.node \notin dynamic))

\* A registration is rejected exactly when its expansion meets a lookup that is
\* not registered or has no dyn target, or never ends; a cycle it reports is a
\* closed path of lookups in declared types, without the lookups leading to it.
RejectsExactly ==
    /\ stage \in {"query", "err"} =>
          (error # None <=> Cyclic \/ Faulty \/ (stage = "err" /\ Missing \in queries))
    /\ error[1] = "cycle" =>
          LET path == Tail(error)
          IN  /\ Len(path) > 1 /\ path[1] = Last(path)
              /\ \A i \in 1 .. Len(path) - 1 : path[i + 1] \in StaticIn(types[path[i]])
              /\ \A i, j \in 1 .. Len(path) - 1 : path[i] = path[j] => i = j
===============================================================================
