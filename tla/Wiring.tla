-------------------------------- MODULE Wiring --------------------------------
(***************************************************************************)
(* What the generator derives for the registrations of a container: how     *)
(* each is stored (generate.rs, storage/policy.rs), the slots a constructor  *)
(* needs (wiring.rs), the stored values that calling it may consume and the  *)
(* child containers' operations it may use (scopegen.rs).  The last three    *)
(* are one fold along the dependency-first order, each registration inheriting *)
(* from those placed before it.                                             *)
(***************************************************************************)
EXTENDS Naturals, Sequences

\* How a registration was declared, and what is known of its type.
Form == {f \in [constructor : BOOLEAN, fresh : BOOLEAN, copy : BOOLEAN, clone : BOOLEAN] :
            f.constructor => f.fresh}

\* Its slot: FactorySlot, FreshSlot, CopySlot or ReadSlot (which both hand out
\* copies and keep their value), and otherwise TakeSlot or LocalTakeSlot.
Selected(f) ==
    IF f.constructor THEN "factory"
    ELSE IF f.fresh THEN "fresh"
    ELSE IF f.copy \/ f.clone THEN "copy"
    ELSE "take"

Storage == {Selected(f) : f \in Form}

\* One pass along the order: each registration's entry is extended by what it
\* adds itself and by the entries, as they are by then, of those it inherits from.
Extended(start, adds, from, order) ==
    LET table[k \in 0 .. Len(order)] ==
            IF k = 0 THEN start
            ELSE [table[k - 1] EXCEPT ![order[k]] =
                    @ \cup adds[order[k]]
                      \cup UNION {table[k - 1][d] : d \in from[order[k]]}]
    IN  table[Len(order)]

\* Nothing for anyone.
Nothing(deps) == [i \in DOMAIN deps |-> {}]

\* Not inheriting the second step of a chain.
TransitiveDirect(deps, order) ==
    [i \in DOMAIN deps |-> deps[i] \cup UNION {deps[d] : d \in deps[i]}]

\* Not inheriting at all.
TransitiveOwn(deps, order) == deps

\* wiring::transitive: all[index].extend(all[dependency]) for each direct one.
Transitive(deps, order) == Extended(deps, Nothing(deps), deps, order)

\* wiring::arguments: the constructor's own slot, then all it may reach.
Arguments(index, all) == {index} \cup all[index]

\* The constructors that a constructor calls; the loops of scopegen skip all
\* other registrations.
Called(factory, deps) ==
    [i \in DOMAIN deps |-> IF i \in factory THEN deps[i] \cap factory ELSE {}]

\* Consumption recorded for called constructors only, without inheriting.
ConsumedDirect(factory, fresh, takes, deps, order) ==
    [i \in DOMAIN deps |->
        IF i \in factory THEN takes[i] \ (factory \cup fresh) ELSE {}]

\* scopegen::consumed_dependencies: a constructor's consuming queries of stored
\* values, and what the constructors it calls consume.
Consumed(factory, fresh, takes, deps, order) ==
    LET own == [i \in DOMAIN deps |->
                    IF i \in factory THEN takes[i] \ (factory \cup fresh) ELSE {}]
    IN  Extended(Nothing(deps), own, Called(factory, deps), order)

\* Each constructor answers for the child queries in its own body only.
ChildCallsOwn(factory, own, deps, order) == own

\* scopegen::propagate_child_calls: a constructor's own child queries, and those
\* of the constructors it calls.
ChildCalls(factory, own, deps, order) ==
    Extended(own, Nothing(deps), Called(factory, deps), order)
===============================================================================
