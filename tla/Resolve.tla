------------------------------- MODULE Resolve --------------------------------
(***************************************************************************)
(* Resolving from a built container: the public resolver methods, the       *)
(* constructor helpers they call (systasis-macros/src/generate.rs and        *)
(* wiring.rs), and the restricted scopes that expose only some of them       *)
(* (scopegen.rs).  Threads share the container.  Storage slots are atomic    *)
(* here, as SlotSpec allows; constructors are not: between any two queries   *)
(* of a constructor other threads run, and it may return or unwind.          *)
(* Constructors also query values of child containers, which keep their own  *)
(* slots and which other threads reach without this container.               *)
(*                                                                          *)
(* Registrations are numbered in schedule order, so a constructor queries    *)
(* only lower numbers.                                                       *)
(***************************************************************************)
EXTENDS Integers, Sequences, FiniteSets, Wiring

CONSTANTS N,           \* number of registrations
          Kid,         \* consumable values of its child containers
          Thread,      \* threads using the container
          Scoped,      \* the threads that reach it through a restricted scope
          MaxQueries   \* bound on the queries made during one resolver call

ASSUME NAssumption == N \in Nat
ASSUME KidAssumption == Kid \cap Int = {}
ASSUME ScopedAssumption == Scoped \subseteq Thread

Node == 0 .. N - 1
Order == [k \in 1 .. N |-> k - 1]
Kind == Storage

VARIABLES kind,    \* storage of each registration
          uses,    \* what its constructor queries
          takes,   \* those it queries with try_resolve or resolve_unchecked
          asks,    \* child values its constructor queries
          mask,    \* registrations and child values the scope's restrictions name
          full,    \* take slots still holding their value
          stack,   \* constructor calls of each thread, innermost last
          queries, \* queries made so far in its resolver call
          root,    \* registration of the thread's current or last resolver call
          taken,   \* values moved out of their slots during that call
          out,     \* values delivered to each thread's own code
          drops    \* how often each value was dropped

inputs == <<kind, uses, takes, asks, mask>>
vars == <<kind, uses, takes, asks, mask, full, stack, queries, root, taken, out, drops>>

Stored == {n \in Node : kind[n] = "take"}
Factory == {n \in Node : kind[n] = "factory"}
Fresh == {n \in Node : kind[n] = "fresh"}
Value == Stored \cup Kid

\* A consumable value is queried with try_resolve; only constructors query after
\* the build, and what initializers asked of children is cleared.  A restriction that names a
\* constructor or a fresh value excludes nothing.
Init ==
    /\ kind \in [Node -> Kind]
    /\ uses \in [Node -> SUBSET Node]
    /\ \A n \in Node : uses[n] \subseteq IF n \in Factory THEN 0 .. n - 1 ELSE {}
    /\ takes \in {[n \in Node |-> uses[n] \cap S] : S \in {Node, Stored}}
    /\ asks \in [Node -> SUBSET Kid]
    /\ \A n \in Node \ Factory : asks[n] = {}
    /\ mask \in SUBSET ((Node \ (Factory \cup Fresh)) \cup Kid)
    /\ full = Value
    /\ stack = [t \in Thread |-> <<>>]
    /\ queries = [t \in Thread |-> 0]
    /\ root = [t \in Thread |-> 0]
    /\ taken = [t \in Thread |-> {}]
    /\ out = [t \in Thread |-> {}]
    /\ drops = [v \in Value |-> 0]

\* The generator's tables.
transitive == Transitive(uses, Order)
consumed == Consumed(Factory, Fresh, takes, uses, Order)
calls == ChildCalls(Factory, asks, uses, Order)

-------------------------------------------------------------------------------
(* Resolver methods.                                                         *)

AllowedOwn(i) == kind[i] = "take" => i \notin mask

\* The where clauses of a scope's method: none of the values it may consume is
\* Blocked by the restrictions, and the scope's children still offer each
\* operation that it may ask of them.
Allowed(i) ==
    /\ consumed[i] \cap mask = {}
    /\ calls[i] \cap mask = {}
    /\ kind[i] = "take" => i \notin mask

\* Every way in: the container's own methods, or the scope's.
MayCall(t, i) == stack[t] = <<>> /\ (t \in Scoped => Allowed(i))

Frame(i) == [node |-> i, got |-> {}]
Top(t) == stack[t][Len(stack[t])]
Callers(t) == SubSeq(stack[t], 1, Len(stack[t]) - 1)
WithTop(t, frame) == Callers(t) \o <<frame>>

\* resolve_x on a constructor registration: call its helper.
CallConstructor(t, i) ==
    /\ MayCall(t, i) /\ i \in Factory
    /\ stack' = [stack EXCEPT ![t] = <<Frame(i)>>]
    /\ root' = [root EXCEPT ![t] = i]
    /\ taken' = [taken EXCEPT ![t] = {}]
    /\ UNCHANGED <<inputs, full, queries, out, drops>>

\* try_resolve_x on a consumable value that is there.
CallTake(t, i) ==
    /\ MayCall(t, i) /\ i \in full
    /\ full' = full \ {i}
    /\ out' = [out EXCEPT ![t] = @ \cup {i}]
    /\ root' = [root EXCEPT ![t] = i]
    /\ taken' = [taken EXCEPT ![t] = {i}]
    /\ UNCHANGED <<inputs, stack, queries, drops>>

\* A copy, a fresh default, or an access error: nothing moves.
CallOther(t, i) ==
    /\ MayCall(t, i) /\ i \notin Factory
    /\ i \in full => Thread \ {t} # {}
    /\ root' = [root EXCEPT ![t] = i]
    /\ taken' = [taken EXCEPT ![t] = {}]
    /\ UNCHANGED <<inputs, full, stack, queries, out, drops>>

\* A child's own try_resolve, reached through its reference or, by a scope,
\* through the child descriptor.
CallChild(t, v) ==
    /\ stack[t] = <<>> /\ v \in full
    /\ t \in Scoped => v \notin mask
    /\ full' = full \ {v}
    /\ out' = [out EXCEPT ![t] = @ \cup {v}]
    /\ root' = [root EXCEPT ![t] = v]
    /\ taken' = [taken EXCEPT ![t] = {v}]
    /\ UNCHANGED <<inputs, stack, queries, drops>>

-------------------------------------------------------------------------------
(* A constructor's queries, through the slots of its context.                *)

Counted(t) == queries' = [queries EXCEPT ![t] = @ + 1]

MayQuery(t, d) == stack[t] # <<>> /\ queries[t] < MaxQueries /\ d \in uses[Top(t).node]

\* __systasis_construct_d(self.slots..., self._children)
QueryConstructor(t, d) ==
    /\ MayQuery(t, d) /\ d \in Factory
    /\ stack' = [stack EXCEPT ![t] = Append(@, Frame(d))]
    /\ Counted(t)
    /\ UNCHANGED <<inputs, full, root, taken, out, drops>>

\* slot.try_resolve() on a consumable value that is there.
QueryTake(t, d) ==
    /\ MayQuery(t, d) /\ d \in full
    /\ full' = full \ {d}
    /\ stack' = [stack EXCEPT ![t] =
                    WithTop(t, [Top(t) EXCEPT !.got = @ \cup {d}])]
    /\ taken' = [taken EXCEPT ![t] = @ \cup {d}]
    /\ Counted(t)
    /\ UNCHANGED <<inputs, root, out, drops>>

\* A query that moves nothing: a copy, a fresh default, or an access error,
\* because the value is gone or another thread is using the slot.
QueryOther(t, d) ==
    /\ MayQuery(t, d) /\ d \notin Factory
    /\ d \in full => Thread \ {t} # {}
    /\ Counted(t)
    /\ UNCHANGED <<inputs, full, stack, root, taken, out, drops>>

\* Resolve::<path, key, op>::resolve(&self._children.i), answered or refused.
QueryChild(t, v) ==
    /\ stack[t] # <<>> /\ queries[t] < MaxQueries /\ v \in asks[Top(t).node]
    /\ \E got \in {{v} \cap full, {}} :
          /\ full' = full \ got
          /\ stack' = [stack EXCEPT ![t] =
                          WithTop(t, [Top(t) EXCEPT !.got = @ \cup got])]
          /\ taken' = [taken EXCEPT ![t] = @ \cup got]
    /\ Counted(t)
    /\ UNCHANGED <<inputs, root, out, drops>>

DropAll(S) == drops' = [v \in Value |-> IF v \in S THEN drops[v] + 1 ELSE drops[v]]

\* Nothing is remembered of a finished constructor call.
EndCall(t) ==
    /\ queries' = [queries EXCEPT ![t] = 0]
    /\ root' = [root EXCEPT ![t] = 0]
    /\ taken' = [taken EXCEPT ![t] = {}]

\* The calling constructor's frame gets what the innermost one hands back.
HandedBack(t, kept) == [Callers(t) EXCEPT ![Len(stack[t]) - 1].got = @ \cup kept]

ReturnRollsBack(t) ==
    /\ stack[t] # <<>>
    /\ full' = full \cup Top(t).got
    /\ \E kept \in {Top(t).got, {}} :
          /\ IF Len(stack[t]) = 1
             THEN /\ out' = [out EXCEPT ![t] = @ \cup kept]
                  /\ stack' = [stack EXCEPT ![t] = <<>>]
                  /\ EndCall(t)
             ELSE /\ stack' = [stack EXCEPT ![t] = HandedBack(t, kept)]
                  /\ UNCHANGED <<queries, root, taken, out>>
          /\ DropAll(Top(t).got \ kept)
    /\ UNCHANGED inputs

\* The constructor returns Ok or Err.  What it took is part of the result, or
\* dropped; nothing goes back into a slot.
Return(t) ==
    /\ stack[t] # <<>>
    /\ \E kept \in {Top(t).got, {}} :
          /\ IF Len(stack[t]) = 1
             THEN /\ out' = [out EXCEPT ![t] = @ \cup kept]
                  /\ stack' = [stack EXCEPT ![t] = <<>>]
                  /\ EndCall(t)
             ELSE /\ stack' = [stack EXCEPT ![t] = HandedBack(t, kept)]
                  /\ UNCHANGED <<queries, root, taken, out>>
          /\ DropAll(Top(t).got \ kept)
    /\ UNCHANGED <<inputs, full>>

\* A constructor, or the unreachable! of an unchecked query, unwinds the call.
Unwind(t) ==
    /\ stack[t] # <<>>
    /\ stack' = [stack EXCEPT ![t] = <<>>]
    /\ EndCall(t)
    /\ DropAll(UNION {stack[t][k].got : k \in 1 .. Len(stack[t])})
    /\ UNCHANGED <<inputs, full, out>>

Inside(t) ==
    \/ \E d \in Node : QueryConstructor(t, d) \/ QueryTake(t, d) \/ QueryOther(t, d)
    \/ \E v \in Kid : QueryChild(t, v)
    \/ Return(t) \/ Unwind(t)

Next ==
    \E t \in Thread :
        \/ \E i \in Node : CallConstructor(t, i) \/ CallTake(t, i) \/ CallOther(t, i)
        \/ \E v \in Kid : CallChild(t, v)
        \/ Inside(t)

Spec == Init /\ [][Next]_vars

-------------------------------------------------------------------------------
(* Properties.                                                               *)

\* Ownership is conserved: every consumable value, a child's too, is in its slot,
\* in one running constructor, with one caller, or dropped once; failure and
\* unwinding neither duplicate nor lose it.
OneOwner ==
    \A v \in Value :
        Cardinality({t \in Thread : v \in out[t]})
        + Cardinality({p \in Thread \X (1 .. N) :
                          p[2] <= Len(stack[p[1]]) /\ v \in stack[p[1]][p[2]].got})
        + drops[v] = IF v \in full THEN 0 ELSE 1

\* The generator's tables are sound: a resolver call takes only the registration
\* it names and the values that consumed_dependencies and propagate_child_calls
\* recorded for it, however deep the constructor that takes them.
OnlyDeclared ==
    \A t \in Thread :
        taken[t] \subseteq {root[t]}
            \cup UNION {consumed[i] \cup calls[i] : i \in {root[t]} \cap Node}

\* A restricted scope protects what it names, in the container and in its
\* children: no operation it offers, directly or through constructors, moves
\* such a value out.
MaskRespected ==
    \A t \in Scoped : taken[t] \cap mask = {}

\* A constructor can hand every slot that a constructor it calls needs, and none
\* of them is its own (a native closure's context leaves its own slot out).
ContextCovers ==
    \A t \in Thread : \A k \in 1 .. Len(stack[t]) - 1 :
        Arguments(stack[t][k + 1].node, transitive)
            \subseteq Arguments(stack[t][k].node, transitive) \ {stack[t][k].node}
===============================================================================
