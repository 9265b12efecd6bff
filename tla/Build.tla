-------------------------------- MODULE Build ---------------------------------
(***************************************************************************)
(* The life of a generated container, from the registration block to the    *)
(* built container or the returned error: the code expand_inner emits       *)
(* around Builder (systasis-macros/src/generate.rs) and the runtime helpers  *)
(* it calls (src/builder.rs, src/lib.rs).                                    *)
(*                                                                          *)
(* Every registration that stores something owns one resource: the input    *)
(* its initializer moves in, later the stored value, or a constructor's      *)
(* captures.  `loc` follows each resource through captures, initializers,    *)
(* slots, values it became part of, and errors, so that losing or dropping   *)
(* one twice is visible.  A child container, shared with the rest of the     *)
(* program, contributes values that initializers may take from it.           *)
(*                                                                          *)
(* Registrations are numbered in schedule order: nothing here depends on the *)
(* order in which they were declared.                                        *)
(***************************************************************************)
EXTENDS Integers, Sequences, Wiring

CONSTANTS N,       \* number of registrations
          Child    \* consumable values of child containers

Node == 0 .. N - 1
Res == Node \cup Child
order == [i \in 1 .. N |-> i - 1]      \* graph::schedule of the registrations

ASSUME NAssumption == N \in Nat
ASSUME ChildAssumption == Child \cap Int = {}

VARIABLES kind,    \* how each registration is stored
          deps,    \* the slots and child values its type and expressions mention
          phase,   \* declared, building, discarding, or one of the outcomes
          pos,     \* position in order of the next slot to initialize or discard
          error,   \* systasis_error is Some
          running, \* an initializer is executing
          todo,    \* queries it still makes
          slot,    \* each __systasis_slot_i
          loc,     \* where each resource is
          root,    \* the value a resource is part of, when it is "inside" one
          drops,   \* how often each resource was dropped
          log      \* slots discarded after an error, in order

inputs == <<kind, deps>>
vars == <<kind, deps, phase, pos, error, running, todo, slot, loc, root, drops, log>>

Kind == Storage
Over == {"built", "failed", "abandoned", "unwound", "gone"}
Owned == {"pending", "work", "slot", "inside"}     \* still owned by this container

\* What schedule() guarantees for the registrations (Schedule's CompleteOrder
\* and DependencyFirst).
IsSchedule(d) == \A n \in Node : d[n] \cap Node \subseteq 0 .. n - 1

\* Captured inputs and constructor captures exist before the builder does.
Init ==
    /\ kind \in [Node -> Kind]
    /\ deps \in [Node -> SUBSET Res]
    /\ IsSchedule(deps)
    /\ phase = "declared" /\ pos = 0 /\ error = FALSE
    /\ running = FALSE /\ todo = {}
    /\ slot = [n \in Node |-> "unset"]
    /\ loc = [r \in Res |-> IF r \in Child THEN "slot"
                            ELSE IF kind[r] = "fresh" THEN "void" ELSE "pending"]
    /\ root = [r \in Res |-> -1]
    /\ drops = [r \in Res |-> 0]
    /\ log = <<>>

all == Transitive([n \in Node |-> deps[n] \cap Node], order)

\* A value together with the values it took over.
Whole(S) == S \cup {r \in Res : loc[r] = "inside" /\ root[r] \in S}

DropAll(S) ==
    /\ loc' = [r \in Res |-> IF r \in S THEN "dropped" ELSE loc[r]]
    /\ drops' = [r \in Res |-> IF r \in S THEN drops[r] + 1 ELSE drops[r]]

-------------------------------------------------------------------------------
(* Builder                                                                   *)

AbandonLeaks ==
    /\ phase = "declared"
    /\ phase' = "abandoned"
    /\ DropAll({n \in Node : loc[n] = "pending" /\ kind[n] = "factory"})
    /\ UNCHANGED <<inputs, pos, error, running, todo, slot, root, log>>

\* Dropping the Builder drops the closure's captures and runs nothing.
Abandon ==
    /\ phase = "declared"
    /\ phase' = "abandoned"
    /\ DropAll({n \in Node : loc[n] = "pending"})
    /\ UNCHANGED <<inputs, pos, error, running, todo, slot, root, log>>

\* Builder::build consumes the builder and calls the closure.
StartBuild ==
    /\ phase = "declared"
    /\ phase' = "building" /\ pos' = 1
    /\ UNCHANGED <<inputs, error, running, todo, slot, loc, root, drops, log>>

-------------------------------------------------------------------------------
(* The initialization statement of the slot at pos.                          *)

current == order[pos]
AtSlot == phase = "building" /\ ~running /\ pos <= N

\* FactorySlot or FreshSlot: no initializer runs.
StoreFactory ==
    /\ AtSlot /\ ~error
    /\ kind[current] \in {"factory", "fresh"}
    /\ slot' = [slot EXCEPT ![current] = "some"]
    /\ loc' = [loc EXCEPT ![current] = IF @ = "pending" THEN "slot" ELSE @]
    /\ pos' = pos + 1
    /\ UNCHANGED <<inputs, phase, error, running, todo, root, drops, log>>

BeginDespiteError ==
    /\ AtSlot
    /\ kind[current] \in {"copy", "take"}
    /\ running' = TRUE
    /\ todo' = deps[current]
    /\ loc' = [loc EXCEPT ![current] = "work"]
    /\ UNCHANGED <<inputs, phase, pos, error, slot, root, drops, log>>

\* initialize_once(|| ...): the initializer's captures move into it.
BeginInitializer ==
    /\ AtSlot /\ ~error
    /\ kind[current] \in {"copy", "take"}
    /\ running' = TRUE
    /\ todo' = deps[current]
    /\ loc' = [loc EXCEPT ![current] = "work"]
    /\ UNCHANGED <<inputs, phase, pos, error, slot, root, drops, log>>

\* Values held in a TakeSlot or LocalTakeSlot.
Consumable == Child \cup {n \in Node : kind[n] = "take"}

\* A query in the initializer.  A constructor runs its own queries; a
\* consumable value moves out if it is still there (and, in a child shared
\* with other threads, if it is not contended); copies change nothing.
Query(d) ==
    /\ running /\ d \in todo
    /\ todo' = (todo \ {d}) \cup (IF d \in Node /\ kind[d] = "factory" THEN deps[d] ELSE {})
    /\ \/ /\ d \in Consumable /\ loc[d] = "slot"
          /\ loc' = [loc EXCEPT ![d] = "work"]
       \/ /\ d \in Child \/ d \notin Consumable \/ loc[d] # "slot"
          /\ UNCHANGED loc
    /\ UNCHANGED <<inputs, phase, pos, error, running, slot, root, drops, log>>

Work == Whole({r \in Res : loc[r] = "work"})

\* The initializer returns its value, perhaps without making every query; what
\* it took becomes part of the value or is dropped.
FinishInitializer ==
    /\ running
    /\ running' = FALSE /\ todo' = {}
    /\ slot' = [slot EXCEPT ![current] = "some"]
    /\ \E kept \in {Work, {current}} :
          /\ loc' = [r \in Res |-> IF r = current THEN "slot"
                                   ELSE IF r \in kept THEN "inside"
                                   ELSE IF r \in Work THEN "dropped" ELSE loc[r]]
          /\ root' = [r \in Res |-> IF r \in kept \ {current} THEN current ELSE root[r]]
          /\ drops' = [r \in Res |-> IF r \in Work \ kept THEN drops[r] + 1 ELSE drops[r]]
    /\ pos' = pos + 1
    /\ UNCHANGED <<inputs, phase, error, log>>

\* The initializer returns early with an error, which may own what it took.
FailInitializer ==
    /\ running
    /\ running' = FALSE /\ todo' = {}
    /\ error' = TRUE
    /\ slot' = [slot EXCEPT ![current] = "none"]
    /\ \E kept \in {Work, {}} :
          /\ loc' = [r \in Res |-> IF r \in kept THEN "error"
                                   ELSE IF r \in Work THEN "dropped" ELSE loc[r]]
          /\ drops' = [r \in Res |-> IF r \in Work \ kept THEN drops[r] + 1 ELSE drops[r]]
    /\ pos' = pos + 1
    /\ UNCHANGED <<inputs, phase, root, log>>

\* The initializer panics: its locals, the slots and the captures are unwound.
Unwind ==
    /\ running
    /\ running' = FALSE /\ todo' = {}
    /\ phase' = "unwound"
    /\ DropAll(Work \cup {n \in Node : loc[n] \in Owned}
                    \cup {r \in Res : loc[r] = "inside"})
    /\ UNCHANGED <<inputs, pos, error, slot, root, log>>

\* Some(_) => { discard(capture_owner); (None, error) }
SkipSlot ==
    /\ AtSlot /\ error
    /\ slot' = [slot EXCEPT ![current] = "none"]
    /\ IF kind[current] = "factory" THEN DropAll({current}) ELSE UNCHANGED <<loc, drops>>
    /\ pos' = pos + 1
    /\ UNCHANGED <<inputs, phase, error, running, todo, root, log>>

-------------------------------------------------------------------------------
(* The final match.                                                          *)

\* Ok(container): every slot is moved into its field.
Publish ==
    /\ phase = "building" /\ pos = N + 1 /\ ~error
    /\ phase' = "built"
    /\ UNCHANGED <<inputs, pos, error, running, todo, slot, loc, root, drops, log>>

DiscardForward ==
    /\ phase = "building" /\ pos = N + 1 /\ error
    /\ phase' = "failed"
    /\ log' = SelectSeq(order, LAMBDA n : slot[n] = "some")
    /\ DropAll({r \in Node : loc[r] \in {"slot", "inside", "pending"}}
               \cup {r \in Res : loc[r] = "inside"})
    /\ UNCHANGED <<inputs, pos, error, running, todo, slot, root>>

StartDiscard ==
    /\ phase = "building" /\ pos = N + 1 /\ error
    /\ phase' = "discarding" /\ pos' = N
    /\ UNCHANGED <<inputs, error, running, todo, slot, loc, root, drops, log>>

DiscardTaken ==
    /\ phase = "discarding" /\ pos > 0
    /\ IF slot[current] = "some"
       THEN DropAll(Whole({current})) /\ log' = Append(log, current)
       ELSE UNCHANGED <<loc, drops, log>>
    /\ pos' = pos - 1
    /\ UNCHANGED <<inputs, phase, error, running, todo, slot, root>>

\* discard(slot), in the reverse of initialization order.
Discard ==
    /\ phase = "discarding" /\ pos > 0
    /\ IF slot[current] = "some"
       THEN /\ DropAll(Whole({current} \cap {r \in Res : loc[r] = "slot"}))
            /\ log' = Append(log, current)
       ELSE UNCHANGED <<loc, drops, log>>
    /\ pos' = pos - 1
    /\ UNCHANGED <<inputs, phase, error, running, todo, slot, root>>

\* Err(error) leaves the closure, whose unused captures are dropped.
ReturnError ==
    /\ phase = "discarding" /\ pos = 0
    /\ phase' = "failed"
    /\ DropAll({n \in Node : loc[n] = "pending"})
    /\ UNCHANGED <<inputs, pos, error, running, todo, slot, root, log>>

\* The owner drops the container, and with it every field.
DropContainer ==
    /\ phase = "built"
    /\ phase' = "gone"
    /\ DropAll(Whole({n \in Node : loc[n] = "slot"}))
    /\ UNCHANGED <<inputs, pos, error, running, todo, slot, root, log>>

\* Another user of the child container takes a value from it.
TakeElsewhere(r) ==
    /\ r \in Child /\ loc[r] = "slot"
    /\ loc' = [loc EXCEPT ![r] = "elsewhere"]
    /\ UNCHANGED <<inputs, phase, pos, error, running, todo, slot, root, drops, log>>

BuildStep ==
    \/ StoreFactory \/ BeginInitializer \/ (\E d \in todo : Query(d))
    \/ FinishInitializer \/ FailInitializer \/ Unwind \/ SkipSlot
    \/ Publish \/ StartDiscard \/ Discard \/ ReturnError

Done == phase \in Over /\ UNCHANGED vars

Next ==
    \/ Abandon \/ StartBuild \/ BuildStep \/ DropContainer
    \/ \E r \in Child : TakeElsewhere(r)
    \/ Done

Spec == Init /\ [][Next]_vars

-------------------------------------------------------------------------------
(* Properties.                                                               *)

\* Both unreachable! claims of the closure: each slot that a running initializer
\* hands to a query or, for its whole context, to a constructor is Some
\* ("dependency layer completed before this initializer"), however earlier ones
\* ended; and so is each slot that publication unwraps ("successful build
\* initialized every slot").
UnwrapsSucceed ==
    /\ running => \A d \in todo \cap Node, e \in Node :
                      e \in Arguments(d, all) => slot[e] = "some"
    /\ phase = "built" => \A n \in Node : slot[n] = "some"

\* No resource is dropped twice, nor used after its drop.
DroppedOnce ==
    \A r \in Res : drops[r] = IF loc[r] = "dropped" THEN 1 ELSE 0

\* Abandoning, failing or unwinding a build leaves nothing behind but what the
\* returned error owns, before control is back with the caller; child values
\* not taken stay with their container.
NothingLeftBehind ==
    phase \in {"abandoned", "failed", "unwound", "gone"} =>
        /\ \A n \in Node : loc[n] \in {"void", "dropped", "error"}
        /\ \A r \in Child : loc[r] \in {"slot", "elsewhere", "dropped", "error"}
        /\ (\E r \in Res : loc[r] = "error") => phase = "failed"

\* A failed build discards its slots in the reverse of initialization order.
ReverseDiscard ==
    \A i, j \in 1 .. Len(log), p, q \in 1 .. N :
        i < j /\ order[p] = log[i] /\ order[q] = log[j] => q < p
===============================================================================
