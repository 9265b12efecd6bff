----------------------------- MODULE LocalTakeSlot -----------------------------
(***************************************************************************)
(* LocalTakeSlot, the consumable slot confined to one thread                *)
(* (src/storage/local.rs): RefCell<Option<T>> with non-atomic borrow         *)
(* tracking.  Nothing runs concurrently, but a payload's Clone is user code  *)
(* that can call back into the slot while the outer borrow is alive, and     *)
(* guards outlive the calls that made them.                                  *)
(*                                                                          *)
(* A caller is one activation plus the guard it returned; `stack` holds the  *)
(* activations whose Clone is executing, innermost last.                     *)
(***************************************************************************)
EXTENDS Integers, Sequences, FiniteSets

CONSTANTS Caller,     \* activations of slot operations
          Empty,      \* None: the payload was moved out
          MaxWrites   \* bound on writes through RefMut

ASSUME EmptyAssumption == Empty \notin Int
ASSUME MaxWritesAssumption == MaxWrites \in Nat
ASSUME CallerAssumption == IsFiniteSet(Caller)

VARIABLES value,      \* version of the payload, or Empty
          borrow,     \* RefCell's flag: -1 exclusive, n > 0 shared
          leaked,     \* borrow kind retained by forgotten guards
          pc,         \* idle, call, cloning, answered or holding
          op,         \* the operation
          ref,        \* payload reference the caller can use
          seen,       \* the payload when it was formed
          answer,     \* the operation's result
          stack       \* callers inside T::clone

vars == <<value, borrow, leaked, pc, op, ref, seen, answer, stack>>

Op == {"resolve", "ref", "ref_mut", "clone"}

TypeOK ==
    /\ value \in Nat \cup {Empty}
    /\ borrow \in -1 .. Cardinality(Caller) + 1
    /\ leaked \in {"none", "read", "write"}
    /\ pc \in [Caller -> {"idle", "call", "cloning", "answered", "holding"}]
    /\ op \in [Caller -> Op]
    /\ ref \in [Caller -> {"none", "shared", "mut"}]
    /\ seen \in [Caller -> Nat \cup {Empty}]
    /\ answer \in [Caller -> {"none", "ok", "contention", "consumed", "panic"}]
    /\ stack \in Seq(Caller)

Init ==
    /\ value = 0
    /\ borrow = 0
    /\ leaked = "none"
    /\ pc = [c \in Caller |-> "idle"]
    /\ op = [c \in Caller |-> "ref"]
    /\ ref = [c \in Caller |-> "none"]
    /\ seen = [c \in Caller |-> 0]
    /\ answer = [c \in Caller |-> "none"]
    /\ stack = <<>>

Answer(c, a) ==
    /\ answer' = [answer EXCEPT ![c] = a]
    /\ pc' = [pc EXCEPT ![c] = "answered"]

\* One thread: a call starts only when no other call is between its start and
\* its return, other than those suspended in Clone.
ThreadFree == \A d \in Caller : pc[d] \notin {"call", "answered"}

Invoke(c, o) ==
    /\ ThreadFree
    /\ pc[c] = "idle"
    /\ pc' = [pc EXCEPT ![c] = "call"]
    /\ op' = [op EXCEPT ![c] = o]
    /\ answer' = [answer EXCEPT ![c] = "none"]
    /\ UNCHANGED <<value, borrow, leaked, ref, seen, stack>>

\* RefCell::try_borrow and try_borrow_mut.
CanBorrow == borrow >= 0
CanBorrowMut == borrow = 0

Calling(c, ops) == pc[c] = "call" /\ op[c] \in ops
Refused(c) == IF op[c] \in {"ref", "clone"} THEN ~CanBorrow ELSE ~CanBorrowMut

\* map_err(|_| ValueAccessContention)
Contended(c) ==
    /\ Calling(c, Op)
    /\ Refused(c)
    /\ Answer(c, "contention")
    /\ UNCHANGED <<value, borrow, leaked, op, ref, seen, stack>>

ConsumedKeepsBorrow(c) ==
    /\ Calling(c, Op)
    /\ ~Refused(c) /\ value = Empty
    /\ Answer(c, "consumed")
    /\ borrow' = IF op[c] = "ref" THEN borrow + 1 ELSE borrow
    /\ UNCHANGED <<value, leaked, op, ref, seen, stack>>

\* take().ok_or and filter_map(..).map_err: the temporary borrow is released.
Consumed(c) ==
    /\ Calling(c, Op)
    /\ ~Refused(c) /\ value = Empty
    /\ Answer(c, "consumed")
    /\ UNCHANGED <<value, borrow, leaked, op, ref, seen, stack>>

TakeBorrowed(c) ==
    /\ Calling(c, {"resolve"})
    /\ value # Empty
    /\ value' = Empty
    /\ Answer(c, "ok")
    /\ UNCHANGED <<borrow, leaked, op, ref, seen, stack>>

Take(c) ==
    /\ Calling(c, {"resolve"})
    /\ ~Refused(c) /\ value # Empty
    /\ value' = Empty
    /\ Answer(c, "ok")
    /\ UNCHANGED <<borrow, leaked, op, ref, seen, stack>>

\* A guard is retained after the occupancy check; a clone keeps it while the
\* payload's Clone runs.
Borrow(c) ==
    /\ Calling(c, {"ref", "clone"})
    /\ ~Refused(c) /\ value # Empty
    /\ borrow' = borrow + 1
    /\ ref' = [ref EXCEPT ![c] = "shared"]
    /\ seen' = [seen EXCEPT ![c] = value]
    /\ IF op[c] = "ref"
       THEN /\ pc' = [pc EXCEPT ![c] = "holding"]
            /\ answer' = [answer EXCEPT ![c] = "ok"]
            /\ UNCHANGED stack
       ELSE /\ pc' = [pc EXCEPT ![c] = "cloning"]
            /\ stack' = Append(stack, c)
            /\ UNCHANGED answer
    /\ UNCHANGED <<value, leaked, op>>

BorrowMut(c) ==
    /\ Calling(c, {"ref_mut"})
    /\ ~Refused(c) /\ value # Empty
    /\ borrow' = -1
    /\ ref' = [ref EXCEPT ![c] = "mut"]
    /\ seen' = [seen EXCEPT ![c] = value]
    /\ pc' = [pc EXCEPT ![c] = "holding"]
    /\ answer' = [answer EXCEPT ![c] = "ok"]
    /\ UNCHANGED <<value, leaked, op, stack>>

\* T::clone returns or unwinds; the borrow ends either way.
CloneReturns(c) ==
    /\ ThreadFree
    /\ stack # <<>> /\ stack[Len(stack)] = c
    /\ stack' = SubSeq(stack, 1, Len(stack) - 1)
    /\ borrow' = borrow - 1
    /\ ref' = [ref EXCEPT ![c] = "none"]
    /\ \E a \in {"ok", "panic"} : Answer(c, a)
    /\ UNCHANGED <<value, leaked, op, seen>>

Return(c) ==
    /\ pc[c] = "answered"
    /\ pc' = [pc EXCEPT ![c] = "idle"]
    /\ UNCHANGED <<value, borrow, leaked, op, ref, seen, answer, stack>>

Write(c) ==
    /\ ThreadFree
    /\ pc[c] = "holding" /\ ref[c] = "mut"
    /\ value < MaxWrites
    /\ value' = value + 1
    /\ seen' = [seen EXCEPT ![c] = value + 1]
    /\ UNCHANGED <<borrow, leaked, pc, op, ref, answer, stack>>

DropGuard(c) ==
    /\ ThreadFree
    /\ pc[c] = "holding"
    /\ borrow' = IF ref[c] = "mut" THEN 0 ELSE borrow - 1
    /\ ref' = [ref EXCEPT ![c] = "none"]
    /\ pc' = [pc EXCEPT ![c] = "idle"]
    /\ UNCHANGED <<value, leaked, op, seen, answer, stack>>

\* mem::forget on a guard; bounded to one shared guard.
ForgetGuard(c) ==
    /\ ThreadFree
    /\ pc[c] = "holding" /\ leaked = "none"
    /\ leaked' = IF ref[c] = "mut" THEN "write" ELSE "read"
    /\ ref' = [ref EXCEPT ![c] = "none"]
    /\ pc' = [pc EXCEPT ![c] = "idle"]
    /\ UNCHANGED <<value, borrow, op, seen, answer, stack>>

Next ==
    \E c \in Caller :
        \/ \E o \in Op : Invoke(c, o)
        \/ Contended(c) \/ Consumed(c) \/ Take(c) \/ Borrow(c) \/ BorrowMut(c)
        \/ CloneReturns(c) \/ Return(c)
        \/ Write(c) \/ DropGuard(c) \/ ForgetGuard(c)

Spec == Init /\ [][Next]_vars

-------------------------------------------------------------------------------
(* Properties.                                                               *)

\* RefCell's counter counts exactly the live and forgotten borrows, so no
\* sequence of nested clones and guard drops can free a borrowed slot or leave
\* a free one locked.
BorrowCounted ==
    LET shared == {c \in Caller : ref[c] = "shared"}
        mut == {c \in Caller : ref[c] = "mut"}
    IN  /\ TypeOK
        /\ borrow = IF mut # {} \/ leaked = "write" THEN -1
                    ELSE Cardinality(shared) + IF leaked = "read" THEN 1 ELSE 0

\* A payload with a live shared borrow, a suspended Clone's included, is neither
\* taken nor written.
SharedStable == \A c \in Caller : ref[c] = "shared" => value = seen[c]

phaseBar == [c \in Caller |-> IF pc[c] \in {"call", "cloning"} THEN "pending" ELSE pc[c]]
accessBar == [c \in Caller |-> IF pc[c] = "cloning" THEN "none" ELSE ref[c]]

Abstract == INSTANCE SlotSpec WITH
    reserved <- FALSE, phase <- phaseBar, access <- accessBar

\* LocalTakeSlot keeps the promises of the synchronized slot.
ImplementsSlot == Abstract!Spec
===============================================================================
