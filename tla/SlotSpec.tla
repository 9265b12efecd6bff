------------------------------- MODULE SlotSpec -------------------------------
(***************************************************************************)
(* What a consumable slot promises its callers, with every operation taking *)
(* effect in one atomic step between its invocation and its return.         *)
(*                                                                          *)
(* A caller is one activation of a slot operation together with the guard   *)
(* or reference it returned: a thread that holds two guards, or that        *)
(* re-enters the slot from a payload's Clone, is two callers.               *)
(*                                                                          *)
(* The promises are the guards below: a value is taken or mutably borrowed  *)
(* only when nobody else can reach it, AlreadyConsumed is answered only     *)
(* when the value is gone, and Contention only when another activation is   *)
(* under way, a forgotten guard still locks the slot, or a reservation      *)
(* excludes the operation.                                                  *)
(***************************************************************************)
EXTENDS Naturals

CONSTANTS Caller,     \* activations of slot operations
          Empty,      \* the payload after it was moved out (None)
          MaxWrites   \* bound on writes through RefMut

VARIABLES value,      \* the payload's version, or Empty
          reserved,   \* a guard-free reference was handed out
          leaked,     \* lock mode a forgotten guard retains
          phase,      \* idle, pending, answered or holding
          op,         \* the operation of the current or last activation
          answer,     \* its result
          access      \* payload access granted to the caller

slotVars == <<value, reserved, leaked, phase, op, answer, access>>

Op == {"resolve", "ref", "ref_mut", "clone", "reserve"}
Exclusive == {"resolve", "ref_mut"}

Init ==
    /\ value = 0
    /\ reserved = FALSE
    /\ leaked = "none"
    /\ phase = [c \in Caller |-> "idle"]
    /\ op = [c \in Caller |-> "ref"]
    /\ answer = [c \in Caller |-> "none"]
    /\ access = [c \in Caller |-> "none"]

Invoke(c, o) ==
    /\ phase[c] = "idle"
    /\ phase' = [phase EXCEPT ![c] = "pending"]
    /\ op' = [op EXCEPT ![c] = o]
    /\ answer' = [answer EXCEPT ![c] = "none"]
    /\ UNCHANGED <<value, reserved, leaked, access>>

Pending(c, ops) == phase[c] = "pending" /\ op[c] \in ops
NoAccess == \A d \in Caller : access[d] = "none"
NoMutAccess == \A d \in Caller : access[d] # "mut"

Reply(c, a, next) ==
    /\ answer' = [answer EXCEPT ![c] = a]
    /\ phase' = [phase EXCEPT ![c] = next]
    /\ UNCHANGED <<leaked, op>>

Take(c) ==
    /\ Pending(c, {"resolve"})
    /\ value # Empty /\ ~reserved /\ NoAccess
    /\ value' = Empty
    /\ Reply(c, "ok", "answered")
    /\ UNCHANGED <<reserved, access>>

Borrow(c) ==
    /\ Pending(c, {"ref"})
    /\ value # Empty /\ NoMutAccess
    /\ access' = [access EXCEPT ![c] = "shared"]
    /\ Reply(c, "ok", "holding")
    /\ UNCHANGED <<value, reserved>>

BorrowMut(c) ==
    /\ Pending(c, {"ref_mut"})
    /\ value # Empty /\ ~reserved /\ NoAccess
    /\ access' = [access EXCEPT ![c] = "mut"]
    /\ Reply(c, "ok", "holding")
    /\ UNCHANGED <<value, reserved>>

Clone(c) ==
    /\ Pending(c, {"clone"})
    /\ value # Empty /\ NoMutAccess
    /\ \E a \in {"ok", "panic"} : Reply(c, a, "answered")
    /\ UNCHANGED <<value, reserved, access>>

Reserve(c) ==
    /\ Pending(c, {"reserve"})
    /\ value # Empty /\ NoMutAccess
    /\ reserved' = TRUE
    /\ access' = [access EXCEPT ![c] = "shared"]
    /\ Reply(c, "ok", "answered")
    /\ UNCHANGED value

Consumed(c) ==
    /\ Pending(c, Op)
    /\ value = Empty
    /\ Reply(c, "consumed", "answered")
    /\ UNCHANGED <<value, reserved, access>>

Contended(c) ==
    /\ Pending(c, Op)
    /\ \/ \E d \in Caller \ {c} : phase[d] # "idle"
       \/ leaked = "write"
       \/ leaked = "read" /\ op[c] \in Exclusive \cup {"reserve"}
       \/ reserved /\ op[c] \in Exclusive
    /\ Reply(c, "contention", "answered")
    /\ UNCHANGED <<value, reserved, access>>

Return(c) ==
    /\ phase[c] = "answered"
    /\ phase' = [phase EXCEPT ![c] = IF access[c] = "none" THEN "idle" ELSE "holding"]
    /\ UNCHANGED <<value, reserved, leaked, op, answer, access>>

Write(c) ==
    /\ phase[c] = "holding" /\ access[c] = "mut"
    /\ value < MaxWrites
    /\ value' = value + 1
    /\ UNCHANGED <<reserved, leaked, phase, op, answer, access>>

GiveBack(c) ==
    /\ phase[c] = "holding"
    /\ phase' = [phase EXCEPT ![c] = "idle"]
    /\ access' = [access EXCEPT ![c] = "none"]
    /\ leaked' \in {leaked, IF op[c] = "ref" THEN "read" ELSE "write"}
    /\ op[c] = "reserve" => UNCHANGED leaked
    /\ UNCHANGED <<value, reserved, op, answer>>

Next ==
    \E c \in Caller :
        \/ \E o \in Op : Invoke(c, o)
        \/ Take(c) \/ Borrow(c) \/ BorrowMut(c) \/ Clone(c) \/ Reserve(c)
        \/ Consumed(c) \/ Contended(c) \/ Return(c)
        \/ Write(c) \/ GiveBack(c)

Spec == Init /\ [][Next]_slotVars
===============================================================================
