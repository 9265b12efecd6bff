------------------------------- MODULE TakeSlot -------------------------------
(***************************************************************************)
(* TakeSlot, the synchronized consumable slot (src/storage/standard.rs over *)
(* parking_lot and src/storage/spin.rs over spin; the two files differ only *)
(* in the lock they import).  `reserved` is the Boolean inside the RwLock,  *)
(* `value` the Option in the UnsafeCell.  Each operation is split at every  *)
(* point where another thread, or the payload's own Clone code, can run:    *)
(* try-lock, test of the reservation flag, forming the payload reference,   *)
(* using it, dropping the lock guard, and returning.                        *)
(*                                                                          *)
(* A caller is one activation of an operation plus the guard it returned:   *)
(* guards may move to other threads, so threads themselves carry no state.  *)
(***************************************************************************)
EXTENDS Naturals

CONSTANTS Caller,     \* activations of slot operations
          Empty,      \* None: the payload was moved out
          MaxWrites,  \* bound on writes through RefMut
          Spurious    \* may a try-lock fail because of another attempt in flight?

ASSUME EmptyAssumption == Empty \notin Nat
ASSUME MaxWritesAssumption == MaxWrites \in Nat
ASSUME SpuriousAssumption == Spurious \in BOOLEAN

VARIABLES reserved,   \* the flag the lock protects
          value,      \* version of the payload (0 as stored), or Empty
          held,       \* lock guard each caller holds
          leaked,     \* lock mode retained by guards that were forgotten
          pc,         \* where each caller is in its operation
          op,         \* its operation
          ref,        \* payload reference it can use: none, shared or mut
          seen,       \* the payload when it formed that reference
          answer,     \* the operation's result
          moves       \* history: how often the payload was moved out

vars == <<reserved, value, held, leaked, pc, op, ref, seen, answer, moves>>

Op == {"resolve", "ref", "ref_mut", "clone", "reserve"}
Reading == {"ref", "clone"}            \* operations that call read()
Exclusive == {"resolve", "ref_mut"}    \* operations that refuse a reserved slot
InCall == {"acquire", "check", "access", "use", "release", "return"}

TypeOK ==
    /\ reserved \in BOOLEAN
    /\ value \in Nat \cup {Empty}
    /\ held \in [Caller -> {"none", "read", "write"}]
    /\ leaked \in {"none", "read", "write"}
    /\ pc \in [Caller -> InCall \cup {"idle", "holding"}]
    /\ op \in [Caller -> Op]
    /\ ref \in [Caller -> {"none", "shared", "mut"}]
    /\ seen \in [Caller -> Nat \cup {Empty}]
    /\ answer \in [Caller -> {"none", "ok", "contention", "consumed", "panic"}]
    /\ moves \in Nat

\* TakeSlot::new(value)
Init ==
    /\ reserved = FALSE
    /\ value = 0
    /\ held = [c \in Caller |-> "none"]
    /\ leaked = "none"
    /\ pc = [c \in Caller |-> "idle"]
    /\ op = [c \in Caller |-> "ref"]
    /\ ref = [c \in Caller |-> "none"]
    /\ seen = [c \in Caller |-> 0]
    /\ answer = [c \in Caller |-> "none"]
    /\ moves = 0

-------------------------------------------------------------------------------
(* The RwLock of parking_lot or spin, as try_read and try_write use it.      *)

CanRead == leaked # "write" /\ \A d \in Caller : held[d] # "write"
CanWrite == leaked = "none" /\ \A d \in Caller : held[d] = "none"
CanAcquire(c) == IF op[c] \in Reading THEN CanRead ELSE CanWrite

\* spin counts a reader before it tests for a writer, so an attempt that is
\* bound to fail can make a concurrent one fail.
TryLockFails(c) ==
    \/ ~CanAcquire(c)
    \/ Spurious /\ \E d \in Caller \ {c} : pc[d] \in InCall

-------------------------------------------------------------------------------
(* The operations.                                                           *)

Invoke(c, o) ==
    /\ pc[c] = "idle"
    /\ pc' = [pc EXCEPT ![c] = "acquire"]
    /\ op' = [op EXCEPT ![c] = o]
    /\ answer' = [answer EXCEPT ![c] = "none"]
    /\ UNCHANGED <<reserved, value, held, leaked, ref, seen, moves>>

AcquireShared(c) ==
    /\ pc[c] = "acquire"
    /\ CanAcquire(c)
    /\ held' = [held EXCEPT ![c] = "read"]
    /\ pc' = [pc EXCEPT ![c] = IF op[c] \in Exclusive THEN "check" ELSE "access"]
    /\ UNCHANGED <<reserved, value, leaked, op, ref, seen, answer, moves>>

\* read()? and write()?: on success the guard is held from here on.
Acquire(c) ==
    /\ pc[c] = "acquire"
    /\ CanAcquire(c)
    /\ held' = [held EXCEPT ![c] = IF op[c] \in Reading THEN "read" ELSE "write"]
    /\ pc' = [pc EXCEPT ![c] = IF op[c] \in Exclusive THEN "check" ELSE "access"]
    /\ UNCHANGED <<reserved, value, leaked, op, ref, seen, answer, moves>>

AcquireSpins(c) ==
    /\ pc[c] = "acquire"
    /\ TryLockFails(c)
    /\ UNCHANGED vars

AcquireFails(c) ==
    /\ pc[c] = "acquire"
    /\ TryLockFails(c)
    /\ answer' = [answer EXCEPT ![c] = "contention"]
    /\ pc' = [pc EXCEPT ![c] = "return"]
    /\ UNCHANGED <<reserved, value, held, leaked, op, ref, seen, moves>>

CheckReservedSkipped(c) ==
    /\ pc[c] = "check"
    /\ pc' = [pc EXCEPT ![c] = "access"]
    /\ UNCHANGED <<reserved, value, held, leaked, op, ref, seen, answer, moves>>

\* if *guard { return Err(ValueAccessContention) }
CheckReserved(c) ==
    /\ pc[c] = "check"
    /\ IF reserved
       THEN /\ answer' = [answer EXCEPT ![c] = "contention"]
            /\ pc' = [pc EXCEPT ![c] = "release"]
       ELSE /\ pc' = [pc EXCEPT ![c] = "access"]
            /\ UNCHANGED answer
    /\ UNCHANGED <<reserved, value, held, leaked, op, ref, seen, moves>>

\* unsafe { &mut *self.value.get() } or unsafe { &*self.value.get() }
Access(c) ==
    /\ pc[c] = "access"
    /\ ref' = [ref EXCEPT ![c] = IF op[c] \in Exclusive THEN "mut" ELSE "shared"]
    /\ seen' = [seen EXCEPT ![c] = value]
    /\ pc' = [pc EXCEPT ![c] = "use"]
    /\ UNCHANGED <<reserved, value, held, leaked, op, answer, moves>>

\* .ok_or(ValueAlreadyConsumed): the reference dies and the guard is dropped.
Missing(c) ==
    /\ pc[c] = "use"
    /\ value = Empty
    /\ answer' = [answer EXCEPT ![c] = "consumed"]
    /\ ref' = [ref EXCEPT ![c] = "none"]
    /\ pc' = [pc EXCEPT ![c] = "release"]
    /\ UNCHANGED <<reserved, value, held, leaked, op, seen, moves>>

TakeCopies(c) ==
    /\ pc[c] = "use" /\ op[c] = "resolve"
    /\ value # Empty
    /\ moves' = moves + 1
    /\ answer' = [answer EXCEPT ![c] = "ok"]
    /\ ref' = [ref EXCEPT ![c] = "none"]
    /\ pc' = [pc EXCEPT ![c] = "release"]
    /\ UNCHANGED <<reserved, value, held, leaked, op, seen>>

\* Option::take under the write guard.
Take(c) ==
    /\ pc[c] = "use" /\ op[c] = "resolve"
    /\ value # Empty
    /\ value' = Empty
    /\ moves' = moves + 1
    /\ answer' = [answer EXCEPT ![c] = "ok"]
    /\ ref' = [ref EXCEPT ![c] = "none"]
    /\ pc' = [pc EXCEPT ![c] = "release"]
    /\ UNCHANGED <<reserved, held, leaked, op, seen>>

RetainUnguarded(c) ==
    /\ pc[c] = "use" /\ op[c] \in {"ref", "ref_mut"}
    /\ value # Empty
    /\ answer' = [answer EXCEPT ![c] = "ok"]
    /\ held' = [held EXCEPT ![c] = "none"]
    /\ pc' = [pc EXCEPT ![c] = "holding"]
    /\ UNCHANGED <<reserved, value, leaked, op, ref, seen, moves>>

\* Ok(Ref { guard, value }) and Ok(RefMut { _guard, value }): the guard leaves
\* with the reference.
Retain(c) ==
    /\ pc[c] = "use" /\ op[c] \in {"ref", "ref_mut"}
    /\ value # Empty
    /\ answer' = [answer EXCEPT ![c] = "ok"]
    /\ pc' = [pc EXCEPT ![c] = "holding"]
    /\ UNCHANGED <<reserved, value, held, leaked, op, ref, seen, moves>>

\* T::clone(&guard), user code that may unwind; either way the guard is dropped.
Clone(c) ==
    /\ pc[c] = "use" /\ op[c] = "clone"
    /\ value # Empty
    /\ \E a \in {"ok", "panic"} : answer' = [answer EXCEPT ![c] = a]
    /\ ref' = [ref EXCEPT ![c] = "none"]
    /\ pc' = [pc EXCEPT ![c] = "release"]
    /\ UNCHANGED <<reserved, value, held, leaked, op, seen, moves>>

ReserveForgetsFlag(c) ==
    /\ pc[c] = "use" /\ op[c] = "reserve"
    /\ value # Empty
    /\ answer' = [answer EXCEPT ![c] = "ok"]
    /\ pc' = [pc EXCEPT ![c] = "release"]
    /\ UNCHANGED <<reserved, value, held, leaked, op, ref, seen, moves>>

\* *guard = true
Reserve(c) ==
    /\ pc[c] = "use" /\ op[c] = "reserve"
    /\ value # Empty
    /\ reserved' = TRUE
    /\ answer' = [answer EXCEPT ![c] = "ok"]
    /\ pc' = [pc EXCEPT ![c] = "release"]
    /\ UNCHANGED <<value, held, leaked, op, ref, seen, moves>>

\* The local lock guard goes out of scope (or drop(guard)) before the return.
Release(c) ==
    /\ pc[c] = "release"
    /\ held' = [held EXCEPT ![c] = "none"]
    /\ pc' = [pc EXCEPT ![c] = "return"]
    /\ UNCHANGED <<reserved, value, leaked, op, ref, seen, answer, moves>>

\* The result reaches the caller; only try_reserve_ref still has a reference.
Return(c) ==
    /\ pc[c] = "return"
    /\ pc' = [pc EXCEPT ![c] = IF ref[c] = "none" THEN "idle" ELSE "holding"]
    /\ UNCHANGED <<reserved, value, held, leaked, op, ref, seen, answer, moves>>

-------------------------------------------------------------------------------
(* What a caller does with what it was given.                                *)

\* RefMut::deref_mut
Write(c) ==
    /\ pc[c] = "holding" /\ ref[c] = "mut"
    /\ value \in Nat /\ value < MaxWrites
    /\ value' = value + 1
    /\ seen' = [seen EXCEPT ![c] = value + 1]
    /\ UNCHANGED <<reserved, held, leaked, pc, op, ref, answer, moves>>

\* Ref and RefMut drop their lock guard (also when the projection passed to
\* Ref::map unwinds); a reserved reference just ends.
DropGuard(c) ==
    /\ pc[c] = "holding"
    /\ held' = [held EXCEPT ![c] = "none"]
    /\ ref' = [ref EXCEPT ![c] = "none"]
    /\ pc' = [pc EXCEPT ![c] = "idle"]
    /\ UNCHANGED <<reserved, value, leaked, op, seen, answer, moves>>

\* mem::forget on a guard: the lock stays taken for good.
ForgetGuard(c) ==
    /\ pc[c] = "holding" /\ held[c] # "none"
    /\ leaked' = held[c]
    /\ held' = [held EXCEPT ![c] = "none"]
    /\ ref' = [ref EXCEPT ![c] = "none"]
    /\ pc' = [pc EXCEPT ![c] = "idle"]
    /\ UNCHANGED <<reserved, value, op, seen, answer, moves>>

\* The code a caller runs inside an operation.
Step(c) ==
    \/ Acquire(c) \/ AcquireFails(c) \/ CheckReserved(c) \/ Access(c)
    \/ Missing(c) \/ Take(c) \/ Retain(c) \/ Clone(c) \/ Reserve(c)
    \/ Release(c) \/ Return(c)

\* What the caller's program may do between operations.
Client(c) ==
    \/ \E o \in Op : Invoke(c, o)
    \/ Write(c) \/ DropGuard(c) \/ ForgetGuard(c)

Next == \E c \in Caller : Step(c) \/ Client(c)

Spec == Init /\ [][Next]_vars

\* No step of an operation waits, so a running caller always gets to take it.
FairSpec == Spec /\ \A c \in Caller : WF_vars(Step(c))

-------------------------------------------------------------------------------
(* Properties.                                                               *)

\* Aliasing, the rule behind every SAFETY comment of TakeSlot: while one caller
\* can use an exclusive payload reference, nobody else has any reference, a
\* guard-free reserved one included.
Aliasing ==
    \A c, d \in Caller : c # d /\ ref[c] = "mut" => ref[d] = "none"

\* A shared reference keeps denoting the payload it was formed on: the value is
\* neither moved out nor overwritten below a Ref, a running Clone or the
\* guard-free reference of try_reserve_ref.
SharedStable ==
    \A c \in Caller : ref[c] = "shared" => value = seen[c]

\* try_resolve transfers ownership at most once, and the slot reads as consumed
\* exactly when it has.
MovedOnce == moves = IF value = Empty THEN 1 ELSE 0

\* try_reserve_ref is irreversible: from then on the flag stays set and the
\* payload is never moved or written.
ReservedForever ==
    [][reserved => reserved' /\ value' = value]_vars

\* Every operation answers, whatever guards others hold or have forgotten:
\* no path of the slot waits for a lock.
NeverBlocks ==
    \A c \in Caller : pc[c] \in InCall ~> pc[c] \in {"idle", "holding"}

-------------------------------------------------------------------------------
(* The inductive invariant: who may hold the lock, and which lock or flag    *)
(* protects each payload reference.                                          *)

LockInv ==
    /\ \A c, d \in Caller : c # d /\ held[c] = "write" => held[d] = "none"
    /\ \A c \in Caller : held[c] = "write" => leaked = "none"
    /\ leaked = "write" => \A c \in Caller : held[c] = "none"

CallInv ==
    \A c \in Caller :
        /\ pc[c] \in {"check", "access", "use"} =>
              held[c] = IF op[c] \in Reading THEN "read" ELSE "write"
        /\ pc[c] = "check" => op[c] \in Exclusive
        /\ pc[c] \in {"access", "use"} /\ op[c] \in Exclusive => ~reserved
        /\ pc[c] \in {"idle", "acquire", "return"} => held[c] = "none"
        /\ pc[c] \in {"idle", "acquire", "check", "access"} => ref[c] = "none"
        /\ pc[c] = "use" => ref[c] = IF op[c] \in Exclusive THEN "mut" ELSE "shared"
        /\ pc[c] \in {"release", "return"} => ref[c] # "mut"
        /\ pc[c] \in {"release", "return"} /\ ref[c] = "shared" =>
              reserved /\ op[c] = "reserve"
        /\ pc[c] = "holding" =>
              \/ op[c] = "ref" /\ held[c] = "read" /\ ref[c] = "shared"
              \/ op[c] = "ref_mut" /\ held[c] = "write" /\ ref[c] = "mut"
              \/ op[c] = "reserve" /\ held[c] = "none" /\ ref[c] = "shared"

RefInv ==
    /\ \A c \in Caller : ref[c] = "mut" => held[c] = "write" /\ ~reserved
    /\ \A c \in Caller : ref[c] = "shared" => held[c] # "none" \/ reserved
    /\ \A c \in Caller : pc[c] = "holding" => value # Empty
    /\ reserved => value # Empty

IndInv == TypeOK /\ LockInv /\ CallInv /\ RefInv /\ SharedStable /\ MovedOnce

-------------------------------------------------------------------------------
(* Refinement of SlotSpec: an operation takes effect when it uses the payload *)
(* reference, and fails when its answer is determined.                        *)

phaseOf(p) ==
    IF p \in {"release", "return"} THEN "answered"
    ELSE IF p \in {"idle", "holding"} THEN p ELSE "pending"

phaseBar == [c \in Caller |-> phaseOf(pc[c])]

accessBar == [c \in Caller |-> IF phaseOf(pc[c]) = "pending" THEN "none" ELSE ref[c]]

Abstract == INSTANCE SlotSpec WITH phase <- phaseBar, access <- accessBar

\* TakeSlot implements the atomic slot.
ImplementsSlot == Abstract!Spec
===============================================================================
