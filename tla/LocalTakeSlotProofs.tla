-------------------------- MODULE LocalTakeSlotProofs --------------------------
(***************************************************************************)
(* LocalTakeSlot is safe for any finite set of activations, nested to any    *)
(* depth, and implements the atomic slot.                                    *)
(***************************************************************************)
EXTENDS LocalTakeSlot, FiniteSetTheorems, SequenceTheorems, TLAPS

USE EmptyAssumption, MaxWritesAssumption, CallerAssumption

Shared == {c \in Caller : ref[c] = "shared"}
Mut == {c \in Caller : ref[c] = "mut"}
Forgotten == IF leaked = "read" THEN 1 ELSE 0

\* TypeOK without the bound on the borrow flag, which is a matter of counting.
Typed ==
    /\ value \in Nat \cup {Empty} /\ borrow \in Int
    /\ leaked \in {"none", "read", "write"}
    /\ pc \in [Caller -> {"idle", "call", "cloning", "answered", "holding"}]
    /\ op \in [Caller -> Op]
    /\ ref \in [Caller -> {"none", "shared", "mut"}]
    /\ seen \in [Caller -> Nat \cup {Empty}]
    /\ answer \in [Caller -> {"none", "ok", "contention", "consumed", "panic"}]
    /\ stack \in Seq(Caller)

\* An activation has the reference its progress says, to the payload it found.
CallInv ==
    \A c \in Caller :
        /\ pc[c] \in {"idle", "call", "answered"} => ref[c] = "none"
        /\ pc[c] = "cloning" => op[c] = "clone" /\ ref[c] = "shared"
        /\ pc[c] = "holding" => \/ op[c] = "ref" /\ ref[c] = "shared"
                                \/ op[c] = "ref_mut" /\ ref[c] = "mut"
        /\ ref[c] # "none" => value = seen[c] /\ value # Empty

\* An exclusive borrow, even a forgotten one, is the only borrow.
ExclusiveInv ==
    /\ \A c \in Caller : ref[c] = "mut" =>
         leaked = "none" /\ \A d \in Caller \ {c} : ref[d] = "none"
    /\ leaked = "write" => \A d \in Caller : ref[d] = "none"

\* The flag counts the borrows.
CountInv ==
    borrow = IF Mut # {} \/ leaked = "write" THEN -1 ELSE Cardinality(Shared) + Forgotten

\* The stack holds activations inside Clone, each once.
StackInv ==
    /\ \A i \in 1 .. Len(stack) : pc[stack[i]] = "cloning"
    /\ \A i, j \in 1 .. Len(stack) : i # j => stack[i] # stack[j]

IndInv == Typed /\ CallInv /\ ExclusiveInv /\ CountInv /\ StackInv

-------------------------------------------------------------------------------
(* Counting.                                                                 *)

\* Shared is finite, so its cardinality is a number, at most that of Caller.
LEMMA SharedCount ==
    /\ IsFiniteSet(Shared) /\ Cardinality(Shared) \in Nat
    /\ Cardinality(Shared) <= Cardinality(Caller) /\ Cardinality(Caller) \in Nat
    /\ Cardinality(Shared) = 0 <=> Shared = {}
  <1>1. Shared \in SUBSET Caller
    BY DEF Shared
  <1>2. IsFiniteSet(Shared) /\ Cardinality(Shared) <= Cardinality(Caller)
    BY <1>1, FS_Subset
  <1>3. Cardinality(Shared) \in Nat /\ Cardinality(Caller) \in Nat
    BY <1>2, FS_CardinalityType
  <1> QED
    BY <1>2, <1>3, FS_EmptySet

\* What RefCell's flag says of the borrows.
LEMMA FlagMeaning ==
    ASSUME Typed, CountInv
    PROVE  /\ borrow >= 0 <=> Mut = {} /\ leaked # "write"
           /\ borrow = 0 <=> Mut = {} /\ Shared = {} /\ leaked = "none"
           /\ borrow >= 0 => borrow = Cardinality(Shared) + Forgotten
           /\ borrow \in -1 .. Cardinality(Caller) + 1
  <1>1. Forgotten \in {0, 1} /\ (Forgotten = 0 <=> leaked # "read")
    BY DEF Forgotten
  <1>2. leaked \in {"none", "read", "write"}
    BY DEF Typed
  <1>3. CASE Mut # {} \/ leaked = "write"
    <2>1. borrow = -1
      BY <1>3 DEF CountInv
    <2> QED
      BY <1>3, <2>1, SharedCount
  <1>4. CASE Mut = {} /\ leaked # "write"
    <2>1. borrow = Cardinality(Shared) + Forgotten
      BY <1>4 DEF CountInv
    <2>2. borrow = 0 <=> Cardinality(Shared) = 0 /\ Forgotten = 0
      BY <1>1, <2>1, SharedCount
    <2>3. borrow >= 0 /\ borrow <= Cardinality(Caller) + 1 /\ borrow \in Int
      BY <1>1, <2>1, SharedCount
    <2>4. borrow \in -1 .. Cardinality(Caller) + 1
      BY <2>3, SharedCount
    <2> QED
      BY <1>1, <1>2, <1>4, <2>1, <2>2, <2>3, <2>4, SharedCount
  <1> QED
    BY <1>3, <1>4

\* One more, one less.
LEMMA SharedChange ==
    ASSUME Typed, NEW c \in Caller
    PROVE  /\ ref' = [ref EXCEPT ![c] = "shared"] /\ ref[c] = "none" =>
                Cardinality(Shared') = Cardinality(Shared) + 1 /\ Mut' = Mut
           /\ ref' = [ref EXCEPT ![c] = "none"] /\ ref[c] = "shared" =>
                Cardinality(Shared') = Cardinality(Shared) - 1 /\ Mut' = Mut
  <1>1. ASSUME ref' = [ref EXCEPT ![c] = "shared"], ref[c] = "none"
        PROVE  Cardinality(Shared') = Cardinality(Shared) + 1 /\ Mut' = Mut
    <2>1. Shared' = Shared \cup {c} /\ c \notin Shared /\ Mut' = Mut
      BY <1>1 DEF Shared, Mut, Typed
    <2> QED
      BY <2>1, FS_AddElement, SharedCount
  <1>2. ASSUME ref' = [ref EXCEPT ![c] = "none"], ref[c] = "shared"
        PROVE  Cardinality(Shared') = Cardinality(Shared) - 1 /\ Mut' = Mut
    <2>1. Shared' = Shared \ {c} /\ c \in Shared /\ Mut' = Mut
      BY <1>2 DEF Shared, Mut, Typed
    <2> QED
      BY <2>1, FS_RemoveElement, SharedCount
  <1> QED
    BY <1>1, <1>2

\* A sequence without its last element.
LEMMA PoppedStack ==
    ASSUME NEW S, NEW s \in Seq(S), Len(s) > 0
    PROVE  /\ SubSeq(s, 1, Len(s) - 1) \in Seq(S)
           /\ Len(SubSeq(s, 1, Len(s) - 1)) = Len(s) - 1
           /\ \A i \in 1 .. Len(s) - 1 : SubSeq(s, 1, Len(s) - 1)[i] = s[i]
  <1> DEFINE m == Len(s) - 1
             p == SubSeq(s, 1, m)
  <1>1. m \in Nat /\ \A i \in 1 .. m : s[i] \in S
    OBVIOUS
  <1> HIDE DEF m
  <1>2. m - 1 + 1 = m /\ (IF 1 <= m THEN m - 1 + 1 ELSE 0) = m
    BY <1>1
  <1>3. p \in Seq(S) /\ Len(p) = m /\ \A i \in 1 .. m : p[i] = s[1 + i - 1]
    BY <1>1, <1>2, SubSeqProperties
  <1>4. \A i \in 1 .. m : 1 + i - 1 = i
    BY <1>1
  <1> QED
    BY <1>3, <1>4 DEF m

-------------------------------------------------------------------------------
(* The invariant holds at the start and every step preserves it.             *)

\* A fresh slot is not borrowed.
LEMMA InitInv == Init => IndInv
  <1> SUFFICES ASSUME Init PROVE IndInv
    OBVIOUS
  <1>1. Typed
    BY DEF Init, Typed, Op
  <1>2. CallInv /\ ExclusiveInv /\ StackInv
    BY DEF Init, CallInv, ExclusiveInv, StackInv
  <1>3. Shared = {} /\ Mut = {} /\ Forgotten = 0 /\ borrow = 0 /\ leaked = "none"
    BY DEF Init, Shared, Mut, Forgotten
  <1>4. CountInv
    BY <1>3, FS_EmptySet DEF CountInv
  <1> QED
    BY <1>1, <1>2, <1>4 DEF IndInv

\* A step that changes no borrow moves an activation between the places where it
\* has none; the payload changes only under nobody's eyes.
Quiet(c) ==
    /\ pc[c] \in {"idle", "call", "answered"}
    /\ \E p \in {"idle", "call", "answered"} : pc' = [pc EXCEPT ![c] = p]
    /\ op' = op \/ \E o \in Op : op' = [op EXCEPT ![c] = o]
    /\ answer' = answer
       \/ \E a \in {"none", "ok", "contention", "consumed"} : answer' = [answer EXCEPT ![c] = a]
    /\ value' = value \/ (value' = Empty /\ \A d \in Caller : ref[d] = "none")
    /\ UNCHANGED <<borrow, leaked, ref, seen, stack>>

\* Calling, refusals, taking and returning are such steps.
LEMMA QuietSteps ==
    ASSUME IndInv, NEW c \in Caller,
           (\E o \in Op : Invoke(c, o)) \/ Contended(c) \/ Consumed(c) \/ Take(c) \/ Return(c)
    PROVE  Quiet(c)
  <1>1. CASE \E o \in Op : Invoke(c, o)
    BY <1>1 DEF Invoke, Quiet
  <1>2. CASE Contended(c)
    BY <1>2 DEF Contended, Calling, Answer, Quiet
  <1>3. CASE Consumed(c)
    BY <1>3 DEF Consumed, Calling, Answer, Quiet
  <1>4. CASE Take(c)
    <2>1. borrow = 0
      BY <1>4 DEF Take, Calling, Refused, CanBorrowMut
    <2>2. Mut = {} /\ Shared = {}
      BY <2>1, FlagMeaning DEF IndInv
    <2>3. \A d \in Caller : ref[d] = "none"
      BY <2>2 DEF IndInv, Typed, Mut, Shared
    <2> QED
      BY <1>4, <2>3 DEF Take, Calling, Answer, Quiet
  <1>5. CASE Return(c)
    BY <1>5 DEF Return, Quiet
  <1> QED
    BY <1>1, <1>2, <1>3, <1>4, <1>5

\* And such steps keep the invariant.
LEMMA QuietInv == ASSUME IndInv, NEW c \in Caller, Quiet(c) PROVE IndInv'
  <1>1. Typed /\ CallInv /\ ExclusiveInv /\ CountInv /\ StackInv
    BY DEF IndInv
  <1>2. PICK p \in {"idle", "call", "answered"} : pc' = [pc EXCEPT ![c] = p]
    BY DEF Quiet
  <1>3. /\ pc[c] \in {"idle", "call", "answered"} /\ pc'[c] \in {"idle", "call", "answered"}
        /\ \A d \in Caller \ {c} : pc'[d] = pc[d] /\ op'[d] = op[d]
        /\ value' = value \/ \A d \in Caller : ref[d] = "none"
        /\ UNCHANGED <<borrow, leaked, ref, seen, stack>>
    BY <1>1, <1>2 DEF Quiet, Typed
  <1>4. Typed'
    <2>1. pc' \in [Caller -> {"idle", "call", "cloning", "answered", "holding"}]
      BY <1>1, <1>2 DEF Typed
    <2>2. op' \in [Caller -> Op]
      BY <1>1 DEF Quiet, Typed
    <2>3. answer' \in [Caller -> {"none", "ok", "contention", "consumed", "panic"}]
      BY <1>1 DEF Quiet, Typed
    <2>4. value' \in Nat \cup {Empty}
      BY <1>1 DEF Quiet, Typed
    <2> QED
      BY <1>1, <1>3, <2>1, <2>2, <2>3, <2>4 DEF Typed
  <1>5. CallInv'
    BY <1>1, <1>3 DEF CallInv
  <1>6. ExclusiveInv'
    BY <1>1, <1>3 DEF ExclusiveInv
  <1>7. CountInv'
    BY <1>1, <1>3 DEF CountInv, Mut, Shared, Forgotten
  <1>8. StackInv'
    <2>1. \A i \in 1 .. Len(stack) : stack[i] \in Caller
      BY <1>1 DEF Typed
    <2> QED
      BY <1>1, <1>3, <2>1 DEF StackInv
  <1> QED
    BY <1>4, <1>5, <1>6, <1>7, <1>8 DEF IndInv

\* A shared borrow, kept by the guard or for the duration of Clone.
LEMMA StepBorrow == ASSUME IndInv, NEW c \in Caller, Borrow(c) PROVE IndInv'
  <1>1. Typed /\ CallInv /\ ExclusiveInv /\ CountInv /\ StackInv
    BY DEF IndInv
  <1>2. /\ pc[c] = "call" /\ op[c] \in {"ref", "clone"} /\ borrow >= 0 /\ value # Empty
        /\ borrow' = borrow + 1
        /\ ref' = [ref EXCEPT ![c] = "shared"]
        /\ seen' = [seen EXCEPT ![c] = value]
        /\ UNCHANGED <<value, leaked, op>>
    BY DEF Borrow, Calling, Refused, CanBorrow
  <1>3. \/ /\ op[c] = "ref" /\ pc' = [pc EXCEPT ![c] = "holding"]
           /\ answer' = [answer EXCEPT ![c] = "ok"] /\ stack' = stack
        \/ /\ op[c] = "clone" /\ pc' = [pc EXCEPT ![c] = "cloning"]
           /\ answer' = answer /\ stack' = Append(stack, c)
    BY <1>2 DEF Borrow
  <1>4. ref[c] = "none" /\ Mut = {} /\ leaked # "write" /\ borrow = Cardinality(Shared) + Forgotten
    BY <1>1, <1>2, FlagMeaning DEF CallInv
  <1>5. Typed'
    <2>1. borrow' \in Int /\ ref' \in [Caller -> {"none", "shared", "mut"}]
      BY <1>1, <1>2 DEF Typed
    <2>2. seen' \in [Caller -> Nat \cup {Empty}]
      BY <1>1, <1>2 DEF Typed
    <2>3. /\ pc' \in [Caller -> {"idle", "call", "cloning", "answered", "holding"}]
          /\ answer' \in [Caller -> {"none", "ok", "contention", "consumed", "panic"}]
      BY <1>1, <1>3 DEF Typed
    <2>4. stack' \in Seq(Caller)
      BY <1>1, <1>3, AppendProperties DEF Typed
    <2> QED
      BY <1>1, <1>2, <2>1, <2>2, <2>3, <2>4 DEF Typed
  <1>6. /\ ref'[c] = "shared" /\ seen'[c] = value /\ pc'[c] \in {"holding", "cloning"}
        /\ (pc'[c] = "holding" <=> op[c] = "ref") /\ (pc'[c] = "cloning" <=> op[c] = "clone")
        /\ \A d \in Caller \ {c} : ref'[d] = ref[d] /\ seen'[d] = seen[d] /\ pc'[d] = pc[d]
    BY <1>1, <1>2, <1>3 DEF Typed
  <1>7. CallInv'
    BY <1>1, <1>2, <1>6 DEF CallInv
  <1>8. ExclusiveInv'
    <2>1. \A d \in Caller : ref'[d] # "mut"
      BY <1>4, <1>6 DEF Mut
    <2> QED
      BY <1>2, <1>4, <2>1 DEF ExclusiveInv
  <1>9. CountInv'
    <2>1. Cardinality(Shared') = Cardinality(Shared) + 1 /\ Mut' = {} /\ Forgotten' = Forgotten
      BY <1>1, <1>2, <1>4, SharedChange DEF Forgotten
    <2>2. Forgotten \in {0, 1}
      BY DEF Forgotten
    <2>3. borrow' = Cardinality(Shared') + Forgotten'
      BY <1>2, <1>4, <2>1, <2>2, SharedCount
    <2> QED
      BY <1>2, <1>4, <2>1, <2>3 DEF CountInv
  <1>10. StackInv'
    <2>1. \A i \in 1 .. Len(stack) : stack[i] \in Caller /\ stack[i] # c /\ pc'[stack[i]] = "cloning"
      BY <1>1, <1>2, <1>6 DEF Typed, StackInv
    <2>2. CASE stack' = stack
      BY <1>1, <2>1, <2>2 DEF StackInv
    <2>3. CASE stack' = Append(stack, c) /\ pc'[c] = "cloning"
      <3>1. /\ Len(stack') = Len(stack) + 1 /\ stack'[Len(stack) + 1] = c
            /\ \A i \in 1 .. Len(stack) : stack'[i] = stack[i]
            /\ Len(stack) \in Nat
        BY <1>1, <2>3, AppendProperties DEF Typed
      <3>2. \A i \in 1 .. Len(stack') : i \in 1 .. Len(stack) \/ i = Len(stack) + 1
        BY <3>1
      <3> QED
        BY <1>1, <2>1, <2>3, <3>1, <3>2 DEF StackInv
    <2> QED
      BY <1>3, <1>6, <2>2, <2>3
  <1> QED
    BY <1>5, <1>7, <1>8, <1>9, <1>10 DEF IndInv

\* An exclusive borrow, of a slot that nobody borrows.
LEMMA StepBorrowMut == ASSUME IndInv, NEW c \in Caller, BorrowMut(c) PROVE IndInv'
  <1>1. Typed /\ CallInv /\ ExclusiveInv /\ CountInv /\ StackInv
    BY DEF IndInv
  <1>2. /\ pc[c] = "call" /\ op[c] = "ref_mut" /\ borrow = 0 /\ value # Empty
        /\ borrow' = -1
        /\ ref' = [ref EXCEPT ![c] = "mut"]
        /\ seen' = [seen EXCEPT ![c] = value]
        /\ pc' = [pc EXCEPT ![c] = "holding"]
        /\ answer' = [answer EXCEPT ![c] = "ok"]
        /\ UNCHANGED <<value, leaked, op, stack>>
    BY DEF BorrowMut, Calling, Refused, CanBorrowMut
  <1>3. leaked = "none" /\ \A d \in Caller : ref[d] = "none"
    <2>1. Mut = {} /\ Shared = {} /\ leaked = "none"
      BY <1>1, <1>2, FlagMeaning
    <2> QED
      BY <1>1, <2>1 DEF Typed, Mut, Shared
  <1>4. Typed'
    BY <1>1, <1>2 DEF Typed
  <1>5. /\ ref'[c] = "mut" /\ seen'[c] = value /\ pc'[c] = "holding"
        /\ \A d \in Caller \ {c} : ref'[d] = "none" /\ seen'[d] = seen[d] /\ pc'[d] = pc[d]
    BY <1>1, <1>2, <1>3 DEF Typed
  <1>6. CallInv'
    BY <1>1, <1>2, <1>3, <1>5 DEF CallInv
  <1>7. ExclusiveInv'
    BY <1>2, <1>3, <1>5 DEF ExclusiveInv
  <1>8. CountInv'
    <2>1. Mut' # {}
      BY <1>5 DEF Mut
    <2> QED
      BY <1>2, <2>1 DEF CountInv
  <1>9. StackInv'
    <2>1. \A i \in 1 .. Len(stack) : stack[i] \in Caller /\ stack[i] # c
      BY <1>1, <1>2 DEF Typed, StackInv
    <2> QED
      BY <1>1, <1>2, <1>5, <2>1 DEF StackInv
  <1> QED
    BY <1>4, <1>6, <1>7, <1>8, <1>9 DEF IndInv

\* The innermost Clone returns or unwinds.
LEMMA StepCloneReturns == ASSUME IndInv, NEW c \in Caller, CloneReturns(c) PROVE IndInv'
  <1> DEFINE n == Len(stack)
  <1>1. Typed /\ CallInv /\ ExclusiveInv /\ CountInv /\ StackInv
    BY DEF IndInv
  <1>2. /\ stack # <<>> /\ stack[n] = c
        /\ stack' = SubSeq(stack, 1, n - 1)
        /\ borrow' = borrow - 1
        /\ ref' = [ref EXCEPT ![c] = "none"]
        /\ pc' = [pc EXCEPT ![c] = "answered"]
        /\ \E a \in {"ok", "panic"} : answer' = [answer EXCEPT ![c] = a]
        /\ UNCHANGED <<value, leaked, op, seen>>
    BY DEF CloneReturns, Answer
  <1>3. stack \in Seq(Caller) /\ n \in Nat /\ n > 0
    BY <1>1, <1>2 DEF Typed
  <1>4. pc[c] = "cloning" /\ ref[c] = "shared"
    BY <1>1, <1>2, <1>3 DEF StackInv, CallInv
  <1>5. Mut = {} /\ leaked # "write"
    BY <1>1, <1>4 DEF ExclusiveInv, Mut
  <1>6. /\ stack' \in Seq(Caller) /\ Len(stack') = n - 1
        /\ \A i \in 1 .. n - 1 : stack'[i] = stack[i] /\ stack[i] # c /\ stack[i] \in Caller
    <2>1. \A i \in 1 .. n - 1 : i \in 1 .. n /\ i # n
      BY <1>3
    <2>2. \A i \in 1 .. n - 1 : stack[i] # c /\ stack[i] \in Caller
      <3> SUFFICES ASSUME NEW i \in 1 .. n - 1 PROVE stack[i] # c /\ stack[i] \in Caller
        OBVIOUS
      <3>1. i \in 1 .. n /\ n \in 1 .. n /\ i # n
        BY <1>3, <2>1
      <3>2. stack[i] # stack[n]
        BY <1>1, <3>1 DEF StackInv
      <3> QED
        BY <1>2, <1>3, <3>1, <3>2
    <2>3. stack' \in Seq(Caller) /\ Len(stack') = n - 1 /\ \A i \in 1 .. n - 1 : stack'[i] = stack[i]
      BY <1>2, <1>3, PoppedStack
    <2> QED
      BY <2>2, <2>3
  <1>7. Typed'
    <2>1. borrow' \in Int /\ ref' \in [Caller -> {"none", "shared", "mut"}]
      BY <1>1, <1>2 DEF Typed
    <2>2. pc' \in [Caller -> {"idle", "call", "cloning", "answered", "holding"}]
      BY <1>1, <1>2 DEF Typed
    <2>3. answer' \in [Caller -> {"none", "ok", "contention", "consumed", "panic"}]
      BY <1>1, <1>2 DEF Typed
    <2> QED
      BY <1>1, <1>2, <1>6, <2>1, <2>2, <2>3 DEF Typed
  <1>8. /\ ref'[c] = "none" /\ pc'[c] = "answered"
        /\ \A d \in Caller \ {c} : ref'[d] = ref[d] /\ pc'[d] = pc[d]
    BY <1>1, <1>2 DEF Typed
  <1>9. CallInv'
    BY <1>1, <1>2, <1>8 DEF CallInv
  <1>10. ExclusiveInv'
    <2>1. \A d \in Caller : ref'[d] # "mut"
      BY <1>5, <1>8 DEF Mut
    <2> QED
      BY <1>2, <1>5, <2>1 DEF ExclusiveInv
  <1>11. CountInv'
    <2>1. Cardinality(Shared') = Cardinality(Shared) - 1 /\ Mut' = {} /\ Forgotten' = Forgotten
      BY <1>1, <1>2, <1>4, <1>5, SharedChange DEF Forgotten
    <2>2. Forgotten \in {0, 1}
      BY DEF Forgotten
    <2>3. borrow = Cardinality(Shared) + Forgotten
      BY <1>1, <1>5 DEF CountInv
    <2>4. borrow' = Cardinality(Shared') + Forgotten'
      BY <1>2, <2>1, <2>2, <2>3, SharedCount
    <2> QED
      BY <1>2, <1>5, <2>1, <2>4 DEF CountInv
  <1>12. StackInv'
    <2>1. \A i \in 1 .. n - 1 : i \in 1 .. n
      BY <1>3
    <2>2. \A i \in 1 .. n - 1 : pc'[stack'[i]] = "cloning"
      BY <1>1, <1>6, <1>8, <2>1 DEF StackInv
    <2>3. \A i, j \in 1 .. n - 1 : i # j => stack'[i] # stack'[j]
      BY <1>1, <1>6, <2>1 DEF StackInv
    <2> HIDE DEF n
    <2> QED
      BY <1>6, <2>2, <2>3 DEF StackInv
  <1> QED
    BY <1>7, <1>9, <1>10, <1>11, <1>12 DEF IndInv

\* The holder of the exclusive guard writes.
LEMMA StepWrite == ASSUME IndInv, NEW c \in Caller, Write(c) PROVE IndInv'
  <1>1. Typed /\ CallInv /\ ExclusiveInv /\ CountInv /\ StackInv
    BY DEF IndInv
  <1>2. /\ ref[c] = "mut" /\ value' = value + 1
        /\ seen' = [seen EXCEPT ![c] = value + 1]
        /\ UNCHANGED <<borrow, leaked, pc, op, ref, answer, stack>>
    BY DEF Write
  <1>3. value \in Nat /\ \A d \in Caller \ {c} : ref[d] = "none"
    BY <1>1, <1>2 DEF CallInv, ExclusiveInv, Typed
  <1>4. value' \in Nat /\ value' # Empty /\ seen' \in [Caller -> Nat \cup {Empty}]
    BY <1>1, <1>2, <1>3 DEF Typed
  <1>5. Typed'
    BY <1>1, <1>2, <1>4 DEF Typed
  <1>6. seen'[c] = value'
    BY <1>1, <1>2 DEF Typed
  <1>7. CallInv'
    BY <1>1, <1>2, <1>3, <1>4, <1>6 DEF CallInv
  <1>8. ExclusiveInv' /\ StackInv'
    BY <1>1, <1>2 DEF ExclusiveInv, StackInv
  <1>9. CountInv'
    BY <1>1, <1>2 DEF CountInv, Mut, Shared, Forgotten
  <1> QED
    BY <1>5, <1>7, <1>8, <1>9 DEF IndInv

\* A guard is dropped, or forgotten so that its borrow stays.
LEMMA StepGiveBack ==
    ASSUME IndInv, NEW c \in Caller, DropGuard(c) \/ ForgetGuard(c)
    PROVE  IndInv'
  <1>1. Typed /\ CallInv /\ ExclusiveInv /\ CountInv /\ StackInv
    BY DEF IndInv
  <1>2. /\ pc[c] = "holding"
        /\ ref' = [ref EXCEPT ![c] = "none"]
        /\ pc' = [pc EXCEPT ![c] = "idle"]
        /\ UNCHANGED <<value, op, seen, answer, stack>>
    BY DEF DropGuard, ForgetGuard
  <1>3. \/ borrow' = (IF ref[c] = "mut" THEN 0 ELSE borrow - 1) /\ leaked' = leaked
        \/ /\ borrow' = borrow /\ leaked = "none"
           /\ leaked' = IF ref[c] = "mut" THEN "write" ELSE "read"
    BY DEF DropGuard, ForgetGuard
  <1>4. ref[c] \in {"shared", "mut"}
    BY <1>1, <1>2 DEF CallInv
  <1>5. Typed'
    <2>1. borrow' \in Int /\ leaked' \in {"none", "read", "write"}
      BY <1>1, <1>3 DEF Typed
    <2>2. /\ ref' \in [Caller -> {"none", "shared", "mut"}]
          /\ pc' \in [Caller -> {"idle", "call", "cloning", "answered", "holding"}]
      BY <1>1, <1>2 DEF Typed
    <2> QED
      BY <1>1, <1>2, <2>1, <2>2 DEF Typed
  <1>6. /\ ref'[c] = "none" /\ pc'[c] = "idle"
        /\ \A d \in Caller \ {c} : ref'[d] = ref[d] /\ pc'[d] = pc[d]
    BY <1>1, <1>2 DEF Typed
  <1>7. CallInv'
    BY <1>1, <1>2, <1>6 DEF CallInv
  <1>8. StackInv'
    <2>1. \A i \in 1 .. Len(stack) : stack[i] \in Caller /\ stack[i] # c
      BY <1>1, <1>2 DEF Typed, StackInv
    <2> QED
      BY <1>1, <1>2, <1>6, <2>1 DEF StackInv
  <1>9. ExclusiveInv' /\ CountInv'
    <2>1. CASE ref[c] = "mut"
      <3>1. leaked = "none" /\ \A d \in Caller : ref'[d] = "none"
        BY <1>1, <1>6, <2>1 DEF ExclusiveInv
      <3>2. Mut' = {} /\ Shared' = {}
        BY <3>1 DEF Mut, Shared
      <3>3. borrow = -1
        <4>1. Mut # {}
          BY <2>1 DEF Mut
        <4> QED
          BY <1>1, <4>1 DEF CountInv
      <3>4. (borrow' = 0 /\ leaked' = "none") \/ (borrow' = -1 /\ leaked' = "write")
        BY <1>3, <2>1, <3>1, <3>3
      <3>5. ExclusiveInv'
        BY <3>1 DEF ExclusiveInv
      <3>6. CountInv'
        BY <3>2, <3>4, FS_EmptySet DEF CountInv, Forgotten
      <3> QED
        BY <3>5, <3>6
    <2>2. CASE ref[c] = "shared"
      <3>1. Mut = {} /\ leaked # "write"
        BY <1>1, <2>2 DEF ExclusiveInv, Mut
      <3>2. Cardinality(Shared') = Cardinality(Shared) - 1 /\ Mut' = {}
        BY <1>1, <1>2, <2>2, <3>1, SharedChange
      <3>3. borrow = Cardinality(Shared) + Forgotten
        BY <1>1, <3>1 DEF CountInv
      <3>4. \/ borrow' = borrow - 1 /\ leaked' = leaked /\ Forgotten' = Forgotten
            \/ borrow' = borrow /\ leaked' = "read" /\ Forgotten = 0 /\ Forgotten' = 1
        BY <1>3, <2>2 DEF Forgotten
      <3>5. Forgotten \in {0, 1}
        BY DEF Forgotten
      <3>6. borrow' = Cardinality(Shared') + Forgotten' /\ leaked' # "write"
        BY <3>1, <3>2, <3>3, <3>4, <3>5, SharedCount
      <3>7. \A d \in Caller : ref'[d] # "mut"
        BY <3>2 DEF Mut
      <3>8. ExclusiveInv'
        BY <3>6, <3>7 DEF ExclusiveInv
      <3>9. CountInv'
        BY <3>2, <3>6 DEF CountInv
      <3> QED
        BY <3>8, <3>9
    <2> QED
      BY <1>4, <2>1, <2>2
  <1> QED
    BY <1>5, <1>7, <1>8, <1>9 DEF IndInv

\* One step preserves the inductive invariant.
LEMMA StepInv == IndInv /\ [Next]_vars => IndInv'
  <1> SUFFICES ASSUME IndInv, [Next]_vars PROVE IndInv'
    OBVIOUS
  <1>1. CASE UNCHANGED vars
    BY <1>1 DEF vars, IndInv, Typed, CallInv, ExclusiveInv, CountInv, StackInv, Mut, Shared,
                Forgotten
  <1>2. ASSUME NEW c \in Caller,
               (\E o \in Op : Invoke(c, o)) \/ Contended(c) \/ Consumed(c) \/ Take(c) \/ Return(c)
        PROVE  IndInv'
    BY <1>2, QuietSteps, QuietInv
  <1> QED
    BY <1>1, <1>2, StepBorrow, StepBorrowMut, StepCloneReturns, StepWrite, StepGiveBack, Zenon
       DEF Next

-------------------------------------------------------------------------------
(* Theorems.                                                                 *)

\* The strengthening holds in every reachable state.
THEOREM Inductive == Spec => []IndInv
  BY InitInv, StepInv, PTL DEF Spec

\* RefCell's flag counts exactly the live and forgotten borrows, however deep Clone
\* re-enters the slot and whatever the order in which guards are dropped.
THEOREM BorrowsCounted == Spec => []BorrowCounted
  <1>1. ASSUME IndInv PROVE BorrowCounted
    <2>1. Typed /\ CountInv
      BY <1>1 DEF IndInv
    <2>2. TypeOK
      BY <2>1, FlagMeaning DEF Typed, TypeOK
    <2> QED
      BY <2>1, <2>2 DEF BorrowCounted, CountInv, Mut, Shared, Forgotten
  <1> QED
    BY <1>1, Inductive, PTL

\* A payload with a live shared borrow, a suspended Clone's included, is neither
\* taken nor written.
THEOREM StableShared == Spec => []SharedStable
  <1>1. IndInv => SharedStable
    BY DEF IndInv, CallInv, SharedStable
  <1> QED
    BY <1>1, Inductive, PTL

-------------------------------------------------------------------------------
(* Refinement of the atomic slot.                                            *)

\* A fresh slot is a fresh atomic slot.
LEMMA InitRefines == Init => Abstract!Init
  BY DEF Init, Abstract!Init, phaseBar, accessBar

\* The abstract state of one activation.
LEMMA Bars ==
    ASSUME NEW c \in Caller
    PROVE  /\ phaseBar[c] = IF pc[c] \in {"call", "cloning"} THEN "pending" ELSE pc[c]
           /\ accessBar[c] = IF pc[c] = "cloning" THEN "none" ELSE ref[c]
  BY DEF phaseBar, accessBar

\* A step of one activation changes its abstract state only.
LEMMA BarStep ==
    ASSUME Typed, NEW c \in Caller, NEW p, pc' = [pc EXCEPT ![c] = p],
           NEW r, ref' = [ref EXCEPT ![c] = r]
    PROVE  /\ phaseBar' = [phaseBar EXCEPT ![c] =
                              IF p \in {"call", "cloning"} THEN "pending" ELSE p]
           /\ accessBar' = [accessBar EXCEPT ![c] = IF p = "cloning" THEN "none" ELSE r]
  BY DEF Typed, phaseBar, accessBar

\* Likewise where it leaves the slot's code.
LEMMA OutStep ==
    ASSUME Typed, NEW c \in Caller,
           NEW p \in {"idle", "answered", "holding"}, pc' = [pc EXCEPT ![c] = p],
           NEW r, ref' = [ref EXCEPT ![c] = r]
    PROVE  /\ phaseBar' = [phaseBar EXCEPT ![c] = p]
           /\ accessBar' = [accessBar EXCEPT ![c] = r]
  BY DEF Typed, phaseBar, accessBar

\* Entering Clone is no step of the atomic slot.
LEMMA CloneStutters ==
    ASSUME Typed, NEW c \in Caller, pc[c] = "call", ref[c] = "none",
           pc' = [pc EXCEPT ![c] = "cloning"], ref' = [ref EXCEPT ![c] = "shared"]
    PROVE  phaseBar' = phaseBar /\ accessBar' = accessBar
  <1>1. \A d \in Caller : phaseBar'[d] = phaseBar[d] /\ accessBar'[d] = accessBar[d]
    BY DEF Typed, phaseBar, accessBar
  <1> QED
    BY <1>1 DEF phaseBar, accessBar

\* Writing what is there.
LEMMA SameRef ==
    ASSUME Typed, NEW c \in Caller, ref' = ref
    PROVE  ref' = [ref EXCEPT ![c] = ref[c]]
  BY DEF Typed

\* An activation that had no reference and gets none keeps its abstract access.
LEMMA PlaceStep ==
    ASSUME IndInv, NEW c \in Caller, NEW p, pc' = [pc EXCEPT ![c] = p],
           ref[c] = "none", ref' = ref
    PROVE  /\ phaseBar' = [phaseBar EXCEPT ![c] =
                              IF p \in {"call", "cloning"} THEN "pending" ELSE p]
           /\ accessBar' = accessBar
  <1>1. Typed /\ ref' = [ref EXCEPT ![c] = "none"]
    BY SameRef DEF IndInv
  <1>2. /\ phaseBar' = [phaseBar EXCEPT ![c] = IF p \in {"call", "cloning"} THEN "pending" ELSE p]
        /\ accessBar' = [accessBar EXCEPT ![c] = IF p = "cloning" THEN "none" ELSE "none"]
    BY <1>1, BarStep
  <1>3. accessBar[c] = "none" /\ DOMAIN accessBar = Caller
    BY DEF accessBar
  <1> QED
    BY <1>2, <1>3 DEF accessBar

\* When the flag permits it, nobody has the access that it excludes.
LEMMA AccessExcluded ==
    ASSUME IndInv
    PROVE  /\ borrow = 0 => \A d \in Caller : accessBar[d] = "none"
           /\ borrow >= 0 => \A d \in Caller : accessBar[d] # "mut"
  <1>1. Typed /\ CountInv
    BY DEF IndInv
  <1>2. ASSUME borrow = 0, NEW d \in Caller PROVE accessBar[d] = "none"
    <2>1. Mut = {} /\ Shared = {}
      BY <1>1, <1>2, FlagMeaning
    <2>2. ref[d] = "none"
      BY <1>1, <2>1 DEF Typed, Mut, Shared
    <2> QED
      BY <2>2, Bars
  <1>3. ASSUME borrow >= 0, NEW d \in Caller PROVE accessBar[d] # "mut"
    <2>1. Mut = {}
      BY <1>1, <1>3, FlagMeaning
    <2>2. ref[d] # "mut"
      BY <2>1 DEF Mut
    <2> QED
      BY <2>2, Bars
  <1> QED
    BY <1>2, <1>3

\* Every step is a step of the atomic slot or, where a Clone begins, none.
LEMMA StepRefines == IndInv /\ [Next]_vars => [Abstract!Next]_(Abstract!slotVars)
  <1> SUFFICES ASSUME IndInv, [Next]_vars PROVE Abstract!Next \/ UNCHANGED Abstract!slotVars
    OBVIOUS
  <1>0. Typed /\ CallInv /\ ExclusiveInv /\ CountInv /\ StackInv
    BY DEF IndInv
  <1>1. CASE UNCHANGED vars
    BY <1>1 DEF vars, Abstract!slotVars, phaseBar, accessBar
  <1>2. ASSUME NEW c \in Caller, NEW o \in Op, Invoke(c, o) PROVE Abstract!Invoke(c, o)
    <2>1. pc[c] = "idle" /\ ref[c] = "none" /\ pc' = [pc EXCEPT ![c] = "call"] /\ ref' = ref
      BY <1>0, <1>2 DEF Invoke, CallInv
    <2>2. phaseBar' = [phaseBar EXCEPT ![c] = "pending"] /\ accessBar' = accessBar
      BY <2>1, PlaceStep
    <2>3. phaseBar[c] = "idle"
      BY <2>1, Bars
    <2> QED
      BY <1>2, <2>2, <2>3 DEF Invoke, Abstract!Invoke
  <1>3. ASSUME NEW c \in Caller, pc[c] = "call",
               NEW a, Answer(c, a), ref' = ref
        PROVE  /\ phaseBar[c] = "pending" /\ op[c] \in Op /\ ref[c] = "none"
               /\ answer' = [answer EXCEPT ![c] = a]
               /\ phaseBar' = [phaseBar EXCEPT ![c] = "answered"] /\ accessBar' = accessBar
    <2>1. ref[c] = "none" /\ pc' = [pc EXCEPT ![c] = "answered"]
          /\ answer' = [answer EXCEPT ![c] = a] /\ op[c] \in Op
      BY <1>0, <1>3 DEF Answer, CallInv, Typed
    <2>2. phaseBar' = [phaseBar EXCEPT ![c] = "answered"] /\ accessBar' = accessBar
      BY <1>3, <2>1, PlaceStep
    <2>3. phaseBar[c] = "pending"
      BY <1>3, Bars
    <2> QED
      BY <2>1, <2>2, <2>3
  <1>4. ASSUME NEW c \in Caller, Contended(c) PROVE Abstract!Contended(c)
    <2>1. /\ pc[c] = "call" /\ Answer(c, "contention") /\ Refused(c)
          /\ UNCHANGED <<value, leaked, op, ref>>
      BY <1>4 DEF Contended, Calling
    <2>2. /\ phaseBar[c] = "pending" /\ op[c] \in Op /\ ref[c] = "none"
          /\ answer' = [answer EXCEPT ![c] = "contention"]
          /\ phaseBar' = [phaseBar EXCEPT ![c] = "answered"] /\ accessBar' = accessBar
      BY <1>3, <2>1
    <2>3. ASSUME NEW d \in Caller, ref[d] # "none"
          PROVE  \E e \in Caller \ {c} : phaseBar[e] # "idle"
      <3>1. d # c /\ pc[d] \in {"cloning", "holding"}
        BY <1>0, <2>2, <2>3 DEF CallInv, Typed
      <3>2. phaseBar[d] # "idle"
        BY <3>1, Bars
      <3> QED
        BY <3>1, <3>2
    <2>4. \/ \E d \in Caller \ {c} : phaseBar[d] # "idle"
          \/ leaked = "write"
          \/ leaked = "read" /\ op[c] \in {"resolve", "ref_mut"}
      <3>1. CASE op[c] \in {"ref", "clone"}
        <4>1. ~(Mut = {} /\ leaked # "write")
          BY <1>0, <2>1, <3>1, FlagMeaning DEF Refused, CanBorrow
        <4> QED
          BY <2>3, <4>1 DEF Mut
      <3>2. CASE op[c] \in {"resolve", "ref_mut"}
        <4>1. ~(Mut = {} /\ Shared = {} /\ leaked = "none")
          BY <1>0, <2>1, <3>2, FlagMeaning DEF Refused, CanBorrowMut
        <4>2. leaked \in {"none", "read", "write"}
          BY <1>0 DEF Typed
        <4> QED
          BY <2>3, <3>2, <4>1, <4>2 DEF Mut, Shared
      <3> QED
        BY <2>2, <3>1, <3>2 DEF Op
    <2> QED
      BY <2>1, <2>2, <2>4 DEF Abstract!Contended, Abstract!Pending, Abstract!Reply, Abstract!Op,
         Op, Abstract!Exclusive
  <1>5. ASSUME NEW c \in Caller, Consumed(c) PROVE Abstract!Consumed(c)
    <2>1. /\ pc[c] = "call" /\ Answer(c, "consumed") /\ value = Empty
          /\ UNCHANGED <<value, leaked, op, ref>>
      BY <1>5 DEF Consumed, Calling
    <2>2. /\ phaseBar[c] = "pending" /\ op[c] \in Op
          /\ answer' = [answer EXCEPT ![c] = "consumed"]
          /\ phaseBar' = [phaseBar EXCEPT ![c] = "answered"] /\ accessBar' = accessBar
      BY <1>3, <2>1
    <2> QED
      BY <2>1, <2>2 DEF Abstract!Consumed, Abstract!Pending, Abstract!Reply, Abstract!Op, Op
  <1>6. ASSUME NEW c \in Caller, Take(c) PROVE Abstract!Take(c)
    <2>1. /\ pc[c] = "call" /\ op[c] = "resolve" /\ Answer(c, "ok") /\ value # Empty
          /\ borrow = 0 /\ value' = Empty /\ UNCHANGED <<leaked, op, ref>>
      BY <1>6 DEF Take, Calling, Refused, CanBorrowMut
    <2>2. /\ phaseBar[c] = "pending"
          /\ answer' = [answer EXCEPT ![c] = "ok"]
          /\ phaseBar' = [phaseBar EXCEPT ![c] = "answered"] /\ accessBar' = accessBar
      BY <1>3, <2>1
    <2>3. \A d \in Caller : accessBar[d] = "none"
      BY <2>1, AccessExcluded
    <2> QED
      BY <2>1, <2>2, <2>3 DEF Abstract!Take, Abstract!Pending, Abstract!Reply, Abstract!NoAccess
  <1>7. ASSUME NEW c \in Caller, Borrow(c)
        PROVE  Abstract!Borrow(c) \/ UNCHANGED Abstract!slotVars
    <2>1. /\ pc[c] = "call" /\ op[c] \in {"ref", "clone"} /\ value # Empty /\ borrow >= 0
          /\ ref' = [ref EXCEPT ![c] = "shared"] /\ UNCHANGED <<value, leaked, op>>
      BY <1>7 DEF Borrow, Calling, Refused, CanBorrow
    <2>2. phaseBar[c] = "pending" /\ accessBar[c] = "none"
      BY <1>0, <2>1, Bars DEF CallInv
    <2>3. CASE op[c] = "ref"
      <3>1. pc' = [pc EXCEPT ![c] = "holding"] /\ answer' = [answer EXCEPT ![c] = "ok"]
        BY <1>7, <2>3 DEF Borrow
      <3>2. /\ phaseBar' = [phaseBar EXCEPT ![c] = "holding"]
            /\ accessBar' = [accessBar EXCEPT ![c] = "shared"]
        BY <1>0, <2>1, <3>1, OutStep
      <3>3. \A d \in Caller : accessBar[d] # "mut"
        BY <2>1, AccessExcluded
      <3> QED
        BY <2>1, <2>2, <2>3, <3>1, <3>2, <3>3 DEF Abstract!Borrow, Abstract!Pending,
           Abstract!Reply, Abstract!NoMutAccess
    <2>4. CASE op[c] = "clone"
      <3>1. pc' = [pc EXCEPT ![c] = "cloning"] /\ answer' = answer
        BY <1>7, <2>4 DEF Borrow
      <3>2. phaseBar' = phaseBar /\ accessBar' = accessBar
        BY <1>0, <2>1, <3>1, CloneStutters DEF CallInv
      <3> QED
        BY <2>1, <3>1, <3>2 DEF Abstract!slotVars
    <2> QED
      BY <2>1, <2>3, <2>4
  <1>8. ASSUME NEW c \in Caller, BorrowMut(c) PROVE Abstract!BorrowMut(c)
    <2>1. /\ pc[c] = "call" /\ op[c] = "ref_mut" /\ value # Empty /\ borrow = 0
          /\ ref' = [ref EXCEPT ![c] = "mut"] /\ UNCHANGED <<value, leaked, op>>
          /\ pc' = [pc EXCEPT ![c] = "holding"] /\ answer' = [answer EXCEPT ![c] = "ok"]
      BY <1>8 DEF BorrowMut, Calling, Refused, CanBorrowMut
    <2>2. phaseBar[c] = "pending" /\ \A d \in Caller : accessBar[d] = "none"
      BY <2>1, Bars, AccessExcluded
    <2>3. /\ phaseBar' = [phaseBar EXCEPT ![c] = "holding"]
          /\ accessBar' = [accessBar EXCEPT ![c] = "mut"]
      BY <1>0, <2>1, OutStep
    <2> QED
      BY <2>1, <2>2, <2>3 DEF Abstract!BorrowMut, Abstract!Pending, Abstract!Reply,
         Abstract!NoAccess
  <1>9. ASSUME NEW c \in Caller, CloneReturns(c) PROVE Abstract!Clone(c)
    <2>1. /\ stack # <<>> /\ stack[Len(stack)] = c
          /\ ref' = [ref EXCEPT ![c] = "none"] /\ UNCHANGED <<value, leaked, op>>
          /\ pc' = [pc EXCEPT ![c] = "answered"]
      BY <1>9 DEF CloneReturns, Answer
    <2>2. PICK a \in {"ok", "panic"} : answer' = [answer EXCEPT ![c] = a]
      BY <1>9 DEF CloneReturns, Answer
    <2>3. Len(stack) \in 1 .. Len(stack)
      BY <1>0, <2>1 DEF Typed
    <2>4. pc[c] = "cloning" /\ op[c] = "clone" /\ ref[c] = "shared" /\ value # Empty
      BY <1>0, <2>1, <2>3 DEF StackInv, CallInv
    <2>5. phaseBar[c] = "pending" /\ accessBar[c] = "none"
      BY <2>4, Bars
    <2>6. /\ phaseBar' = [phaseBar EXCEPT ![c] = "answered"]
          /\ accessBar' = [accessBar EXCEPT ![c] = "none"]
      BY <1>0, <2>1, OutStep
    <2>7. accessBar' = accessBar
      BY <2>5, <2>6 DEF accessBar
    <2>8. \A d \in Caller : accessBar[d] # "mut"
      <3>1. \A d \in Caller : ref[d] # "mut"
        BY <1>0, <2>4 DEF ExclusiveInv
      <3> QED
        BY <3>1, Bars
    <2> QED
      BY <2>1, <2>2, <2>4, <2>5, <2>6, <2>7, <2>8 DEF Abstract!Clone, Abstract!Pending,
         Abstract!Reply, Abstract!NoMutAccess
  <1>10. ASSUME NEW c \in Caller, Return(c) PROVE Abstract!Return(c)
    <2>1. pc[c] = "answered" /\ pc' = [pc EXCEPT ![c] = "idle"] /\ ref' = ref /\ ref[c] = "none"
      BY <1>0, <1>10 DEF Return, CallInv
    <2>2. phaseBar' = [phaseBar EXCEPT ![c] = "idle"] /\ accessBar' = accessBar
      BY <2>1, PlaceStep
    <2>3. phaseBar[c] = "answered" /\ accessBar[c] = "none"
      BY <2>1, Bars
    <2> QED
      BY <1>10, <2>2, <2>3 DEF Return, Abstract!Return
  <1>11. ASSUME NEW c \in Caller, Write(c) PROVE Abstract!Write(c)
    <2>1. phaseBar[c] = "holding" /\ accessBar[c] = "mut"
      BY <1>11, Bars DEF Write
    <2>2. phaseBar' = phaseBar /\ accessBar' = accessBar
      BY <1>11 DEF Write, phaseBar, accessBar
    <2> QED
      BY <1>11, <2>1, <2>2 DEF Write, Abstract!Write
  <1>12. ASSUME NEW c \in Caller, DropGuard(c) \/ ForgetGuard(c) PROVE Abstract!GiveBack(c)
    <2>1. /\ pc[c] = "holding" /\ ref' = [ref EXCEPT ![c] = "none"]
          /\ pc' = [pc EXCEPT ![c] = "idle"] /\ UNCHANGED <<value, op, answer>>
      BY <1>12 DEF DropGuard, ForgetGuard
    <2>2. op[c] # "reserve" /\ (op[c] = "ref" <=> ref[c] = "shared")
          /\ (op[c] # "ref" <=> ref[c] = "mut")
      BY <1>0, <2>1 DEF CallInv
    <2>3. leaked' \in {leaked, IF op[c] = "ref" THEN "read" ELSE "write"}
      BY <1>12, <2>2 DEF DropGuard, ForgetGuard
    <2>4. /\ phaseBar' = [phaseBar EXCEPT ![c] = "idle"]
          /\ accessBar' = [accessBar EXCEPT ![c] = "none"]
      BY <1>0, <2>1, OutStep
    <2>5. phaseBar[c] = "holding"
      BY <2>1, Bars
    <2> QED
      BY <2>1, <2>2, <2>3, <2>4, <2>5 DEF Abstract!GiveBack
  <1>13. Op \subseteq Abstract!Op
    BY DEF Op, Abstract!Op
  <1> QED
    BY <1>1, <1>2, <1>4, <1>5, <1>6, <1>7, <1>8, <1>9, <1>10, <1>11, <1>12, <1>13
       DEF Next, Abstract!Next

\* LocalTakeSlot implements the atomic slot: single-threaded borrow tracking keeps
\* the promises of the synchronized slot, for every finite set of activations.
THEOREM Refinement == Spec => ImplementsSlot
  <1> QED
    BY InitRefines, StepRefines, Inductive, PTL DEF Spec, ImplementsSlot, Abstract!Spec
===============================================================================
