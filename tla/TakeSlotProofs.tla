---------------------------- MODULE TakeSlotProofs ----------------------------
(***************************************************************************)
(* TakeSlot is safe for any set of callers and any number of writes.        *)
(***************************************************************************)
EXTENDS TakeSlot, TLAPS

USE EmptyAssumption, MaxWritesAssumption

\* The state of a fresh TakeSlot satisfies the inductive invariant.
LEMMA InitInv == Init => IndInv
  <1> SUFFICES ASSUME Init PROVE IndInv
    OBVIOUS
  <1> USE DEF Init
  <1>1. TypeOK
    BY DEF TypeOK, Op, InCall
  <1>2. LockInv
    BY DEF LockInv
  <1>3. CallInv
    BY DEF CallInv
  <1>4. RefInv
    BY DEF RefInv
  <1>5. SharedStable /\ MovedOnce
    BY DEF SharedStable, MovedOnce
  <1> QED
    BY <1>1, <1>2, <1>3, <1>4, <1>5 DEF IndInv

\* Every step of an operation or of its client keeps the types.
LEMMA StepType == TypeOK /\ [Next]_vars => TypeOK'
  <1> SUFFICES ASSUME TypeOK, [Next]_vars PROVE TypeOK'
    OBVIOUS
  <1> USE DEF TypeOK, Op, InCall
  <1>1. CASE UNCHANGED vars
    BY <1>1 DEF vars
  <1>2. ASSUME NEW c \in Caller, Step(c) PROVE TypeOK'
    <2>1. CASE Acquire(c)
      BY <2>1 DEF Acquire
    <2>2. CASE AcquireFails(c)
      BY <2>2 DEF AcquireFails
    <2>3. CASE CheckReserved(c)
      BY <2>3 DEF CheckReserved
    <2>4. CASE Access(c)
      BY <2>4 DEF Access
    <2>5. CASE Missing(c)
      BY <2>5 DEF Missing
    <2>6. CASE Take(c)
      BY <2>6 DEF Take
    <2>7. CASE Retain(c)
      BY <2>7 DEF Retain
    <2>8. CASE Clone(c)
      BY <2>8 DEF Clone
    <2>9. CASE Reserve(c)
      BY <2>9 DEF Reserve
    <2>10. CASE Release(c)
      BY <2>10 DEF Release
    <2>11. CASE Return(c)
      BY <2>11 DEF Return
    <2> QED
      BY <1>2, <2>1, <2>2, <2>3, <2>4, <2>5, <2>6, <2>7, <2>8, <2>9, <2>10, <2>11
         DEF Step
  <1>3. ASSUME NEW c \in Caller, Client(c) PROVE TypeOK'
    <2>1. ASSUME NEW o \in Op, Invoke(c, o) PROVE TypeOK'
      BY <2>1 DEF Invoke
    <2>2. CASE Write(c)
      BY <2>2 DEF Write
    <2>3. CASE DropGuard(c)
      BY <2>3 DEF DropGuard
    <2>4. CASE ForgetGuard(c)
      BY <2>4 DEF ForgetGuard
    <2> QED
      BY <1>3, <2>1, <2>2, <2>3, <2>4 DEF Client
  <1> QED
    BY <1>1, <1>2, <1>3 DEF Next

\* One step preserves the inductive invariant, action by action.
LEMMA StepInv == IndInv /\ [Next]_vars => IndInv'
  <1> SUFFICES ASSUME IndInv, [Next]_vars PROVE IndInv'
    OBVIOUS
  <1>0. TypeOK'
    BY StepType DEF IndInv
  <1> USE DEF IndInv
  <1>1. CASE UNCHANGED vars
    BY <1>1 DEF vars, TypeOK, LockInv, CallInv, RefInv, SharedStable, MovedOnce
  <1>2. ASSUME NEW c \in Caller, Acquire(c) PROVE IndInv'
    <2>1. LockInv'
      BY <1>2 DEF Acquire, CanAcquire, CanRead, CanWrite, TypeOK, LockInv, CallInv, Op,
         Reading, Exclusive, InCall
    <2>2. CallInv'
      BY <1>2 DEF Acquire, CanAcquire, CanRead, CanWrite, TypeOK, LockInv, CallInv,
         RefInv, Op, Reading, Exclusive, InCall
    <2>3. RefInv'
      BY <1>2 DEF Acquire, CanAcquire, CanRead, CanWrite, TypeOK, LockInv, CallInv,
         RefInv, MovedOnce, Op, Reading, Exclusive, InCall
    <2>4. SharedStable'
      BY <1>2 DEF Acquire, CanAcquire, CanRead, CanWrite, TypeOK, LockInv, CallInv,
         RefInv, SharedStable, Op, Reading, Exclusive, InCall
    <2>5. MovedOnce'
      BY <1>2 DEF Acquire, CanAcquire, CanRead, CanWrite, TypeOK, MovedOnce, Op,
         Reading, Exclusive, InCall
    <2> QED
      BY <1>0, <2>1, <2>2, <2>3, <2>4, <2>5
  <1>3. ASSUME NEW c \in Caller, AcquireFails(c) PROVE IndInv'
    <2>1. LockInv'
      BY <1>3 DEF AcquireFails, TypeOK, LockInv, CallInv, Op, Reading, Exclusive, InCall
    <2>2. CallInv'
      BY <1>3 DEF AcquireFails, TypeOK, LockInv, CallInv, RefInv, Op, Reading,
         Exclusive, InCall
    <2>3. RefInv'
      BY <1>3 DEF AcquireFails, TypeOK, LockInv, CallInv, RefInv, MovedOnce, Op,
         Reading, Exclusive, InCall
    <2>4. SharedStable'
      BY <1>3 DEF AcquireFails, TypeOK, LockInv, CallInv, RefInv, SharedStable, Op,
         Reading, Exclusive, InCall
    <2>5. MovedOnce'
      BY <1>3 DEF AcquireFails, TypeOK, MovedOnce, Op, Reading, Exclusive, InCall
    <2> QED
      BY <1>0, <2>1, <2>2, <2>3, <2>4, <2>5
  <1>4. ASSUME NEW c \in Caller, CheckReserved(c) PROVE IndInv'
    <2>1. LockInv'
      BY <1>4 DEF CheckReserved, TypeOK, LockInv, CallInv, Op, Reading, Exclusive,
         InCall
    <2>2. CallInv'
      BY <1>4 DEF CheckReserved, TypeOK, LockInv, CallInv, RefInv, Op, Reading,
         Exclusive, InCall
    <2>3. RefInv'
      BY <1>4 DEF CheckReserved, TypeOK, LockInv, CallInv, RefInv, MovedOnce, Op,
         Reading, Exclusive, InCall
    <2>4. SharedStable'
      BY <1>4 DEF CheckReserved, TypeOK, LockInv, CallInv, RefInv, SharedStable, Op,
         Reading, Exclusive, InCall
    <2>5. MovedOnce'
      BY <1>4 DEF CheckReserved, TypeOK, MovedOnce, Op, Reading, Exclusive, InCall
    <2> QED
      BY <1>0, <2>1, <2>2, <2>3, <2>4, <2>5
  <1>5. ASSUME NEW c \in Caller, Access(c) PROVE IndInv'
    <2>1. LockInv'
      BY <1>5 DEF Access, TypeOK, LockInv, CallInv, Op, Reading, Exclusive, InCall
    <2>2. CallInv'
      BY <1>5 DEF Access, TypeOK, LockInv, CallInv, RefInv, Op, Reading, Exclusive,
         InCall
    <2>3. RefInv'
      BY <1>5 DEF Access, TypeOK, LockInv, CallInv, RefInv, MovedOnce, Op, Reading,
         Exclusive, InCall
    <2>4. SharedStable'
      BY <1>5 DEF Access, TypeOK, LockInv, CallInv, RefInv, SharedStable, Op, Reading,
         Exclusive, InCall
    <2>5. MovedOnce'
      BY <1>5 DEF Access, TypeOK, MovedOnce, Op, Reading, Exclusive, InCall
    <2> QED
      BY <1>0, <2>1, <2>2, <2>3, <2>4, <2>5
  <1>6. ASSUME NEW c \in Caller, Missing(c) PROVE IndInv'
    <2>1. LockInv'
      BY <1>6 DEF Missing, TypeOK, LockInv, CallInv, Op, Reading, Exclusive, InCall
    <2>2. CallInv'
      BY <1>6 DEF Missing, TypeOK, LockInv, CallInv, RefInv, Op, Reading, Exclusive,
         InCall
    <2>3. RefInv'
      BY <1>6 DEF Missing, TypeOK, LockInv, CallInv, RefInv, MovedOnce, Op, Reading,
         Exclusive, InCall
    <2>4. SharedStable'
      BY <1>6 DEF Missing, TypeOK, LockInv, CallInv, RefInv, SharedStable, Op, Reading,
         Exclusive, InCall
    <2>5. MovedOnce'
      BY <1>6 DEF Missing, TypeOK, MovedOnce, Op, Reading, Exclusive, InCall
    <2> QED
      BY <1>0, <2>1, <2>2, <2>3, <2>4, <2>5
  <1>7. ASSUME NEW c \in Caller, Take(c) PROVE IndInv'
    <2>1. LockInv'
      BY <1>7 DEF Take, TypeOK, LockInv, CallInv, Op, Reading, Exclusive, InCall
    <2>2. CallInv'
      BY <1>7 DEF Take, TypeOK, LockInv, CallInv, RefInv, Op, Reading, Exclusive, InCall
    <2>3. RefInv'
      BY <1>7 DEF Take, TypeOK, LockInv, CallInv, RefInv, MovedOnce, Op, Reading,
         Exclusive, InCall
    <2>4. SharedStable'
      BY <1>7 DEF Take, TypeOK, LockInv, CallInv, RefInv, SharedStable, Op, Reading,
         Exclusive, InCall
    <2>5. MovedOnce'
      BY <1>7 DEF Take, TypeOK, MovedOnce, Op, Reading, Exclusive, InCall
    <2> QED
      BY <1>0, <2>1, <2>2, <2>3, <2>4, <2>5
  <1>8. ASSUME NEW c \in Caller, Retain(c) PROVE IndInv'
    <2>1. LockInv'
      BY <1>8 DEF Retain, TypeOK, LockInv, CallInv, Op, Reading, Exclusive, InCall
    <2>2. CallInv'
      BY <1>8 DEF Retain, TypeOK, LockInv, CallInv, RefInv, Op, Reading, Exclusive,
         InCall
    <2>3. RefInv'
      BY <1>8 DEF Retain, TypeOK, LockInv, CallInv, RefInv, MovedOnce, Op, Reading,
         Exclusive, InCall
    <2>4. SharedStable'
      BY <1>8 DEF Retain, TypeOK, LockInv, CallInv, RefInv, SharedStable, Op, Reading,
         Exclusive, InCall
    <2>5. MovedOnce'
      BY <1>8 DEF Retain, TypeOK, MovedOnce, Op, Reading, Exclusive, InCall
    <2> QED
      BY <1>0, <2>1, <2>2, <2>3, <2>4, <2>5
  <1>9. ASSUME NEW c \in Caller, Clone(c) PROVE IndInv'
    <2>1. LockInv'
      BY <1>9 DEF Clone, TypeOK, LockInv, CallInv, Op, Reading, Exclusive, InCall
    <2>2. CallInv'
      BY <1>9 DEF Clone, TypeOK, LockInv, CallInv, RefInv, Op, Reading, Exclusive,
         InCall
    <2>3. RefInv'
      BY <1>9 DEF Clone, TypeOK, LockInv, CallInv, RefInv, MovedOnce, Op, Reading,
         Exclusive, InCall
    <2>4. SharedStable'
      BY <1>9 DEF Clone, TypeOK, LockInv, CallInv, RefInv, SharedStable, Op, Reading,
         Exclusive, InCall
    <2>5. MovedOnce'
      BY <1>9 DEF Clone, TypeOK, MovedOnce, Op, Reading, Exclusive, InCall
    <2> QED
      BY <1>0, <2>1, <2>2, <2>3, <2>4, <2>5
  <1>10. ASSUME NEW c \in Caller, Reserve(c) PROVE IndInv'
    <2>1. LockInv'
      BY <1>10 DEF Reserve, TypeOK, LockInv, CallInv, Op, Reading, Exclusive, InCall
    <2>2. CallInv'
      BY <1>10 DEF Reserve, TypeOK, LockInv, CallInv, RefInv, Op, Reading, Exclusive,
         InCall
    <2>3. RefInv'
      BY <1>10 DEF Reserve, TypeOK, LockInv, CallInv, RefInv, MovedOnce, Op, Reading,
         Exclusive, InCall
    <2>4. SharedStable'
      BY <1>10 DEF Reserve, TypeOK, LockInv, CallInv, RefInv, SharedStable, Op,
         Reading, Exclusive, InCall
    <2>5. MovedOnce'
      BY <1>10 DEF Reserve, TypeOK, MovedOnce, Op, Reading, Exclusive, InCall
    <2> QED
      BY <1>0, <2>1, <2>2, <2>3, <2>4, <2>5
  <1>11. ASSUME NEW c \in Caller, Release(c) PROVE IndInv'
    <2>1. LockInv'
      BY <1>11 DEF Release, TypeOK, LockInv, CallInv, Op, Reading, Exclusive, InCall
    <2>2. CallInv'
      BY <1>11 DEF Release, TypeOK, LockInv, CallInv, RefInv, Op, Reading, Exclusive,
         InCall
    <2>3. RefInv'
      BY <1>11 DEF Release, TypeOK, LockInv, CallInv, RefInv, MovedOnce, Op, Reading,
         Exclusive, InCall
    <2>4. SharedStable'
      BY <1>11 DEF Release, TypeOK, LockInv, CallInv, RefInv, SharedStable, Op,
         Reading, Exclusive, InCall
    <2>5. MovedOnce'
      BY <1>11 DEF Release, TypeOK, MovedOnce, Op, Reading, Exclusive, InCall
    <2> QED
      BY <1>0, <2>1, <2>2, <2>3, <2>4, <2>5
  <1>12. ASSUME NEW c \in Caller, Return(c) PROVE IndInv'
    <2>1. LockInv'
      BY <1>12 DEF Return, TypeOK, LockInv, CallInv, Op, Reading, Exclusive, InCall
    <2>2. CallInv'
      BY <1>12 DEF Return, TypeOK, LockInv, CallInv, RefInv, Op, Reading, Exclusive,
         InCall
    <2>3. RefInv'
      BY <1>12 DEF Return, TypeOK, LockInv, CallInv, RefInv, MovedOnce, Op, Reading,
         Exclusive, InCall
    <2>4. SharedStable'
      BY <1>12 DEF Return, TypeOK, LockInv, CallInv, RefInv, SharedStable, Op, Reading,
         Exclusive, InCall
    <2>5. MovedOnce'
      BY <1>12 DEF Return, TypeOK, MovedOnce, Op, Reading, Exclusive, InCall
    <2> QED
      BY <1>0, <2>1, <2>2, <2>3, <2>4, <2>5
  <1>13. ASSUME NEW c \in Caller, NEW o \in Op, Invoke(c, o) PROVE IndInv'
    <2>1. LockInv'
      BY <1>13 DEF Invoke, TypeOK, LockInv, CallInv, Op, Reading, Exclusive, InCall
    <2>2. CallInv'
      BY <1>13 DEF Invoke, TypeOK, LockInv, CallInv, RefInv, Op, Reading, Exclusive,
         InCall
    <2>3. RefInv'
      BY <1>13 DEF Invoke, TypeOK, LockInv, CallInv, RefInv, MovedOnce, Op, Reading,
         Exclusive, InCall
    <2>4. SharedStable'
      BY <1>13 DEF Invoke, TypeOK, LockInv, CallInv, RefInv, SharedStable, Op, Reading,
         Exclusive, InCall
    <2>5. MovedOnce'
      BY <1>13 DEF Invoke, TypeOK, MovedOnce, Op, Reading, Exclusive, InCall
    <2> QED
      BY <1>0, <2>1, <2>2, <2>3, <2>4, <2>5
  <1>14. ASSUME NEW c \in Caller, Write(c) PROVE IndInv'
    <2>1. LockInv'
      BY <1>14 DEF Write, TypeOK, LockInv, CallInv, Op, Reading, Exclusive, InCall
    <2>2. CallInv'
      BY <1>14 DEF Write, TypeOK, LockInv, CallInv, RefInv, Op, Reading, Exclusive,
         InCall
    <2>3. RefInv'
      BY <1>14 DEF Write, TypeOK, LockInv, CallInv, RefInv, MovedOnce, Op, Reading,
         Exclusive, InCall
    <2>4. SharedStable'
      BY <1>14 DEF Write, TypeOK, LockInv, CallInv, RefInv, SharedStable, Op, Reading,
         Exclusive, InCall
    <2>5. MovedOnce'
      BY <1>14 DEF Write, TypeOK, MovedOnce, Op, Reading, Exclusive, InCall
    <2> QED
      BY <1>0, <2>1, <2>2, <2>3, <2>4, <2>5
  <1>15. ASSUME NEW c \in Caller, DropGuard(c) PROVE IndInv'
    <2>1. LockInv'
      BY <1>15 DEF DropGuard, TypeOK, LockInv, CallInv, Op, Reading, Exclusive, InCall
    <2>2. CallInv'
      BY <1>15 DEF DropGuard, TypeOK, LockInv, CallInv, RefInv, Op, Reading, Exclusive,
         InCall
    <2>3. RefInv'
      BY <1>15 DEF DropGuard, TypeOK, LockInv, CallInv, RefInv, MovedOnce, Op, Reading,
         Exclusive, InCall
    <2>4. SharedStable'
      BY <1>15 DEF DropGuard, TypeOK, LockInv, CallInv, RefInv, SharedStable, Op,
         Reading, Exclusive, InCall
    <2>5. MovedOnce'
      BY <1>15 DEF DropGuard, TypeOK, MovedOnce, Op, Reading, Exclusive, InCall
    <2> QED
      BY <1>0, <2>1, <2>2, <2>3, <2>4, <2>5
  <1>16. ASSUME NEW c \in Caller, ForgetGuard(c) PROVE IndInv'
    <2>1. LockInv'
      BY <1>16 DEF ForgetGuard, TypeOK, LockInv, CallInv, Op, Reading, Exclusive, InCall
    <2>2. CallInv'
      BY <1>16 DEF ForgetGuard, TypeOK, LockInv, CallInv, RefInv, Op, Reading,
         Exclusive, InCall
    <2>3. RefInv'
      BY <1>16 DEF ForgetGuard, TypeOK, LockInv, CallInv, RefInv, MovedOnce, Op,
         Reading, Exclusive, InCall
    <2>4. SharedStable'
      BY <1>16 DEF ForgetGuard, TypeOK, LockInv, CallInv, RefInv, SharedStable, Op,
         Reading, Exclusive, InCall
    <2>5. MovedOnce'
      BY <1>16 DEF ForgetGuard, TypeOK, MovedOnce, Op, Reading, Exclusive, InCall
    <2> QED
      BY <1>0, <2>1, <2>2, <2>3, <2>4, <2>5
  <1> QED
    BY <1>1, <1>2, <1>3, <1>4, <1>5, <1>6, <1>7, <1>8, <1>9, <1>10, <1>11, <1>12,
       <1>13, <1>14, <1>15, <1>16 DEF Next, Step, Client

\* The inductive invariant holds in every reachable state.
THEOREM Inductive == Spec => []IndInv
  <1>1. Init => IndInv
    BY InitInv
  <1>2. IndInv /\ [Next]_vars => IndInv'
    BY StepInv
  <1> QED
    BY <1>1, <1>2, PTL DEF Spec

\* Type correctness of the slot for every set of callers.
THEOREM TypeCorrect == Spec => []TypeOK
  <1>1. IndInv => TypeOK
    BY DEF IndInv
  <1> QED
    BY <1>1, Inductive, PTL

\* No exclusive payload reference ever coexists with another reference.
THEOREM NoAliasing == Spec => []Aliasing
  <1>1. IndInv => Aliasing
    BY DEF IndInv, TypeOK, LockInv, RefInv, Aliasing
  <1> QED
    BY <1>1, Inductive, PTL

\* A payload seen through a shared reference never moves or changes under it.
THEOREM StableShared == Spec => []SharedStable
  <1>1. IndInv => SharedStable
    BY DEF IndInv
  <1> QED
    BY <1>1, Inductive, PTL

\* Ownership leaves the slot at most once.
THEOREM SingleMove == Spec => []MovedOnce
  <1>1. IndInv => MovedOnce
    BY DEF IndInv
  <1> QED
    BY <1>1, Inductive, PTL

\* A reservation is permanent, and freezes the payload.
THEOREM ReservationIsFinal == Spec => ReservedForever
  <1>1. IndInv /\ [Next]_vars => [reserved => reserved' /\ value' = value]_vars
    <2> SUFFICES ASSUME IndInv, Next, reserved PROVE reserved' /\ value' = value
      OBVIOUS
    <2>1. PICK c \in Caller : Step(c) \/ Client(c)
      BY DEF Next
    <2> USE DEF IndInv, CallInv, RefInv, Exclusive
    <2>2. ~Take(c) /\ ~Write(c)
      BY DEF Take, Write
    <2>3. CASE Step(c)
      BY <2>2, <2>3 DEF Step, Acquire, AcquireFails, CheckReserved, Access, Missing,
         Retain, Clone, Reserve, Release, Return
    <2>4. CASE Client(c)
      BY <2>2, <2>4 DEF Client, Invoke, DropGuard, ForgetGuard
    <2> QED
      BY <2>1, <2>3, <2>4
  <1> QED
    BY <1>1, Inductive, PTL DEF Spec, ReservedForever

-------------------------------------------------------------------------------
(* Refinement of the atomic slot.                                            *)


\* A fresh TakeSlot is a fresh atomic slot.
LEMMA InitRefines == Init => Abstract!Init
  BY DEF Init, Abstract!Init, phaseBar, accessBar, phaseOf

\* While a caller is about to use an exclusive reference nobody has access.
LEMMA ExclusiveUse ==
    ASSUME IndInv, NEW c \in Caller, pc[c] = "use", op[c] \in Exclusive
    PROVE  ~reserved /\ \A d \in Caller : accessBar[d] = "none"
  BY DEF IndInv, TypeOK, LockInv, CallInv, RefInv, accessBar, phaseOf, Exclusive,
     Reading

\* While a caller is about to use a shared reference nobody has exclusive access.
LEMMA SharedUse ==
    ASSUME IndInv, NEW c \in Caller, pc[c] = "use"
    PROVE  \A d \in Caller : accessBar[d] # "mut"
  BY DEF IndInv, TypeOK, LockInv, CallInv, RefInv, accessBar, phaseOf, Exclusive,
     Reading

\* A step of one caller changes the abstract phase of that caller only.
LEMMA PhaseStep ==
    ASSUME TypeOK, NEW c \in Caller, NEW p, pc' = [pc EXCEPT ![c] = p]
    PROVE  phaseBar' = [phaseBar EXCEPT ![c] = phaseOf(p)]
  BY DEF TypeOK, phaseBar

\* ... and its abstract access only.
LEMMA AccessStep ==
    ASSUME TypeOK, NEW c \in Caller,
           NEW p, pc' = [pc EXCEPT ![c] = p],
           NEW r, ref' = [ref EXCEPT ![c] = r]
    PROVE  accessBar' = [accessBar EXCEPT ![c] = IF phaseOf(p) = "pending" THEN "none" ELSE r]
  BY DEF TypeOK, accessBar

\* Overwriting an entry of the abstract state with its own value changes nothing.
LEMMA SamePhase ==
    ASSUME NEW c \in Caller, NEW v, phaseBar[c] = v
    PROVE  [phaseBar EXCEPT ![c] = v] = phaseBar
  BY DEF phaseBar

LEMMA SameAccess ==
    ASSUME NEW c \in Caller, NEW v, accessBar[c] = v
    PROVE  [accessBar EXCEPT ![c] = v] = accessBar
  BY DEF accessBar

\* The abstract state of a caller is a function of where it is and of its reference.
LEMMA BarFunctions ==
    /\ \A c \in Caller : phaseBar[c] = phaseOf(pc[c])
    /\ \A c \in Caller :
          accessBar[c] = IF phaseOf(pc[c]) = "pending" THEN "none" ELSE ref[c]
  BY DEF phaseBar, accessBar

\* A caller inside its operation, before the answer, has no abstract access.
LEMMA PendingBar ==
    ASSUME NEW c \in Caller, pc[c] \in {"acquire", "check", "access", "use"}
    PROVE  phaseBar[c] = "pending" /\ accessBar[c] = "none"
  BY BarFunctions DEF phaseOf

\* A caller that goes on inside its operation takes no abstract step.
LEMMA PendingStutters ==
    ASSUME TypeOK, NEW c \in Caller, pc[c] \in {"acquire", "check", "access", "use"},
           NEW p \in {"acquire", "check", "access", "use"}, pc' = [pc EXCEPT ![c] = p],
           NEW r, ref' = [ref EXCEPT ![c] = r]
    PROVE  phaseBar' = phaseBar /\ accessBar' = accessBar
  <1>1. phaseOf(p) = "pending"
    BY DEF phaseOf
  <1>2. phaseBar' = [phaseBar EXCEPT ![c] = "pending"]
    BY <1>1, PhaseStep
  <1>3. accessBar' = [accessBar EXCEPT ![c] = "none"]
    BY <1>1, AccessStep
  <1>4. [phaseBar EXCEPT ![c] = "pending"] = phaseBar
    BY PendingBar, SamePhase
  <1>5. [accessBar EXCEPT ![c] = "none"] = accessBar
    BY PendingBar, SameAccess
  <1> QED
    BY <1>2, <1>3, <1>4, <1>5

\* A caller that gets its answer, and what its reference grants from then on.
LEMMA Answered ==
    ASSUME TypeOK, NEW c \in Caller,
           NEW p \in {"release", "return", "holding"}, pc' = [pc EXCEPT ![c] = p],
           NEW r, ref' = [ref EXCEPT ![c] = r]
    PROVE  /\ phaseBar' = [phaseBar EXCEPT
                              ![c] = IF p = "holding" THEN "holding" ELSE "answered"]
           /\ accessBar' = [accessBar EXCEPT ![c] = r]
  <1>1. phaseOf(p) = IF p = "holding" THEN "holding" ELSE "answered"
    BY DEF phaseOf
  <1>2. phaseOf(p) # "pending"
    BY DEF phaseOf
  <1>3. phaseBar' = [phaseBar EXCEPT ![c] = phaseOf(p)]
    BY PhaseStep
  <1>4. accessBar' = [accessBar EXCEPT ![c] = r]
    BY <1>2, AccessStep
  <1> QED
    BY <1>1, <1>3, <1>4

\* ... and of a caller that gets no access with it.
LEMMA AnsweredNoAccess ==
    ASSUME TypeOK, NEW c \in Caller, pc[c] \in {"acquire", "check", "access", "use"},
           NEW p \in {"release", "return"}, pc' = [pc EXCEPT ![c] = p],
           ref' = [ref EXCEPT ![c] = "none"]
    PROVE  phaseBar' = [phaseBar EXCEPT ![c] = "answered"] /\ accessBar' = accessBar
  <1>1. accessBar' = [accessBar EXCEPT ![c] = "none"]
    BY Answered
  <1>2. [accessBar EXCEPT ![c] = "none"] = accessBar
    BY PendingBar, SameAccess
  <1>3. phaseBar' = [phaseBar EXCEPT ![c] = "answered"]
    BY Answered
  <1> QED
    BY <1>1, <1>2, <1>3

\* Writing back the reference a caller has changes nothing.
LEMMA RefUnchanged ==
    ASSUME TypeOK, NEW c \in Caller, NEW r, ref[c] = r, ref' = ref
    PROVE  ref' = [ref EXCEPT ![c] = r]
  BY DEF TypeOK

\* Every step of TakeSlot is a step of the atomic slot, or none.
LEMMA StepRefines == IndInv /\ [Next]_vars => [Abstract!Next]_(Abstract!slotVars)
  <1> SUFFICES ASSUME IndInv, [Next]_vars
               PROVE  Abstract!Next \/ UNCHANGED Abstract!slotVars
    OBVIOUS
  <1>0. TypeOK /\ CallInv
    BY DEF IndInv
  <1>1. CASE UNCHANGED vars
    BY <1>1 DEF vars, Abstract!slotVars, phaseBar, accessBar
  <1>2. ASSUME NEW c \in Caller, Acquire(c) PROVE UNCHANGED Abstract!slotVars
    <2>1. pc[c] = "acquire" /\ ref[c] = "none" /\ ref' = ref
      BY <1>0, <1>2 DEF Acquire, CallInv
    <2>2. PICK p \in {"check", "access"} : pc' = [pc EXCEPT ![c] = p]
      BY <1>2 DEF Acquire
    <2>3. ref' = [ref EXCEPT ![c] = "none"]
      BY <1>0, <2>1, RefUnchanged
    <2>4. phaseBar' = phaseBar /\ accessBar' = accessBar
      BY <1>0, <2>1, <2>2, <2>3, PendingStutters
    <2> QED
      BY <1>2, <2>4 DEF Acquire, Abstract!slotVars
  <1>3. ASSUME NEW c \in Caller, AcquireFails(c) PROVE Abstract!Contended(c)
    <2>1. /\ pc[c] = "acquire" /\ ref[c] = "none" /\ ref' = ref
          /\ pc' = [pc EXCEPT ![c] = "return"]
      BY <1>0, <1>3 DEF AcquireFails, CallInv
    <2>2. ref' = [ref EXCEPT ![c] = "none"]
      BY <1>0, <2>1, RefUnchanged
    <2>3. phaseBar' = [phaseBar EXCEPT ![c] = "answered"] /\ accessBar' = accessBar
      BY <1>0, <2>1, <2>2, AnsweredNoAccess
    <2>4. phaseBar[c] = "pending" /\ op[c] \in Op
      BY <1>0, <2>1, PendingBar DEF TypeOK
    <2>5. \/ \E d \in Caller \ {c} : phaseBar[d] # "idle"
          \/ leaked = "write"
          \/ leaked = "read" /\ op[c] \in Exclusive \cup {"reserve"}
      <3>1. ASSUME NEW d \in Caller, held[d] # "none" \/ pc[d] \in InCall
            PROVE  phaseBar[d] # "idle"
        BY <1>0, <3>1, BarFunctions DEF CallInv, InCall, phaseOf, TypeOK
      <3>2. held[c] = "none"
        BY <1>0, <2>1 DEF CallInv
      <3>3. CASE CanAcquire(c)
        BY <1>3, <3>1, <3>3 DEF AcquireFails, TryLockFails
      <3>4. CASE op[c] \in Reading /\ ~CanRead
        BY <3>1, <3>2, <3>4 DEF CanRead
      <3>5. CASE op[c] \notin Reading /\ ~CanWrite
        BY <1>0, <2>4, <3>1, <3>2, <3>5 DEF CanWrite, TypeOK, Op, Reading, Exclusive
      <3> QED
        BY <3>3, <3>4, <3>5 DEF CanAcquire
    <2> QED
      BY <1>3, <2>3, <2>4, <2>5 DEF AcquireFails, Abstract!Contended, Abstract!Pending,
         Abstract!Reply, Abstract!Op, Op, Abstract!Exclusive, Exclusive
  <1>4. ASSUME NEW c \in Caller, CheckReserved(c)
        PROVE  Abstract!Contended(c) \/ UNCHANGED Abstract!slotVars
    <2>1. pc[c] = "check" /\ ref[c] = "none" /\ ref' = ref /\ op[c] \in Op \cap Exclusive
      BY <1>0, <1>4 DEF CheckReserved, CallInv, TypeOK
    <2>2. ref' = [ref EXCEPT ![c] = "none"]
      BY <1>0, <2>1, RefUnchanged
    <2>3. CASE reserved
      <3>1. pc' = [pc EXCEPT ![c] = "release"]
        BY <1>4, <2>3 DEF CheckReserved
      <3>2. phaseBar' = [phaseBar EXCEPT ![c] = "answered"] /\ accessBar' = accessBar
        BY <1>0, <2>1, <2>2, <3>1, AnsweredNoAccess
      <3>3. phaseBar[c] = "pending"
        BY <2>1, PendingBar
      <3> QED
        BY <1>4, <2>1, <2>3, <3>2, <3>3 DEF CheckReserved, Abstract!Contended,
           Abstract!Pending, Abstract!Reply, Abstract!Op, Op, Abstract!Exclusive, Exclusive
    <2>4. CASE ~reserved
      <3>1. pc' = [pc EXCEPT ![c] = "access"]
        BY <1>4, <2>4 DEF CheckReserved
      <3>2. phaseBar' = phaseBar /\ accessBar' = accessBar
        BY <1>0, <2>1, <2>2, <3>1, PendingStutters
      <3> QED
        BY <1>4, <2>4, <3>2 DEF CheckReserved, Abstract!slotVars
    <2> QED
      BY <2>3, <2>4
  <1>5. ASSUME NEW c \in Caller, Access(c) PROVE UNCHANGED Abstract!slotVars
    <2>1. pc[c] = "access" /\ pc' = [pc EXCEPT ![c] = "use"]
      BY <1>5 DEF Access
    <2>2. PICK r \in {"mut", "shared"} : ref' = [ref EXCEPT ![c] = r]
      BY <1>5 DEF Access
    <2>3. phaseBar' = phaseBar /\ accessBar' = accessBar
      BY <1>0, <2>1, <2>2, PendingStutters
    <2> QED
      BY <1>5, <2>3 DEF Access, Abstract!slotVars
  <1>6. ASSUME NEW c \in Caller, Missing(c) PROVE Abstract!Consumed(c)
    <2>1. /\ pc[c] = "use" /\ pc' = [pc EXCEPT ![c] = "release"]
          /\ ref' = [ref EXCEPT ![c] = "none"] /\ op[c] \in Op
      BY <1>0, <1>6 DEF Missing, TypeOK
    <2>2. phaseBar' = [phaseBar EXCEPT ![c] = "answered"] /\ accessBar' = accessBar
      BY <1>0, <2>1, AnsweredNoAccess
    <2>3. phaseBar[c] = "pending"
      BY <2>1, PendingBar
    <2> QED
      BY <1>6, <2>1, <2>2, <2>3 DEF Missing, Abstract!Consumed, Abstract!Pending,
         Abstract!Reply, Abstract!Op, Op
  <1>7. ASSUME NEW c \in Caller, Take(c) PROVE Abstract!Take(c)
    <2>1. /\ pc[c] = "use" /\ pc' = [pc EXCEPT ![c] = "release"]
          /\ ref' = [ref EXCEPT ![c] = "none"] /\ op[c] = "resolve"
      BY <1>7 DEF Take
    <2>2. phaseBar' = [phaseBar EXCEPT ![c] = "answered"] /\ accessBar' = accessBar
      BY <1>0, <2>1, AnsweredNoAccess
    <2>3. phaseBar[c] = "pending"
      BY <2>1, PendingBar
    <2>4. ~reserved /\ \A d \in Caller : accessBar[d] = "none"
      BY <2>1, ExclusiveUse DEF Exclusive
    <2> QED
      BY <1>7, <2>1, <2>2, <2>3, <2>4 DEF Take, Abstract!Take, Abstract!Pending,
         Abstract!Reply, Abstract!NoAccess
  <1>8. ASSUME NEW c \in Caller, Retain(c) PROVE Abstract!Borrow(c) \/ Abstract!BorrowMut(c)
    <2>1. /\ pc[c] = "use" /\ pc' = [pc EXCEPT ![c] = "holding"] /\ ref' = ref
          /\ op[c] \in {"ref", "ref_mut"}
          /\ ref[c] = IF op[c] = "ref_mut" THEN "mut" ELSE "shared"
      BY <1>0, <1>8 DEF Retain, CallInv, Exclusive
    <2>2. phaseBar' = [phaseBar EXCEPT ![c] = "holding"]
      <3>1. ref' = [ref EXCEPT ![c] = ref[c]]
        BY <1>0, <2>1, RefUnchanged
      <3> QED
        BY <1>0, <2>1, <3>1, Answered
    <2>3. phaseBar[c] = "pending"
      BY <2>1, PendingBar
    <2>4. CASE op[c] = "ref"
      <3>1. ref' = [ref EXCEPT ![c] = "shared"]
        BY <1>0, <2>1, <2>4, RefUnchanged
      <3>2. accessBar' = [accessBar EXCEPT ![c] = "shared"]
        BY <1>0, <2>1, <3>1, Answered
      <3>3. \A d \in Caller : accessBar[d] # "mut"
        BY <2>1, SharedUse
      <3>4. Abstract!Borrow(c)
        BY <1>8, <2>2, <2>3, <2>4, <3>2, <3>3 DEF Retain, Abstract!Borrow,
           Abstract!Pending, Abstract!Reply, Abstract!NoMutAccess
      <3> QED
        BY <3>4
    <2>5. CASE op[c] = "ref_mut"
      <3>1. ref' = [ref EXCEPT ![c] = "mut"]
        BY <1>0, <2>1, <2>5, RefUnchanged
      <3>2. accessBar' = [accessBar EXCEPT ![c] = "mut"]
        BY <1>0, <2>1, <3>1, Answered
      <3>3. ~reserved /\ \A d \in Caller : accessBar[d] = "none"
        BY <2>1, <2>5, ExclusiveUse DEF Exclusive
      <3>4. Abstract!BorrowMut(c)
        BY <1>8, <2>2, <2>3, <2>5, <3>2, <3>3 DEF Retain, Abstract!BorrowMut,
           Abstract!Pending, Abstract!Reply, Abstract!NoAccess
      <3> QED
        BY <3>4
    <2> QED
      BY <2>1, <2>4, <2>5
  <1>9. ASSUME NEW c \in Caller, Clone(c) PROVE Abstract!Clone(c)
    <2>1. /\ pc[c] = "use" /\ pc' = [pc EXCEPT ![c] = "release"]
          /\ ref' = [ref EXCEPT ![c] = "none"] /\ op[c] = "clone"
      BY <1>9 DEF Clone
    <2>2. phaseBar' = [phaseBar EXCEPT ![c] = "answered"] /\ accessBar' = accessBar
      BY <1>0, <2>1, AnsweredNoAccess
    <2>3. phaseBar[c] = "pending"
      BY <2>1, PendingBar
    <2>4. \A d \in Caller : accessBar[d] # "mut"
      BY <2>1, SharedUse
    <2> QED
      BY <1>9, <2>1, <2>2, <2>3, <2>4 DEF Clone, Abstract!Clone, Abstract!Pending,
         Abstract!Reply, Abstract!NoMutAccess
  <1>10. ASSUME NEW c \in Caller, Reserve(c) PROVE Abstract!Reserve(c)
    <2>1. /\ pc[c] = "use" /\ pc' = [pc EXCEPT ![c] = "release"] /\ ref' = ref
          /\ op[c] = "reserve" /\ ref[c] = "shared"
      BY <1>0, <1>10 DEF Reserve, CallInv, Exclusive
    <2>2. ref' = [ref EXCEPT ![c] = "shared"]
      BY <1>0, <2>1, RefUnchanged
    <2>3. /\ phaseBar' = [phaseBar EXCEPT ![c] = "answered"]
          /\ accessBar' = [accessBar EXCEPT ![c] = "shared"]
      BY <1>0, <2>1, <2>2, Answered
    <2>4. phaseBar[c] = "pending"
      BY <2>1, PendingBar
    <2>5. \A d \in Caller : accessBar[d] # "mut"
      BY <2>1, SharedUse
    <2> QED
      BY <1>10, <2>1, <2>3, <2>4, <2>5 DEF Reserve, Abstract!Reserve, Abstract!Pending,
         Abstract!Reply, Abstract!NoMutAccess
  <1>11. ASSUME NEW c \in Caller, Release(c) PROVE UNCHANGED Abstract!slotVars
    BY <1>0, <1>11 DEF Release, Abstract!slotVars, TypeOK, phaseBar, accessBar, phaseOf
  <1>12. ASSUME NEW c \in Caller, Return(c) PROVE Abstract!Return(c)
    BY <1>0, <1>12 DEF Return, Abstract!Return, TypeOK, phaseBar, accessBar, phaseOf
  <1>13. ASSUME NEW c \in Caller, NEW o \in Op, Invoke(c, o) PROVE Abstract!Invoke(c, o)
    BY <1>0, <1>13 DEF Invoke, Abstract!Invoke, Abstract!Op, Op, TypeOK, CallInv,
       phaseBar, accessBar, phaseOf
  <1>14. ASSUME NEW c \in Caller, Write(c) PROVE Abstract!Write(c)
    BY <1>14 DEF Write, Abstract!Write, phaseBar, accessBar, phaseOf
  <1>15. ASSUME NEW c \in Caller, DropGuard(c) PROVE Abstract!GiveBack(c)
    BY <1>0, <1>15 DEF DropGuard, Abstract!GiveBack, TypeOK, phaseBar, accessBar, phaseOf
  <1>16. ASSUME NEW c \in Caller, ForgetGuard(c) PROVE Abstract!GiveBack(c)
    <2>1. leaked' = IF op[c] = "ref" THEN "read" ELSE "write"
      BY <1>0, <1>16 DEF ForgetGuard, CallInv
    <2>2. op[c] # "reserve"
      BY <1>0, <1>16 DEF ForgetGuard, CallInv
    <2> QED
      BY <1>0, <1>16, <2>1, <2>2 DEF ForgetGuard, Abstract!GiveBack, TypeOK, phaseBar,
         accessBar, phaseOf
  <1> QED
    BY <1>1, <1>2, <1>3, <1>4, <1>5, <1>6, <1>7, <1>8, <1>9, <1>10, <1>11, <1>12,
       <1>13, <1>14, <1>15, <1>16 DEF Next, Step, Client, Abstract!Next, Abstract!Op,
       Op

\* TakeSlot implements the atomic slot, for every set of callers.
THEOREM Refinement == Spec => ImplementsSlot
  <1> QED
    BY InitRefines, StepRefines, Inductive, PTL DEF Spec, ImplementsSlot, Abstract!Spec
===============================================================================
