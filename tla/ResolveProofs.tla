----------------------------- MODULE ResolveProofs ----------------------------
(***************************************************************************)
(* Resolving is safe for any number of registrations, threads and nested    *)
(* constructor calls: ownership is conserved, contexts suffice, and the      *)
(* generator's tables account for every value a call takes, so that a        *)
(* restricted scope protects what it names.                                  *)
(***************************************************************************)
EXTENDS Resolve, WiringProofs, FiniteSetTheorems

USE NAssumption, KidAssumption, ScopedAssumption

\* What the macro's analysis guarantees of the registrations.
InputsInv ==
    /\ kind \in [Node -> Kind]
    /\ uses \in [Node -> SUBSET Node]
    /\ \A n \in Node : uses[n] \subseteq IF n \in Factory THEN 0 .. n - 1 ELSE {}
    /\ takes \in [Node -> SUBSET Node]
    /\ \A n \in Node : uses[n] \cap Stored \subseteq takes[n]
    /\ asks \in [Node -> SUBSET Kid]

Frames == [node : Factory, got : SUBSET Value]

TypeInv ==
    /\ full \in SUBSET Value
    /\ stack \in [Thread -> Seq(Frames)]
    /\ root \in [Thread -> Node \cup Kid \cup {0}]
    /\ taken \in [Thread -> SUBSET Value]
    /\ out \in [Thread -> SUBSET Value]
    /\ drops \in [Value -> Nat]

\* Nested constructor calls follow the declared queries, outermost first, from the
\* registration that the resolver call names.
StackInv ==
    \A t \in Thread :
        /\ stack[t] # <<>> => stack[t][1].node = root[t]
        /\ \A k \in 1 .. Len(stack[t]) : stack[t][k].node + k <= N
        /\ \A k \in 1 .. Len(stack[t]) - 1 :
             stack[t][k + 1].node \in uses[stack[t][k].node]

\* What a running call may take is what the tables say of the registration it
\* names, and a scope checked that before the call.
DeclaredInv ==
    \A t \in Thread :
        /\ \A k \in 1 .. Len(stack[t]) :
             /\ consumed[stack[t][k].node] \subseteq consumed[root[t]]
             /\ calls[stack[t][k].node] \subseteq calls[root[t]]
        /\ t \in Scoped /\ stack[t] # <<>> =>
             consumed[root[t]] \cap mask = {} /\ calls[root[t]] \cap mask = {}
        /\ t \in Scoped => taken[t] \cap mask = {}

\* A constructor call of thread t, k-th from the outside, holds v.
Held(v, t, k) == k \in 1 .. Len(stack[t]) /\ v \in stack[t][k].got

\* v is in exactly one place.
OwnedOnce(v) ==
    /\ v \in full => /\ \A t \in Thread : v \notin out[t]
                     /\ \A t \in Thread, k \in Nat : ~Held(v, t, k)
                     /\ drops[v] = 0
    /\ \A t \in Thread : v \in out[t] =>
         /\ \A u \in Thread : v \in out[u] => u = t
         /\ \A u \in Thread, k \in Nat : ~Held(v, u, k)
         /\ drops[v] = 0
    /\ \A t \in Thread, k \in Nat : Held(v, t, k) =>
         /\ \A u \in Thread, j \in Nat : Held(v, u, j) => u = t /\ j = k
         /\ drops[v] = 0
    /\ drops[v] \in {0, 1}
    /\ \/ v \in full
       \/ \E t \in Thread : v \in out[t]
       \/ \E t \in Thread, k \in Nat : Held(v, t, k)
       \/ drops[v] = 1

\* So is every value.
OwnInv == \A v \in Value : OwnedOnce(v)

IndInv == InputsInv /\ TypeInv /\ StackInv /\ DeclaredInv /\ OnlyDeclared /\ OwnInv

-------------------------------------------------------------------------------
(* The tables.                                                               *)

\* The registrations are numbered along a dependency-first order.
LEMMA RegistrationsNumbered ==
    InputsInv => Numbered(N, uses) /\ Ordered(Node, uses, Order)
  <1> SUFFICES ASSUME InputsInv PROVE Numbered(N, uses) /\ Ordered(Node, uses, Order)
    OBVIOUS
  <1>1. ASSUME NEW n \in Node PROVE uses[n] \subseteq 0 .. n - 1
    BY DEF InputsInv
  <1>2. Numbered(N, uses)
    BY <1>1 DEF InputsInv, Numbered, Node
  <1>3. Order = [k \in 1 .. N |-> k - 1] /\ Node = 0 .. N - 1
    BY DEF Order, Node
  <1> QED
    BY <1>2, <1>3, NumbersAreOrder, Zenon

\* The three tables mean what they are used for.
TablesInv ==
    /\ IsReach(transitive, Node, uses)
    /\ IsConsumption(consumed, Node, Factory, Fresh, takes, uses)
    /\ IsChildUse(calls, Node, Factory, asks, uses)

\* The generator's folds establish that.
LEMMA TablesCorrect == InputsInv => TablesInv
  <1> SUFFICES ASSUME InputsInv PROVE TablesInv
    OBVIOUS
  <1>1. Ordered(Node, uses, Order) /\ uses \in [Node -> SUBSET Node]
    BY RegistrationsNumbered DEF InputsInv
  <1>2. IsReach(transitive, Node, uses)
    BY <1>1, TransitiveReaches DEF transitive
  <1>3. IsConsumption(consumed, Node, Factory, Fresh, takes, uses)
    <2>1. takes \in [Node -> SUBSET Node]
      BY DEF InputsInv
    <2> QED
      BY <1>1, <2>1, ConsumedAccounts DEF consumed
  <1>4. IsChildUse(calls, Node, Factory, asks, uses)
    <2>1. asks \in [Node -> SUBSET Kid]
      BY DEF InputsInv
    <2> QED
      BY <1>1, <2>1, ChildCallsAccount DEF calls
  <1> QED
    BY <1>2, <1>3, <1>4 DEF TablesInv

\* Along a declared query the tables only shrink.
LEMMA TablesAlongCall ==
    ASSUME InputsInv, NEW n \in Node, NEW d \in uses[n]
    PROVE  /\ n \in Factory /\ d \in Node /\ d < n
           /\ transitive[d] \subseteq 0 .. d - 1
           /\ {d} \cup transitive[d] \subseteq transitive[n]
           /\ d \in Factory => consumed[d] \subseteq consumed[n] /\ calls[d] \subseteq calls[n]
           /\ d \in Stored => d \in consumed[n]
  <1>1. n \in Factory /\ d \in Node /\ d < n
    <2>1. n \in Factory /\ d \in 0 .. n - 1
      BY DEF InputsInv
    <2> QED
      BY <2>1 DEF Node
  <1>2. TablesInv
    BY TablesCorrect
  <1>3. transitive[d] \subseteq 0 .. d - 1
    <2>1. Numbered(N, uses) /\ IsReach(transitive, Node, uses)
      BY <1>2, RegistrationsNumbered DEF TablesInv
    <2> QED
      BY <1>1, <2>1, ReachIsLower, Zenon DEF Node
  <1>4. {d} \cup transitive[d] \subseteq transitive[n]
    BY <1>2 DEF TablesInv, IsReach
  <1>5. ASSUME d \in Factory
        PROVE  consumed[d] \subseteq consumed[n] /\ calls[d] \subseteq calls[n]
    BY <1>1, <1>2, <1>5 DEF TablesInv, IsConsumption, IsChildUse
  <1>6. ASSUME d \in Stored PROVE d \in consumed[n]
    <2>1. d \in takes[n] \ (Factory \cup Fresh)
      BY <1>6 DEF InputsInv, Stored, Factory, Fresh
    <2> QED
      BY <1>1, <1>2, <2>1 DEF TablesInv, IsConsumption
  <1> QED
    BY <1>1, <1>3, <1>4, <1>5, <1>6
-------------------------------------------------------------------------------
(* Shapes of steps.                                                          *)

\* A sequence with elements has one, or more.
LEMMA LongerThanOne ==
    ASSUME NEW F, NEW s \in Seq(F), s # <<>>
    PROVE  Len(s) > 1 \/ Len(s) = 1
  <1> DEFINE n == Len(s)
  <1>1. n \in Nat /\ n > 0
    OBVIOUS
  <1> HIDE DEF n
  <1>2. n > 1 \/ n = 1
    BY <1>1
  <1> QED
    BY <1>2 DEF n

\* Replacing the innermost call's frame.
LEMMA ReplaceLast ==
    ASSUME NEW F, NEW s \in Seq(F), s # <<>>, NEW f \in F
    PROVE  LET r == SubSeq(s, 1, Len(s) - 1) \o <<f>>
           IN  /\ r \in Seq(F) /\ Len(r) = Len(s) /\ r[Len(s)] = f
               /\ \A k \in 1 .. Len(s) - 1 : r[k] = s[k]
  <1>1. Len(s) \in Nat /\ Len(s) > 0
    OBVIOUS
  <1> DEFINE p == SubSeq(s, 1, Len(s) - 1)
  <1>2. p \in Seq(F) /\ Len(p) = Len(s) - 1 /\ \A k \in 1 .. Len(s) - 1 : p[k] = s[k]
    <2>1. CASE Len(s) > 1
      BY <2>1
    <2>2. CASE Len(s) = 1
      <3>1. p = <<>>
        BY <2>2, SubSeqEmpty
      <3> HIDE DEF p
      <3> QED
        BY <2>2, <3>1
    <2>3. Len(s) > 1 \/ Len(s) = 1
      BY LongerThanOne
    <2> QED
      BY <2>1, <2>2, <2>3, Zenon
  <1> HIDE DEF p
  <1>3. p \o <<f>> \in Seq(F) /\ Len(p \o <<f>>) = Len(s) /\ (p \o <<f>>)[Len(s)] = f
    BY <1>1, <1>2
  <1>4. \A k \in 1 .. Len(s) - 1 : (p \o <<f>>)[k] = s[k]
    BY <1>1, <1>2
  <1> QED
    BY <1>3, <1>4 DEF p

\* Removing the innermost call's frame and replacing the one below.
LEMMA PopLast ==
    ASSUME NEW F, NEW s \in Seq(F), Len(s) > 1, NEW f \in F
    PROVE  LET r == [SubSeq(s, 1, Len(s) - 1) EXCEPT ![Len(s) - 1] = f]
           IN  /\ r \in Seq(F) /\ Len(r) = Len(s) - 1 /\ r[Len(s) - 1] = f
               /\ \A k \in 1 .. Len(s) - 2 : r[k] = s[k]
  <1> DEFINE p == SubSeq(s, 1, Len(s) - 1)
  <1>1. p \in Seq(F) /\ Len(p) = Len(s) - 1 /\ \A k \in 1 .. Len(s) - 1 : p[k] = s[k]
    OBVIOUS
  <1> HIDE DEF p
  <1>2. Len(s) - 1 \in 1 .. Len(p)
    BY <1>1
  <1>3. \A k \in 1 .. Len(s) - 2 : k \in 1 .. Len(p) /\ k # Len(s) - 1
    BY <1>1
  <1> DEFINE r == [p EXCEPT ![Len(s) - 1] = f]
  <1>4. r \in Seq(F) /\ Len(r) = Len(p) /\ r[Len(s) - 1] = f
    BY <1>1, <1>2
  <1>5. \A k \in 1 .. Len(s) - 2 : r[k] = s[k]
    BY <1>1, <1>2, <1>3
  <1> QED
    BY <1>1, <1>4, <1>5 DEF p

\* Nothing derived from the registrations changes while they do not.
LEMMA SameInputs ==
    ASSUME UNCHANGED inputs
    PROVE  /\ kind' = kind /\ uses' = uses /\ takes' = takes /\ asks' = asks /\ mask' = mask
           /\ Factory' = Factory /\ Stored' = Stored /\ Fresh' = Fresh /\ Value' = Value
           /\ Frames' = Frames
           /\ transitive' = transitive /\ consumed' = consumed /\ calls' = calls
  BY DEF inputs, Factory, Stored, Fresh, Value, Frames, transitive, consumed, calls

\* No step changes the registrations.
LEMMA InputsFixed == [Next]_vars => UNCHANGED inputs
  <1> SUFFICES ASSUME [Next]_vars PROVE UNCHANGED inputs
    OBVIOUS
  <1>1. CASE UNCHANGED vars
    BY <1>1 DEF vars, inputs
  <1>2. ASSUME NEW t \in Thread, NEW i \in Node,
               CallConstructor(t, i) \/ CallTake(t, i) \/ CallOther(t, i)
        PROVE  UNCHANGED inputs
    BY <1>2, Zenon DEF CallConstructor, CallTake, CallOther
  <1>3. ASSUME NEW t \in Thread, NEW i \in Node,
               QueryConstructor(t, i) \/ QueryTake(t, i) \/ QueryOther(t, i)
        PROVE  UNCHANGED inputs
    BY <1>3, Zenon DEF QueryConstructor, QueryTake, QueryOther
  <1>4. ASSUME NEW t \in Thread, NEW v \in Kid, CallChild(t, v) \/ QueryChild(t, v)
        PROVE  UNCHANGED inputs
    BY <1>4, Zenon DEF CallChild, QueryChild
  <1>5. ASSUME NEW t \in Thread, Return(t) \/ Unwind(t) PROVE UNCHANGED inputs
    BY <1>5, Zenon DEF Return, Unwind
  <1> QED
    BY <1>1, <1>2, <1>3, <1>4, <1>5, Zenon DEF Next, Inside

\* The properties of the registrations are kept.
LEMMA InputsKept == InputsInv /\ [Next]_vars => InputsInv'
  <1> SUFFICES ASSUME InputsInv, [Next]_vars PROVE InputsInv'
    OBVIOUS
  <1>1. /\ kind' = kind /\ uses' = uses /\ takes' = takes /\ asks' = asks
        /\ Factory' = Factory /\ Stored' = Stored
    BY InputsFixed, SameInputs
  <1> QED
    BY <1>1 DEF InputsInv
\* A value moves from its slot into the innermost running constructor.
TakeInto(t, got) ==
    /\ stack[t] # <<>> /\ got \subseteq full
    /\ full' = full \ got
    /\ stack' = [stack EXCEPT ![t] = WithTop(t, [Top(t) EXCEPT !.got = @ \cup got])]
    /\ taken' = [taken EXCEPT ![t] = @ \cup got]
    /\ UNCHANGED <<inputs, root, out, drops>>

\* A value moves from its slot to the caller of a resolver method.
TakeOut(t, v) ==
    /\ stack[t] = <<>> /\ v \in full
    /\ full' = full \ {v}
    /\ out' = [out EXCEPT ![t] = @ \cup {v}]
    /\ root' = [root EXCEPT ![t] = v]
    /\ taken' = [taken EXCEPT ![t] = {v}]
    /\ UNCHANGED <<inputs, stack, drops>>

\* Queries of stored and of child values take in the same way.
LEMMA QueriesTake ==
    ASSUME NEW t \in Thread, TypeInv
    PROVE  /\ \A d \in Node : QueryTake(t, d) => TakeInto(t, {d}) /\ d \in uses[Top(t).node]
           /\ \A v \in Kid : QueryChild(t, v) => \E got \in SUBSET {v} :
                                TakeInto(t, got) /\ v \in asks[Top(t).node]
           /\ \A i \in Node : CallTake(t, i) => TakeOut(t, i)
           /\ \A v \in Kid : CallChild(t, v) => TakeOut(t, v)
  <1>1. ASSUME NEW d \in Node, QueryTake(t, d)
        PROVE  TakeInto(t, {d}) /\ d \in uses[Top(t).node]
    BY <1>1 DEF QueryTake, TakeInto, MayQuery
  <1>2. ASSUME NEW v \in Kid, QueryChild(t, v)
        PROVE  \E got \in SUBSET {v} : TakeInto(t, got) /\ v \in asks[Top(t).node]
    BY <1>2 DEF QueryChild, TakeInto
  <1>3. ASSUME NEW i \in Node, CallTake(t, i) PROVE TakeOut(t, i)
    BY <1>3 DEF CallTake, TakeOut, MayCall
  <1>4. ASSUME NEW v \in Kid, CallChild(t, v) PROVE TakeOut(t, v)
    BY <1>4 DEF CallChild, TakeOut
  <1> QED
    BY <1>1, <1>2, <1>3, <1>4

\* The frames after a value moved into the innermost constructor.
LEMMA TakeIntoShape ==
    ASSUME TypeInv, NEW t \in Thread, NEW got, TakeInto(t, got)
    PROVE  /\ stack' \in [Thread -> Seq(Frames)]
           /\ \A u \in Thread \ {t} : stack'[u] = stack[u]
           /\ Len(stack'[t]) = Len(stack[t]) /\ Len(stack[t]) \in Nat \ {0}
           /\ \A k \in 1 .. Len(stack[t]) - 1 : stack'[t][k] = stack[t][k]
           /\ stack'[t][Len(stack[t])].node = stack[t][Len(stack[t])].node
           /\ stack'[t][Len(stack[t])].got = stack[t][Len(stack[t])].got \cup got
  <1> DEFINE s == stack[t]
             f == [Top(t) EXCEPT !.got = @ \cup got]
             r == SubSeq(s, 1, Len(s) - 1) \o <<f>>
  <1>1. s \in Seq(Frames) /\ s # <<>> /\ got \subseteq Value
    BY DEF TypeInv, TakeInto
  <1>2. Len(s) \in Nat \ {0} /\ s[Len(s)] \in Frames /\ Top(t) = s[Len(s)]
    BY <1>1 DEF Top
  <1>3. f \in Frames /\ f.node = s[Len(s)].node /\ f.got = s[Len(s)].got \cup got
    BY <1>1, <1>2 DEF Frames
  <1>4. stack' = [stack EXCEPT ![t] = r]
    BY DEF TakeInto, WithTop, Callers
  <1> HIDE DEF f
  <1>5. /\ r \in Seq(Frames) /\ Len(r) = Len(s) /\ r[Len(s)] = f
        /\ \A k \in 1 .. Len(s) - 1 : r[k] = s[k]
    <2> HIDE DEF s
    <2> QED
      BY <1>1, <1>3, ReplaceLast
  <1> HIDE DEF r
  <1>6. /\ stack' \in [Thread -> Seq(Frames)] /\ stack'[t] = r
        /\ \A u \in Thread \ {t} : stack'[u] = stack[u]
    BY <1>4, <1>5 DEF TypeInv
  <1> QED
    BY <1>2, <1>3, <1>5, <1>6
\* A nested constructor returns to the one that called it.
PopInto(t, kept) ==
    /\ Len(stack[t]) > 1 /\ kept \subseteq Top(t).got
    /\ stack' = [stack EXCEPT ![t] = HandedBack(t, kept)]
    /\ DropAll(Top(t).got \ kept)
    /\ UNCHANGED <<inputs, full, root, taken, out>>

\* What all the constructors of a thread's call hold.
HeldBy(t) == UNION {stack[t][k].got : k \in 1 .. Len(stack[t])}

\* A resolver call ends, and its caller keeps some of what it held.
End(t, kept) ==
    /\ kept \subseteq HeldBy(t)
    /\ stack' = [stack EXCEPT ![t] = <<>>]
    /\ root' = [root EXCEPT ![t] = 0]
    /\ taken' = [taken EXCEPT ![t] = {}]
    /\ out' = [out EXCEPT ![t] = @ \cup kept]
    /\ DropAll(HeldBy(t) \ kept)
    /\ UNCHANGED <<inputs, full>>

\* A constructor returns to its caller, or ends the resolver call.
LEMMA ReturnsEnd ==
    ASSUME TypeInv, NEW t \in Thread
    PROVE  /\ Return(t) => \E kept : PopInto(t, kept) \/ End(t, kept)
           /\ Unwind(t) => End(t, {})
  <1>0. stack[t] \in Seq(Frames) /\ Len(stack[t]) \in Nat
    BY DEF TypeInv
  <1>1. ASSUME Return(t) PROVE \E kept : PopInto(t, kept) \/ End(t, kept)
    <2>1. PICK kept \in {Top(t).got, {}} :
          /\ IF Len(stack[t]) = 1
             THEN /\ out' = [out EXCEPT ![t] = @ \cup kept]
                  /\ stack' = [stack EXCEPT ![t] = <<>>]
                  /\ EndCall(t)
             ELSE /\ stack' = [stack EXCEPT ![t] = HandedBack(t, kept)]
                  /\ UNCHANGED <<queries, root, taken, out>>
          /\ DropAll(Top(t).got \ kept)
      BY <1>1, Zenon DEF Return
    <2>2. stack[t] # <<>> /\ UNCHANGED <<inputs, full>> /\ kept \subseteq Top(t).got
      BY <1>1 DEF Return
    <2>3. CASE Len(stack[t]) = 1
      <3>1. HeldBy(t) = Top(t).got
        <4>1. 1 .. Len(stack[t]) = {1}
          BY <2>3
        <4> QED
          BY <2>3, <4>1 DEF HeldBy, Top
      <3>2. End(t, kept)
        BY <2>1, <2>2, <2>3, <3>1 DEF End, EndCall
      <3> QED
        BY <3>2
    <2>4. CASE Len(stack[t]) # 1
      <3>1. Len(stack[t]) > 1
        BY <1>0, <2>2, <2>4, LongerThanOne
      <3>2. PopInto(t, kept)
        BY <2>1, <2>2, <2>4, <3>1 DEF PopInto
      <3> QED
        BY <3>2
    <2> QED
      BY <2>3, <2>4
  <1>2. ASSUME Unwind(t) PROVE End(t, {})
    <2>1. out' = [out EXCEPT ![t] = @ \cup {}]
      BY <1>2 DEF Unwind, TypeInv
    <2>2. HeldBy(t) \ {} = UNION {stack[t][k].got : k \in 1 .. Len(stack[t])}
      BY DEF HeldBy
    <2> QED
      BY <1>2, <2>1, <2>2 DEF Unwind, End, EndCall
  <1> QED
    BY <1>1, <1>2

\* The frames after a nested constructor returned.
LEMMA PopIntoShape ==
    ASSUME TypeInv, NEW t \in Thread, NEW kept, PopInto(t, kept)
    PROVE  /\ stack' \in [Thread -> Seq(Frames)]
           /\ \A u \in Thread \ {t} : stack'[u] = stack[u]
           /\ Len(stack'[t]) = Len(stack[t]) - 1 /\ Len(stack[t]) \in Nat
           /\ \A k \in 1 .. Len(stack[t]) - 2 : stack'[t][k] = stack[t][k]
           /\ stack'[t][Len(stack[t]) - 1].node = stack[t][Len(stack[t]) - 1].node
           /\ stack'[t][Len(stack[t]) - 1].got = stack[t][Len(stack[t]) - 1].got \cup kept
           /\ kept \subseteq stack[t][Len(stack[t])].got
  <1> DEFINE s == stack[t]
             L == Len(s)
             p == SubSeq(s, 1, L - 1)
             f == [s[L - 1] EXCEPT !.got = @ \cup kept]
             r == [p EXCEPT ![L - 1] = f]
  <1>1. s \in Seq(Frames) /\ L \in Nat /\ L > 1
    BY DEF TypeInv, PopInto
  <1>2. s[L] \in Frames /\ s[L - 1] \in Frames /\ Top(t) = s[L]
    BY <1>1 DEF Top
  <1>3. kept \subseteq s[L].got /\ kept \subseteq Value
    BY <1>2 DEF PopInto, Frames
  <1>4. f \in Frames /\ f.node = s[L - 1].node /\ f.got = s[L - 1].got \cup kept
    BY <1>2, <1>3 DEF Frames
  <1>5. p[L - 1] = s[L - 1]
    BY <1>1
  <1>6. stack' = [stack EXCEPT ![t] = r]
    <2>1. HandedBack(t, kept) = [p EXCEPT ![L - 1] = [p[L - 1] EXCEPT !.got = @ \cup kept]]
      BY DEF HandedBack, Callers
    <2>2. HandedBack(t, kept) = r
      BY <1>5, <2>1, Zenon
    <2> QED
      BY <2>2 DEF PopInto
  <1> HIDE DEF f
  <1>7. /\ r \in Seq(Frames) /\ Len(r) = L - 1 /\ r[L - 1] = f
        /\ \A k \in 1 .. L - 2 : r[k] = s[k]
    <2> HIDE DEF s
    <2> QED
      BY <1>1, <1>4, PopLast
  <1> HIDE DEF r
  <1>8. /\ stack' \in [Thread -> Seq(Frames)] /\ stack'[t] = r
        /\ \A u \in Thread \ {t} : stack'[u] = stack[u]
    BY <1>6, <1>7 DEF TypeInv
  <1> QED
    BY <1>1, <1>3, <1>4, <1>7, <1>8
-------------------------------------------------------------------------------
(* Steps that leave a thread with no more calls than it had.                 *)

\* Thread t keeps a prefix of its calls; no other thread is affected.
Shrinks(t) ==
    /\ stack' \in [Thread -> Seq(Frames)]
    /\ \A u \in Thread \ {t} :
         stack'[u] = stack[u] /\ root'[u] = root[u] /\ taken'[u] = taken[u]
    /\ Len(stack'[t]) <= Len(stack[t])
    /\ \A k \in 1 .. Len(stack'[t]) : stack'[t][k].node = stack[t][k].node
    /\ stack'[t] # <<>> => root'[t] = root[t]

\* The calls that remain are nested and declared as before.
LEMMA ShrinkKeeps ==
    ASSUME TypeInv, StackInv, DeclaredInv, UNCHANGED inputs, NEW t \in Thread, Shrinks(t),
           t \in Scoped => taken'[t] \cap mask = {}
    PROVE  StackInv' /\ DeclaredInv'
  <1>1. /\ uses' = uses /\ consumed' = consumed /\ calls' = calls /\ mask' = mask
    BY SameInputs
  <1>2. /\ Len(stack[t]) \in Nat /\ Len(stack'[t]) \in Nat
        /\ Len(stack'[t]) <= Len(stack[t])
        /\ stack'[t] # <<>> => Len(stack'[t]) > 0 /\ Len(stack[t]) > 0 /\ stack[t] # <<>>
    <2>1. stack[t] \in Seq(Frames) /\ stack'[t] \in Seq(Frames)
      BY DEF Shrinks, TypeInv
    <2>2. Len(stack'[t]) <= Len(stack[t])
      BY DEF Shrinks
    <2>3. stack'[t] # <<>> => Len(stack'[t]) > 0
      BY <2>1
    <2>4. Len(stack[t]) > 0 => stack[t] # <<>>
      BY <2>1
    <2> QED
      BY <2>1, <2>2, <2>3, <2>4
  <1>3. \A k \in 1 .. Len(stack'[t]) : k \in 1 .. Len(stack[t]) /\ stack'[t][k].node = stack[t][k].node
    BY <1>2 DEF Shrinks
  <1>4. \A k \in 1 .. Len(stack'[t]) - 1 : /\ k \in 1 .. Len(stack[t]) - 1
                                           /\ k \in 1 .. Len(stack'[t])
                                           /\ k + 1 \in 1 .. Len(stack'[t])
    BY <1>2
  <1>5. ASSUME NEW u \in Thread
        PROVE  /\ stack'[u] # <<>> => stack'[u][1].node = root'[u]
               /\ \A k \in 1 .. Len(stack'[u]) : stack'[u][k].node + k <= N
               /\ \A k \in 1 .. Len(stack'[u]) - 1 :
                    stack'[u][k + 1].node \in uses[stack'[u][k].node]
    <2>1. CASE u # t
      BY <2>1 DEF Shrinks, StackInv
    <2>2. CASE u = t
      <3>1. stack'[t] # <<>> => stack'[t][1].node = root'[t]
        BY <1>2, <1>3 DEF Shrinks, StackInv
      <3>2. \A k \in 1 .. Len(stack'[t]) : stack'[t][k].node + k <= N
        BY <1>3 DEF StackInv
      <3>3. \A k \in 1 .. Len(stack'[t]) - 1 : stack'[t][k + 1].node \in uses[stack'[t][k].node]
        BY <1>3, <1>4 DEF StackInv
      <3> QED
        BY <2>2, <3>1, <3>2, <3>3
    <2> QED
      BY <2>1, <2>2
  <1>6. ASSUME NEW u \in Thread
        PROVE  /\ \A k \in 1 .. Len(stack'[u]) :
                    /\ consumed[stack'[u][k].node] \subseteq consumed[root'[u]]
                    /\ calls[stack'[u][k].node] \subseteq calls[root'[u]]
               /\ u \in Scoped /\ stack'[u] # <<>> =>
                    consumed[root'[u]] \cap mask = {} /\ calls[root'[u]] \cap mask = {}
               /\ u \in Scoped => taken'[u] \cap mask = {}
    <2>1. CASE u # t
      BY <2>1 DEF Shrinks, DeclaredInv
    <2>2. CASE u = t
      <3>0. \A k \in 1 .. Len(stack'[t]) : root'[t] = root[t]
        <4>1. stack'[t] \in Seq(Frames)
          BY DEF Shrinks
        <4>2. \A k \in 1 .. Len(stack'[t]) : stack'[t] # <<>>
          BY <4>1
        <4> QED
          BY <4>2 DEF Shrinks
      <3>1. \A k \in 1 .. Len(stack'[t]) :
                    /\ consumed[stack'[t][k].node] \subseteq consumed[root'[t]]
                    /\ calls[stack'[t][k].node] \subseteq calls[root'[t]]
        BY <1>3, <3>0 DEF DeclaredInv
      <3>2. t \in Scoped /\ stack'[t] # <<>> =>
                    consumed[root'[t]] \cap mask = {} /\ calls[root'[t]] \cap mask = {}
        BY <1>2 DEF Shrinks, DeclaredInv
      <3> QED
        BY <2>2, <3>1, <3>2
    <2> QED
      BY <2>1, <2>2
  <1>7. StackInv'
    BY <1>1, <1>5 DEF StackInv
  <1>8. DeclaredInv'
    BY <1>1, <1>6 DEF DeclaredInv
  <1> QED
    BY <1>7, <1>8
-------------------------------------------------------------------------------
(* Ownership.                                                                *)

\* A step that moves nothing leaves every value where it is.
LEMMA OwnKept ==
    ASSUME OwnInv, UNCHANGED <<inputs, full, out, drops>>,
           \A v \in Value, u \in Thread, k \in Nat : Held(v, u, k)' <=> Held(v, u, k)
    PROVE  OwnInv'
  <1>1. Value' = Value
    BY SameInputs
  <1> QED
    BY <1>1 DEF OwnInv, OwnedOnce

\* Moving values from their slots into a constructor.
LEMMA OwnTakeInto ==
    ASSUME TypeInv, OwnInv, NEW t \in Thread, NEW got, TakeInto(t, got)
    PROVE  OwnInv'
  <1>1. Value' = Value
    BY SameInputs DEF TakeInto
  <1> DEFINE L == Len(stack[t])
  <1>2. /\ \A u \in Thread \ {t} : stack'[u] = stack[u]
        /\ Len(stack'[t]) = L /\ L \in Nat \ {0}
        /\ \A k \in 1 .. L - 1 : stack'[t][k] = stack[t][k]
        /\ stack'[t][L].got = stack[t][L].got \cup got
    BY TakeIntoShape
  <1>3. ASSUME NEW v \in Value, NEW u \in Thread, NEW k \in Nat
        PROVE  Held(v, u, k)' <=> Held(v, u, k) \/ (u = t /\ k = L /\ v \in got)
    <2>1. CASE u # t
      BY <1>2, <2>1 DEF Held
    <2>2. CASE u = t /\ k = L
      BY <1>2, <2>2 DEF Held
    <2>3. CASE u = t /\ k # L
      <3>1. k \in 1 .. L => k \in 1 .. L - 1
        BY <1>2, <2>3
      <3> QED
        BY <1>2, <2>3, <3>1 DEF Held
    <2> QED
      BY <2>1, <2>2, <2>3
  <1>4. full' = full \ got /\ got \subseteq full /\ out' = out /\ drops' = drops
    BY DEF TakeInto
  <1>5. L \in Nat
    BY <1>2
  <1> HIDE DEF L
  <1>6. ASSUME NEW v \in Value PROVE OwnedOnce(v)'
    <2>1. OwnedOnce(v)
      BY DEF OwnInv
    <2>2. CASE v \notin got
      <3>1. (v \in full' <=> v \in full) /\ \A u \in Thread, k \in Nat : Held(v, u, k)' <=> Held(v, u, k)
        BY <1>3, <1>4, <2>2
      <3> QED
        BY <1>4, <2>1, <3>1 DEF OwnedOnce
    <2>3. CASE v \in got
      <3>1. /\ v \notin full' /\ drops'[v] = 0 /\ \A u \in Thread : v \notin out'[u]
            /\ \A u \in Thread, k \in Nat : ~Held(v, u, k)
        BY <1>4, <2>1, <2>3 DEF OwnedOnce
      <3>2. \A u \in Thread, k \in Nat : Held(v, u, k)' <=> u = t /\ k = L
        BY <1>3, <2>3, <3>1
      <3> QED
        BY <1>5, <3>1, <3>2 DEF OwnedOnce
    <2> QED
      BY <2>2, <2>3
  <1> QED
    BY <1>1, <1>6 DEF OwnInv

\* Moving a value from its slot to a caller.
LEMMA OwnTakeOut ==
    ASSUME TypeInv, OwnInv, NEW t \in Thread, NEW w, TakeOut(t, w)
    PROVE  OwnInv'
  <1>1. Value' = Value
    BY SameInputs DEF TakeOut
  <1>2. \A v \in Value, u \in Thread, k \in Nat : Held(v, u, k)' <=> Held(v, u, k)
    BY DEF TakeOut, Held
  <1>3. /\ full' = full \ {w} /\ w \in full /\ drops' = drops
        /\ \A u \in Thread : out'[u] = IF u = t THEN out[u] \cup {w} ELSE out[u]
    BY DEF TakeOut, TypeInv
  <1>4. ASSUME NEW v \in Value PROVE OwnedOnce(v)'
    <2>1. OwnedOnce(v)
      BY DEF OwnInv
    <2>2. CASE v # w
      <3>1. (v \in full' <=> v \in full) /\ \A u \in Thread : v \in out'[u] <=> v \in out[u]
        BY <1>3, <2>2
      <3> QED
        BY <1>2, <1>3, <2>1, <3>1 DEF OwnedOnce
    <2>3. CASE v = w
      <3>1. /\ v \notin full' /\ drops'[v] = 0 /\ \A u \in Thread : v \notin out[u]
            /\ \A u \in Thread, k \in Nat : ~Held(v, u, k)'
        BY <1>2, <1>3, <2>1, <2>3 DEF OwnedOnce
      <3>2. \A u \in Thread : v \in out'[u] <=> u = t
        BY <1>3, <2>3, <3>1
      <3> QED
        BY <3>1, <3>2 DEF OwnedOnce
    <2> QED
      BY <2>2, <2>3
  <1> QED
    BY <1>1, <1>4 DEF OwnInv

\* Handing values back to the calling constructor, and dropping the others.
LEMMA OwnPopInto ==
    ASSUME TypeInv, OwnInv, NEW t \in Thread, NEW kept, PopInto(t, kept)
    PROVE  OwnInv'
  <1>1. Value' = Value
    BY SameInputs DEF PopInto
  <1> DEFINE L == Len(stack[t])
  <1>2. /\ \A u \in Thread \ {t} : stack'[u] = stack[u]
        /\ Len(stack'[t]) = L - 1 /\ L \in Nat
        /\ \A k \in 1 .. L - 2 : stack'[t][k] = stack[t][k]
        /\ stack'[t][L - 1].got = stack[t][L - 1].got \cup kept
        /\ kept \subseteq stack[t][L].got
    BY PopIntoShape
  <1>3. L > 1
    BY DEF PopInto
  <1>4. \A v \in Value : v \in stack[t][L].got <=> Held(v, t, L)
    BY <1>2, <1>3 DEF Held
  <1>5. ASSUME NEW v \in Value, NEW u \in Thread, NEW k \in Nat
        PROVE  Held(v, u, k)' <=> \/ Held(v, u, k) /\ ~(u = t /\ k = L)
                                  \/ u = t /\ k = L - 1 /\ v \in kept
    <2>1. CASE u # t
      BY <1>2, <2>1 DEF Held
    <2>2. CASE u = t /\ k = L - 1
      BY <1>2, <1>3, <2>2 DEF Held
    <2>3. CASE u = t /\ k \in 1 .. L - 2
      BY <1>2, <1>3, <2>3 DEF Held
    <2>4. CASE u = t /\ k \notin 1 .. L - 1
      <3>1. k \notin 1 .. L \/ k = L
        BY <1>2, <1>3, <2>4
      <3> QED
        BY <1>2, <1>3, <2>4, <3>1 DEF Held
    <2>5. k = L - 1 \/ k \in 1 .. L - 2 \/ k \notin 1 .. L - 1
      BY <1>2, <1>3
    <2> QED
      BY <2>1, <2>2, <2>3, <2>4, <2>5
  <1>6. /\ full' = full /\ out' = out
        /\ \A v \in Value : drops'[v] = IF v \in stack[t][L].got \ kept THEN drops[v] + 1 ELSE drops[v]
    BY DEF PopInto, DropAll, Top
  <1>7. L \in Nat /\ L - 1 \in Nat
    BY <1>2, <1>3
  <1>8. \A v \in Value : v \in kept => Held(v, t, L)
    BY <1>2, <1>4
  <1>9. \A v \in Value : drops'[v] = IF Held(v, t, L) /\ v \notin kept THEN drops[v] + 1 ELSE drops[v]
    BY <1>4, <1>6
  <1>10. ASSUME NEW v \in Value PROVE OwnedOnce(v)'
    <2> HIDE DEF L
    <2>1. CASE ~Held(v, t, L)
      <3>1. drops'[v] = drops[v] /\ \A u \in Thread, k \in Nat : Held(v, u, k)' <=> Held(v, u, k)
        BY <1>5, <1>8, <1>9, <2>1
      <3> QED
        BY <1>6, <3>1 DEF OwnInv, OwnedOnce
    <2>2. CASE Held(v, t, L) /\ v \in kept
      <3>1. /\ drops'[v] = 0 /\ drops[v] = 0 /\ v \notin full'
            /\ \A u \in Thread : v \notin out'[u]
        BY <1>6, <1>7, <1>9, <2>2 DEF OwnInv, OwnedOnce
      <3>2. \A u \in Thread, k \in Nat : Held(v, u, k)' <=> u = t /\ k = L - 1
        BY <1>5, <1>7, <2>2 DEF OwnInv, OwnedOnce
      <3> QED
        BY <1>7, <3>1, <3>2 DEF OwnedOnce
    <2>3. CASE Held(v, t, L) /\ v \notin kept
      <3>1. /\ drops'[v] = 1 /\ v \notin full'
            /\ \A u \in Thread : v \notin out'[u]
        BY <1>6, <1>7, <1>9, <2>3 DEF OwnInv, OwnedOnce
      <3>2. \A u \in Thread, k \in Nat : ~Held(v, u, k)'
        BY <1>5, <1>7, <2>3 DEF OwnInv, OwnedOnce
      <3> QED
        BY <3>1, <3>2 DEF OwnedOnce
    <2> QED
      BY <2>1, <2>2, <2>3
  <1> QED
    BY <1>1, <1>10 DEF OwnInv

\* Ending a resolver call: its caller keeps some values, the others are dropped.
LEMMA OwnEnd ==
    ASSUME TypeInv, OwnInv, NEW t \in Thread, NEW kept, End(t, kept)
    PROVE  OwnInv'
  <1>1. Value' = Value
    BY SameInputs DEF End
  <1>2. stack'[t] = <<>> /\ \A u \in Thread \ {t} : stack'[u] = stack[u]
    BY DEF End, TypeInv
  <1>3. Len(stack[t]) \in Nat
    BY DEF TypeInv
  <1>4. \A v \in Value : v \in HeldBy(t) <=> \E k \in Nat : Held(v, t, k)
    BY <1>3 DEF HeldBy, Held
  <1>5. ASSUME NEW v \in Value, NEW u \in Thread, NEW k \in Nat
        PROVE  Held(v, u, k)' <=> Held(v, u, k) /\ u # t
    BY <1>2 DEF Held
  <1>6. /\ full' = full /\ kept \subseteq HeldBy(t)
        /\ \A u \in Thread : out'[u] = IF u = t THEN out[u] \cup kept ELSE out[u]
        /\ \A v \in Value : drops'[v] = IF v \in HeldBy(t) \ kept THEN drops[v] + 1 ELSE drops[v]
    BY DEF End, DropAll, TypeInv
  <1>7. ASSUME NEW v \in Value PROVE OwnedOnce(v)'
    <2>1. CASE v \notin HeldBy(t)
      <3>1. \A u \in Thread, k \in Nat : Held(v, u, k)' <=> Held(v, u, k)
        BY <1>4, <1>5, <2>1
      <3>2. drops'[v] = drops[v] /\ \A u \in Thread : v \in out'[u] <=> v \in out[u]
        BY <1>6, <2>1
      <3> QED
        BY <1>6, <3>1, <3>2 DEF OwnInv, OwnedOnce
    <2>2. CASE v \in HeldBy(t)
      <3>1. PICK k \in Nat : Held(v, t, k)
        BY <1>4, <2>2
      <3>2. /\ v \notin full /\ drops[v] = 0 /\ \A u \in Thread : v \notin out[u]
            /\ \A u \in Thread, j \in Nat : ~Held(v, u, j)'
        BY <1>5, <3>1 DEF OwnInv, OwnedOnce
      <3>3. CASE v \in kept
        <4>1. drops'[v] = 0 /\ v \notin full' /\ \A u \in Thread : v \in out'[u] <=> u = t
          BY <1>6, <3>2, <3>3
        <4> QED
          BY <3>2, <4>1 DEF OwnedOnce
      <3>4. CASE v \notin kept
        <4>1. drops'[v] = drops[v] + 1
          BY <1>6, <2>2, <3>4
        <4>2. drops'[v] = 1
          BY <3>2, <4>1
        <4>3. v \notin full' /\ \A u \in Thread : v \notin out'[u]
          BY <1>6, <3>2, <3>4
        <4> QED
          BY <3>2, <4>2, <4>3 DEF OwnedOnce
      <3> QED
        BY <3>3, <3>4
    <2> QED
      BY <2>1, <2>2
  <1> QED
    BY <1>1, <1>7 DEF OwnInv
-------------------------------------------------------------------------------
(* The inductive invariant, step by step.                                    *)

\* The container starts with every value in its slot and no call running.
LEMMA InitInv == Init => IndInv
  <1> SUFFICES ASSUME Init PROVE IndInv
    OBVIOUS
  <1>1. InputsInv
    <2>1. PICK S \in {Node, Stored} : takes = [n \in Node |-> uses[n] \cap S]
      BY DEF Init
    <2>2. Stored \subseteq Node
      BY DEF Stored
    <2>3. takes \in [Node -> SUBSET Node] /\ \A n \in Node : uses[n] \cap Stored \subseteq takes[n]
      BY <2>1, <2>2 DEF Init
    <2> QED
      BY <2>3 DEF Init, InputsInv
  <1>2. TypeInv
    BY DEF Init, TypeInv
  <1>3. \A t \in Thread : stack[t] = <<>> /\ Len(stack[t]) = 0 /\ taken[t] = {} /\ out[t] = {}
    BY DEF Init
  <1>4. StackInv /\ DeclaredInv
    BY <1>3 DEF StackInv, DeclaredInv
  <1>5. OnlyDeclared
    BY <1>3 DEF OnlyDeclared
  <1>6. OwnInv
    <2>1. \A v \in Value, t \in Thread, k \in Nat : ~Held(v, t, k)
      BY <1>3 DEF Held
    <2>2. \A v \in Value : drops[v] = 0 /\ v \in full
      BY DEF Init
    <2> QED
      BY <1>3, <2>1, <2>2 DEF OwnInv, OwnedOnce
  <1> QED
    BY <1>1, <1>2, <1>4, <1>5, <1>6 DEF IndInv

\* A running call is of constructors, all the way down.
LEMMA RunningCall ==
    ASSUME TypeInv, StackInv, NEW t \in Thread, stack[t] # <<>>
    PROVE  /\ Len(stack[t]) \in Nat \ {0}
           /\ \A k \in 1 .. Len(stack[t]) :
                stack[t][k] \in Frames /\ stack[t][k].node \in Factory
           /\ Top(t) = stack[t][Len(stack[t])] /\ Top(t).node \in Factory
           /\ root[t] \in Factory /\ Factory \subseteq Node
  <1>1. stack[t] \in Seq(Frames)
    BY DEF TypeInv
  <1>2. Len(stack[t]) \in Nat \ {0} /\ \A k \in 1 .. Len(stack[t]) : stack[t][k] \in Frames
    BY <1>1
  <1>3. \A f \in Frames : f.node \in Factory
    BY DEF Frames
  <1>4. 1 \in 1 .. Len(stack[t]) /\ Len(stack[t]) \in 1 .. Len(stack[t])
    BY <1>2
  <1>5. root[t] = stack[t][1].node
    BY DEF StackInv
  <1> QED
    BY <1>2, <1>3, <1>4, <1>5 DEF Top, Factory

\* What a call may take stays declared while neither it nor the call changes.
LEMMA DeclaredKept ==
    ASSUME OnlyDeclared, UNCHANGED inputs, NEW t \in Thread,
           \A u \in Thread \ {t} : taken'[u] = taken[u] /\ root'[u] = root[u],
           taken'[t] \subseteq {root'[t]}
               \cup UNION {consumed[i] \cup calls[i] : i \in {root'[t]} \cap Node}
    PROVE  OnlyDeclared'
  <1>1. consumed' = consumed /\ calls' = calls
    BY SameInputs
  <1>2. ASSUME NEW u \in Thread
        PROVE  taken'[u] \subseteq {root'[u]}
                 \cup UNION {consumed[i] \cup calls[i] : i \in {root'[u]} \cap Node}
    <2>1. CASE u = t
      BY <2>1
    <2>2. CASE u # t
      BY <2>2 DEF OnlyDeclared
    <2> QED
      BY <2>1, <2>2
  <1> QED
    BY <1>1, <1>2 DEF OnlyDeclared

\* A resolver method takes a value for its caller.
LEMMA StepTakeOut ==
    ASSUME IndInv, InputsInv', NEW t \in Thread, NEW v \in Value, TakeOut(t, v),
           t \in Scoped => v \notin mask
    PROVE  IndInv'
  <1>1. /\ UNCHANGED inputs /\ stack' = stack /\ stack[t] = <<>>
        /\ full' = full \ {v} /\ drops' = drops
        /\ out' = [out EXCEPT ![t] = @ \cup {v}]
        /\ root' = [root EXCEPT ![t] = v]
        /\ taken' = [taken EXCEPT ![t] = {v}]
    BY DEF TakeOut
  <1>2. TypeInv /\ StackInv /\ DeclaredInv /\ OnlyDeclared /\ OwnInv
    BY DEF IndInv
  <1>3. Value' = Value /\ Frames' = Frames /\ Value \subseteq Node \cup Kid
    BY <1>1, SameInputs DEF Value, Stored
  <1>4. TypeInv'
    BY <1>1, <1>2, <1>3 DEF TypeInv
  <1>5. /\ \A u \in Thread \ {t} : root'[u] = root[u] /\ taken'[u] = taken[u]
        /\ root'[t] = v /\ taken'[t] = {v}
    BY <1>1, <1>2 DEF TypeInv
  <1>6. Shrinks(t)
    BY <1>1, <1>2, <1>5 DEF Shrinks, TypeInv
  <1>7. StackInv' /\ DeclaredInv'
    BY <1>1, <1>2, <1>5, <1>6, ShrinkKeeps
  <1>8. OnlyDeclared'
    BY <1>1, <1>2, <1>5, DeclaredKept
  <1>9. OwnInv'
    BY <1>2, OwnTakeOut
  <1> QED
    BY <1>4, <1>7, <1>8, <1>9 DEF IndInv

\* A constructor takes a value that it, or a constructor around it, declares.
LEMMA StepTakeInto ==
    ASSUME IndInv, InputsInv', NEW t \in Thread, NEW got, TakeInto(t, got),
           got \subseteq consumed[Top(t).node] \cup calls[Top(t).node]
    PROVE  IndInv'
  <1>1. /\ UNCHANGED inputs /\ root' = root /\ out' = out /\ drops' = drops
        /\ stack[t] # <<>> /\ full' = full \ got /\ got \subseteq full
        /\ taken' = [taken EXCEPT ![t] = @ \cup got]
    BY DEF TakeInto
  <1>2. TypeInv /\ StackInv /\ DeclaredInv /\ OnlyDeclared /\ OwnInv
    BY DEF IndInv
  <1>3. Value' = Value /\ Frames' = Frames
    BY <1>1, SameInputs
  <1> DEFINE L == Len(stack[t])
  <1>4. /\ stack' \in [Thread -> Seq(Frames)]
        /\ \A u \in Thread \ {t} : stack'[u] = stack[u]
        /\ Len(stack'[t]) = L /\ L \in Nat \ {0}
        /\ \A k \in 1 .. L - 1 : stack'[t][k] = stack[t][k]
        /\ stack'[t][L].node = stack[t][L].node
    BY <1>2, TakeIntoShape
  <1>5. TypeInv'
    BY <1>1, <1>2, <1>3, <1>4 DEF TypeInv
  <1>6. /\ \A u \in Thread \ {t} : root'[u] = root[u] /\ taken'[u] = taken[u]
        /\ root'[t] = root[t] /\ taken'[t] = taken[t] \cup got
    BY <1>1, <1>2 DEF TypeInv
  <1>7. Shrinks(t)
    <2>1. ASSUME NEW k \in 1 .. L PROVE stack'[t][k].node = stack[t][k].node
      <3>1. k = L \/ k \in 1 .. L - 1
        BY <1>4
      <3> QED
        BY <1>4, <3>1
    <2> QED
      BY <1>4, <1>6, <2>1 DEF Shrinks
  <1>8. L \in 1 .. L /\ Top(t) = stack[t][L]
    BY <1>4 DEF Top
  <1>9. got \subseteq consumed[root[t]] \cup calls[root[t]]
    BY <1>2, <1>8 DEF DeclaredInv
  <1>10. t \in Scoped => taken'[t] \cap mask = {}
    BY <1>1, <1>2, <1>6, <1>9 DEF DeclaredInv
  <1>11. StackInv' /\ DeclaredInv'
    BY <1>1, <1>2, <1>7, <1>10, ShrinkKeeps
  <1>12. OnlyDeclared'
    <2>1. root[t] \in Node
      BY <1>1, <1>2, RunningCall
    <2>2. taken[t] \subseteq {root[t]} \cup UNION {consumed[i] \cup calls[i] : i \in {root[t]} \cap Node}
      BY <1>2 DEF OnlyDeclared
    <2>3. consumed[root[t]] \cup calls[root[t]] \subseteq
             UNION {consumed[i] \cup calls[i] : i \in {root[t]} \cap Node}
      BY <2>1
    <2>4. taken'[t] \subseteq {root'[t]}
             \cup UNION {consumed[i] \cup calls[i] : i \in {root'[t]} \cap Node}
      BY <1>6, <1>9, <2>2, <2>3
    <2> QED
      BY <1>1, <1>2, <1>6, <2>4, DeclaredKept
  <1>13. OwnInv'
    BY <1>2, OwnTakeInto
  <1> QED
    BY <1>5, <1>11, <1>12, <1>13 DEF IndInv
\* A nested constructor returns.
LEMMA StepPopInto ==
    ASSUME IndInv, InputsInv', NEW t \in Thread, NEW kept, PopInto(t, kept)
    PROVE  IndInv'
  <1>1. /\ UNCHANGED inputs /\ root' = root /\ out' = out /\ full' = full /\ taken' = taken
        /\ Len(stack[t]) > 1 /\ DropAll(Top(t).got \ kept)
    BY DEF PopInto
  <1>2. TypeInv /\ StackInv /\ DeclaredInv /\ OnlyDeclared /\ OwnInv
    BY DEF IndInv
  <1>3. Value' = Value /\ Frames' = Frames
    BY <1>1, SameInputs
  <1> DEFINE L == Len(stack[t])
  <1>4. /\ stack' \in [Thread -> Seq(Frames)]
        /\ \A u \in Thread \ {t} : stack'[u] = stack[u]
        /\ Len(stack'[t]) = L - 1 /\ L \in Nat
        /\ \A k \in 1 .. L - 2 : stack'[t][k] = stack[t][k]
        /\ stack'[t][L - 1].node = stack[t][L - 1].node
    BY <1>2, PopIntoShape
  <1>5. TypeInv'
    BY <1>1, <1>2, <1>3, <1>4 DEF TypeInv, DropAll
  <1>6. Shrinks(t)
    <2>1. ASSUME NEW k \in 1 .. L - 1 PROVE stack'[t][k].node = stack[t][k].node
      <3>1. k = L - 1 \/ k \in 1 .. L - 2
        BY <1>4
      <3> QED
        BY <1>4, <3>1
    <2> QED
      BY <1>1, <1>4, <2>1 DEF Shrinks
  <1>7. StackInv' /\ DeclaredInv'
    BY <1>1, <1>2, <1>6, ShrinkKeeps DEF DeclaredInv
  <1>8. OnlyDeclared'
    BY <1>1, <1>2, DeclaredKept DEF OnlyDeclared
  <1>9. OwnInv'
    BY <1>2, OwnPopInto
  <1> QED
    BY <1>5, <1>7, <1>8, <1>9 DEF IndInv

\* A resolver call ends.
LEMMA StepEnd ==
    ASSUME IndInv, InputsInv', NEW t \in Thread, NEW kept, End(t, kept)
    PROVE  IndInv'
  <1>1. /\ UNCHANGED inputs /\ full' = full
        /\ stack' = [stack EXCEPT ![t] = <<>>]
        /\ root' = [root EXCEPT ![t] = 0]
        /\ taken' = [taken EXCEPT ![t] = {}]
        /\ out' = [out EXCEPT ![t] = @ \cup kept]
        /\ DropAll(HeldBy(t) \ kept) /\ kept \subseteq HeldBy(t)
    BY DEF End
  <1>2. TypeInv /\ StackInv /\ DeclaredInv /\ OnlyDeclared /\ OwnInv
    BY DEF IndInv
  <1>3. Value' = Value /\ Frames' = Frames
    BY <1>1, SameInputs
  <1>4. kept \subseteq Value
    <2>1. \A k \in 1 .. Len(stack[t]) : stack[t][k] \in Frames
      BY <1>2 DEF TypeInv
    <2>2. \A k \in 1 .. Len(stack[t]) : stack[t][k].got \subseteq Value
      BY <2>1 DEF Frames
    <2> QED
      BY <1>1, <2>2 DEF HeldBy
  <1>5. stack' \in [Thread -> Seq(Frames)] /\ stack'[t] = <<>>
    BY <1>1, <1>2 DEF TypeInv
  <1>6. TypeInv'
    <2>1. drops' \in [Value -> Nat]
      BY <1>1, <1>2 DEF TypeInv, DropAll
    <2>2. /\ root' \in [Thread -> Node \cup Kid \cup {0}]
          /\ taken' \in [Thread -> SUBSET Value]
          /\ out' \in [Thread -> SUBSET Value]
          /\ full' \in SUBSET Value
      BY <1>1, <1>2, <1>4 DEF TypeInv
    <2> QED
      BY <1>3, <1>5, <2>1, <2>2 DEF TypeInv
  <1>7. /\ \A u \in Thread \ {t} :
             stack'[u] = stack[u] /\ root'[u] = root[u] /\ taken'[u] = taken[u]
        /\ taken'[t] = {}
    BY <1>1, <1>2 DEF TypeInv
  <1>8. Shrinks(t)
    <2>1. stack[t] \in Seq(Frames) /\ Len(stack[t]) \in Nat /\ Len(stack'[t]) = 0
      BY <1>2, <1>5 DEF TypeInv
    <2> QED
      BY <1>5, <1>7, <2>1 DEF Shrinks
  <1>9. StackInv' /\ DeclaredInv'
    BY <1>1, <1>2, <1>7, <1>8, ShrinkKeeps
  <1>10. OnlyDeclared'
    BY <1>1, <1>2, <1>7, DeclaredKept
  <1>11. OwnInv'
    BY <1>2, OwnEnd
  <1> QED
    BY <1>6, <1>9, <1>10, <1>11 DEF IndInv

\* A call or a query that moves nothing.
LEMMA StepNothing ==
    ASSUME IndInv, InputsInv', NEW t \in Thread,
           UNCHANGED <<inputs, full, stack, out, drops>>,
           \/ UNCHANGED <<root, taken>>
           \/ /\ stack[t] = <<>>
              /\ \E i \in Node : root' = [root EXCEPT ![t] = i]
              /\ taken' = [taken EXCEPT ![t] = {}]
    PROVE  IndInv'
  <1>1. TypeInv /\ StackInv /\ DeclaredInv /\ OnlyDeclared /\ OwnInv
    BY DEF IndInv
  <1>2. Value' = Value /\ Frames' = Frames /\ UNCHANGED inputs /\ stack' = stack
    BY SameInputs
  <1>3. TypeInv'
    BY <1>1, <1>2 DEF TypeInv
  <1>4. /\ \A u \in Thread \ {t} : root'[u] = root[u] /\ taken'[u] = taken[u]
        /\ taken'[t] \subseteq taken[t]
        /\ stack[t] # <<>> => root'[t] = root[t]
        /\ taken'[t] # {} => root'[t] = root[t]
    BY <1>1 DEF TypeInv
  <1>5. Shrinks(t)
    BY <1>1, <1>2, <1>4 DEF Shrinks, TypeInv
  <1>6. t \in Scoped => taken'[t] \cap mask = {}
    BY <1>1, <1>4 DEF DeclaredInv
  <1>7. StackInv' /\ DeclaredInv'
    BY <1>1, <1>2, <1>5, <1>6, ShrinkKeeps
  <1>8. OnlyDeclared'
    <2>1. taken[t] \subseteq {root[t]} \cup UNION {consumed[i] \cup calls[i] : i \in {root[t]} \cap Node}
      BY <1>1 DEF OnlyDeclared
    <2>2. CASE taken'[t] = {}
      BY <1>1, <1>2, <1>4, <2>2, DeclaredKept
    <2>3. CASE taken'[t] # {}
      BY <1>1, <1>2, <1>4, <2>1, <2>3, DeclaredKept
    <2> QED
      BY <2>2, <2>3
  <1>9. OwnInv'
    <2>1. \A v \in Value, u \in Thread, k \in Nat : Held(v, u, k)' <=> Held(v, u, k)
      BY DEF Held
    <2> QED
      BY <1>1, <2>1, OwnKept
  <1> QED
    BY <1>3, <1>7, <1>8, <1>9 DEF IndInv
\* A resolver method calls a constructor helper.
LEMMA StepCallConstructor ==
    ASSUME IndInv, InputsInv', NEW t \in Thread, NEW i \in Node, CallConstructor(t, i)
    PROVE  IndInv'
  <1>1. /\ UNCHANGED inputs /\ full' = full /\ out' = out /\ drops' = drops
        /\ stack[t] = <<>> /\ i \in Factory
        /\ stack' = [stack EXCEPT ![t] = <<Frame(i)>>]
        /\ root' = [root EXCEPT ![t] = i]
        /\ taken' = [taken EXCEPT ![t] = {}]
    BY DEF CallConstructor, MayCall
  <1>2. TypeInv /\ StackInv /\ DeclaredInv /\ OnlyDeclared /\ OwnInv
    BY DEF IndInv
  <1>3. /\ Value' = Value /\ Frames' = Frames
        /\ uses' = uses /\ consumed' = consumed /\ calls' = calls /\ mask' = mask
    BY <1>1, SameInputs
  <1>4. Frame(i) \in Frames /\ Frame(i).node = i /\ Frame(i).got = {}
    BY <1>1 DEF Frame, Frames
  <1>5. TypeInv'
    BY <1>1, <1>2, <1>3, <1>4 DEF TypeInv
  <1>6. /\ \A u \in Thread \ {t} :
             stack'[u] = stack[u] /\ root'[u] = root[u] /\ taken'[u] = taken[u]
        /\ stack'[t] = <<Frame(i)>> /\ root'[t] = i /\ taken'[t] = {}
    BY <1>1, <1>2 DEF TypeInv
  <1>7. Len(stack'[t]) = 1 /\ stack'[t][1] = Frame(i)
    BY <1>6
  <1>8. StackInv'
    <2>1. i + 1 <= N
      BY DEF Node
    <2>2. ASSUME NEW u \in Thread
          PROVE  /\ stack'[u] # <<>> => stack'[u][1].node = root'[u]
                 /\ \A k \in 1 .. Len(stack'[u]) : stack'[u][k].node + k <= N
                 /\ \A k \in 1 .. Len(stack'[u]) - 1 :
                      stack'[u][k + 1].node \in uses[stack'[u][k].node]
      <3>1. CASE u = t
        <4>1. stack'[u][1].node = i /\ root'[u] = i
          BY <1>4, <1>6, <1>7, <3>1
        <4> DEFINE m == Len(stack'[u])
        <4>2. m = 1
          BY <1>7, <3>1
        <4> HIDE DEF m
        <4>3. (\A k \in 1 .. m : k = 1) /\ (\A k \in 1 .. m - 1 : FALSE)
          BY <4>2
        <4> USE DEF m
        <4> QED
          BY <2>1, <4>1, <4>2, <4>3
      <3>2. CASE u # t
        BY <1>2, <1>6, <3>2 DEF StackInv
      <3> QED
        BY <3>1, <3>2
    <2> QED
      BY <1>3, <2>2 DEF StackInv
  <1>9. DeclaredInv'
    <2>1. t \in Scoped => consumed[i] \cap mask = {} /\ calls[i] \cap mask = {}
      BY DEF CallConstructor, MayCall, Allowed
    <2>2. ASSUME NEW u \in Thread
          PROVE  /\ \A k \in 1 .. Len(stack'[u]) :
                      /\ consumed[stack'[u][k].node] \subseteq consumed[root'[u]]
                      /\ calls[stack'[u][k].node] \subseteq calls[root'[u]]
                 /\ u \in Scoped /\ stack'[u] # <<>> =>
                      consumed[root'[u]] \cap mask = {} /\ calls[root'[u]] \cap mask = {}
                 /\ u \in Scoped => taken'[u] \cap mask = {}
      <3>1. CASE u = t
        BY <1>4, <1>6, <1>7, <2>1, <3>1
      <3>2. CASE u # t
        BY <1>2, <1>6, <3>2 DEF DeclaredInv
      <3> QED
        BY <3>1, <3>2
    <2> QED
      BY <1>3, <2>2 DEF DeclaredInv
  <1>10. OnlyDeclared'
    BY <1>1, <1>2, <1>6, DeclaredKept
  <1>11. OwnInv'
    <2>1. ASSUME NEW v \in Value, NEW u \in Thread, NEW k \in Nat
          PROVE  Held(v, u, k)' <=> Held(v, u, k)
      <3>1. CASE u # t
        BY <1>6, <3>1 DEF Held
      <3>2. CASE u = t
        BY <1>1, <1>4, <1>7, <3>2 DEF Held
      <3> QED
        BY <3>1, <3>2
    <2> QED
      BY <1>1, <1>2, <2>1, OwnKept
  <1> QED
    BY <1>5, <1>8, <1>9, <1>10, <1>11 DEF IndInv

\* A constructor calls another one.
LEMMA StepQueryConstructor ==
    ASSUME IndInv, InputsInv', NEW t \in Thread, NEW d \in Node, QueryConstructor(t, d)
    PROVE  IndInv'
  <1> DEFINE L == Len(stack[t])
             n == Top(t).node
  <1>1. /\ UNCHANGED inputs /\ full' = full /\ out' = out /\ drops' = drops
        /\ root' = root /\ taken' = taken
        /\ stack[t] # <<>> /\ d \in Factory /\ d \in uses[n]
        /\ stack' = [stack EXCEPT ![t] = Append(@, Frame(d))]
    BY DEF QueryConstructor, MayQuery
  <1>2. InputsInv /\ TypeInv /\ StackInv /\ DeclaredInv /\ OnlyDeclared /\ OwnInv
    BY DEF IndInv
  <1>3. /\ Value' = Value /\ Frames' = Frames
        /\ uses' = uses /\ consumed' = consumed /\ calls' = calls /\ mask' = mask
    BY <1>1, SameInputs
  <1>4. Frame(d) \in Frames /\ Frame(d).node = d /\ Frame(d).got = {}
    BY <1>1 DEF Frame, Frames
  <1>5. /\ L \in Nat \ {0} /\ Top(t) = stack[t][L] /\ n \in Node
        /\ \A k \in 1 .. L : stack[t][k].node \in Node
    BY <1>1, <1>2, RunningCall
  <1>6. /\ stack' \in [Thread -> Seq(Frames)] /\ stack'[t] = Append(stack[t], Frame(d))
        /\ \A u \in Thread \ {t} : stack'[u] = stack[u]
    BY <1>1, <1>2, <1>4 DEF TypeInv
  <1>7. /\ Len(stack'[t]) = L + 1 /\ stack'[t][L + 1] = Frame(d)
        /\ \A k \in 1 .. L : stack'[t][k] = stack[t][k]
    <2>1. stack[t] \in Seq(Frames)
      BY <1>2 DEF TypeInv
    <2> QED
      BY <1>4, <1>6, <2>1, AppendProperties
  <1>8. TypeInv'
    BY <1>1, <1>2, <1>3, <1>6 DEF TypeInv
  <1>9. /\ d < n /\ consumed[d] \subseteq consumed[n] /\ calls[d] \subseteq calls[n]
    BY <1>1, <1>2, <1>5, TablesAlongCall
  <1>10. n = stack[t][L].node /\ L \in 1 .. L
    BY <1>5
  <1> HIDE DEF L, n
  <1>11. \A k \in 1 .. L + 1 : k = L + 1 \/ k \in 1 .. L
    BY <1>5
  <1>12. StackInv'
    <2>1. stack'[t][1].node = root'[t]
      BY <1>1, <1>2, <1>5, <1>7 DEF StackInv
    <2>2. ASSUME NEW k \in 1 .. L + 1 PROVE stack'[t][k].node + k <= N
      <3>1. CASE k = L + 1
        <4>1. n + L <= N
          BY <1>2, <1>10 DEF StackInv, L
        <4>2. d + (L + 1) <= N
          BY <1>5, <1>9, <4>1 DEF Node
        <4> QED
          BY <1>4, <1>7, <3>1, <4>2
      <3>2. CASE k \in 1 .. L
        BY <1>2, <1>7, <3>2 DEF StackInv, L
      <3> QED
        BY <1>11, <3>1, <3>2
    <2>3. ASSUME NEW k \in 1 .. L PROVE stack'[t][k + 1].node \in uses[stack'[t][k].node]
      <3>1. CASE k = L
        BY <1>1, <1>4, <1>7, <1>10, <3>1
      <3>2. CASE k \in 1 .. L - 1
        <4>1. k + 1 \in 1 .. L
          BY <1>5, <3>2
        <4> QED
          BY <1>2, <1>7, <3>2, <4>1 DEF StackInv, L
      <3> QED
        BY <1>5, <3>1, <3>2
    <2>4. ASSUME NEW u \in Thread
          PROVE  /\ stack'[u] # <<>> => stack'[u][1].node = root'[u]
                 /\ \A k \in 1 .. Len(stack'[u]) : stack'[u][k].node + k <= N
                 /\ \A k \in 1 .. Len(stack'[u]) - 1 :
                      stack'[u][k + 1].node \in uses[stack'[u][k].node]
      <3>1. CASE u = t
        <4>1. Len(stack'[u]) = L + 1 /\ Len(stack'[u]) - 1 = L
          BY <1>5, <1>7, <3>1
        <4>2. \A k \in 1 .. Len(stack'[u]) : stack'[u][k].node + k <= N
          BY <2>2, <3>1, <4>1
        <4>3. \A k \in 1 .. Len(stack'[u]) - 1 :
                 stack'[u][k + 1].node \in uses[stack'[u][k].node]
          BY <2>3, <3>1, <4>1
        <4> QED
          BY <2>1, <3>1, <4>2, <4>3
      <3>2. CASE u # t
        BY <1>1, <1>2, <1>6, <3>2 DEF StackInv
      <3> QED
        BY <3>1, <3>2
    <2> QED
      BY <1>3, <2>4 DEF StackInv
  <1>13. DeclaredInv'
    <2>1. ASSUME NEW k \in 1 .. L + 1
          PROVE  /\ consumed[stack'[t][k].node] \subseteq consumed[root[t]]
                 /\ calls[stack'[t][k].node] \subseteq calls[root[t]]
      <3>1. CASE k = L + 1
        <4>1. consumed[n] \subseteq consumed[root[t]] /\ calls[n] \subseteq calls[root[t]]
          BY <1>2, <1>10 DEF DeclaredInv, L
        <4> QED
          BY <1>4, <1>7, <1>9, <3>1, <4>1
      <3>2. CASE k \in 1 .. L
        BY <1>2, <1>7, <3>2 DEF DeclaredInv, L
      <3> QED
        BY <1>11, <3>1, <3>2
    <2>2. ASSUME NEW u \in Thread
          PROVE  /\ \A k \in 1 .. Len(stack'[u]) :
                      /\ consumed[stack'[u][k].node] \subseteq consumed[root[u]]
                      /\ calls[stack'[u][k].node] \subseteq calls[root[u]]
                 /\ u \in Scoped /\ stack'[u] # <<>> =>
                      consumed[root[u]] \cap mask = {} /\ calls[root[u]] \cap mask = {}
                 /\ u \in Scoped => taken[u] \cap mask = {}
      <3>1. CASE u = t
        BY <1>1, <1>2, <1>7, <2>1, <3>1 DEF DeclaredInv
      <3>2. CASE u # t
        BY <1>2, <1>6, <3>2 DEF DeclaredInv
      <3> QED
        BY <3>1, <3>2
    <2> QED
      BY <1>1, <1>3, <2>2 DEF DeclaredInv
  <1>14. OnlyDeclared'
    BY <1>1, <1>2, DeclaredKept DEF OnlyDeclared
  <1>15. OwnInv'
    <2>1. ASSUME NEW v \in Value, NEW u \in Thread, NEW k \in Nat
          PROVE  Held(v, u, k)' <=> Held(v, u, k)
      <3>1. CASE u # t
        BY <1>6, <3>1 DEF Held
      <3>2. CASE u = t /\ k = L + 1
        BY <1>4, <1>5, <1>7, <3>2 DEF Held, L
      <3>3. CASE u = t /\ k # L + 1
        <4>1. k \in 1 .. L + 1 <=> k \in 1 .. L
          BY <1>5, <3>3
        <4> QED
          BY <1>7, <3>3, <4>1 DEF Held, L
      <3> QED
        BY <3>1, <3>2, <3>3
    <2> QED
      BY <1>1, <1>2, <2>1, OwnKept
  <1> QED
    BY <1>8, <1>12, <1>13, <1>14, <1>15 DEF IndInv

\* One step preserves the inductive invariant, action by action.
LEMMA StepInv == IndInv /\ [Next]_vars => IndInv'
  <1> SUFFICES ASSUME IndInv, [Next]_vars PROVE IndInv'
    OBVIOUS
  <1>1. InputsInv /\ TypeInv /\ StackInv /\ InputsInv'
    BY InputsKept DEF IndInv
  <1>2. CASE UNCHANGED vars
    <2>1. UNCHANGED <<inputs, full, stack, root, taken, out, drops>>
      BY <1>2 DEF vars, inputs
    <2>2. Value' = Value /\ Frames' = Frames /\ consumed' = consumed /\ calls' = calls
          /\ uses' = uses /\ mask' = mask
      BY <2>1, SameInputs
    <2>3. TypeInv' /\ StackInv' /\ DeclaredInv' /\ OnlyDeclared'
      BY <2>1, <2>2 DEF IndInv, TypeInv, StackInv, DeclaredInv, OnlyDeclared
    <2>4. \A v \in Value, u \in Thread, k \in Nat : Held(v, u, k)' <=> Held(v, u, k)
      BY <2>1 DEF Held
    <2>5. OwnInv'
      BY <2>1, <2>4, OwnKept DEF IndInv
    <2> QED
      BY <1>1, <2>3, <2>5 DEF IndInv
  <1>3. ASSUME NEW t \in Thread, NEW i \in Node, CallConstructor(t, i) PROVE IndInv'
    BY <1>1, <1>3, StepCallConstructor
  <1>4. ASSUME NEW t \in Thread, NEW i \in Node, CallTake(t, i) PROVE IndInv'
    <2>1. TakeOut(t, i)
      BY <1>1, <1>4, QueriesTake
    <2>2. i \in Value /\ kind[i] = "take"
      BY <1>1, <1>4 DEF CallTake, TypeInv, Value, Stored, Node
    <2>3. t \in Scoped => i \notin mask
      BY <1>4, <2>2 DEF CallTake, MayCall, Allowed
    <2> QED
      BY <1>1, <2>1, <2>2, <2>3, StepTakeOut
  <1>5. ASSUME NEW t \in Thread, NEW i \in Node, CallOther(t, i) PROVE IndInv'
    BY <1>1, <1>5, StepNothing DEF CallOther, MayCall
  <1>6. ASSUME NEW t \in Thread, NEW v \in Kid, CallChild(t, v) PROVE IndInv'
    <2>1. TakeOut(t, v)
      BY <1>1, <1>6, QueriesTake
    <2>2. v \in Value /\ (t \in Scoped => v \notin mask)
      BY <1>6 DEF CallChild, Value
    <2> QED
      BY <1>1, <2>1, <2>2, StepTakeOut
  <1>7. ASSUME NEW t \in Thread, NEW d \in Node, QueryConstructor(t, d) PROVE IndInv'
    BY <1>1, <1>7, StepQueryConstructor
  <1>8. ASSUME NEW t \in Thread, NEW d \in Node, QueryTake(t, d) PROVE IndInv'
    <2>1. TakeInto(t, {d}) /\ d \in uses[Top(t).node] /\ d \in full
      BY <1>1, <1>8, QueriesTake DEF QueryTake
    <2>2. d \in Stored
      BY <1>1, <2>1 DEF TypeInv, Value, Node
    <2>3. Top(t).node \in Node
      BY <1>1, <2>1, RunningCall DEF TakeInto
    <2>4. d \in consumed[Top(t).node]
      BY <1>1, <2>1, <2>2, <2>3, TablesAlongCall
    <2> QED
      BY <1>1, <2>1, <2>4, StepTakeInto
  <1>9. ASSUME NEW t \in Thread, NEW d \in Node, QueryOther(t, d) PROVE IndInv'
    BY <1>1, <1>9, StepNothing DEF QueryOther
  <1>10. ASSUME NEW t \in Thread, NEW v \in Kid, QueryChild(t, v) PROVE IndInv'
    <2>1. PICK got \in SUBSET {v} : TakeInto(t, got) /\ v \in asks[Top(t).node]
      BY <1>1, <1>10, QueriesTake
    <2>2. Top(t).node \in Factory /\ Factory \subseteq Node
      BY <1>1, <2>1, RunningCall DEF TakeInto
    <2>3. v \in calls[Top(t).node]
      <3>1. IsChildUse(calls, Node, Factory, asks, uses)
        BY <1>1, TablesCorrect DEF TablesInv
      <3> QED
        BY <2>1, <2>2, <3>1 DEF IsChildUse
    <2>4. got \subseteq consumed[Top(t).node] \cup calls[Top(t).node]
      BY <2>3
    <2> QED
      BY <1>1, <2>1, <2>4, StepTakeInto
  <1>11. ASSUME NEW t \in Thread, Return(t) PROVE IndInv'
    <2>1. PICK kept : PopInto(t, kept) \/ End(t, kept)
      BY <1>1, <1>11, ReturnsEnd
    <2> QED
      BY <1>1, <2>1, StepPopInto, StepEnd
  <1>12. ASSUME NEW t \in Thread, Unwind(t) PROVE IndInv'
    <2>1. End(t, {})
      BY <1>1, <1>12, ReturnsEnd
    <2> QED
      BY <1>1, <2>1, StepEnd
  <1> QED
    BY <1>2, <1>3, <1>4, <1>5, <1>6, <1>7, <1>8, <1>9, <1>10, <1>11, <1>12 DEF Next, Inside

-------------------------------------------------------------------------------
(* Theorems.                                                                 *)

\* The strengthening holds in every reachable state: the inputs stay what the
\* analysis made them, nested constructor calls follow declared queries from the
\* registration named by the resolver call, and every value has one place.
THEOREM Inductive == Spec => []IndInv
  BY InitInv, StepInv, PTL DEF Spec

\* The tables of consumed_dependencies and propagate_child_calls are sound for a
\* call of any depth: a resolver call takes only what they record for it.
THEOREM TakesOnlyDeclared == Spec => []OnlyDeclared
  <1>1. IndInv => OnlyDeclared
    BY DEF IndInv
  <1> QED
    BY <1>1, Inductive, PTL

\* A restricted scope protects what it names: the where clauses that scopegen.rs
\* puts on its methods stop every call that could, at any depth, move it out.
THEOREM ScopeProtects == Spec => []MaskRespected
  <1>1. IndInv => MaskRespected
    BY DEF IndInv, DeclaredInv, MaskRespected
  <1> QED
    BY <1>1, Inductive, PTL

\* The context generated for a constructor holds every slot that a constructor it
\* calls is handed, and a native closure never needs its own.
THEOREM ContextsSuffice == Spec => []ContextCovers
  <1>1. ASSUME IndInv, NEW t \in Thread, NEW k \in 1 .. Len(stack[t]) - 1
        PROVE  Arguments(stack[t][k + 1].node, transitive)
                 \subseteq Arguments(stack[t][k].node, transitive) \ {stack[t][k].node}
    <2> DEFINE n == stack[t][k].node
               d == stack[t][k + 1].node
    <2>1. InputsInv /\ TypeInv /\ StackInv
      BY <1>1 DEF IndInv
    <2>2. k \in 1 .. Len(stack[t]) /\ stack[t] # <<>>
      <3>1. stack[t] \in Seq(Frames)
        BY <2>1 DEF TypeInv
      <3>2. Len(stack[t]) \in Nat
        BY <3>1
      <3>3. 1 <= k /\ k <= Len(stack[t])
        BY <3>2
      <3> QED
        BY <3>1, <3>2, <3>3
    <2>3. n \in Node
      BY <2>1, <2>2, RunningCall
    <2>4. d \in uses[n]
      BY <2>1 DEF StackInv
    <2> HIDE DEF n, d
    <2>5. /\ d \in Node /\ d < n /\ transitive[d] \subseteq 0 .. d - 1
          /\ {d} \cup transitive[d] \subseteq transitive[n]
      BY <2>1, <2>3, <2>4, TablesAlongCall
    <2>6. n \notin {d} \cup transitive[d]
      BY <2>3, <2>5 DEF Node
    <2>7. Arguments(d, transitive) \subseteq Arguments(n, transitive) \ {n}
      BY <2>5, <2>6 DEF Arguments
    <2> QED
      BY <2>7 DEF n, d
  <1>2. IndInv => ContextCovers
    BY <1>1 DEF ContextCovers
  <1> QED
    BY <1>2, Inductive, PTL

\* One place, counted: the sets that OneOwner counts are a singleton and an empty
\* set, or both empty.
LEMMA OwnedIsCounted ==
    ASSUME TypeInv, StackInv, NEW v \in Value, OwnedOnce(v)
    PROVE  Cardinality({t \in Thread : v \in out[t]})
             + Cardinality({p \in Thread \X (1 .. N) :
                               p[2] <= Len(stack[p[1]]) /\ v \in stack[p[1]][p[2]].got})
             + drops[v] = IF v \in full THEN 0 ELSE 1
  <1> DEFINE O == {t \in Thread : v \in out[t]}
             H == {p \in Thread \X (1 .. N) :
                      p[2] <= Len(stack[p[1]]) /\ v \in stack[p[1]][p[2]].got}
  <1>1. \A t \in Thread : v \in out[t] <=> t \in O
    OBVIOUS
  <1>2. ASSUME NEW t \in Thread, NEW k \in Nat
        PROVE  Held(v, t, k) <=> <<t, k>> \in H
    <2>1. stack[t] \in Seq(Frames)
      BY DEF TypeInv
    <2>2. Len(stack[t]) \in Nat /\ \A j \in 1 .. Len(stack[t]) : stack[t][j] \in Frames
      BY <2>1
    <2>3. \A f \in Frames : f.node \in Nat
      BY DEF Frames, Factory, Node
    <2>4. ASSUME k \in 1 .. Len(stack[t]) PROVE k \in 1 .. N
      <3>1. stack[t][k].node \in Nat /\ stack[t][k].node + k <= N
        BY <2>2, <2>3, <2>4 DEF StackInv
      <3> QED
        BY <2>2, <2>4, <3>1
    <2>5. k \in 1 .. Len(stack[t]) <=> k \in 1 .. N /\ k <= Len(stack[t])
      BY <2>2, <2>4
    <2> QED
      BY <2>5 DEF Held
  <1>3. \A p \in H : p = <<p[1], p[2]>> /\ p[1] \in Thread /\ p[2] \in Nat
    OBVIOUS
  <1>4. drops[v] \in {0, 1}
    BY DEF OwnedOnce
  <1> HIDE DEF O, H
  <1>5. O \subseteq Thread
    BY DEF O
  <1>6. (\A t \in Thread, k \in Nat : ~Held(v, t, k)) => H = {}
    BY <1>2, <1>3
  <1> SUFFICES Cardinality(O) + Cardinality(H) + drops[v] = IF v \in full THEN 0 ELSE 1
    BY Zenon DEF O, H
  <1>7. Cardinality({}) = 0 /\ \A x : Cardinality({x}) = 1
    BY FS_EmptySet, FS_Singleton
  <1>8. CASE v \in full
    <2>1. O = {} /\ H = {} /\ drops[v] = 0
      BY <1>1, <1>5, <1>6, <1>8 DEF OwnedOnce
    <2> QED
      BY <1>7, <1>8, <2>1
  <1>9. CASE v \notin full /\ \E t \in Thread : v \in out[t]
    <2>1. PICK t \in Thread : v \in out[t]
      BY <1>9
    <2>2. O = {t} /\ H = {} /\ drops[v] = 0
      BY <1>1, <1>5, <1>6, <2>1 DEF OwnedOnce
    <2>3. Cardinality(O) = 1 /\ Cardinality(H) = 0 /\ drops[v] = 0
      BY <1>7, <2>2, Zenon
    <2> QED
      BY <1>9, <2>3
  <1>10. CASE v \notin full /\ \E t \in Thread, k \in Nat : Held(v, t, k)
    <2>1. PICK t \in Thread, k \in Nat : Held(v, t, k)
      BY <1>10
    <2>2. /\ \A u \in Thread, j \in Nat : Held(v, u, j) => u = t /\ j = k
          /\ drops[v] = 0 /\ O = {}
      BY <1>1, <1>5, <2>1 DEF OwnedOnce
    <2>3. H = {<<t, k>>}
      <3>1. <<t, k>> \in H
        BY <1>2, <2>1
      <3>2. \A p \in H : p = <<t, k>>
        BY <1>2, <1>3, <2>2
      <3> QED
        BY <3>1, <3>2
    <2>4. Cardinality(O) = 0 /\ Cardinality(H) = 1 /\ drops[v] = 0
      BY <1>7, <2>2, <2>3, Zenon
    <2> QED
      BY <1>10, <2>4
  <1>11. CASE /\ v \notin full /\ ~ \E t \in Thread : v \in out[t]
              /\ ~ \E t \in Thread, k \in Nat : Held(v, t, k)
    <2>1. O = {} /\ H = {} /\ drops[v] = 1
      BY <1>1, <1>5, <1>6, <1>11 DEF OwnedOnce
    <2> QED
      BY <1>7, <1>11, <2>1
  <1> QED
    BY <1>8, <1>9, <1>10, <1>11

\* Ownership is conserved for any number of threads and nested calls: every value
\* is in its slot, with one caller, in one running constructor, or dropped once,
\* through returns, errors and unwinding alike.
THEOREM OwnershipConserved == Spec => []OneOwner
  <1>1. IndInv => OneOwner
    BY OwnedIsCounted DEF IndInv, OwnInv, OneOwner
  <1> QED
    BY <1>1, Inductive, PTL
===============================================================================
