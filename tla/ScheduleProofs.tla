---------------------------- MODULE ScheduleProofs ----------------------------
(***************************************************************************)
(* schedule() is correct for a dependency graph of any size; its order is    *)
(* layered by the length of the longest dependency chain, and folding along   *)
(* it as the generator does computes reachability.                           *)
(***************************************************************************)
EXTENDS Schedule, WiringProofs, FiniteSetTheorems

USE NAssumption

LayerInv ==
    /\ \A n \in layer : n \notin emitted /\ deps[n] \subseteq emitted
    /\ mode # "layers" => layer = {}

OrderInv ==
    /\ emitted = {order[i] : i \in 1 .. Len(order)}
    /\ Cardinality(emitted) = Len(order)
    /\ DependencyFirst

WalkInv ==
    /\ mode = "layers" => path = <<>>
    /\ mode = "walk" => node \in Node \ emitted /\ Ready = {}
    /\ \A i \in 1 .. Len(path) - 1 : path[i + 1] \in deps[path[i]]
    /\ \A i, j \in 1 .. Len(path) : i # j => path[i] # path[j]
    /\ mode = "walk" /\ Len(path) > 0 => node \in deps[path[Len(path)]]

IndInv == TypeOK /\ LayerInv /\ OrderInv /\ WalkInv /\ CompleteOrder /\ CycleIsReal

\* The registrations are N many, and so are all of them once N are placed.
LEMMA Counting ==
    /\ IsFiniteSet(Node)
    /\ Cardinality(Node) = N
    /\ \A S \in SUBSET Node : /\ IsFiniteSet(S)
                              /\ Cardinality(S) \in Nat
                              /\ Cardinality(S) <= N
                              /\ Cardinality(S) = N => S = Node
  <1>1. IsFiniteSet(Node) /\ Cardinality(Node) = N
    BY FS_Interval, 0 \in Int, N - 1 \in Int DEF Node
  <1>2. ASSUME NEW S \in SUBSET Node
        PROVE  /\ IsFiniteSet(S)
               /\ Cardinality(S) \in Nat
               /\ Cardinality(S) <= N
               /\ Cardinality(S) = N => S = Node
    BY <1>1, FS_Subset, FS_CardinalityType
  <1> QED
    BY <1>1, <1>2

\* Placing a new node counts it.
LEMMA AddOne ==
    ASSUME NEW S, IsFiniteSet(S), NEW x, x \notin S
    PROVE  Cardinality(S \cup {x}) = Cardinality(S) + 1
  BY FS_AddElement

\* The call of schedule() starts in the inductive invariant.
LEMMA InitInv == Init => IndInv
  <1> SUFFICES ASSUME Init PROVE IndInv
    OBVIOUS
  <1>1. TypeOK
    BY DEF Init, TypeOK
  <1>2. LayerInv /\ WalkInv /\ CompleteOrder /\ CycleIsReal
    BY DEF Init, LayerInv, WalkInv, CompleteOrder, CycleIsReal
  <1>3. OrderInv
    BY FS_EmptySet DEF Init, OrderInv, DependencyFirst
  <1> QED
    BY <1>1, <1>2, <1>3 DEF IndInv

\* Every step of schedule() keeps the types.
LEMMA StepType == TypeOK /\ [Next]_graphVars => TypeOK'
  <1> SUFFICES ASSUME TypeOK, [Next]_graphVars PROVE TypeOK'
    OBVIOUS
  <1> USE DEF TypeOK
  <1>1. CASE FreezeLayer
    BY <1>1 DEF FreezeLayer, Ready
  <1>2. CASE Emit
    BY <1>2 DEF Emit
  <1>3. CASE StartWalk
    BY <1>3 DEF StartWalk
  <1>4. CASE Walk
    BY <1>4 DEF Walk
  <1>5. CASE CloseCycle
    BY <1>5 DEF CloseCycle
  <1>6. CASE Finish
    BY <1>6 DEF Finish
  <1>7. CASE Returned \/ UNCHANGED graphVars
    BY <1>7 DEF Returned, graphVars
  <1> QED
    BY <1>1, <1>2, <1>3, <1>4, <1>5, <1>6, <1>7 DEF Next, ScheduleStep

\* What a step that leaves the placed nodes alone keeps.
LEMMA OrderKept ==
    ASSUME OrderInv, UNCHANGED <<deps, emitted, order>>
    PROVE  OrderInv'
  <1>1. DependencyFirst'
    BY DEF OrderInv, DependencyFirst
  <1>2. (emitted = {order[i] : i \in 1 .. Len(order)})'
    BY DEF OrderInv
  <1>3. (Cardinality(emitted) = Len(order))'
    BY DEF OrderInv
  <1> QED
    BY <1>1, <1>2, <1>3 DEF OrderInv

\* What a step that leaves the answer alone keeps.
LEMMA AnswerKept ==
    ASSUME CompleteOrder, CycleIsReal, UNCHANGED <<deps, order, cycle>>,
           mode' = mode \/ mode' \notin {"ok", "err"}
    PROVE  CompleteOrder' /\ CycleIsReal'
  <1>1. CompleteOrder'
    BY DEF CompleteOrder
  <1>2. CycleIsReal'
    BY DEF CycleIsReal
  <1> QED
    BY <1>1, <1>2

\* One step preserves the inductive invariant, action by action.
LEMMA StepInv == IndInv /\ [Next]_graphVars => IndInv'
  <1> SUFFICES ASSUME IndInv, [Next]_graphVars PROVE IndInv'
    OBVIOUS
  <1>0. TypeOK /\ TypeOK'
    BY StepType DEF IndInv
  <1> USE DEF IndInv, TypeOK
  <1>1. CASE FreezeLayer
    <2>1. LayerInv' /\ WalkInv'
      BY <1>0, <1>1 DEF FreezeLayer, LayerInv, WalkInv, Ready
    <2>2. OrderInv'
      BY <1>1, OrderKept DEF FreezeLayer
    <2>3. CompleteOrder' /\ CycleIsReal'
      BY <1>1, AnswerKept DEF FreezeLayer
    <2> QED
      BY <1>0, <2>1, <2>2, <2>3
  <1>2. CASE Emit
    <2>1. PICK n \in layer : /\ emitted' = emitted \cup {n}
                             /\ order' = Append(order, n)
                             /\ layer' = layer \ {n}
      BY <1>2 DEF Emit
    <2>2. /\ n \in Node /\ n \notin emitted /\ deps[n] \subseteq emitted
          /\ Len(order') = Len(order) + 1
          /\ order'[Len(order) + 1] = n
          /\ \A i \in 1 .. Len(order) : order'[i] = order[i]
      BY <2>1 DEF LayerInv
    <2>3. LayerInv'
      BY <1>2, <2>1 DEF LayerInv, Emit
    <2>4. OrderInv'
      <3>1. emitted' = {order'[i] : i \in 1 .. Len(order')}
        <4>1. ASSUME NEW x \in emitted'
              PROVE  \E i \in 1 .. Len(order') : x = order'[i]
          <5>1. CASE x = n
            BY <2>2, <5>1
          <5>2. CASE x \in emitted
            <6>1. PICK i \in 1 .. Len(order) : x = order[i]
              BY <5>2 DEF OrderInv
            <6> QED
              BY <2>2, <6>1
          <5> QED
            BY <2>1, <5>1, <5>2
        <4>2. ASSUME NEW i \in 1 .. Len(order') PROVE order'[i] \in emitted'
          BY <2>1, <2>2, <4>2 DEF OrderInv
        <4> QED
          BY <4>1, <4>2
      <3>2. Cardinality(emitted') = Len(order')
        <4>1. IsFiniteSet(emitted)
          BY Counting
        <4>2. Cardinality(emitted \cup {n}) = Cardinality(emitted) + 1
          BY <2>2, <4>1, AddOne
        <4> QED
          BY <2>1, <2>2, <4>2 DEF OrderInv
      <3>3. DependencyFirst'
        <4> SUFFICES ASSUME NEW i \in 1 .. Len(order')
                     PROVE  deps[order'[i]] \subseteq {order'[j] : j \in 1 .. i - 1}
          BY <1>2 DEF DependencyFirst, Emit
        <4>1. CASE i = Len(order) + 1
          BY <2>2, <4>1 DEF OrderInv
        <4>2. CASE i \in 1 .. Len(order)
          BY <2>2, <4>2 DEF OrderInv, DependencyFirst
        <4> QED
          BY <2>2, <4>1, <4>2
      <3> QED
        BY <3>1, <3>2, <3>3 DEF OrderInv
    <2>5. WalkInv' /\ CompleteOrder' /\ CycleIsReal'
      BY <1>2 DEF Emit, WalkInv, CompleteOrder, CycleIsReal
    <2> QED
      BY <1>0, <2>3, <2>4, <2>5
  <1>3. CASE StartWalk
    <2>1. LayerInv'
      BY <1>3 DEF StartWalk, LayerInv
    <2>2. OrderInv'
      BY <1>3, OrderKept DEF StartWalk
    <2>3. CompleteOrder' /\ CycleIsReal'
      BY <1>3, AnswerKept DEF StartWalk
    <2>4. WalkInv'
      BY <1>3 DEF StartWalk, WalkInv, Ready, IsFirst
    <2> QED
      BY <1>0, <2>1, <2>2, <2>3, <2>4
  <1>4. CASE Walk
    <2>0. UNCHANGED <<deps, emitted, order, layer, mode, cycle>>
      BY <1>4 DEF Walk
    <2>1. LayerInv' /\ OrderInv'
      BY <2>0, OrderKept DEF LayerInv
    <2>2. WalkInv'
      BY <1>4 DEF Walk, WalkInv, Ready, IsFirst, OnPath
    <2>3. CompleteOrder' /\ CycleIsReal'
      BY <2>0, AnswerKept
    <2> QED
      BY <1>0, <2>1, <2>2, <2>3
  <1>5. CASE CloseCycle
    <2>0. UNCHANGED <<deps, emitted, order, layer, path>> /\ layer = {}
      BY <1>5 DEF CloseCycle, LayerInv
    <2>1. LayerInv' /\ OrderInv'
      BY <2>0, OrderKept DEF LayerInv
    <2>2. WalkInv' /\ CompleteOrder'
      BY <1>5 DEF CloseCycle, WalkInv, CompleteOrder
    <2>3. CycleIsReal'
      <3>1. PICK s \in 1 .. Len(path) :
                   path[s] = node /\ cycle' = Append(SubSeq(path, s, Len(path)), node)
        BY <1>5 DEF CloseCycle
      <3> DEFINE k == Len(path) - s + 1
      <3>2. k \in Nat /\ k >= 1 /\ s + k - 1 = Len(path)
        OBVIOUS
      <3>3. /\ SubSeq(path, s, Len(path)) \in Seq(Node)
            /\ Len(SubSeq(path, s, Len(path))) = k
            /\ \A i \in 1 .. k : SubSeq(path, s, Len(path))[i] = path[s + i - 1]
        OBVIOUS
      <3>4. /\ Len(cycle') = k + 1
            /\ cycle'[k + 1] = node
            /\ \A i \in 1 .. k : cycle'[i] = path[s + i - 1]
        BY <3>1, <3>2, <3>3
      <3> HIDE DEF k
      <3>5. cycle'[1] = cycle'[Len(cycle')] /\ Len(cycle') > 1
        BY <3>1, <3>2, <3>4
      <3>6. ASSUME NEW i \in 1 .. k PROVE cycle'[i + 1] \in deps[cycle'[i]]
        <4>1. CASE i = k
          BY <1>5, <3>2, <3>4, <4>1 DEF CloseCycle, WalkInv
        <4>2. CASE i < k
          <5>1. cycle'[i] = path[s + i - 1] /\ cycle'[i + 1] = path[s + i]
            BY <3>2, <3>4, <4>2
          <5>2. s + i - 1 \in 1 .. Len(path) - 1
            BY <3>2, <4>2
          <5> QED
            BY <5>1, <5>2 DEF WalkInv
        <4> QED
          BY <3>2, <4>1, <4>2
      <3>7. ASSUME NEW i \in 1 .. k, NEW j \in 1 .. k, i # j PROVE cycle'[i] # cycle'[j]
        <4>1. /\ s + i - 1 \in 1 .. Len(path) /\ s + j - 1 \in 1 .. Len(path)
              /\ s + i - 1 # s + j - 1
          BY <3>2, <3>7
        <4>2. path[s + i - 1] # path[s + j - 1]
          BY <4>1 DEF WalkInv
        <4>3. cycle'[i] = path[s + i - 1] /\ cycle'[j] = path[s + j - 1]
          BY <3>4
        <4> QED
          BY <4>2, <4>3
      <3>8. Len(cycle') - 1 = k /\ deps' = deps
        BY <1>5, <3>2, <3>4 DEF CloseCycle
      <3> QED
        BY <3>5, <3>6, <3>7, <3>8 DEF CycleIsReal
    <2> QED
      BY <1>0, <2>1, <2>2, <2>3
  <1>6. CASE Finish
    <2>1. LayerInv' /\ OrderInv' /\ WalkInv' /\ CycleIsReal'
      BY <1>6 DEF Finish, LayerInv, OrderInv, WalkInv, DependencyFirst, CycleIsReal
    <2>2. CompleteOrder'
      <3>1. Len(order) = N /\ emitted = Node
        BY <1>6, Counting DEF Finish, OrderInv
      <3> QED
        BY <1>6, <3>1 DEF Finish, OrderInv, CompleteOrder
    <2> QED
      BY <1>0, <2>1, <2>2
  <1>7. CASE Returned \/ UNCHANGED graphVars
    <2>1. UNCHANGED <<deps, emitted, order, layer, mode, path, node, cycle>>
      BY <1>7 DEF Returned, graphVars
    <2>2. LayerInv'
      BY <2>1 DEF LayerInv
    <2>3. OrderInv'
      BY <2>1, OrderKept
    <2>4. WalkInv'
      BY <2>1 DEF WalkInv, Ready
    <2>5. CompleteOrder' /\ CycleIsReal'
      BY <2>1, AnswerKept
    <2> QED
      BY <1>0, <2>2, <2>3, <2>4, <2>5
  <1> QED
    BY <1>1, <1>2, <1>3, <1>4, <1>5, <1>6, <1>7 DEF Next, ScheduleStep

\* The inductive invariant holds throughout schedule().
THEOREM Inductive == Spec => []IndInv
  BY InitInv, StepInv, PTL DEF Spec

\* Type correctness of schedule() for every graph.
THEOREM TypeCorrect == Spec => []TypeOK
  <1>1. IndInv => TypeOK
    BY DEF IndInv
  <1> QED
    BY <1>1, Inductive, PTL

\* The order under construction never runs ahead of a dependency.
THEOREM OrderIsDependencyFirst == Spec => []DependencyFirst
  <1>1. IndInv => DependencyFirst
    BY DEF IndInv, OrderInv
  <1> QED
    BY <1>1, Inductive, PTL

\* A successful schedule contains every registration.
THEOREM OrderIsComplete == Spec => []CompleteOrder
  <1>1. IndInv => CompleteOrder
    BY DEF IndInv
  <1> QED
    BY <1>1, Inductive, PTL

\* A reported cycle is a simple closed path of dependency edges.
THEOREM ReportedCycleIsReal == Spec => []CycleIsReal
  <1>1. IndInv => CycleIsReal
    BY DEF IndInv
  <1> QED
    BY <1>1, Inductive, PTL

\* The unreachable! arms of the cycle walk are unreachable.
THEOREM NeverStuck == Spec => []WalkNeverStuck
  <1>1. IndInv => WalkNeverStuck
    <2> SUFFICES ASSUME IndInv PROVE WalkNeverStuck
      OBVIOUS
    <2>1. ASSUME Len(order) < N PROVE Node \ emitted # {}
      <3>1. emitted \subseteq Node /\ Cardinality(emitted) < N
        BY <2>1 DEF IndInv, OrderInv, TypeOK
      <3>2. emitted # Node
        BY <3>1, Counting
      <3> QED
        BY <3>1, <3>2
    <2>2. ASSUME mode = "walk" PROVE deps[node] \ emitted # {}
      BY <2>2 DEF IndInv, WalkInv, Ready, TypeOK
    <2> QED
      BY <2>1, <2>2 DEF WalkNeverStuck
  <1> QED
    BY <1>1, Inductive, PTL

-------------------------------------------------------------------------------
(* Layers.                                                                   *)

\* n is one above the deepest of its dependencies.
DepthAt(depth, n) ==
    /\ \A d \in deps[n] : depth[d] < depth[n]
    /\ depth[n] = 0 \/ \E d \in deps[n] : depth[d] = depth[n] - 1

\* order is sorted by layer, and within a layer by number.
Sorted(depth) ==
    \A i, j \in 1 .. Len(order) :
        i < j => \/ depth[order[i]] < depth[order[j]]
                 \/ depth[order[i]] = depth[order[j]] /\ order[i] < order[j]

\* top is the layer being placed, -1 before the first one.  Whatever is not placed
\* or in it depends on a node of it, or on one that is not placed either.
Layered(depth, top) ==
    /\ top <= Len(order) /\ (layer = {} => top < Len(order))
    /\ top = -1 => emitted = {} /\ layer = {}
    /\ \A n \in emitted \cup layer : depth[n] <= top /\ DepthAt(depth, n)
    /\ \A n \in layer : depth[n] = top
    /\ \A n \in emitted, m \in layer : depth[n] = top => n < m
    /\ \A m \in Node \ (emitted \cup layer) :
         top = -1 \/ \E d \in deps[m] : d \notin emitted \/ depth[d] = top
    /\ Sorted(depth)

LayersInv == \E depth \in [Node -> 0 .. N - 1], top \in -1 .. N - 1 : Layered(depth, top)

\* What is placed has its dependencies placed.
LEMMA EmittedClosed == IndInv => \A n \in emitted : n \in Node /\ deps[n] \subseteq emitted
  <1> SUFFICES ASSUME IndInv, NEW n \in emitted PROVE n \in Node /\ deps[n] \subseteq emitted
    OBVIOUS
  <1>1. TypeOK /\ OrderInv
    BY DEF IndInv
  <1>2. PICK i \in 1 .. Len(order) : n = order[i]
    BY <1>1 DEF OrderInv
  <1>3. Len(order) \in Nat /\ \A j \in 1 .. i - 1 : j \in 1 .. Len(order)
    BY <1>1 DEF TypeOK
  <1>4. deps[n] \subseteq {order[j] : j \in 1 .. i - 1}
    BY <1>1, <1>2 DEF OrderInv, DependencyFirst
  <1>5. \A j \in 1 .. i - 1 : order[j] \in emitted
    BY <1>1, <1>3 DEF OrderInv
  <1> QED
    BY <1>1, <1>4, <1>5 DEF TypeOK

\* Before the first layer anything is a layering.
LEMMA InitLayers == Init => LayersInv
  <1> SUFFICES ASSUME Init PROVE LayersInv
    OBVIOUS
  <1> DEFINE depth == [n \in Node |-> 0]
  <1>1. depth \in [Node -> 0 .. N - 1]
    <2>1. \A n \in Node : 0 \in 0 .. N - 1
      BY NAssumption DEF Node
    <2> QED
      BY <2>1
  <1>bound. -1 \in -1 .. N - 1
    BY NAssumption
  <1>2. Len(order) = 0 /\ layer = {} /\ emitted = {}
    BY DEF Init
  <1> HIDE DEF depth
  <1>3. Sorted(depth)
    BY <1>2 DEF Sorted
  <1>4. Layered(depth, -1)
    BY <1>2, <1>3 DEF Layered
  <1> QED
    BY <1>1, <1>bound, <1>4 DEF LayersInv

\* A frozen layer is the next one: each of its nodes became ready by the last.
LEMMA FreezeLayers == ASSUME IndInv, LayersInv, FreezeLayer PROVE LayersInv'
  <1>1. TypeOK /\ LayerInv /\ OrderInv
    BY DEF IndInv
  <1>2. /\ layer = {} /\ Len(order) < N /\ Ready # {} /\ layer' = Ready
        /\ UNCHANGED <<deps, emitted, order>>
    BY DEF FreezeLayer
  <1>3. PICK depth \in [Node -> 0 .. N - 1], top \in -1 .. N - 1 : Layered(depth, top)
    BY DEF LayersInv
  <1>next. PICK next : next = [n \in Node |-> IF n \in Ready THEN top + 1 ELSE depth[n]]
    OBVIOUS
  <1>4. Len(order) \in Nat /\ top + 1 \in 0 .. N - 1 /\ top + 1 <= Len(order)
    <2>1. top < Len(order) /\ Len(order) \in Nat
      BY <1>1, <1>2, <1>3 DEF Layered, TypeOK
    <2>2. top \in Int /\ -1 <= top
      OBVIOUS
    <2> DEFINE n == Len(order)
    <2>3. n \in Nat /\ top < n /\ n < N
      BY <1>2, <2>1
    <2> HIDE DEF n
    <2>4. top + 1 \in 0 .. N - 1 /\ top + 1 <= n
      BY NAssumption, <2>2, <2>3
    <2> QED
      BY <2>1, <2>4 DEF n
  <1>5. next \in [Node -> 0 .. N - 1]
    BY <1>next, <1>4
  <1>6. /\ \A n \in Ready : n \in Node /\ n \notin emitted /\ deps[n] \subseteq emitted
                            /\ next[n] = top + 1
        /\ \A n \in emitted : n \in Node /\ next[n] = depth[n] /\ deps[n] \subseteq emitted
        /\ \A n \in emitted : depth[n] \in Nat /\ depth[n] <= top /\ DepthAt(depth, n)
    <2>1. \A n \in emitted : n \in Node /\ deps[n] \subseteq emitted
      BY EmittedClosed
    <2> QED
      BY <1>3, <1>next, <2>1 DEF Ready, Layered
  <1>7. ASSUME NEW n \in emitted
        PROVE  next[n] <= top + 1 /\ next[n] # top + 1 /\ DepthAt(next, n)
    <2>1. next[n] = depth[n] /\ depth[n] \in Nat /\ depth[n] <= top
      BY <1>6
    <2>2. \A d \in deps[n] : next[d] = depth[d]
      BY <1>6
    <2>3. DepthAt(next, n)
      BY <1>6, <2>1, <2>2 DEF DepthAt
    <2> QED
      BY <2>1, <2>3
  <1>8. ASSUME NEW n \in Ready PROVE DepthAt(next, n)
    <2>1. \A d \in deps[n] : d \in emitted /\ next[d] = depth[d] /\ depth[d] \in Nat /\ depth[d] <= top
      BY <1>6
    <2>2. \A d \in deps[n] : next[d] < next[n]
      BY <1>4, <1>6, <2>1
    <2>3. CASE top = -1
      BY <1>6, <2>2, <2>3 DEF DepthAt
    <2>4. CASE top # -1
      <3>1. n \in Node \ (emitted \cup layer)
        BY <1>2, <1>6
      <3>2. PICK d \in deps[n] : d \notin emitted \/ depth[d] = top
        BY <1>3, <2>4, <3>1 DEF Layered
      <3>3. next[d] = top /\ next[n] = top + 1
        BY <1>6, <2>1, <3>2
      <3>4. next[d] = next[n] - 1
        BY <3>3
      <3> QED
        BY <2>2, <3>4 DEF DepthAt
    <2> QED
      BY <2>3, <2>4
  <1>9. Sorted(next)
    <2>1. \A i \in 1 .. Len(order) : next[order[i]] = depth[order[i]]
      BY <1>1, <1>6 DEF OrderInv
    <2> QED
      BY <1>3, <2>1 DEF Sorted, Layered
  <1>10. \A m \in Node \ (emitted \cup Ready) : \E d \in deps[m] : d \notin emitted
    BY DEF Ready
  <1>11. Layered(next, top + 1)'
    <2>1. Sorted(next)' /\ \A n \in Node : DepthAt(next, n)' <=> DepthAt(next, n)
      BY <1>2, <1>9 DEF Sorted, DepthAt
    <2>2. \A n \in emitted \cup Ready : next[n] <= top + 1 /\ DepthAt(next, n)'
      BY <1>4, <1>6, <1>7, <1>8, <2>1
    <2>3. \A n \in emitted, m \in Ready : next[n] = top + 1 => n < m
      BY <1>7
    <2>4. top + 1 # -1
      BY <1>4
    <2> QED
      BY <1>2, <1>4, <1>6, <1>10, <2>1, <2>2, <2>3, <2>4 DEF Layered
  <1> QED
    BY <1>4, <1>5, <1>11 DEF LayersInv

\* Placing the first node of the layer keeps the order sorted.
LEMMA EmitLayers == ASSUME IndInv, LayersInv, Emit PROVE LayersInv'
  <1>1. TypeOK /\ LayerInv /\ OrderInv
    BY DEF IndInv
  <1>2. PICK n \in layer : /\ IsFirst(n, layer)
                           /\ emitted' = emitted \cup {n}
                           /\ order' = Append(order, n)
                           /\ layer' = layer \ {n}
    BY DEF Emit
  <1>3. PICK depth \in [Node -> 0 .. N - 1], top \in -1 .. N - 1 : Layered(depth, top)
    BY DEF LayersInv
  <1>4. n \in Node /\ deps' = deps /\ depth[n] = top
    BY <1>1, <1>3 DEF TypeOK, Emit, Layered
  <1>5. /\ Len(order) \in Nat /\ Len(order') = Len(order) + 1 /\ order'[Len(order) + 1] = n
        /\ \A i \in 1 .. Len(order) : order'[i] = order[i]
        /\ \A i \in 1 .. Len(order) : order[i] \in emitted /\ order[i] \in Node
    BY <1>1, <1>2, <1>4 DEF TypeOK, OrderInv
  <1>6. \A i \in 1 .. Len(order') : i \in 1 .. Len(order) \/ i = Len(order) + 1
    BY <1>5
  <1>7. Sorted(depth)'
    <2> SUFFICES ASSUME NEW i \in 1 .. Len(order'), NEW j \in 1 .. Len(order'), i < j
                 PROVE  \/ depth[order'[i]] < depth[order'[j]]
                        \/ depth[order'[i]] = depth[order'[j]] /\ order'[i] < order'[j]
      BY DEF Sorted
    <2>1. i \in 1 .. Len(order) /\ order'[i] = order[i] /\ order[i] \in emitted /\ order[i] \in Node
      BY <1>5
    <2>2. CASE j \in 1 .. Len(order)
      BY <1>3, <1>5, <2>1, <2>2 DEF Layered, Sorted
    <2>3. CASE j = Len(order) + 1
      <3>1. depth[order[i]] <= top /\ (depth[order[i]] = top => order[i] < n)
        BY <1>3, <2>1 DEF Layered
      <3>2. depth[order[i]] \in Int /\ top \in Int
        BY <1>3, <2>1
      <3> QED
        BY <1>4, <1>5, <2>1, <2>3, <3>1, <3>2
    <2> QED
      BY <1>6, <2>2, <2>3
  <1>8. Layered(depth, top)'
    <2>1. \A m \in Node : DepthAt(depth, m)' <=> DepthAt(depth, m)
      BY <1>4 DEF DepthAt
    <2>2. emitted' \cup layer' = emitted \cup layer /\ emitted \cup layer \subseteq Node
      BY <1>1, <1>2 DEF TypeOK
    <2>3. top <= Len(order') /\ top < Len(order') /\ top # -1
      <3>1. top <= Len(order) /\ top # -1
        BY <1>3 DEF Layered
      <3> QED
        BY <1>5, <3>1
    <2>4. \A m \in emitted' \cup layer' : depth[m] <= top /\ DepthAt(depth, m)'
      BY <1>3, <2>1, <2>2 DEF Layered
    <2>5. \A m \in layer' : depth[m] = top
      BY <1>2, <1>3 DEF Layered
    <2>6. ASSUME NEW e \in emitted', NEW m \in layer', depth[e] = top PROVE e < m
      <3>1. CASE e = n
        <4>1. m \in Node /\ m # n /\ n <= m
          BY <1>1, <1>2 DEF IsFirst, TypeOK
        <4> QED
          BY <1>4, <3>1, <4>1 DEF Node
      <3>2. CASE e \in emitted
        BY <1>2, <1>3, <2>6, <3>2 DEF Layered
      <3> QED
        BY <1>2, <3>1, <3>2
    <2>7. ASSUME NEW m \in Node \ (emitted' \cup layer')
          PROVE  \E d \in deps[m] : d \notin emitted' \/ depth[d] = top
      <3>1. PICK d \in deps[m] : d \notin emitted \/ depth[d] = top
        BY <1>3, <2>2, <2>3, <2>7 DEF Layered
      <3>2. d \notin emitted' \/ depth[d] = top
        BY <1>2, <1>4, <3>1
      <3> QED
        BY <3>2
    <2> QED
      BY <1>4, <1>7, <2>3, <2>4, <2>5, <2>6, <2>7 DEF Layered
  <1> QED
    BY <1>3, <1>8 DEF LayersInv

\* The other steps place nothing.
LEMMA StepLayers == IndInv /\ LayersInv /\ [Next]_graphVars => LayersInv'
  <1> SUFFICES ASSUME IndInv, LayersInv, [Next]_graphVars PROVE LayersInv'
    OBVIOUS
  <1>1. CASE UNCHANGED <<deps, emitted, order, layer>>
    BY <1>1 DEF LayersInv, Layered, Sorted, DepthAt
  <1>2. CASE StartWalk \/ Walk \/ CloseCycle \/ Finish \/ Returned \/ UNCHANGED graphVars
    BY <1>1, <1>2 DEF StartWalk, Walk, CloseCycle, Finish, Returned, graphVars
  <1> QED
    BY <1>2, FreezeLayers, EmitLayers DEF Next, ScheduleStep

\* The schedule under construction is layered throughout.
THEOREM AlwaysLayered == Spec => []LayersInv
  <1>1. Spec => []IndInv
    BY Inductive
  <1> QED
    BY <1>1, InitLayers, StepLayers, PTL DEF Spec

\* schedule() returns the documented "frozen, declaration-ordered layers": sorted by
\* the length of the longest dependency chain, then by declaration order.
THEOREM LayersAreFrozen == Spec => []FrozenLayers
  <1>1. ASSUME IndInv, LayersInv, mode = "ok"
        PROVE  \E depth \in [Node -> 0 .. N - 1] :
                  /\ IsDepth(depth)
                  /\ \A i, j \in 1 .. N :
                       i < j => \/ depth[order[i]] < depth[order[j]]
                                \/ depth[order[i]] = depth[order[j]] /\ order[i] < order[j]
    <2>1. PICK depth \in [Node -> 0 .. N - 1], top \in -1 .. N - 1 : Layered(depth, top)
      BY <1>1 DEF LayersInv
    <2>2. Len(order) = N /\ \A n \in Node : \E i \in 1 .. N : order[i] = n
      BY <1>1 DEF IndInv, CompleteOrder
    <2>3. Node \subseteq emitted
      BY <1>1, <2>2 DEF IndInv, OrderInv
    <2>4. IsDepth(depth)
      BY <2>1, <2>3 DEF Layered, IsDepth, DepthAt
    <2> QED
      BY <2>1, <2>2, <2>4 DEF Layered, Sorted
  <1>2. IndInv /\ LayersInv => FrozenLayers
    BY <1>1 DEF FrozenLayers
  <1> QED
    BY <1>2, Inductive, AlwaysLayered, PTL

\* Along the order that schedule() returns, wiring::transitive computes exactly what
\* each registration can reach.
THEOREM WiringIsReachability == Spec => []TransitiveIsReachability
  <1>1. ASSUME IndInv, LayersInv, mode = "ok"
        PROVE  IsReach(Transitive(deps, order), Node, deps)
    <2>1. TypeOK /\ OrderInv /\ Len(order) = N /\ \A n \in Node : \E i \in 1 .. N : order[i] = n
      BY <1>1 DEF IndInv, CompleteOrder
    <2>2. PICK depth \in [Node -> 0 .. N - 1], top \in -1 .. N - 1 : Layered(depth, top)
      BY <1>1 DEF LayersInv
    <2>3. \A i \in 1 .. Len(order) : order[i] \in Node
      BY <2>1 DEF TypeOK
    <2>4. ASSUME NEW i \in 1 .. Len(order), NEW j \in 1 .. Len(order), i < j
          PROVE  order[i] # order[j]
      <3>1. \/ depth[order[i]] < depth[order[j]]
            \/ order[i] < order[j]
        BY <2>2, <2>4 DEF Layered, Sorted
      <3>2. depth[order[i]] \in Int /\ order[i] \in Int
        BY <2>2, <2>3 DEF Node
      <3> QED
        BY <3>1, <3>2
    <2>5. \A i, j \in 1 .. Len(order) : i # j => order[i] # order[j]
      <3> SUFFICES ASSUME NEW i \in 1 .. Len(order), NEW j \in 1 .. Len(order), i # j
                   PROVE  order[i] # order[j]
        OBVIOUS
      <3>1. i < j \/ j < i
        OBVIOUS
      <3> QED
        BY <2>4, <3>1
    <2>6. Ordered(Node, deps, order)
      BY <2>1, <2>5 DEF Ordered, OrderInv, DependencyFirst, TypeOK
    <2>7. deps \in [Node -> SUBSET Node]
      BY <2>1 DEF TypeOK
    <2> QED
      BY <2>6, <2>7, TransitiveReaches
  <1>2. IndInv /\ LayersInv => TransitiveIsReachability
    BY <1>1 DEF TransitiveIsReachability, IsReach
  <1> QED
    BY <1>2, Inductive, AlwaysLayered, PTL
===============================================================================
