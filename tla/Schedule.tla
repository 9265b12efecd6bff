------------------------------- MODULE Schedule -------------------------------
(***************************************************************************)
(* graph::schedule (systasis-macros/src/graph.rs): dependency-first order   *)
(* of a container's registrations, in frozen layers that keep declaration   *)
(* order, or a closed path that shows an actual dependency cycle.           *)
(*                                                                          *)
(* The graph is an input, chosen in Init.  One action per loop body:        *)
(* computing a layer, emitting its next node, falling through to the cycle  *)
(* walk, one step of the walk, closing the cycle, and returning the order.  *)
(***************************************************************************)
EXTENDS Integers, Sequences, Wiring

CONSTANT N              \* number of registrations

ASSUME NAssumption == N \in Nat

Node == 0 .. N - 1

VARIABLES deps,         \* dependencies: &[BTreeSet<usize>]
          emitted,      \* nodes already placed
          order,        \* the schedule so far
          layer,        \* nodes of the current layer still to be placed
          mode,         \* layers, walk, ok (Ok(order)) or err (Err(cycle))
          path,         \* nodes visited by the cycle walk
          node,         \* its current node
          cycle         \* the reported cycle

graphVars == <<deps, emitted, order, layer, mode, path, node, cycle>>

TypeOK ==
    /\ deps \in [Node -> SUBSET Node]
    /\ emitted \in SUBSET Node
    /\ order \in Seq(Node)
    /\ layer \in SUBSET Node
    /\ mode \in {"layers", "walk", "ok", "err"}
    /\ path \in Seq(Node)
    /\ node \in Node \cup {-1}
    /\ mode = "walk" => node \in Node
    /\ cycle \in Seq(Node)

Init ==
    /\ deps \in [Node -> SUBSET Node]
    /\ emitted = {}
    /\ order = <<>>
    /\ layer = {}
    /\ mode = "layers"
    /\ path = <<>>
    /\ node = -1
    /\ cycle = <<>>

IsFirst(n, S) == n \in S /\ \A m \in S : n <= m

ReadyIgnoresLast == {n \in Node : n \notin emitted /\ deps[n] \ {N - 1} \subseteq emitted}

\* The filter_map of a layer: not emitted, with every dependency emitted.
Ready == {n \in Node : n \notin emitted /\ deps[n] \subseteq emitted}

FreezeLayerUnfrozen ==
    /\ mode = "layers" /\ Len(order) < N
    /\ Ready # {}
    /\ \E n \in Ready : IsFirst(n, Ready) /\ layer' = {n}
    /\ UNCHANGED <<deps, emitted, order, mode, path, node, cycle>>

\* let layer = ...collect(): fixed before any of its nodes is marked.
FreezeLayer ==
    /\ mode = "layers" /\ layer = {} /\ Len(order) < N
    /\ Ready # {}
    /\ layer' = Ready
    /\ UNCHANGED <<deps, emitted, order, mode, path, node, cycle>>

\* Mark and append the layer's nodes, in index order.
Emit ==
    /\ mode = "layers"
    /\ \E n \in layer :
          /\ IsFirst(n, layer)
          /\ emitted' = emitted \cup {n}
          /\ order' = Append(order, n)
          /\ layer' = layer \ {n}
    /\ UNCHANGED <<deps, mode, path, node, cycle>>

\* The empty layer: follow dependencies from the first node left over.
StartWalk ==
    /\ mode = "layers" /\ layer = {} /\ Len(order) < N
    /\ Ready = {}
    /\ \E n \in Node \ emitted : IsFirst(n, Node \ emitted) /\ node' = n
    /\ mode' = "walk"
    /\ UNCHANGED <<deps, emitted, order, layer, path, cycle>>

OnPath(n) == \E i \in 1 .. Len(path) : path[i] = n

WalkOverEmitted ==
    /\ mode = "walk" /\ ~OnPath(node)
    /\ path' = Append(path, node)
    /\ \E n \in deps[node] : IsFirst(n, deps[node]) /\ node' = n
    /\ UNCHANGED <<deps, emitted, order, layer, mode, cycle>>

Walk ==
    /\ mode = "walk" /\ ~OnPath(node)
    /\ path' = Append(path, node)
    /\ \E n \in deps[node] \ emitted :
          IsFirst(n, deps[node] \ emitted) /\ node' = n
    /\ UNCHANGED <<deps, emitted, order, layer, mode, cycle>>

CloseWholePath ==
    /\ mode = "walk" /\ OnPath(node)
    /\ cycle' = Append(path, node)
    /\ mode' = "err"
    /\ UNCHANGED <<deps, emitted, order, layer, path, node>>

CloseNever ==
    /\ mode = "walk" /\ OnPath(node)
    /\ \E n \in deps[node] \ emitted : IsFirst(n, deps[node] \ emitted) /\ node' = n
    /\ UNCHANGED <<deps, emitted, order, layer, mode, path, cycle>>

\* path[start..] followed by the repeated node.
CloseCycle ==
    /\ mode = "walk"
    /\ \E start \in 1 .. Len(path) :
          /\ path[start] = node
          /\ cycle' = Append(SubSeq(path, start, Len(path)), node)
    /\ mode' = "err"
    /\ UNCHANGED <<deps, emitted, order, layer, path, node>>

FinishEarly ==
    /\ mode = "layers" /\ layer = {} /\ Len(order) + 1 >= N
    /\ mode' = "ok"
    /\ UNCHANGED <<deps, emitted, order, layer, path, node, cycle>>

Finish ==
    /\ mode = "layers" /\ layer = {} /\ Len(order) >= N
    /\ mode' = "ok"
    /\ UNCHANGED <<deps, emitted, order, layer, path, node, cycle>>

ScheduleStep == FreezeLayer \/ Emit \/ StartWalk \/ Walk \/ CloseCycle \/ Finish

\* schedule() has returned.
Returned == mode \in {"ok", "err"} /\ UNCHANGED graphVars

Next == ScheduleStep \/ Returned

Spec == Init /\ [][Next]_graphVars /\ WF_graphVars(ScheduleStep)

-------------------------------------------------------------------------------
(* Properties.                                                               *)

\* Dependency first: at any moment, everything placed comes after all it
\* depends on.
DependencyFirst ==
    \A i \in 1 .. Len(order) :
        deps[order[i]] \subseteq {order[j] : j \in 1 .. i - 1}

\* A successful schedule places every registration exactly once.
CompleteOrder ==
    mode = "ok" => /\ Len(order) = N
                   /\ \A n \in Node : \E i \in 1 .. N : order[i] = n

\* The length of each registration's longest dependency chain.
IsDepth(depth) ==
    \A n \in Node :
        /\ \A d \in deps[n] : depth[d] < depth[n]
        /\ depth[n] = 0 \/ \E d \in deps[n] : depth[d] = depth[n] - 1

\* The documented "frozen, declaration-ordered layers": a node's layer is the
\* length of its longest dependency chain, layers follow one another, and
\* within one layer declaration order is kept.
FrozenLayers ==
    mode = "ok" =>
        \E depth \in [Node -> 0 .. N - 1] :
            /\ IsDepth(depth)
            /\ \A i, j \in 1 .. N :
                  i < j => \/ depth[order[i]] < depth[order[j]]
                           \/ depth[order[i]] = depth[order[j]] /\ order[i] < order[j]

\* What the generator wires into a constructor's context is exactly what it can
\* reach: every set that holds a registration's dependencies and is closed under
\* them contains all of Transitive, and Transitive is such a set.
TransitiveIsReachability ==
    mode = "ok" =>
        LET all == Transitive(deps, order)
            Closed(n) == {S \in SUBSET Node :
                            deps[n] \subseteq S /\ \A m \in S : deps[m] \subseteq S}
        IN  \A n \in Node : all[n] \in Closed(n) /\ \A S \in Closed(n) : all[n] \subseteq S

\* A reported cycle is one: a closed path of at least one dependency edge that
\* repeats nothing but its end points, without the nodes leading into it.
CycleIsReal ==
    mode = "err" =>
        /\ Len(cycle) > 1
        /\ cycle[1] = cycle[Len(cycle)]
        /\ \A i \in 1 .. Len(cycle) - 1 : cycle[i + 1] \in deps[cycle[i]]
        /\ \A i, j \in 1 .. Len(cycle) - 1 : i # j => cycle[i] # cycle[j]

\* Neither unreachable! of the cycle walk is reached: an incomplete schedule
\* has a node left over, and the walk always has an edge to follow.
WalkNeverStuck ==
    /\ mode = "layers" /\ layer = {} /\ Len(order) < N => Node \ emitted # {}
    /\ mode = "walk" => deps[node] \ emitted # {}

\* schedule() returns for every graph.
Terminates == <>(mode \in {"ok", "err"})
===============================================================================
