------------------------------ MODULE BuildProofs -----------------------------
(***************************************************************************)
(* Building is safe for any number of registrations and of child values:     *)
(* every slot an initializer or the publication unwraps is Some, no resource *)
(* is dropped twice, a build that ends without a container leaves nothing    *)
(* behind, and a failed one discards in reverse.                             *)
(***************************************************************************)
EXTENDS Build, WiringProofs

USE NAssumption, ChildAssumption

Phase == {"declared", "building", "discarding"} \cup Over
Loc == {"void", "dropped", "error", "elsewhere"} \cup Owned

TypeInv ==
    /\ kind \in [Node -> Kind] /\ deps \in [Node -> SUBSET Res] /\ IsSchedule(deps)
    /\ phase \in Phase /\ pos \in 0 .. N + 1
    /\ error \in BOOLEAN /\ running \in BOOLEAN /\ todo \in SUBSET Res
    /\ slot \in [Node -> {"unset", "some", "none"}]
    /\ loc \in [Res -> Loc] /\ root \in [Res -> Node \cup {-1}]
    /\ drops \in [Res -> Nat] /\ log \in Seq(Node)

\* How far the closure is, and how it can have ended.
PhaseInv ==
    /\ phase = "declared" => pos = 0
    /\ phase = "building" => pos > 0
    /\ phase = "discarding" => pos <= N
    /\ phase = "built" => pos = N + 1
    /\ phase \notin {"building", "discarding", "failed"} => ~error
    /\ running => phase = "building" /\ pos <= N /\ ~error

\* The slots before pos are done: Some, as long as nothing failed.
SlotInv ==
    /\ running => todo \cap Node \subseteq 0 .. pos - 2
    /\ phase \in {"building", "built"} /\ ~error =>
         \A n \in Node : n + 1 < pos => slot[n] = "some"

\* The closure has yet to come to n.
Ahead(n) ==
    \/ phase = "declared"
    \/ phase = "building" /\ n + 1 > pos
    \/ phase = "building" /\ n + 1 = pos /\ ~running

\* A registration's resource is where the progress of the closure says.
PlaceInv ==
    \A n \in Node :
        /\ loc[n] # "elsewhere"
        /\ loc[n] = "slot" => slot[n] = "some"
        /\ Ahead(n) => loc[n] = IF kind[n] = "fresh" THEN "void" ELSE "pending"
        /\ running /\ n + 1 = pos => loc[n] = "work"
        /\ phase \in {"building", "built"} /\ ~error /\ n + 1 < pos => loc[n] # "pending"
        /\ phase = "discarding" /\ n + 1 > pos => loc[n] # "slot"

\* Only an initializer works, only an error owns after one, a value that is part
\* of another is so of one that is stored or being worked with, and a child's
\* values are stored when the program starts.
OwnerInv ==
    /\ \A r \in Res : loc[r] = "work" => running
    /\ \A r \in Res : loc[r] = "error" => error
    /\ \A r \in Res : loc[r] = "inside" => root[r] \in Node /\ loc[root[r]] \in {"slot", "work"}
    /\ \A r \in Child : loc[r] \notin {"void", "pending"}
    /\ phase = "declared" => \A r \in Child : loc[r] \in {"slot", "elsewhere"}

\* What was discarded so far has descending numbers, all above what is left.
LogInv ==
    /\ phase \in {"declared", "building"} => log = <<>>
    /\ \A i, j \in 1 .. Len(log) : i < j => log[j] < log[i]
    /\ phase = "discarding" => \A i \in 1 .. Len(log) : log[i] >= pos

IndInv ==
    /\ TypeInv /\ PhaseInv /\ SlotInv /\ PlaceInv /\ OwnerInv /\ LogInv
    /\ DroppedOnce /\ NothingLeftBehind

-------------------------------------------------------------------------------
(* What the actions share.                                                   *)

\* The slot at pos.
LEMMA CurrentSlot ==
    ASSUME pos \in 1 .. N
    PROVE  current = pos - 1 /\ current \in Node /\ current \in Res
  BY DEF current, order, Node, Res

\* Dropping what was not dropped before.
LEMMA DropsOnce ==
    ASSUME TypeInv, DroppedOnce, NEW S, DropAll(S),
           \A r \in Res : r \in S => loc[r] # "dropped"
    PROVE  /\ loc' \in [Res -> Loc] /\ drops' \in [Res -> Nat] /\ DroppedOnce'
           /\ \A r \in Res : loc'[r] = IF r \in S THEN "dropped" ELSE loc[r]
  <1>1. \A r \in Res : loc'[r] = IF r \in S THEN "dropped" ELSE loc[r]
    BY DEF DropAll
  <1>2. \A r \in Res : drops'[r] = IF r \in S THEN drops[r] + 1 ELSE drops[r]
    BY DEF DropAll
  <1>3. \A r \in Res : loc[r] \in Loc /\ drops[r] \in Nat
    BY DEF TypeInv
  <1>4. "dropped" \in Loc
    BY DEF Loc
  <1>5. loc' \in [Res -> Loc]
    BY <1>3, <1>4 DEF DropAll
  <1>6. drops' \in [Res -> Nat]
    BY <1>3 DEF DropAll
  <1>7. DroppedOnce'
    BY <1>1, <1>2 DEF DroppedOnce
  <1> QED
    BY <1>1, <1>5, <1>6, <1>7

\* No drop.
LEMMA NoDrop ==
    ASSUME TypeInv, DroppedOnce, drops' = drops,
           \A r \in Res : loc'[r] = "dropped" <=> loc[r] = "dropped"
    PROVE  DroppedOnce'
  BY DEF DroppedOnce

\* What an initializer at pos works with: its own resource, what it took, and the
\* values that came with those.
LEMMA WorkShape ==
    ASSUME TypeInv, PhaseInv, PlaceInv, OwnerInv, running
    PROVE  /\ pos \in 1 .. N /\ current = pos - 1 /\ current \in Node /\ phase = "building"
           /\ ~error /\ loc[current] = "work" /\ current \in Work
           /\ \A r \in Res : r \in Work <=>
                loc[r] = "work" \/ (loc[r] = "inside" /\ loc[root[r]] = "work")
           /\ \A r \in Res : loc[r] = "inside" /\ r \notin Work => loc[root[r]] = "slot"
           /\ Work \subseteq Res
  <1>1. pos \in 1 .. N /\ phase = "building" /\ ~error
    BY DEF TypeInv, PhaseInv
  <1>2. current = pos - 1 /\ current \in Node /\ current \in Res
    BY <1>1, CurrentSlot
  <1>3. loc[current] = "work"
    BY <1>1, <1>2 DEF PlaceInv
  <1>4. Node \subseteq Res
    BY DEF Res
  <1>5. \A r \in Res : r \in Work <=>
          loc[r] = "work" \/ (loc[r] = "inside" /\ root[r] \in Res /\ loc[root[r]] = "work")
    BY DEF Work, Whole
  <1>6. \A r \in Res : loc[r] = "inside" => root[r] \in Res /\ loc[root[r]] \in {"slot", "work"}
    BY <1>4 DEF OwnerInv
  <1>7. Work \subseteq Res
    BY DEF Work, Whole
  <1> QED
    BY <1>1, <1>2, <1>3, <1>5, <1>6, <1>7

-------------------------------------------------------------------------------
(* The invariant holds at the start and every step preserves it.             *)

\* Captures exist, nothing else does.
LEMMA InitInv == Init => IndInv
  <1> SUFFICES ASSUME Init PROVE IndInv
    OBVIOUS
  <1>1. Node \subseteq Res /\ Child \subseteq Res /\ Node \cap Child = {}
    BY DEF Node, Res
  <1>2. /\ \A r \in Child : loc[r] = "slot"
        /\ \A n \in Node : loc[n] = IF kind[n] = "fresh" THEN "void" ELSE "pending"
        /\ \A r \in Res : loc[r] \in {"slot", "void", "pending"}
    BY <1>1 DEF Init
  <1>3. loc \in [Res -> Loc]
    BY DEF Init, Loc, Owned
  <1>4. TypeInv
    <2>1. slot \in [Node -> {"unset", "some", "none"}] /\ log \in Seq(Node)
      BY DEF Init
    <2>2. root \in [Res -> Node \cup {-1}] /\ drops \in [Res -> Nat]
      BY DEF Init
    <2>3. phase \in Phase /\ pos \in 0 .. N + 1 /\ todo \in SUBSET Res
      BY DEF Init, Phase
    <2>4. error \in BOOLEAN /\ running \in BOOLEAN
      BY DEF Init
    <2>5. kind \in [Node -> Kind] /\ deps \in [Node -> SUBSET Res] /\ IsSchedule(deps)
      BY DEF Init
    <2> QED
      BY <1>3, <2>1, <2>2, <2>3, <2>4, <2>5 DEF TypeInv
  <1>5. PhaseInv /\ LogInv /\ SlotInv
    BY DEF Init, PhaseInv, LogInv, SlotInv
  <1>6. PlaceInv
    <2>1. phase = "declared" /\ running = FALSE
      BY DEF Init
    <2> QED
      BY <1>2, <2>1 DEF PlaceInv, Ahead
  <1>7. OwnerInv
    BY <1>2 DEF Init, OwnerInv
  <1>8. DroppedOnce /\ NothingLeftBehind
    BY <1>2 DEF Init, DroppedOnce, NothingLeftBehind
  <1> QED
    BY <1>4, <1>5, <1>6, <1>7, <1>8 DEF IndInv

\* The Builder is dropped unused.
LEMMA StepAbandon == ASSUME IndInv, Abandon PROVE IndInv'
  <1>1. TypeInv /\ PhaseInv /\ PlaceInv /\ OwnerInv /\ LogInv /\ DroppedOnce
    BY DEF IndInv
  <1>2. /\ phase = "declared" /\ phase' = "abandoned"
        /\ DropAll({n \in Node : loc[n] = "pending"})
        /\ UNCHANGED <<kind, deps, pos, error, running, todo, slot, root, log>>
    BY DEF Abandon, inputs
  <1>3. /\ loc' \in [Res -> Loc] /\ drops' \in [Res -> Nat] /\ DroppedOnce'
        /\ \A r \in Res : loc'[r] = IF r \in {n \in Node : loc[n] = "pending"}
                                    THEN "dropped" ELSE loc[r]
    BY <1>1, <1>2, DropsOnce
  <1>4. Node \subseteq Res /\ Child \subseteq Res /\ Node \cap Child = {}
    BY DEF Node, Res
  <1>5. /\ ~error /\ ~running /\ log = <<>>
        /\ \A n \in Node : loc[n] \in {"void", "pending"}
        /\ \A r \in Child : loc[r] \in {"slot", "elsewhere"}
    BY <1>1, <1>2 DEF PhaseInv, PlaceInv, Ahead, OwnerInv, LogInv
  <1>6. /\ \A n \in Node : loc'[n] \in {"void", "dropped"}
        /\ \A r \in Child : loc'[r] \in {"slot", "elsewhere"}
    BY <1>3, <1>4, <1>5
  <1>7. \A r \in Res : loc'[r] \in {"void", "dropped", "slot", "elsewhere"}
    BY <1>6 DEF Res
  <1>8. TypeInv'
    BY <1>1, <1>2, <1>3 DEF TypeInv, Phase, Over
  <1>9. PhaseInv' /\ SlotInv' /\ LogInv'
    BY <1>1, <1>2, <1>5 DEF PhaseInv, SlotInv, LogInv
  <1>10. PlaceInv'
    BY <1>2, <1>5, <1>6 DEF PlaceInv, Ahead
  <1>11. OwnerInv'
    BY <1>2, <1>6, <1>7 DEF OwnerInv
  <1>12. NothingLeftBehind'
    BY <1>2, <1>6, <1>7 DEF NothingLeftBehind
  <1> QED
    BY <1>3, <1>8, <1>9, <1>10, <1>11, <1>12 DEF IndInv

\* Builder::build calls the closure.
LEMMA StepStartBuild == ASSUME IndInv, StartBuild PROVE IndInv'
  <1>1. TypeInv /\ PhaseInv /\ SlotInv /\ PlaceInv /\ OwnerInv /\ LogInv /\ DroppedOnce
    BY DEF IndInv
  <1>2. /\ phase = "declared" /\ phase' = "building" /\ pos' = 1
        /\ UNCHANGED <<kind, deps, error, running, todo, slot, loc, root, drops, log>>
    BY DEF StartBuild, inputs
  <1>3. ~error /\ ~running
    BY <1>1, <1>2 DEF PhaseInv
  <1>4. TypeInv'
    BY <1>1, <1>2 DEF TypeInv, Phase
  <1>5. PhaseInv' /\ SlotInv'
    BY <1>1, <1>2, <1>3 DEF PhaseInv, SlotInv, Node
  <1>6. PlaceInv'
    BY <1>1, <1>2, <1>3 DEF PlaceInv, Ahead, Node
  <1>7. OwnerInv' /\ LogInv' /\ DroppedOnce'
    BY <1>1, <1>2 DEF OwnerInv, LogInv, DroppedOnce
  <1>8. NothingLeftBehind'
    BY <1>2 DEF NothingLeftBehind
  <1> QED
    BY <1>4, <1>5, <1>6, <1>7, <1>8 DEF IndInv

\* A FactorySlot or FreshSlot is filled.
LEMMA StepStoreFactory == ASSUME IndInv, StoreFactory PROVE IndInv'
  <1>1. TypeInv /\ PhaseInv /\ SlotInv /\ PlaceInv /\ OwnerInv /\ LogInv /\ DroppedOnce
    BY DEF IndInv
  <1>2. /\ phase = "building" /\ ~running /\ pos <= N /\ ~error
        /\ slot' = [slot EXCEPT ![current] = "some"]
        /\ loc' = [loc EXCEPT ![current] = IF @ = "pending" THEN "slot" ELSE @]
        /\ pos' = pos + 1
        /\ UNCHANGED <<kind, deps, phase, error, running, todo, root, drops, log>>
    BY DEF StoreFactory, AtSlot, inputs
  <1>3. pos \in 1 .. N
    BY <1>1, <1>2 DEF TypeInv, PhaseInv
  <1>4. current = pos - 1 /\ current \in Node /\ current \in Res
    BY <1>3, CurrentSlot
  <1>5. Node \subseteq Res /\ Child \subseteq Res /\ Node \cap Child = {}
    BY DEF Node, Res
  <1>6. loc[current] \in {"void", "pending"}
    <2>1. Ahead(current)
      BY <1>2, <1>3, <1>4 DEF Ahead
    <2> QED
      BY <1>1, <1>4, <2>1 DEF PlaceInv
  <1>7. /\ slot'[current] = "some" /\ loc'[current] \in {"void", "slot"}
        /\ \A n \in Node \ {current} : slot'[n] = slot[n]
        /\ \A r \in Res \ {current} : loc'[r] = loc[r]
    BY <1>1, <1>2, <1>4, <1>6 DEF TypeInv
  <1>8. TypeInv'
    BY <1>1, <1>2, <1>3, <1>4, <1>7 DEF TypeInv, Loc, Owned
  <1>9. PhaseInv' /\ LogInv'
    BY <1>1, <1>2, <1>3 DEF PhaseInv, LogInv
  <1>10. SlotInv'
    BY <1>1, <1>2, <1>3, <1>4, <1>7 DEF SlotInv, Node
  <1>11. PlaceInv'
    BY <1>1, <1>2, <1>3, <1>4, <1>5, <1>7 DEF PlaceInv, Ahead, Node
  <1>12. OwnerInv'
    BY <1>1, <1>2, <1>4, <1>5, <1>6, <1>7 DEF OwnerInv
  <1>13. DroppedOnce'
    BY <1>1, <1>2, <1>6, <1>7, NoDrop
  <1>14. NothingLeftBehind'
    BY <1>2 DEF NothingLeftBehind
  <1> QED
    BY <1>8, <1>9, <1>10, <1>11, <1>12, <1>13, <1>14 DEF IndInv

\* An initializer starts, with its captures.
LEMMA StepBeginInitializer == ASSUME IndInv, BeginInitializer PROVE IndInv'
  <1>1. TypeInv /\ PhaseInv /\ SlotInv /\ PlaceInv /\ OwnerInv /\ LogInv /\ DroppedOnce
    BY DEF IndInv
  <1>2. /\ phase = "building" /\ ~running /\ pos <= N /\ ~error
        /\ kind[current] \in {"copy", "take"}
        /\ running' = TRUE /\ todo' = deps[current]
        /\ loc' = [loc EXCEPT ![current] = "work"]
        /\ UNCHANGED <<kind, deps, phase, pos, error, slot, root, drops, log>>
    BY DEF BeginInitializer, AtSlot, inputs
  <1>3. pos \in 1 .. N
    BY <1>1, <1>2 DEF TypeInv, PhaseInv
  <1>4. current = pos - 1 /\ current \in Node /\ current \in Res
    BY <1>3, CurrentSlot
  <1>5. Node \subseteq Res /\ Child \subseteq Res /\ Node \cap Child = {}
    BY DEF Node, Res
  <1>6. loc[current] = "pending"
    <2>1. Ahead(current)
      BY <1>2, <1>3, <1>4 DEF Ahead
    <2> QED
      BY <1>1, <1>2, <1>4, <2>1 DEF PlaceInv
  <1>7. /\ loc'[current] = "work"
        /\ \A r \in Res \ {current} : loc'[r] = loc[r]
    BY <1>1, <1>2, <1>4 DEF TypeInv
  <1>8. TypeInv'
    BY <1>1, <1>2, <1>4 DEF TypeInv, Loc, Owned
  <1>9. PhaseInv' /\ LogInv'
    BY <1>1, <1>2, <1>3 DEF PhaseInv, LogInv
  <1>10. SlotInv'
    <2>1. deps[current] \cap Node \subseteq 0 .. pos - 2
      BY <1>1, <1>3, <1>4 DEF TypeInv, IsSchedule
    <2> QED
      BY <1>1, <1>2, <2>1 DEF SlotInv
  <1>11. PlaceInv'
    BY <1>1, <1>2, <1>3, <1>4, <1>5, <1>7 DEF PlaceInv, Ahead, Node
  <1>12. OwnerInv'
    BY <1>1, <1>2, <1>4, <1>5, <1>6, <1>7 DEF OwnerInv
  <1>13. DroppedOnce'
    BY <1>1, <1>2, <1>6, <1>7, NoDrop
  <1>14. NothingLeftBehind'
    BY <1>2 DEF NothingLeftBehind
  <1> QED
    BY <1>8, <1>9, <1>10, <1>11, <1>12, <1>13, <1>14 DEF IndInv

\* An initializer makes a query, of a slot done before or of a child.
LEMMA StepQuery == ASSUME IndInv, NEW d \in todo, Query(d) PROVE IndInv'
  <1>1. TypeInv /\ PhaseInv /\ SlotInv /\ PlaceInv /\ OwnerInv /\ LogInv /\ DroppedOnce
    BY DEF IndInv
  <1>2. /\ running
        /\ todo' = (todo \ {d}) \cup (IF d \in Node /\ kind[d] = "factory" THEN deps[d] ELSE {})
        /\ \/ loc[d] = "slot" /\ loc' = [loc EXCEPT ![d] = "work"]
           \/ loc' = loc
        /\ UNCHANGED <<kind, deps, phase, pos, error, running, slot, root, drops, log>>
    BY DEF Query, inputs
  <1>3. phase = "building" /\ pos \in 1 .. N /\ ~error
    BY <1>1, <1>2 DEF TypeInv, PhaseInv
  <1>4. d \in Res
    BY <1>1 DEF TypeInv
  <1>5. Node \subseteq Res /\ Child \subseteq Res /\ Node \cap Child = {}
    BY DEF Node, Res
  <1>6. d \in Node => d < pos - 1
    BY <1>1, <1>2, <1>3 DEF SlotInv
  <1>7. /\ \A r \in Res \ {d} : loc'[r] = loc[r]
        /\ loc'[d] = loc[d] \/ (loc[d] = "slot" /\ loc'[d] = "work")
    BY <1>1, <1>2, <1>4 DEF TypeInv
  <1>8. d \in Node => deps[d] \subseteq Res /\ deps[d] \cap Node \subseteq 0 .. d - 1
    BY <1>1 DEF TypeInv, IsSchedule
  <1>9. TypeInv'
    <2>1. loc' \in [Res -> Loc]
      BY <1>1, <1>2, <1>4 DEF TypeInv, Loc, Owned
    <2>2. todo' \in SUBSET Res
      BY <1>1, <1>2, <1>8 DEF TypeInv
    <2> QED
      BY <1>1, <1>2, <2>1, <2>2 DEF TypeInv
  <1>10. PhaseInv' /\ LogInv'
    BY <1>1, <1>2 DEF PhaseInv, LogInv
  <1>11. SlotInv'
    <2>1. todo' \cap Node \subseteq 0 .. pos - 2
      <3>1. d \in Node => 0 .. d - 1 \subseteq 0 .. pos - 2
        BY <1>3, <1>6 DEF Node
      <3> QED
        BY <1>1, <1>2, <1>8, <3>1 DEF SlotInv
    <2> QED
      BY <1>1, <1>2, <2>1 DEF SlotInv
  <1>12. PlaceInv'
    BY <1>1, <1>2, <1>3, <1>5, <1>6, <1>7 DEF PlaceInv, Ahead, Node
  <1>13. OwnerInv'
    BY <1>1, <1>2, <1>3, <1>4, <1>5, <1>7 DEF OwnerInv
  <1>14. DroppedOnce'
    BY <1>1, <1>2, <1>7, NoDrop
  <1>15. NothingLeftBehind'
    BY <1>2, <1>3 DEF NothingLeftBehind
  <1> QED
    BY <1>9, <1>10, <1>11, <1>12, <1>13, <1>14, <1>15 DEF IndInv

\* The initializer returns its value.
LEMMA StepFinishInitializer == ASSUME IndInv, FinishInitializer PROVE IndInv'
  <1>1. TypeInv /\ PhaseInv /\ SlotInv /\ PlaceInv /\ OwnerInv /\ LogInv /\ DroppedOnce
    BY DEF IndInv
  <1>2. /\ running /\ running' = FALSE /\ todo' = {} /\ pos' = pos + 1
        /\ slot' = [slot EXCEPT ![current] = "some"]
        /\ UNCHANGED <<kind, deps, phase, error, log>>
    BY DEF FinishInitializer, inputs
  <1>3. PICK kept \in {Work, {current}} :
          /\ loc' = [r \in Res |-> IF r = current THEN "slot"
                                   ELSE IF r \in kept THEN "inside"
                                   ELSE IF r \in Work THEN "dropped" ELSE loc[r]]
          /\ root' = [r \in Res |-> IF r \in kept \ {current} THEN current ELSE root[r]]
          /\ drops' = [r \in Res |-> IF r \in Work \ kept THEN drops[r] + 1 ELSE drops[r]]
    BY DEF FinishInitializer
  <1>4. /\ pos \in 1 .. N /\ current = pos - 1 /\ current \in Node /\ phase = "building"
        /\ ~error /\ loc[current] = "work" /\ current \in Work
        /\ \A r \in Res : r \in Work <=>
             loc[r] = "work" \/ (loc[r] = "inside" /\ loc[root[r]] = "work")
        /\ \A r \in Res : loc[r] = "inside" /\ r \notin Work => loc[root[r]] = "slot"
        /\ Work \subseteq Res
    BY <1>1, <1>2, WorkShape
  <1>5. Node \subseteq Res /\ Child \subseteq Res /\ Node \cap Child = {}
    BY DEF Node, Res
  <1>6. current \in kept /\ kept \subseteq Work /\ kept \subseteq Res
    BY <1>3, <1>4
  <1>7. /\ loc'[current] = "slot"
        /\ \A r \in kept \ {current} : loc'[r] = "inside" /\ root'[r] = current
        /\ \A r \in Work \ kept : loc'[r] = "dropped"
        /\ \A r \in Res \ Work : loc'[r] = loc[r] /\ root'[r] = root[r]
    BY <1>3, <1>4, <1>5, <1>6
  <1>8. /\ slot'[current] = "some" /\ \A n \in Node \ {current} : slot'[n] = slot[n]
    BY <1>1, <1>2, <1>4 DEF TypeInv
  <1>9. \A r \in Res : r \in Work => loc[r] \notin {"dropped", "error", "slot", "elsewhere", "pending", "void"}
    BY <1>4
  <1>10. TypeInv'
    <2>1. loc' \in [Res -> Loc]
      BY <1>1, <1>3 DEF TypeInv, Loc, Owned
    <2>2. root' \in [Res -> Node \cup {-1}]
      BY <1>1, <1>3, <1>4 DEF TypeInv
    <2>3. drops' \in [Res -> Nat]
      BY <1>1, <1>3 DEF TypeInv
    <2>4. slot' \in [Node -> {"unset", "some", "none"}] /\ pos' \in 0 .. N + 1
      BY <1>1, <1>2, <1>4 DEF TypeInv
    <2>5. running' \in BOOLEAN /\ todo' \in SUBSET Res
      BY <1>2
    <2> QED
      BY <1>1, <1>2, <2>1, <2>2, <2>3, <2>4, <2>5 DEF TypeInv
  <1>11. PhaseInv' /\ LogInv'
    BY <1>1, <1>2, <1>4 DEF PhaseInv, LogInv
  <1>12. SlotInv'
    BY <1>1, <1>2, <1>4, <1>8 DEF SlotInv, Node
  <1>13. PlaceInv'
    <2> SUFFICES ASSUME NEW n \in Node
                 PROVE  /\ loc'[n] # "elsewhere"
                        /\ loc'[n] = "slot" => slot'[n] = "some"
                        /\ Ahead(n)' => loc'[n] = IF kind[n] = "fresh" THEN "void" ELSE "pending"
                        /\ n + 1 < pos + 1 => loc'[n] # "pending"
      BY <1>2, <1>4 DEF PlaceInv
    <2>1. CASE n = current
      BY <1>2, <1>4, <1>7, <1>8, <2>1 DEF Ahead
    <2>2. CASE n \in Work \ {current}
      <3>1. loc'[n] \in {"inside", "dropped"}
        BY <1>7, <2>2
      <3>2. ~Ahead(n)
        BY <1>1, <1>5, <1>9, <2>2 DEF PlaceInv
      <3>3. ~Ahead(n)'
        BY <1>2, <1>4, <3>2 DEF Ahead, Node
      <3> QED
        BY <3>1, <3>3
    <2>3. CASE n \notin Work
      <3>1. loc'[n] = loc[n] /\ n # current /\ slot'[n] = slot[n]
        BY <1>4, <1>5, <1>7, <1>8, <2>3
      <3>2. n + 1 < pos + 1 => n + 1 < pos
        BY <1>4, <3>1 DEF Node
      <3>3. Ahead(n)' => Ahead(n)
        BY <1>2, <1>4 DEF Ahead, Node
      <3> QED
        BY <1>1, <1>4, <3>1, <3>2, <3>3 DEF PlaceInv
    <2> QED
      BY <2>1, <2>2, <2>3
  <1>14. OwnerInv'
    <2>1. ASSUME NEW r \in Res
          PROVE  /\ loc'[r] # "work" /\ loc'[r] # "error"
                 /\ loc'[r] = "inside" => root'[r] \in Node /\ loc'[root'[r]] \in {"slot", "work"}
      <3>1. CASE r \in Work
        BY <1>4, <1>6, <1>7, <3>1
      <3>2. CASE r \notin Work
        <4>1. loc'[r] = loc[r] /\ root'[r] = root[r]
          BY <1>7, <3>2
        <4>2. loc[r] # "work" /\ loc[r] # "error"
          BY <1>1, <1>4, <3>2 DEF OwnerInv
        <4>3. ASSUME loc[r] = "inside" PROVE root[r] \in Node /\ loc'[root[r]] = "slot"
          <5>1. root[r] \in Node /\ loc[root[r]] = "slot"
            BY <1>1, <1>4, <3>2, <4>3 DEF OwnerInv
          <5>2. root[r] \in Res \ Work
            BY <1>4, <1>5, <5>1
          <5> QED
            BY <1>7, <5>1, <5>2
        <4> QED
          BY <4>1, <4>2, <4>3
      <3> QED
        BY <3>1, <3>2
    <2>2. \A r \in Child : loc'[r] \notin {"void", "pending"}
      BY <1>1, <1>5, <1>6, <1>7 DEF OwnerInv
    <2> QED
      BY <1>2, <1>4, <2>1, <2>2 DEF OwnerInv
  <1>15. DroppedOnce'
    <2> SUFFICES ASSUME NEW r \in Res PROVE drops'[r] = IF loc'[r] = "dropped" THEN 1 ELSE 0
      BY DEF DroppedOnce
    <2>1. CASE r \in Work \ kept
      BY <1>1, <1>3, <1>7, <1>9, <2>1 DEF DroppedOnce
    <2>2. CASE r \notin Work \ kept
      <3>1. drops'[r] = drops[r] /\ (loc'[r] = "dropped" <=> loc[r] = "dropped")
        BY <1>3, <1>6, <1>7, <1>9, <2>2
      <3> QED
        BY <1>1, <3>1 DEF DroppedOnce
    <2> QED
      BY <2>1, <2>2
  <1>16. NothingLeftBehind'
    BY <1>2, <1>4 DEF NothingLeftBehind
  <1> QED
    BY <1>10, <1>11, <1>12, <1>13, <1>14, <1>15, <1>16 DEF IndInv

\* The initializer returns an error, which may own what it took.
LEMMA StepFailInitializer == ASSUME IndInv, FailInitializer PROVE IndInv'
  <1>1. TypeInv /\ PhaseInv /\ SlotInv /\ PlaceInv /\ OwnerInv /\ LogInv /\ DroppedOnce
    BY DEF IndInv
  <1>2. /\ running /\ running' = FALSE /\ todo' = {} /\ pos' = pos + 1 /\ error' = TRUE
        /\ slot' = [slot EXCEPT ![current] = "none"]
        /\ UNCHANGED <<kind, deps, phase, root, log>>
    BY DEF FailInitializer, inputs
  <1>3. PICK kept \in {Work, {}} :
          /\ loc' = [r \in Res |-> IF r \in kept THEN "error"
                                   ELSE IF r \in Work THEN "dropped" ELSE loc[r]]
          /\ drops' = [r \in Res |-> IF r \in Work \ kept THEN drops[r] + 1 ELSE drops[r]]
    BY DEF FailInitializer
  <1>4. /\ pos \in 1 .. N /\ current = pos - 1 /\ current \in Node /\ phase = "building"
        /\ ~error /\ loc[current] = "work" /\ current \in Work
        /\ \A r \in Res : r \in Work <=>
             loc[r] = "work" \/ (loc[r] = "inside" /\ loc[root[r]] = "work")
        /\ \A r \in Res : loc[r] = "inside" /\ r \notin Work => loc[root[r]] = "slot"
        /\ Work \subseteq Res
    BY <1>1, <1>2, WorkShape
  <1>5. Node \subseteq Res /\ Child \subseteq Res /\ Node \cap Child = {}
    BY DEF Node, Res
  <1>6. kept \subseteq Work
    BY <1>3
  <1>7. /\ \A r \in kept : loc'[r] = "error"
        /\ \A r \in Work \ kept : loc'[r] = "dropped"
        /\ \A r \in Res \ Work : loc'[r] = loc[r]
    BY <1>3, <1>4, <1>6
  <1>8. /\ \A n \in Node \ {current} : slot'[n] = slot[n]
    BY <1>1, <1>2, <1>4 DEF TypeInv
  <1>9. \A r \in Res : r \in Work => loc[r] \notin {"dropped", "error", "slot", "elsewhere", "pending", "void"}
    BY <1>4
  <1>10. TypeInv'
    <2>1. loc' \in [Res -> Loc]
      BY <1>1, <1>3 DEF TypeInv, Loc, Owned
    <2>2. drops' \in [Res -> Nat]
      BY <1>1, <1>3 DEF TypeInv
    <2>3. slot' \in [Node -> {"unset", "some", "none"}] /\ pos' \in 0 .. N + 1
      BY <1>1, <1>2, <1>4 DEF TypeInv
    <2>4. running' \in BOOLEAN /\ error' \in BOOLEAN /\ todo' \in SUBSET Res
      BY <1>2
    <2> QED
      BY <1>1, <1>2, <2>1, <2>2, <2>3, <2>4 DEF TypeInv
  <1>11. PhaseInv' /\ LogInv' /\ SlotInv'
    BY <1>1, <1>2, <1>4 DEF PhaseInv, LogInv, SlotInv
  <1>12. PlaceInv'
    <2> SUFFICES ASSUME NEW n \in Node
                 PROVE  /\ loc'[n] # "elsewhere"
                        /\ loc'[n] = "slot" => slot'[n] = "some"
                        /\ Ahead(n)' => loc'[n] = IF kind[n] = "fresh" THEN "void" ELSE "pending"
      BY <1>2, <1>4 DEF PlaceInv
    <2>1. CASE n \in Work
      <3>1. loc'[n] \in {"error", "dropped"}
        BY <1>7, <2>1
      <3>2. ~Ahead(n)
        BY <1>1, <1>5, <1>9, <2>1 DEF PlaceInv
      <3>3. ~Ahead(n)'
        <4>1. CASE n = current
          BY <1>2, <1>4, <4>1 DEF Ahead
        <4>2. CASE n # current
          BY <1>2, <1>4, <3>2, <4>2 DEF Ahead, Node
        <4> QED
          BY <4>1, <4>2
      <3> QED
        BY <3>1, <3>3
    <2>2. CASE n \notin Work
      <3>1. loc'[n] = loc[n] /\ n # current /\ slot'[n] = slot[n]
        BY <1>4, <1>5, <1>7, <1>8, <2>2
      <3>2. Ahead(n)' => Ahead(n)
        BY <1>2, <1>4 DEF Ahead, Node
      <3> QED
        BY <1>1, <1>4, <3>1, <3>2 DEF PlaceInv
    <2> QED
      BY <2>1, <2>2
  <1>13. OwnerInv'
    <2>1. ASSUME NEW r \in Res
          PROVE  /\ loc'[r] # "work"
                 /\ loc'[r] = "inside" => root'[r] \in Node /\ loc'[root'[r]] \in {"slot", "work"}
      <3>1. CASE r \in Work
        BY <1>6, <1>7, <3>1
      <3>2. CASE r \notin Work
        <4>1. loc'[r] = loc[r] /\ root'[r] = root[r] /\ loc[r] # "work"
          BY <1>2, <1>4, <1>7, <3>2
        <4>2. ASSUME loc[r] = "inside" PROVE root[r] \in Node /\ loc'[root[r]] = "slot"
          <5>1. root[r] \in Node /\ loc[root[r]] = "slot"
            BY <1>1, <1>4, <3>2, <4>2 DEF OwnerInv
          <5>2. root[r] \in Res \ Work
            BY <1>4, <1>5, <5>1
          <5> QED
            BY <1>7, <5>1, <5>2
        <4> QED
          BY <4>1, <4>2
      <3> QED
        BY <3>1, <3>2
    <2>2. \A r \in Child : loc'[r] \notin {"void", "pending"}
      BY <1>1, <1>5, <1>6, <1>7 DEF OwnerInv
    <2> QED
      BY <1>2, <1>4, <2>1, <2>2 DEF OwnerInv
  <1>14. DroppedOnce'
    <2> SUFFICES ASSUME NEW r \in Res PROVE drops'[r] = IF loc'[r] = "dropped" THEN 1 ELSE 0
      BY DEF DroppedOnce
    <2>1. CASE r \in Work \ kept
      BY <1>1, <1>3, <1>7, <1>9, <2>1 DEF DroppedOnce
    <2>2. CASE r \notin Work \ kept
      <3>1. drops'[r] = drops[r] /\ (loc'[r] = "dropped" <=> loc[r] = "dropped")
        BY <1>3, <1>6, <1>7, <1>9, <2>2
      <3> QED
        BY <1>1, <3>1 DEF DroppedOnce
    <2> QED
      BY <2>1, <2>2
  <1>15. NothingLeftBehind'
    BY <1>2, <1>4 DEF NothingLeftBehind
  <1> QED
    BY <1>10, <1>11, <1>12, <1>13, <1>14, <1>15 DEF IndInv

\* The initializer panics: everything the closure owns is unwound.
LEMMA StepUnwind == ASSUME IndInv, Unwind PROVE IndInv'
  <1> DEFINE S == Work \cup {n \in Node : loc[n] \in Owned} \cup {r \in Res : loc[r] = "inside"}
  <1>1. TypeInv /\ PhaseInv /\ SlotInv /\ PlaceInv /\ OwnerInv /\ LogInv /\ DroppedOnce
    BY DEF IndInv
  <1>2. /\ running /\ running' = FALSE /\ todo' = {} /\ phase' = "unwound"
        /\ DropAll(S)
        /\ UNCHANGED <<kind, deps, pos, error, slot, root, log>>
    BY DEF Unwind, inputs
  <1>3. /\ ~error /\ phase = "building" /\ Work \subseteq Res
        /\ \A r \in Res : r \in Work <=>
             loc[r] = "work" \/ (loc[r] = "inside" /\ loc[root[r]] = "work")
    BY <1>1, <1>2, WorkShape
  <1>4. Node \subseteq Res /\ Child \subseteq Res /\ Node \cap Child = {}
    BY DEF Node, Res
  <1>5. /\ \A r \in Res : r \in S => loc[r] # "dropped"
        /\ \A r \in Res : loc[r] \in {"work", "inside"} => r \in S
        /\ \A n \in Node : loc[n] \in {"pending", "slot"} => n \in S
    BY <1>3, <1>4 DEF Owned
  <1> HIDE DEF S
  <1>6. /\ loc' \in [Res -> Loc] /\ drops' \in [Res -> Nat] /\ DroppedOnce'
        /\ \A r \in Res : loc'[r] = IF r \in S THEN "dropped" ELSE loc[r]
    BY <1>1, <1>2, <1>5, DropsOnce
  <1>7. \A r \in Res : loc[r] # "error" /\ loc[r] \in Loc
    BY <1>1, <1>3 DEF OwnerInv, TypeInv
  <1>8. \A n \in Node : loc'[n] \in {"void", "dropped"}
    <2> SUFFICES ASSUME NEW n \in Node PROVE loc'[n] \in {"void", "dropped"}
      OBVIOUS
    <2>1. n \in Res /\ loc[n] \in Loc /\ loc[n] # "error" /\ loc[n] # "elsewhere"
      BY <1>1, <1>4, <1>7 DEF PlaceInv
    <2> QED
      BY <1>5, <1>6, <2>1 DEF Loc, Owned
  <1>9. \A r \in Child : loc'[r] \in {"slot", "elsewhere", "dropped"}
    <2> SUFFICES ASSUME NEW r \in Child PROVE loc'[r] \in {"slot", "elsewhere", "dropped"}
      OBVIOUS
    <2>1. r \in Res /\ loc[r] \in Loc /\ loc[r] # "error" /\ loc[r] \notin {"void", "pending"}
      BY <1>1, <1>4, <1>7 DEF OwnerInv
    <2> QED
      BY <1>5, <1>6, <2>1 DEF Loc, Owned
  <1>10. \A r \in Res : loc'[r] \in {"slot", "elsewhere", "dropped", "void"}
    BY <1>8, <1>9 DEF Res
  <1>11. TypeInv'
    BY <1>1, <1>2, <1>6 DEF TypeInv, Phase, Over
  <1>12. PhaseInv' /\ SlotInv' /\ LogInv'
    BY <1>1, <1>2, <1>3 DEF PhaseInv, SlotInv, LogInv
  <1>13. PlaceInv'
    BY <1>2, <1>8 DEF PlaceInv, Ahead
  <1>14. OwnerInv'
    BY <1>2, <1>9, <1>10 DEF OwnerInv
  <1>15. NothingLeftBehind'
    BY <1>2, <1>8, <1>9, <1>10 DEF NothingLeftBehind
  <1> QED
    BY <1>6, <1>11, <1>12, <1>13, <1>14, <1>15 DEF IndInv

\* After an error the slot stays empty; a constructor's captures are discarded.
LEMMA StepSkipSlot == ASSUME IndInv, SkipSlot PROVE IndInv'
  <1>1. TypeInv /\ PhaseInv /\ SlotInv /\ PlaceInv /\ OwnerInv /\ LogInv /\ DroppedOnce
    BY DEF IndInv
  <1>2. /\ phase = "building" /\ ~running /\ pos <= N /\ error
        /\ slot' = [slot EXCEPT ![current] = "none"]
        /\ IF kind[current] = "factory" THEN DropAll({current}) ELSE UNCHANGED <<loc, drops>>
        /\ pos' = pos + 1
        /\ UNCHANGED <<kind, deps, phase, error, running, todo, root, log>>
    BY DEF SkipSlot, AtSlot, inputs
  <1>3. pos \in 1 .. N
    BY <1>1, <1>2 DEF TypeInv, PhaseInv
  <1>4. current = pos - 1 /\ current \in Node /\ current \in Res
    BY <1>3, CurrentSlot
  <1>5. Node \subseteq Res /\ Child \subseteq Res /\ Node \cap Child = {}
    BY DEF Node, Res
  <1>6. loc[current] \in {"void", "pending"}
    <2>1. Ahead(current)
      BY <1>2, <1>3, <1>4 DEF Ahead
    <2> QED
      BY <1>1, <1>4, <2>1 DEF PlaceInv
  <1>7. /\ loc' \in [Res -> Loc] /\ drops' \in [Res -> Nat] /\ DroppedOnce'
        /\ loc'[current] \in {"void", "pending", "dropped"}
        /\ \A r \in Res \ {current} : loc'[r] = loc[r]
    <2>1. CASE kind[current] = "factory"
      <3>1. \A r \in Res : r \in {current} => loc[r] # "dropped"
        BY <1>6
      <3>2. DropAll({current})
        BY <1>2, <2>1
      <3> QED
        BY <1>1, <1>4, <3>1, <3>2, DropsOnce
    <2>2. CASE kind[current] # "factory"
      BY <1>1, <1>2, <1>6, <2>2 DEF TypeInv, DroppedOnce
    <2> QED
      BY <2>1, <2>2
  <1>8. \A n \in Node \ {current} : slot'[n] = slot[n]
    BY <1>1, <1>2, <1>4 DEF TypeInv
  <1>9. TypeInv'
    BY <1>1, <1>2, <1>3, <1>4, <1>7 DEF TypeInv
  <1>10. PhaseInv' /\ LogInv' /\ SlotInv'
    BY <1>1, <1>2, <1>3 DEF PhaseInv, LogInv, SlotInv
  <1>11. PlaceInv'
    <2> SUFFICES ASSUME NEW n \in Node
                 PROVE  /\ loc'[n] # "elsewhere"
                        /\ loc'[n] = "slot" => slot'[n] = "some"
                        /\ Ahead(n)' => loc'[n] = IF kind[n] = "fresh" THEN "void" ELSE "pending"
      BY <1>2 DEF PlaceInv
    <2>1. CASE n = current
      BY <1>2, <1>3, <1>4, <1>7, <2>1 DEF Ahead
    <2>2. CASE n # current
      <3>1. loc'[n] = loc[n] /\ slot'[n] = slot[n]
        BY <1>5, <1>7, <1>8, <2>2
      <3>2. Ahead(n)' => Ahead(n)
        BY <1>2, <1>3 DEF Ahead, Node
      <3> QED
        BY <1>1, <3>1, <3>2 DEF PlaceInv
    <2> QED
      BY <2>1, <2>2
  <1>12. OwnerInv'
    <2>1. ASSUME NEW r \in Res
          PROVE  /\ loc'[r] # "work"
                 /\ loc'[r] = "inside" => root[r] \in Node /\ loc'[root[r]] \in {"slot", "work"}
      <3>1. CASE r = current
        BY <1>7, <3>1
      <3>2. CASE r # current
        BY <1>1, <1>2, <1>5, <1>6, <1>7, <3>2 DEF OwnerInv
      <3> QED
        BY <3>1, <3>2
    <2>2. \A r \in Child : loc'[r] = loc[r]
      BY <1>4, <1>5, <1>7
    <2> QED
      BY <1>1, <1>2, <2>1, <2>2 DEF OwnerInv
  <1>13. NothingLeftBehind'
    BY <1>2 DEF NothingLeftBehind
  <1> QED
    BY <1>7, <1>9, <1>10, <1>11, <1>12, <1>13 DEF IndInv

\* The container is built, or discarding begins: nothing moves yet.
LEMMA StepLeave == ASSUME IndInv, Publish \/ StartDiscard PROVE IndInv'
  <1>1. TypeInv /\ PhaseInv /\ SlotInv /\ PlaceInv /\ OwnerInv /\ LogInv /\ DroppedOnce
    BY DEF IndInv
  <1>2. /\ phase = "building" /\ pos = N + 1
        /\ UNCHANGED <<kind, deps, error, running, todo, slot, loc, root, drops, log>>
        /\ \/ ~error /\ phase' = "built" /\ pos' = pos
           \/ error /\ phase' = "discarding" /\ pos' = N
    BY DEF Publish, StartDiscard, inputs
  <1>3. ~running
    BY <1>1, <1>2 DEF PhaseInv
  <1>4. TypeInv'
    BY <1>1, <1>2 DEF TypeInv, Phase, Over
  <1>5. PhaseInv'
    BY <1>1, <1>2, <1>3 DEF PhaseInv
  <1>6. SlotInv'
    BY <1>1, <1>2, <1>3 DEF SlotInv
  <1>7. PlaceInv'
    BY <1>1, <1>2, <1>3 DEF PlaceInv, Ahead, Node
  <1>8. OwnerInv' /\ DroppedOnce'
    BY <1>1, <1>2 DEF OwnerInv, DroppedOnce
  <1>9. LogInv'
    BY <1>1, <1>2 DEF LogInv
  <1>10. NothingLeftBehind'
    BY <1>2 DEF NothingLeftBehind
  <1> QED
    BY <1>4, <1>5, <1>6, <1>7, <1>8, <1>9, <1>10 DEF IndInv

\* One slot is discarded, with all that its value took over.
LEMMA StepDiscard == ASSUME IndInv, Discard PROVE IndInv'
  <1> DEFINE S == IF slot[current] = "some"
                  THEN Whole({current} \cap {r \in Res : loc[r] = "slot"}) ELSE {}
  <1>1. TypeInv /\ PhaseInv /\ SlotInv /\ PlaceInv /\ OwnerInv /\ LogInv /\ DroppedOnce
    BY DEF IndInv
  <1>2. /\ phase = "discarding" /\ pos > 0 /\ pos' = pos - 1
        /\ IF slot[current] = "some"
           THEN DropAll(S) /\ log' = Append(log, current)
           ELSE UNCHANGED <<loc, drops, log>>
        /\ UNCHANGED <<kind, deps, phase, error, running, todo, slot, root>>
    BY DEF Discard, inputs
  <1>3. pos \in 1 .. N /\ ~running
    BY <1>1, <1>2 DEF TypeInv, PhaseInv
  <1>4. current = pos - 1 /\ current \in Node /\ current \in Res
    BY <1>3, CurrentSlot
  <1>5. Node \subseteq Res /\ Child \subseteq Res /\ Node \cap Child = {}
    BY DEF Node, Res
  <1>6. /\ \A r \in Res : r \in S => loc[r] \in {"slot", "inside"}
        /\ \A r \in Res : r \in S /\ loc[r] = "slot" => r = current
        /\ loc[current] = "slot" => current \in S
        /\ \A r \in Res : loc[r] = "inside" /\ loc[current] = "slot" /\ root[r] = current => r \in S
    <2>1. loc[current] = "slot" => slot[current] = "some"
      BY <1>1, <1>4 DEF PlaceInv
    <2> QED
      BY <1>4, <2>1 DEF Whole
  <1>7. /\ loc' \in [Res -> Loc] /\ drops' \in [Res -> Nat] /\ DroppedOnce'
        /\ \A r \in Res : loc'[r] = IF r \in S THEN "dropped" ELSE loc[r]
    <2>1. CASE slot[current] = "some"
      <3>1. \A r \in Res : r \in S => loc[r] # "dropped"
        BY <1>6
      <3>2. DropAll(S)
        BY <1>2, <2>1
      <3> HIDE DEF S
      <3> QED
        BY <1>1, <3>1, <3>2, DropsOnce
    <2>2. CASE slot[current] # "some"
      BY <1>1, <1>2, <2>2 DEF TypeInv, DroppedOnce
    <2> QED
      BY <2>1, <2>2
  <1> HIDE DEF S
  <1>8. log' \in Seq(Node) /\ LogInv'
    <2>1. log \in Seq(Node) /\ \A i \in 1 .. Len(log) : log[i] \in Node /\ log[i] >= pos
      BY <1>1, <1>2 DEF TypeInv, LogInv
    <2>2. CASE slot[current] = "some"
      <3>1. log' = Append(log, current)
        BY <1>2, <2>2
      <3>2. /\ Len(log') = Len(log) + 1 /\ log'[Len(log) + 1] = current
            /\ \A i \in 1 .. Len(log) : log'[i] = log[i]
            /\ log' \in Seq(Node)
        BY <1>4, <2>1, <3>1, AppendProperties
      <3>3. \A i \in 1 .. Len(log') : i \in 1 .. Len(log) \/ i = Len(log) + 1
        BY <2>1, <3>2
      <3>4. \A i, j \in 1 .. Len(log') : i < j => i \in 1 .. Len(log)
        BY <2>1, <3>2
      <3>5. \A i \in 1 .. Len(log') : log'[i] >= pos - 1
        <4> SUFFICES ASSUME NEW i \in 1 .. Len(log') PROVE log'[i] >= pos - 1
          OBVIOUS
        <4>1. CASE i \in 1 .. Len(log)
          <5>1. log'[i] = log[i] /\ log[i] \in Node /\ log[i] >= pos
            BY <2>1, <3>2, <4>1
          <5> QED
            BY <1>3, <5>1 DEF Node
        <4>2. CASE i = Len(log) + 1
          BY <1>3, <1>4, <3>2, <4>2
        <4> QED
          BY <3>3, <4>1, <4>2
      <3>6. \A i, j \in 1 .. Len(log') : i < j => log'[j] < log'[i]
        <4> SUFFICES ASSUME NEW i \in 1 .. Len(log'), NEW j \in 1 .. Len(log'), i < j
                     PROVE  log'[j] < log'[i]
          OBVIOUS
        <4>1. i \in 1 .. Len(log) /\ log'[i] = log[i] /\ log[i] \in Node /\ log[i] >= pos
          BY <2>1, <3>2, <3>4
        <4>2. CASE j \in 1 .. Len(log)
          BY <1>1, <3>2, <4>1, <4>2 DEF LogInv
        <4>3. CASE j = Len(log) + 1
          BY <1>3, <1>4, <3>2, <4>1, <4>3 DEF Node
        <4> QED
          BY <3>3, <4>2, <4>3
      <3> QED
        BY <1>2, <3>2, <3>5, <3>6 DEF LogInv
    <2>3. CASE slot[current] # "some"
      <3>1. log' = log
        BY <1>2, <2>3
      <3>2. \A i \in 1 .. Len(log) : log[i] >= pos - 1
        BY <1>3, <2>1 DEF Node
      <3> QED
        BY <1>1, <1>2, <2>1, <3>1, <3>2 DEF LogInv
    <2> QED
      BY <2>2, <2>3
  <1>9. TypeInv'
    BY <1>1, <1>2, <1>3, <1>7, <1>8 DEF TypeInv
  <1>10. PhaseInv' /\ SlotInv'
    BY <1>1, <1>2, <1>3 DEF PhaseInv, SlotInv
  <1>11. PlaceInv'
    <2> SUFFICES ASSUME NEW n \in Node
                 PROVE  /\ loc'[n] # "elsewhere"
                        /\ loc'[n] = "slot" => slot[n] = "some"
                        /\ n + 1 > pos - 1 => loc'[n] # "slot"
      BY <1>2, <1>3 DEF PlaceInv, Ahead
    <2>1. loc'[n] = "dropped" \/ (loc'[n] = loc[n] /\ n \notin S)
      BY <1>5, <1>7
    <2>2. n + 1 > pos - 1 => n + 1 > pos \/ n = current
      BY <1>3, <1>4 DEF Node
    <2> QED
      BY <1>1, <1>2, <1>6, <2>1, <2>2 DEF PlaceInv
  <1>12. OwnerInv'
    <2>1. ASSUME NEW r \in Res, loc'[r] = "inside"
          PROVE  root[r] \in Node /\ loc'[root[r]] \in {"slot", "work"}
      <3>1. loc[r] = "inside" /\ r \notin S
        BY <1>7, <2>1
      <3>2. root[r] \in Node /\ loc[root[r]] = "slot"
        BY <1>1, <1>3, <1>5, <3>1 DEF OwnerInv
      <3>3. root[r] \notin S
        BY <1>5, <1>6, <3>1, <3>2
      <3> QED
        BY <1>5, <1>7, <3>2, <3>3
    <2>2. \A r \in Res : loc'[r] = loc[r] \/ loc'[r] = "dropped"
      BY <1>7
    <2> QED
      BY <1>1, <1>2, <1>5, <2>1, <2>2 DEF OwnerInv
  <1>13. NothingLeftBehind'
    BY <1>2 DEF NothingLeftBehind
  <1> QED
    BY <1>7, <1>8, <1>9, <1>10, <1>11, <1>12, <1>13 DEF IndInv

\* All slots discarded, the error leaves the closure.
LEMMA StepReturnError == ASSUME IndInv, ReturnError PROVE IndInv'
  <1> DEFINE S == {n \in Node : loc[n] = "pending"}
  <1>1. TypeInv /\ PhaseInv /\ SlotInv /\ PlaceInv /\ OwnerInv /\ LogInv /\ DroppedOnce
    BY DEF IndInv
  <1>2. /\ phase = "discarding" /\ pos = 0 /\ phase' = "failed" /\ DropAll(S)
        /\ UNCHANGED <<kind, deps, pos, error, running, todo, slot, root, log>>
    BY DEF ReturnError, inputs
  <1>3. ~running
    BY <1>1, <1>2 DEF PhaseInv
  <1>4. Node \subseteq Res /\ Child \subseteq Res /\ Node \cap Child = {}
    BY DEF Node, Res
  <1>5. /\ loc' \in [Res -> Loc] /\ drops' \in [Res -> Nat] /\ DroppedOnce'
        /\ \A r \in Res : loc'[r] = IF r \in S THEN "dropped" ELSE loc[r]
    BY <1>1, <1>2, DropsOnce
  <1>6. \A n \in Node : loc[n] \notin {"slot", "work", "elsewhere"}
    BY <1>1, <1>2, <1>3, <1>4 DEF PlaceInv, OwnerInv, Node
  <1>7. \A r \in Res : loc[r] \notin {"work", "inside"} /\ loc[r] \in Loc
    BY <1>1, <1>3, <1>4, <1>6 DEF OwnerInv, TypeInv
  <1>8. \A n \in Node : loc'[n] \in {"void", "dropped", "error"}
    <2> SUFFICES ASSUME NEW n \in Node PROVE loc'[n] \in {"void", "dropped", "error"}
      OBVIOUS
    <2>1. n \in Res /\ loc[n] \in {"pending", "void", "dropped", "error"}
      BY <1>4, <1>6, <1>7 DEF Loc, Owned
    <2> QED
      BY <1>5, <2>1
  <1>9. \A r \in Child : loc'[r] \in {"slot", "elsewhere", "dropped", "error"}
    <2> SUFFICES ASSUME NEW r \in Child
                 PROVE  loc'[r] \in {"slot", "elsewhere", "dropped", "error"}
      OBVIOUS
    <2>1. r \in Res /\ loc[r] \in {"slot", "elsewhere", "dropped", "error"}
      BY <1>1, <1>4, <1>7 DEF OwnerInv, Loc, Owned
    <2> QED
      BY <1>5, <2>1
  <1>10. \A r \in Res : loc'[r] \in {"slot", "elsewhere", "dropped", "error", "void"}
    BY <1>8, <1>9 DEF Res
  <1>11. TypeInv'
    BY <1>1, <1>2, <1>5 DEF TypeInv, Phase, Over
  <1>12. PhaseInv' /\ SlotInv' /\ LogInv'
    BY <1>1, <1>2, <1>3 DEF PhaseInv, SlotInv, LogInv
  <1>13. PlaceInv'
    BY <1>2, <1>3, <1>8 DEF PlaceInv, Ahead
  <1>14. OwnerInv'
    <2>1. \A r \in Res : loc'[r] = "error" => error
      BY <1>1, <1>5 DEF OwnerInv
    <2> QED
      BY <1>2, <1>9, <1>10, <2>1 DEF OwnerInv
  <1>15. NothingLeftBehind'
    BY <1>2, <1>8, <1>9 DEF NothingLeftBehind
  <1> QED
    BY <1>5, <1>11, <1>12, <1>13, <1>14, <1>15 DEF IndInv

\* The container is dropped with all its fields.
LEMMA StepDropContainer == ASSUME IndInv, DropContainer PROVE IndInv'
  <1> DEFINE S == Whole({n \in Node : loc[n] = "slot"})
  <1>1. TypeInv /\ PhaseInv /\ SlotInv /\ PlaceInv /\ OwnerInv /\ LogInv /\ DroppedOnce
    BY DEF IndInv
  <1>2. /\ phase = "built" /\ phase' = "gone" /\ DropAll(S)
        /\ UNCHANGED <<kind, deps, pos, error, running, todo, slot, root, log>>
    BY DEF DropContainer, inputs
  <1>3. ~running /\ ~error /\ pos = N + 1
    BY <1>1, <1>2 DEF PhaseInv
  <1>4. Node \subseteq Res /\ Child \subseteq Res /\ Node \cap Child = {}
    BY DEF Node, Res
  <1>5. /\ \A r \in Res : r \in S => loc[r] \in {"slot", "inside"}
        /\ \A n \in Node : loc[n] = "slot" => n \in S
        /\ \A r \in Res : loc[r] = "inside" => r \in S
    BY <1>1, <1>3, <1>4 DEF Whole, OwnerInv
  <1> HIDE DEF S
  <1>6. /\ loc' \in [Res -> Loc] /\ drops' \in [Res -> Nat] /\ DroppedOnce'
        /\ \A r \in Res : loc'[r] = IF r \in S THEN "dropped" ELSE loc[r]
    BY <1>1, <1>2, <1>5, DropsOnce
  <1>7. \A n \in Node : loc[n] # "pending" /\ loc[n] # "elsewhere"
    BY <1>1, <1>2, <1>3 DEF PlaceInv, Node
  <1>8. \A r \in Res : loc[r] # "work" /\ loc[r] # "error" /\ loc[r] \in Loc
    BY <1>1, <1>3 DEF OwnerInv, TypeInv
  <1>9. \A n \in Node : loc'[n] \in {"void", "dropped"}
    <2> SUFFICES ASSUME NEW n \in Node PROVE loc'[n] \in {"void", "dropped"}
      OBVIOUS
    <2>1. n \in Res /\ loc[n] \in {"slot", "inside", "void", "dropped"}
      BY <1>4, <1>7, <1>8 DEF Loc, Owned
    <2> QED
      BY <1>5, <1>6, <2>1
  <1>10. \A r \in Child : loc'[r] \in {"slot", "elsewhere", "dropped"}
    <2> SUFFICES ASSUME NEW r \in Child PROVE loc'[r] \in {"slot", "elsewhere", "dropped"}
      OBVIOUS
    <2>1. r \in Res /\ loc[r] \in {"slot", "inside", "elsewhere", "dropped"}
      BY <1>1, <1>4, <1>8 DEF OwnerInv, Loc, Owned
    <2> QED
      BY <1>5, <1>6, <2>1
  <1>11. \A r \in Res : loc'[r] \in {"slot", "elsewhere", "dropped", "void"}
    BY <1>9, <1>10 DEF Res
  <1>12. TypeInv'
    BY <1>1, <1>2, <1>6 DEF TypeInv, Phase, Over
  <1>13. PhaseInv' /\ SlotInv' /\ LogInv'
    BY <1>1, <1>2, <1>3 DEF PhaseInv, SlotInv, LogInv
  <1>14. PlaceInv'
    BY <1>2, <1>3, <1>9 DEF PlaceInv, Ahead
  <1>15. OwnerInv'
    BY <1>2, <1>10, <1>11 DEF OwnerInv
  <1>16. NothingLeftBehind'
    BY <1>2, <1>9, <1>10, <1>11 DEF NothingLeftBehind
  <1> QED
    BY <1>6, <1>12, <1>13, <1>14, <1>15, <1>16 DEF IndInv

\* Elsewhere in the program a child's value is taken.
LEMMA StepTakeElsewhere == ASSUME IndInv, NEW c \in Child, TakeElsewhere(c) PROVE IndInv'
  <1>1. TypeInv /\ PhaseInv /\ SlotInv /\ PlaceInv /\ OwnerInv /\ LogInv /\ DroppedOnce
        /\ NothingLeftBehind
    BY DEF IndInv
  <1>2. /\ loc[c] = "slot" /\ loc' = [loc EXCEPT ![c] = "elsewhere"]
        /\ UNCHANGED <<kind, deps, phase, pos, error, running, todo, slot, root, drops, log>>
    BY DEF TakeElsewhere, inputs
  <1>3. Node \subseteq Res /\ Child \subseteq Res /\ Node \cap Child = {}
    BY DEF Node, Res
  <1>4. /\ loc'[c] = "elsewhere" /\ \A r \in Res \ {c} : loc'[r] = loc[r]
        /\ \A n \in Node : loc'[n] = loc[n]
    BY <1>1, <1>2, <1>3 DEF TypeInv
  <1>5. TypeInv'
    BY <1>1, <1>2, <1>3 DEF TypeInv, Loc
  <1>6. PhaseInv' /\ SlotInv' /\ LogInv'
    BY <1>1, <1>2 DEF PhaseInv, SlotInv, LogInv
  <1>7. PlaceInv'
    BY <1>1, <1>2, <1>4 DEF PlaceInv, Ahead
  <1>8. OwnerInv'
    BY <1>1, <1>2, <1>3, <1>4 DEF OwnerInv
  <1>9. DroppedOnce'
    BY <1>1, <1>2, <1>4, NoDrop
  <1>10. NothingLeftBehind'
    BY <1>1, <1>2, <1>3, <1>4 DEF NothingLeftBehind
  <1> QED
    BY <1>5, <1>6, <1>7, <1>8, <1>9, <1>10 DEF IndInv

\* One step preserves the inductive invariant.
LEMMA StepInv == IndInv /\ [Next]_vars => IndInv'
  <1> SUFFICES ASSUME IndInv, [Next]_vars PROVE IndInv'
    OBVIOUS
  <1>1. CASE UNCHANGED vars
    BY <1>1 DEF vars, IndInv, TypeInv, PhaseInv, SlotInv, PlaceInv, Ahead, OwnerInv, LogInv,
                DroppedOnce, NothingLeftBehind
  <1>2. ASSUME BuildStep PROVE IndInv'
    BY <1>2, StepStoreFactory, StepBeginInitializer, StepQuery, StepFinishInitializer,
       StepFailInitializer, StepUnwind, StepSkipSlot, StepLeave, StepDiscard, StepReturnError,
       Zenon DEF BuildStep
  <1> QED
    BY <1>1, <1>2, StepAbandon, StepStartBuild, StepDropContainer, StepTakeElsewhere, Zenon
       DEF Next, Done

-------------------------------------------------------------------------------
(* Theorems.                                                                 *)

\* The strengthening holds in every reachable state: where each resource is agrees
\* with how far the closure has come, through failures and panics.
THEOREM Inductive == Spec => []IndInv
  BY InitInv, StepInv, PTL DEF Spec

\* Both unreachable! claims of the generated closure are true: no initializer and
\* no publication unwraps an empty slot.
THEOREM NoEmptyUnwrap == Spec => []UnwrapsSucceed
  <1>1. ASSUME IndInv, running, NEW d \in todo \cap Node, NEW e \in Node,
               e \in Arguments(d, all)
        PROVE  slot[e] = "some"
    <2> DEFINE own == [n \in Node |-> deps[n] \cap Node]
    <2>1. TypeInv /\ PhaseInv /\ SlotInv
      BY <1>1 DEF IndInv
    <2>2. own \in [Node -> SUBSET Node] /\ \A n \in Node : own[n] \subseteq 0 .. n - 1
      BY <2>1 DEF TypeInv, IsSchedule
    <2> HIDE DEF own
    <2>3. Numbered(N, own)
      BY <2>2 DEF Numbered, Node
    <2>4. order = [k \in 1 .. N |-> k - 1] /\ Node = 0 .. N - 1
      BY DEF order, Node
    <2>5. Ordered(Node, own, order)
      BY <2>3, <2>4, NumbersAreOrder, Zenon
    <2>6. all = Transitive(own, order)
      BY DEF all, own
    <2>7. IsReach(all, Node, own)
      BY <2>2, <2>5, <2>6, TransitiveReaches, Zenon
    <2>8. all[d] \subseteq 0 .. d - 1
      <3>1. IsReach(all, 0 .. N - 1, own) /\ d \in 0 .. N - 1
        BY <2>4, <2>7
      <3> QED
        BY <2>3, <3>1, ReachIsLower, Zenon
    <2>9. pos \in Nat /\ d \in 0 .. pos - 2 /\ phase = "building" /\ ~error
      BY <1>1, <2>1 DEF TypeInv, PhaseInv, SlotInv
    <2>10. e + 1 < pos
      BY <1>1, <2>8, <2>9 DEF Arguments, Node
    <2> QED
      BY <2>1, <2>9, <2>10 DEF SlotInv
  <1>2. ASSUME IndInv, phase = "built", NEW n \in Node PROVE slot[n] = "some"
    <2>1. PhaseInv /\ SlotInv
      BY <1>2 DEF IndInv
    <2>2. pos = N + 1 /\ ~error /\ n + 1 < pos
      BY <1>2, <2>1 DEF PhaseInv, Node
    <2> QED
      BY <1>2, <2>1, <2>2 DEF SlotInv
  <1>3. IndInv => UnwrapsSucceed
    BY <1>1, <1>2 DEF UnwrapsSucceed
  <1> QED
    BY <1>3, Inductive, PTL

\* No resource, own or child's, is dropped twice or used after its drop, however the
\* build ends.
THEOREM NoDoubleDrop == Spec => []DroppedOnce
  <1>1. IndInv => DroppedOnce
    BY DEF IndInv
  <1> QED
    BY <1>1, Inductive, PTL

\* A build that is abandoned, fails or unwinds, and a container that is dropped,
\* leave nothing behind but what the returned error owns.
THEOREM NoLeak == Spec => []NothingLeftBehind
  <1>1. IndInv => NothingLeftBehind
    BY DEF IndInv
  <1> QED
    BY <1>1, Inductive, PTL

\* A failed build discards its slots in the reverse of initialization order.
THEOREM DiscardsInReverse == Spec => []ReverseDiscard
  <1>1. ASSUME IndInv, NEW i \in 1 .. Len(log), NEW j \in 1 .. Len(log),
               NEW p \in 1 .. N, NEW q \in 1 .. N,
               i < j, order[p] = log[i], order[q] = log[j]
        PROVE  q < p
    <2>1. log[j] < log[i]
      BY <1>1 DEF IndInv, LogInv
    <2>2. order[p] = p - 1 /\ order[q] = q - 1
      BY DEF order
    <2> QED
      BY <1>1, <2>1, <2>2
  <1>2. IndInv => ReverseDiscard
    BY <1>1 DEF ReverseDiscard
  <1> QED
    BY <1>2, Inductive, PTL
===============================================================================
