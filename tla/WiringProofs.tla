----------------------------- MODULE WiringProofs -----------------------------
(***************************************************************************)
(* The folds of Wiring compute what they are used for, for any number of    *)
(* registrations: each table is the solution of its defining equation.      *)
(* The provers have no induction principle, so the first lemmas derive one   *)
(* from the well-foundedness of < on the naturals, with a set in the place   *)
(* of the predicate.                                                         *)
(***************************************************************************)
EXTENDS Wiring, Integers, SequenceTheorems, WellFoundedInduction, TLAPS

-------------------------------------------------------------------------------
(* Induction and recursion along the steps of a fold.                        *)

\* Every inhabited set of naturals has a least element.
LEMMA LeastNatural ==
    ASSUME NEW T \in SUBSET Nat, T # {}
    PROVE  \E x \in T : \A y \in T : x <= y
  <1> DEFINE R == OpToRel(<, Nat)
  <1>1. IsWellFoundedOn(R, Nat)
    BY NatLessThanWellFounded DEF OpToRel
  <1>2. \A x, y \in Nat : <<y, x>> \in R <=> y < x
    BY DEF OpToRel
  <1> HIDE DEF R
  <1>3. PICK x \in T : \A y \in T : <<y, x>> \notin R
    BY <1>1, WFMin
  <1>4. \A y \in T : ~(y < x)
    BY <1>2, <1>3
  <1> QED
    BY <1>4

\* A set that holds 0 and the successor of each of its members below L holds
\* every step of a fold of length L.
LEMMA StepInduction ==
    ASSUME NEW L \in Nat, NEW T, 0 \in T,
           \A k \in 1 .. L : k - 1 \in T => k \in T
    PROVE  0 .. L \subseteq T
  <1> SUFFICES ASSUME 0 .. L \ T # {} PROVE FALSE
    OBVIOUS
  <1>1. PICK x \in 0 .. L \ T : \A y \in 0 .. L \ T : x <= y
    BY LeastNatural, 0 .. L \ T \in SUBSET Nat
  <1>2. x \in 1 .. L /\ x - 1 \in 0 .. L
    BY <1>1
  <1>3. x - 1 \in T
    BY <1>1, <1>2
  <1> QED
    BY <1>1, <1>3

\* The steps of a fold over X, and the run it makes from a.
Steps(L, X) == [1 .. L -> [X -> X]]
IsRun(f, L, X, a, F) ==
    /\ f \in [0 .. L -> X]
    /\ f[0] = a
    /\ \A k \in 1 .. L : f[k] = F[k][f[k - 1]]

\* A recursive function over the steps of a fold exists, whatever the steps.
LEMMA Recursion ==
    ASSUME NEW L \in Nat, NEW X, NEW a \in X, NEW F \in Steps(L, X)
    PROVE  \E f : IsRun(f, L, X, a, F)
  <1> DEFINE Upto(n) == \E f : IsRun(f, n, X, a, F)
             T == {n \in 0 .. L : Upto(n)}
  <1>1. 0 \in T
    <2> DEFINE z == [k \in 0 .. 0 |-> a]
    <2>1. z \in [0 .. 0 -> X] /\ z[0] = a
      OBVIOUS
    <2> HIDE DEF z
    <2>2. IsRun(z, 0, X, a, F)
      BY <2>1 DEF IsRun
    <2> QED
      BY <2>2
  <1>2. ASSUME NEW n \in 1 .. L, n - 1 \in T PROVE n \in T
    <2>1. PICK f : IsRun(f, n - 1, X, a, F)
      BY <1>2
    <2> DEFINE g == [k \in 0 .. n |-> IF k = n THEN F[n][f[n - 1]] ELSE f[k]]
    <2>2. f[n - 1] \in X /\ F[n][f[n - 1]] \in X
      BY <2>1, n - 1 \in 0 .. n - 1 DEF IsRun, Steps
    <2>3. g \in [0 .. n -> X]
      BY <2>1, <2>2 DEF IsRun
    <2>4. g[0] = a
      BY <2>1 DEF IsRun
    <2>5. ASSUME NEW k \in 1 .. n PROVE g[k] = F[k][g[k - 1]]
      BY <2>1 DEF IsRun
    <2> HIDE DEF g
    <2>6. Upto(n)
      BY <2>3, <2>4, <2>5 DEF IsRun
    <2> QED
      BY <2>6
  <1>3. L \in T
    <2>1. \A n \in 1 .. L : n - 1 \in T => n \in T
      BY <1>2
    <2> HIDE DEF T
    <2>2. 0 .. L \subseteq T
      BY <1>1, <2>1, StepInduction
    <2> QED
      BY <2>2
  <1> QED
    BY <1>3

\* A recursive function over the steps of a fold has the type its steps keep.
LEMMA RunType ==
    ASSUME NEW L \in Nat, NEW X, NEW f, DOMAIN f = 0 .. L, f = [k \in 0 .. L |-> f[k]],
           f[0] \in X, \A k \in 1 .. L : f[k - 1] \in X => f[k] \in X
    PROVE  f \in [0 .. L -> X]
  <1> DEFINE T == {k \in 0 .. L : f[k] \in X}
  <1>1. 0 \in T
    OBVIOUS
  <1>2. \A k \in 1 .. L : k - 1 \in T => k \in T
    OBVIOUS
  <1>3. 0 .. L \subseteq T
    <2> HIDE DEF T
    <2> QED
      BY <1>1, <1>2, StepInduction
  <1>4. \A k \in 0 .. L : f[k] \in X
    BY <1>3
  <1> QED
    BY <1>4

-------------------------------------------------------------------------------
(* The order of a fold.                                                      *)

\* A dependency-first order of S: what schedule() returns (CompleteOrder and
\* DependencyFirst of Schedule).
Ordered(S, deps, order) ==
    /\ order \in Seq(S)
    /\ \A i, j \in 1 .. Len(order) : i # j => order[i] # order[j]
    /\ \A n \in S : \E k \in 1 .. Len(order) : order[k] = n
    /\ \A k \in 1 .. Len(order) : deps[order[k]] \subseteq {order[j] : j \in 1 .. k - 1}

\* The k-th step of a fold writes the entry of order[k] only.
WritesOwn(f, S, order) ==
    \A k \in 1 .. Len(order) : \A n \in S \ {order[k]} : f[k][n] = f[k - 1][n]

\* Before that step an entry has its initial value, after it its final one.
LEMMA WrittenOnce ==
    ASSUME NEW S, NEW deps, NEW order, Ordered(S, deps, order),
           NEW f, WritesOwn(f, S, order),
           NEW j \in 1 .. Len(order)
    PROVE  /\ \A k \in 0 .. j - 1 : f[k][order[j]] = f[0][order[j]]
           /\ \A k \in j .. Len(order) : f[k][order[j]] = f[Len(order)][order[j]]
  <1> DEFINE L == Len(order)
             n == order[j]
  <1>0. L \in Nat /\ n \in S
    BY DEF Ordered
  <1>1. \A k \in 1 .. L : k # j => f[k][n] = f[k - 1][n]
    <2> SUFFICES ASSUME NEW k \in 1 .. L, k # j PROVE f[k][n] = f[k - 1][n]
      OBVIOUS
    <2>1. n # order[k]
      BY DEF Ordered
    <2> QED
      BY <1>0, <2>1 DEF WritesOwn
  <1> HIDE DEF L, n
  <1>2. \A k \in 0 .. j - 1 : f[k][n] = f[0][n]
    <2> DEFINE T == {k \in 0 .. L : k < j => f[k][n] = f[0][n]}
    <2>1. 0 \in T
      BY <1>0
    <2>2. \A k \in 1 .. L : k - 1 \in T => k \in T
      BY <1>0, <1>1
    <2>3. 0 .. L \subseteq T
      <3> HIDE DEF T
      <3> QED
        BY <1>0, <2>1, <2>2, StepInduction
    <2> QED
      BY <1>0, <2>3 DEF L
  <1>3. \A k \in j .. L : f[k][n] = f[j][n]
    <2> DEFINE T == {k \in 0 .. L : k >= j => f[k][n] = f[j][n]}
    <2>1. 0 \in T
      BY <1>0
    <2>2. \A k \in 1 .. L : k - 1 \in T => k \in T
      <3> SUFFICES ASSUME NEW k \in 1 .. L, k - 1 \in T, k >= j
                   PROVE  f[k][n] = f[j][n]
        BY <1>0
      <3>1. CASE k = j
        BY <3>1
      <3>2. CASE k > j
        BY <1>0, <1>1, <3>2
      <3> QED
        BY <3>1, <3>2, <1>0
    <2>3. 0 .. L \subseteq T
      <3> HIDE DEF T
      <3> QED
        BY <1>0, <2>1, <2>2, StepInduction
    <2> QED
      BY <1>0, <2>3
  <1>4. f[L][n] = f[j][n]
    BY <1>0, <1>3 DEF L
  <1> QED
    BY <1>2, <1>3, <1>4 DEF L, n

-------------------------------------------------------------------------------
(* The tables.                                                               *)

\* The arguments of Extended, for registrations S and entries that are sets of U.
IsInput(S, U, start, adds, from, order) ==
    /\ order \in Seq(S)
    /\ start \in [S -> SUBSET U]
    /\ adds \in [S -> SUBSET U]
    /\ from \in [S -> SUBSET S]

\* The states of its table, one per step.
IsTable(f, S, U, start, adds, from, order) ==
    /\ f \in [0 .. Len(order) -> [S -> SUBSET U]]
    /\ f[0] = start
    /\ \A k \in 1 .. Len(order) :
         f[k] = [f[k - 1] EXCEPT ![order[k]] =
                   @ \cup adds[order[k]] \cup UNION {f[k - 1][d] : d \in from[order[k]]}]
    /\ Extended(start, adds, from, order) = f[Len(order)]

\* The recursive table of Extended exists and has its type.
LEMMA TableRuns ==
    ASSUME NEW S, NEW U, NEW start, NEW adds, NEW from, NEW order,
           IsInput(S, U, start, adds, from, order)
    PROVE  \E f : IsTable(f, S, U, start, adds, from, order)
  <1> USE DEF IsInput
  <1> DEFINE L == Len(order)
             X == [S -> SUBSET U]
             step(k, t) == [t EXCEPT ![order[k]] =
                              @ \cup adds[order[k]] \cup UNION {t[d] : d \in from[order[k]]}]
             F == [k \in 1 .. L |-> [t \in X |-> step(k, t)]]
             table[k \in 0 .. L] == IF k = 0 THEN start ELSE step(k, table[k - 1])
  <1>1. L \in Nat /\ \A k \in 1 .. L : order[k] \in S /\ k - 1 \in 0 .. L /\ k # 0 /\ k \in 0 .. L
    OBVIOUS
  <1>2. ASSUME NEW k \in 1 .. L, NEW t \in X PROVE step(k, t) \in X
    <2>1. \A d \in from[order[k]] : t[d] \in SUBSET U
      BY <1>1
    <2>2. UNION {t[d] : d \in from[order[k]]} \in SUBSET U
      BY <2>1
    <2> QED
      BY <1>1, <2>2
  <1>3. Extended(start, adds, from, order) = table[L]
    BY DEF Extended
  <1> HIDE DEF step, L
  <1>4. PICK f : IsRun(f, L, X, start, F)
    <2>1. start \in X /\ F \in Steps(L, X)
      BY <1>2 DEF Steps
    <2> HIDE DEF F, X, table
    <2> QED
      BY <1>1, <2>1, Recursion
  <1>5. f \in [0 .. L -> X] /\ f[0] = start /\ \A k \in 1 .. L : f[k] = step(k, f[k - 1])
    <2>1. f \in [0 .. L -> X] /\ f[0] = start /\ \A k \in 1 .. L : f[k] = F[k][f[k - 1]]
      <3> HIDE DEF F, X, table
      <3> QED
        BY <1>4 DEF IsRun
    <2>2. \A k \in 1 .. L, t \in X : F[k][t] = step(k, t)
      OBVIOUS
    <2> HIDE DEF F, X, table
    <2> QED
      BY <1>1, <2>1, <2>2
  <1>6. table = [k \in 0 .. L |-> IF k = 0 THEN start ELSE step(k, table[k - 1])]
    <2>1. ASSUME NEW k \in 0 .. L
          PROVE  f[k] = IF k = 0 THEN start ELSE step(k, f[k - 1])
      <3> HIDE DEF F, X, table
      <3> QED
        BY <1>1, <1>5
    <2>2. f = [k \in 0 .. L |-> f[k]]
      BY <1>5
    <2>3. f = [k \in 0 .. L |-> IF k = 0 THEN start ELSE step(k, f[k - 1])]
      BY <2>1, <2>2, Zenon
    <2> QED
      BY <2>3
  <1> HIDE DEF table, F
  <1>7. /\ DOMAIN table = 0 .. L
        /\ table[0] = start
        /\ \A k \in 1 .. L : table[k] = step(k, table[k - 1])
    BY <1>1, <1>6
  <1>8. table \in [0 .. L -> X]
    <2>1. table[0] \in X
      BY <1>7
    <2>2. \A k \in 1 .. L : table[k - 1] \in X => table[k] \in X
      BY <1>2, <1>7
    <2>3. table = [k \in 0 .. L |-> table[k]]
      BY <1>6, <1>7
    <2> HIDE DEF X
    <2> QED
      BY <1>1, <1>7, <2>1, <2>2, <2>3, RunType
  <1> QED
    BY <1>3, <1>7, <1>8 DEF step, L, IsTable
\* What the fold is for: the equation its final table solves.
Solves(T, S, U, start, adds, from) ==
    /\ T \in [S -> SUBSET U]
    /\ \A n \in S : T[n] = start[n] \cup adds[n] \cup UNION {T[d] : d \in from[n]}

\* Along a dependency-first order the fold solves its equation: an entry holds
\* what it started with, what it adds, and the final entries of those it inherits
\* from, although the fold only ever reads entries computed so far.
THEOREM ExtendedEquation ==
    ASSUME NEW S, NEW U, NEW start, NEW adds, NEW from, NEW order,
           IsInput(S, U, start, adds, from, order), Ordered(S, from, order)
    PROVE  Solves(Extended(start, adds, from, order), S, U, start, adds, from)
  <1> DEFINE L == Len(order)
             T == Extended(start, adds, from, order)
  <1>1. /\ order \in Seq(S) /\ adds \in [S -> SUBSET U] /\ from \in [S -> SUBSET S]
        /\ L \in Nat
        /\ \A k \in 1 .. L : order[k] \in S
        /\ \A i, j \in 1 .. L : i # j => order[i] # order[j]
    BY DEF Ordered, IsInput
  <1>2. PICK f : IsTable(f, S, U, start, adds, from, order)
    BY TableRuns
  <1>3. /\ f \in [0 .. L -> [S -> SUBSET U]]
        /\ f[0] = start
        /\ \A k \in 1 .. L :
             f[k] = [f[k - 1] EXCEPT ![order[k]] =
                       @ \cup adds[order[k]] \cup UNION {f[k - 1][d] : d \in from[order[k]]}]
    BY <1>2 DEF IsTable
  <1>4. T = f[L] /\ f[0] = start
    BY <1>2 DEF IsTable
  <1> HIDE DEF T, L
  <1>5. T \in [S -> SUBSET U] /\ \A k \in 1 .. L : f[k - 1] \in [S -> SUBSET U]
    BY <1>1, <1>3, <1>4
  <1>6. WritesOwn(f, S, order)
    <2>1. ASSUME NEW k \in 1 .. L, NEW n \in S \ {order[k]} PROVE f[k][n] = f[k - 1][n]
      <3> DEFINE v == f[k - 1][order[k]] \cup adds[order[k]]
                        \cup UNION {f[k - 1][d] : d \in from[order[k]]}
      <3>1. f[k] = [f[k - 1] EXCEPT ![order[k]] = v]
        BY <1>3
      <3> HIDE DEF v
      <3> QED
        BY <1>1, <1>5, <3>1
    <2> QED
      BY <2>1 DEF WritesOwn, L
  <1>7. \A j \in 1 .. L :
            /\ \A k \in 0 .. j - 1 : f[k][order[j]] = f[0][order[j]]
            /\ \A k \in j .. L : f[k][order[j]] = f[L][order[j]]
    BY <1>6, WrittenOnce DEF L
  <1>8. ASSUME NEW n \in S
        PROVE  T[n] = start[n] \cup adds[n] \cup UNION {T[d] : d \in from[n]}
    <2>1. PICK j \in 1 .. L : order[j] = n
      BY DEF Ordered, L
    <2>2. T[n] = f[j][n]
      <3>1. j \in j .. L
        BY <1>1
      <3> QED
        BY <1>7, <1>4, <2>1, <3>1
    <2>3. f[j][n] = f[j - 1][n] \cup adds[n] \cup UNION {f[j - 1][d] : d \in from[n]}
      <3> DEFINE v == f[j - 1][n] \cup adds[n] \cup UNION {f[j - 1][d] : d \in from[n]}
      <3>1. f[j] = [f[j - 1] EXCEPT ![n] = v]
        BY <1>3, <2>1
      <3>2. f[j][n] = v
        <4> HIDE DEF v
        <4> QED
          BY <1>5, <3>1
      <3> QED
        BY <3>2
    <2>4. f[j - 1][n] = start[n]
      BY <1>7, <1>4, <2>1
    <2>5. ASSUME NEW d \in from[n] PROVE f[j - 1][d] = T[d]
      <3>0. from[order[j]] \subseteq {order[i] : i \in 1 .. j - 1}
        BY DEF Ordered, L
      <3>1. PICK i \in 1 .. j - 1 : order[i] = d
        BY <2>1, <3>0
      <3>2. i \in 1 .. L /\ j - 1 \in i .. L
        BY <1>1, <3>1
      <3> QED
        BY <1>7, <1>4, <3>1, <3>2
    <2>6. {f[j - 1][d] : d \in from[n]} = {T[d] : d \in from[n]}
      BY <2>5
    <2> QED
      BY <2>2, <2>3, <2>4, <2>6
  <1> QED
    BY <1>5, <1>8 DEF T, Solves

\* Induction along a dependency-first order: a set that holds a node whenever it
\* holds all that the node depends on holds every node.
LEMMA OrderInduction ==
    ASSUME NEW S, NEW deps, NEW order, Ordered(S, deps, order),
           NEW T, \A n \in S : deps[n] \subseteq T => n \in T
    PROVE  S \subseteq T
  <1> DEFINE L == Len(order)
             K == {k \in 0 .. L : \A j \in 1 .. k : order[j] \in T}
  <1>1. L \in Nat /\ \A k \in 1 .. L : order[k] \in S
    BY DEF Ordered
  <1>2. 0 \in K
    BY <1>1
  <1>3. ASSUME NEW k \in 1 .. L, k - 1 \in K PROVE k \in K
    <2>1. deps[order[k]] \subseteq {order[j] : j \in 1 .. k - 1}
      BY DEF Ordered
    <2>2. \A j \in 1 .. k - 1 : order[j] \in T
      BY <1>3
    <2>3. order[k] \in T
      BY <1>1, <2>1, <2>2
    <2>4. \A j \in 1 .. k : order[j] \in T
      BY <2>2, <2>3
    <2> QED
      BY <1>1, <2>4
  <1>4. L \in K
    <2>1. \A k \in 1 .. L : k - 1 \in K => k \in K
      BY <1>3
    <2> HIDE DEF K, L
    <2>2. 0 .. L \subseteq K
      BY <1>1, <1>2, <2>1, StepInduction
    <2> QED
      BY <1>1, <2>2
  <1> QED
    BY <1>4 DEF Ordered

\* reach[n] is what n reaches along deps: the least set that holds n's dependencies
\* and the dependencies of its members, and with them all that they reach.
IsReach(reach, S, deps) ==
    /\ reach \in [S -> SUBSET S]
    /\ \A n \in S : deps[n] \subseteq reach[n]
    /\ \A n \in S : \A m \in reach[n] : deps[m] \subseteq reach[n] /\ reach[m] \subseteq reach[n]
    /\ \A n \in S : \A C \in SUBSET S :
         deps[n] \subseteq C /\ (\A m \in C : deps[m] \subseteq C) => reach[n] \subseteq C

\* wiring::transitive is reachability.
THEOREM TransitiveReaches ==
    ASSUME NEW S, NEW deps \in [S -> SUBSET S], NEW order, Ordered(S, deps, order)
    PROVE  IsReach(Transitive(deps, order), S, deps)
  <1> DEFINE reach == Transitive(deps, order)
  <1>1. Nothing(deps) \in [S -> SUBSET S] /\ \A n \in S : Nothing(deps)[n] = {}
    BY DEF Nothing
  <1>2. Solves(reach, S, S, deps, Nothing(deps), deps)
    <2>1. IsInput(S, S, deps, Nothing(deps), deps, order)
      BY <1>1 DEF IsInput, Ordered
    <2> QED
      BY <2>1, ExtendedEquation DEF Transitive
  <1>3. /\ reach \in [S -> SUBSET S]
        /\ \A n \in S : reach[n] = deps[n] \cup UNION {reach[d] : d \in deps[n]}
    BY <1>1, <1>2 DEF Solves
  <1> HIDE DEF reach
  <1>4. \A n \in S : \A m \in reach[n] : deps[m] \subseteq reach[n] /\ reach[m] \subseteq reach[n]
    <2> DEFINE T == {n \in S : \A m \in reach[n] : deps[m] \subseteq reach[n] /\ reach[m] \subseteq reach[n]}
    <2>1. ASSUME NEW n \in S, deps[n] \subseteq T PROVE n \in T
      <3> SUFFICES ASSUME NEW m \in reach[n]
                   PROVE  deps[m] \subseteq reach[n] /\ reach[m] \subseteq reach[n]
        OBVIOUS
      <3>1. CASE m \in deps[n]
        <4>1. m \in S /\ reach[m] \subseteq reach[n] /\ deps[m] \subseteq reach[m]
          BY <1>3, <3>1
        <4> QED
          BY <4>1
      <3>2. CASE \E d \in deps[n] : m \in reach[d]
        <4>1. PICK d \in deps[n] : m \in reach[d]
          BY <3>2
        <4>2. deps[m] \subseteq reach[d] /\ reach[m] \subseteq reach[d]
          BY <2>1, <4>1
        <4>3. reach[d] \subseteq reach[n]
          BY <1>3, <4>1
        <4> QED
          BY <4>2, <4>3
      <3> QED
        BY <1>3, <3>1, <3>2
    <2>2. S \subseteq T
      <3> HIDE DEF T
      <3> QED
        BY <2>1, OrderInduction
    <2> QED
      BY <2>2
  <1>5. ASSUME NEW C \in SUBSET S, \A m \in C : deps[m] \subseteq C
        PROVE  \A n \in S : deps[n] \subseteq C => reach[n] \subseteq C
    <2> DEFINE T == {n \in S : deps[n] \subseteq C => reach[n] \subseteq C}
    <2>1. ASSUME NEW n \in S, deps[n] \subseteq T PROVE n \in T
      <3> SUFFICES ASSUME deps[n] \subseteq C PROVE reach[n] \subseteq C
        OBVIOUS
      <3>1. \A d \in deps[n] : reach[d] \subseteq C
        BY <1>5, <2>1
      <3> QED
        BY <1>3, <3>1
    <2>2. S \subseteq T
      <3> HIDE DEF T
      <3> QED
        BY <2>1, OrderInduction
    <2> QED
      BY <2>2
  <1> QED
    BY <1>3, <1>4, <1>5 DEF reach, IsReach
\* calls are the constructor calls among the dependencies, and order is one of them.
AreCalls(calls, S, factory, deps, order) ==
    /\ calls \in [S -> SUBSET S]
    /\ Ordered(S, calls, order)
    /\ \A n \in S : calls[n] = IF n \in factory THEN deps[n] \cap factory ELSE {}

\* An order of the dependencies is one of the constructor calls among them.
LEMMA CalledInOrder ==
    ASSUME NEW S, NEW deps \in [S -> SUBSET S], NEW order, Ordered(S, deps, order), NEW factory
    PROVE  AreCalls(Called(factory, deps), S, factory, deps, order)
  <1>1. /\ Called(factory, deps) \in [S -> SUBSET S]
        /\ \A n \in S : Called(factory, deps)[n] =
                           IF n \in factory THEN deps[n] \cap factory ELSE {}
    BY DEF Called
  <1>2. \A n \in S : Called(factory, deps)[n] \subseteq deps[n]
    BY <1>1
  <1>3. \A k \in 1 .. Len(order) : order[k] \in S
    BY DEF Ordered
  <1>4. \A k \in 1 .. Len(order) :
          Called(factory, deps)[order[k]] \subseteq {order[j] : j \in 1 .. k - 1}
    <2> SUFFICES ASSUME NEW k \in 1 .. Len(order)
                 PROVE  Called(factory, deps)[order[k]] \subseteq {order[j] : j \in 1 .. k - 1}
      OBVIOUS
    <2>1. deps[order[k]] \subseteq {order[j] : j \in 1 .. k - 1}
      BY DEF Ordered
    <2> QED
      BY <1>2, <1>3, <2>1
  <1> QED
    BY <1>1, <1>4 DEF Ordered, AreCalls

\* The table of scopegen::consumed_dependencies: constructors answer for their own
\* consuming queries and for those of every constructor they call, others for none.
IsConsumption(table, S, factory, fresh, takes, deps) ==
    /\ table \in [S -> SUBSET S]
    /\ \A n \in S \ factory : table[n] = {}
    /\ \A n \in S \cap factory :
         table[n] = (takes[n] \ (factory \cup fresh))
                        \cup UNION {table[d] : d \in deps[n] \cap factory}

\* scopegen::consumed_dependencies accounts for every level of constructor calls.
THEOREM ConsumedAccounts ==
    ASSUME NEW S, NEW deps \in [S -> SUBSET S], NEW order, Ordered(S, deps, order),
           NEW factory, NEW fresh, NEW takes \in [S -> SUBSET S]
    PROVE  IsConsumption(Consumed(factory, fresh, takes, deps, order),
                         S, factory, fresh, takes, deps)
  <1> DEFINE own == [i \in DOMAIN deps |->
                        IF i \in factory THEN takes[i] \ (factory \cup fresh) ELSE {}]
             calls == Called(factory, deps)
             T == Consumed(factory, fresh, takes, deps, order)
  <1>1. /\ Nothing(deps) \in [S -> SUBSET S] /\ \A n \in S : Nothing(deps)[n] = {}
        /\ own \in [S -> SUBSET S]
        /\ \A n \in S : own[n] = IF n \in factory THEN takes[n] \ (factory \cup fresh) ELSE {}
    BY DEF Nothing
  <1>2. /\ calls \in [S -> SUBSET S] /\ Ordered(S, calls, order)
        /\ \A n \in S : calls[n] = IF n \in factory THEN deps[n] \cap factory ELSE {}
    <2>1. AreCalls(calls, S, factory, deps, order)
      BY CalledInOrder
    <2> QED
      BY <2>1 DEF AreCalls
  <1>3. T = Extended(Nothing(deps), own, calls, order)
    BY DEF Consumed
  <1> HIDE DEF own, calls, T
  <1>4. IsInput(S, S, Nothing(deps), own, calls, order)
    BY <1>1, <1>2 DEF IsInput, Ordered
  <1>5. Solves(T, S, S, Nothing(deps), own, calls)
    BY <1>2, <1>3, <1>4, ExtendedEquation
  <1>6. /\ T \in [S -> SUBSET S]
        /\ \A n \in S : T[n] = Nothing(deps)[n] \cup own[n] \cup UNION {T[d] : d \in calls[n]}
    BY <1>5 DEF Solves
  <1>7. \A n \in S \ factory : T[n] = {}
    BY <1>1, <1>2, <1>6
  <1>8. ASSUME NEW n \in S \cap factory
        PROVE  T[n] = (takes[n] \ (factory \cup fresh)) \cup UNION {T[d] : d \in deps[n] \cap factory}
    BY <1>1, <1>2, <1>6
  <1> QED
    BY <1>6, <1>7, <1>8 DEF IsConsumption, T

\* The table of scopegen::propagate_child_calls, likewise, for queries of children.
IsChildUse(table, S, factory, own, deps) ==
    /\ DOMAIN table = S
    /\ \A n \in S \ factory : table[n] = own[n]
    /\ \A n \in S \cap factory :
         table[n] = own[n] \cup UNION {table[d] : d \in deps[n] \cap factory}

\* scopegen::propagate_child_calls accounts for every level of constructor calls.
THEOREM ChildCallsAccount ==
    ASSUME NEW S, NEW deps \in [S -> SUBSET S], NEW order, Ordered(S, deps, order),
           NEW factory, NEW U, NEW own \in [S -> SUBSET U]
    PROVE  IsChildUse(ChildCalls(factory, own, deps, order), S, factory, own, deps)
  <1> DEFINE calls == Called(factory, deps)
             T == ChildCalls(factory, own, deps, order)
  <1>1. Nothing(deps) \in [S -> SUBSET U] /\ \A n \in S : Nothing(deps)[n] = {}
    BY DEF Nothing
  <1>2. /\ calls \in [S -> SUBSET S] /\ Ordered(S, calls, order)
        /\ \A n \in S : calls[n] = IF n \in factory THEN deps[n] \cap factory ELSE {}
    <2>1. AreCalls(calls, S, factory, deps, order)
      BY CalledInOrder
    <2> QED
      BY <2>1 DEF AreCalls
  <1>3. T = Extended(own, Nothing(deps), calls, order)
    BY DEF ChildCalls
  <1> HIDE DEF calls, T
  <1>4. IsInput(S, U, own, Nothing(deps), calls, order)
    BY <1>1, <1>2 DEF IsInput, Ordered
  <1>5. Solves(T, S, U, own, Nothing(deps), calls)
    BY <1>2, <1>3, <1>4, ExtendedEquation
  <1>6. /\ T \in [S -> SUBSET U]
        /\ \A n \in S : T[n] = own[n] \cup Nothing(deps)[n] \cup UNION {T[d] : d \in calls[n]}
    BY <1>5 DEF Solves
  <1>7. \A n \in S \ factory : T[n] = own[n]
    BY <1>1, <1>2, <1>6
  <1>8. ASSUME NEW n \in S \cap factory
        PROVE  T[n] = own[n] \cup UNION {T[d] : d \in deps[n] \cap factory}
    BY <1>1, <1>2, <1>6
  <1> QED
    BY <1>6, <1>7, <1>8 DEF IsChildUse, T

-------------------------------------------------------------------------------
(* Registrations numbered along the order, as Build and Resolve number them.  *)

\* Each of the M registrations depends on lower numbers only.
Numbered(M, deps) ==
    /\ M \in Nat
    /\ deps \in [0 .. M - 1 -> SUBSET (0 .. M - 1)]
    /\ \A n \in 0 .. M - 1 : deps[n] \subseteq 0 .. n - 1

\* Then counting is a dependency-first order.
LEMMA NumbersAreOrder ==
    ASSUME NEW M, NEW deps, Numbered(M, deps),
           NEW order, order = [k \in 1 .. M |-> k - 1]
    PROVE  Ordered(0 .. M - 1, deps, order)
  <1>0. M \in Nat
    BY DEF Numbered
  <1>1. /\ order \in Seq(0 .. M - 1) /\ Len(order) = M
        /\ \A k \in 1 .. M : order[k] = k - 1
    BY <1>0
  <1>2. \A i, j \in 1 .. M : i # j => order[i] # order[j]
    BY <1>0, <1>1
  <1>3. \A n \in 0 .. M - 1 : n + 1 \in 1 .. M /\ order[n + 1] = n
    BY <1>0, <1>1
  <1>4. ASSUME NEW k \in 1 .. M, NEW d \in deps[order[k]]
        PROVE  \E j \in 1 .. k - 1 : d = order[j]
    <2>1. order[k] \in 0 .. M - 1 /\ order[k] = k - 1
      BY <1>0, <1>1
    <2>2. deps[order[k]] \subseteq 0 .. (k - 1) - 1
      BY <2>1 DEF Numbered
    <2>3. d \in 0 .. k - 2
      BY <2>2
    <2>4. d + 1 \in 1 .. k - 1 /\ d + 1 \in 1 .. M /\ (d + 1) - 1 = d
      BY <1>0, <2>3
    <2> QED
      BY <1>1, <2>4
  <1>5. \A k \in 1 .. M : deps[order[k]] \subseteq {order[j] : j \in 1 .. k - 1}
    BY <1>4
  <1> QED
    BY <1>1, <1>2, <1>3, <1>5 DEF Ordered

\* And what a registration reaches has lower numbers.
LEMMA ReachIsLower ==
    ASSUME NEW M, NEW deps, Numbered(M, deps),
           NEW reach, IsReach(reach, 0 .. M - 1, deps), NEW n \in 0 .. M - 1
    PROVE  reach[n] \subseteq 0 .. n - 1
  <1> DEFINE C == 0 .. n - 1
  <1>1. M \in Nat /\ deps[n] \subseteq C
    BY DEF Numbered
  <1>2. C \in SUBSET (0 .. M - 1)
    BY <1>1
  <1>3. \A m \in C : deps[m] \subseteq C
    <2> SUFFICES ASSUME NEW m \in C PROVE deps[m] \subseteq C
      OBVIOUS
    <2>1. m \in 0 .. M - 1 /\ 0 .. m - 1 \subseteq C
      BY <1>1
    <2> QED
      BY <2>1 DEF Numbered
  <1> HIDE DEF C
  <1>4. reach[n] \subseteq C
    BY <1>1, <1>2, <1>3 DEF IsReach
  <1> QED
    BY <1>4 DEF C
===============================================================================
