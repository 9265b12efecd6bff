---------------------------- MODULE ExpansionProofs ----------------------------
(***************************************************************************)
(* What the expansion of an attributed function does with its registrations, *)
(* for any number of them and paths of any length.                           *)
(*                                                                          *)
(* Registry: the last registration of a name wins; no two methods are        *)
(* generated under one name, since every generated name is recorded before   *)
(* the next registration is accepted; and a scope recognises each name as    *)
(* its operation, since the words of different operations never join to the  *)
(* same name.                                                                *)
(*                                                                          *)
(* Rebase: a path means the same where it was moved to.  A module and a path *)
(* in it are laid one after the other, and a lookup cuts the first and skips  *)
(* the leading supers of the second; the cases are how far the path climbs.  *)
(*                                                                          *)
(* Injected: paths keep their meanings, the policy is what rustc knows, and   *)
(* the advice of a rejection helps, for all registrations the move is meant   *)
(* for.                                                                      *)
(***************************************************************************)
EXTENDS Registry, Injected, WiringProofs

-------------------------------------------------------------------------------
(* Sequences with elements left out.                                         *)


\* The states of the recursion in Retained, one per position.
IsRetaining(f, s, positions, X) ==
    /\ f \in [0 .. Len(s) -> Seq(X)]
    /\ f[0] = <<>>
    /\ \A k \in 1 .. Len(s) :
          f[k] = IF k \in positions THEN Append(f[k - 1], s[k]) ELSE f[k - 1]
    /\ Retained(s, positions) = f[Len(s)]

\* The recursive function of Retained exists and has its type.
LEMMA RetainingRuns ==
    ASSUME NEW X, NEW s \in Seq(X), NEW positions
    PROVE  \E f : IsRetaining(f, s, positions, X)
  <1> DEFINE L == Len(s)
             Y == Seq(X)
             step(k, t) == IF k \in positions THEN Append(t, s[k]) ELSE t
             F == [k \in 1 .. L |-> [t \in Y |-> step(k, t)]]
             kept[k \in 0 .. L] ==
                IF k = 0 THEN <<>>
                ELSE IF k \in positions THEN Append(kept[k - 1], s[k]) ELSE kept[k - 1]
  <1>1. L \in Nat /\ \A k \in 1 .. L : s[k] \in X /\ k - 1 \in 0 .. L /\ k # 0 /\ k \in 0 .. L
    OBVIOUS
  <1>2. ASSUME NEW k \in 1 .. L, NEW t \in Y PROVE step(k, t) \in Y
    BY <1>1, AppendProperties
  <1>3. Retained(s, positions) = kept[L]
    BY DEF Retained
  <1> HIDE DEF L
  <1>4. PICK f : IsRun(f, L, Y, <<>>, F)
    <2>1. <<>> \in Y /\ F \in Steps(L, Y)
      BY <1>2 DEF Steps
    <2> HIDE DEF F, Y, kept
    <2> QED
      BY <1>1, <2>1, Recursion
  <1>5. f \in [0 .. L -> Y] /\ f[0] = <<>> /\ \A k \in 1 .. L : f[k] = step(k, f[k - 1])
    <2>1. f \in [0 .. L -> Y] /\ f[0] = <<>> /\ \A k \in 1 .. L : f[k] = F[k][f[k - 1]]
      <3> HIDE DEF F, Y, kept
      <3> QED
        BY <1>4 DEF IsRun
    <2>2. \A k \in 1 .. L, t \in Y : F[k][t] = step(k, t)
      <3> HIDE DEF step
      <3> QED
        OBVIOUS
    <2> HIDE DEF F, Y, kept, step
    <2> QED
      BY <1>1, <2>1, <2>2
  <1>6. kept = [k \in 0 .. L |-> IF k = 0 THEN <<>> ELSE step(k, kept[k - 1])]
    <2>1. ASSUME NEW k \in 0 .. L
          PROVE  f[k] = IF k = 0 THEN <<>> ELSE step(k, f[k - 1])
      <3> HIDE DEF F, Y, kept, step
      <3> QED
        BY <1>1, <1>5
    <2>2. f = [k \in 0 .. L |-> f[k]]
      BY <1>5
    <2>3. f = [k \in 0 .. L |-> IF k = 0 THEN <<>> ELSE step(k, f[k - 1])]
      BY <2>1, <2>2, Zenon
    <2> QED
      BY <2>3
  <1> HIDE DEF kept, F, step
  <1>7. /\ DOMAIN kept = 0 .. L
        /\ kept[0] = <<>>
        /\ \A k \in 1 .. L : kept[k] = step(k, kept[k - 1])
    BY <1>1, <1>6
  <1>8. kept \in [0 .. L -> Y]
    <2>1. kept[0] \in Y
      BY <1>7
    <2>2. \A k \in 1 .. L : kept[k - 1] \in Y => kept[k] \in Y
      BY <1>2, <1>7
    <2>3. kept = [k \in 0 .. L |-> kept[k]]
      BY <1>6, <1>7
    <2> HIDE DEF Y
    <2> QED
      BY <1>1, <1>7, <2>1, <2>2, <2>3, RunType
  <1> QED
    BY <1>3, <1>7, <1>8 DEF step, L, IsRetaining

\* r holds the elements of s at those of its first n positions, g[k] being the
\* position of the k-th.
Selects(r, s, positions, n, g) ==
    /\ g \in [1 .. Len(r) -> 1 .. n]
    /\ \A k, l \in 1 .. Len(r) : k < l => g[k] < g[l]
    /\ \A k \in 1 .. Len(r) : g[k] \in positions /\ r[k] = s[g[k]]
    /\ \A i \in 1 .. n : i \in positions => \E k \in 1 .. Len(r) : g[k] = i

\* One more position that is retained.
LEMMA SelectsMore ==
    ASSUME NEW X, NEW s \in Seq(X), NEW positions, NEW r \in Seq(X), NEW n \in 1 .. Len(s), NEW g,
           Selects(r, s, positions, n - 1, g), n \in positions
    PROVE  \E h : Selects(Append(r, s[n]), s, positions, n, h)
  <1> PICK m : m = Len(r)
    OBVIOUS
  <1> DEFINE q == Append(r, s[n])
             h == [k \in 1 .. m + 1 |-> IF k = m + 1 THEN n ELSE g[k]]
  <1>1. m \in Nat /\ s[n] \in X /\ n \in Nat
    OBVIOUS
  <1>2. Len(q) = m + 1 /\ q[m + 1] = s[n] /\ \A k \in 1 .. m : q[k] = r[k]
    BY <1>1, AppendProperties
  <1> HIDE DEF q
  <1>3. \A k \in 1 .. m : g[k] \in 1 .. n - 1 /\ g[k] \in positions /\ r[k] = s[g[k]]
    BY DEF Selects
  <1>4. \A k \in 1 .. m : h[k] = g[k]
    BY <1>1
  <1>5. h[m + 1] = n
    BY <1>1
  <1>6. h \in [1 .. m + 1 -> 1 .. n]
    BY <1>1, <1>3
  <1>7. DOMAIN h = 1 .. m + 1
    OBVIOUS
  <1> HIDE DEF h
  <1>8. \A k, l \in 1 .. m + 1 : k < l => h[k] < h[l]
    <2> SUFFICES ASSUME NEW k \in 1 .. m + 1, NEW l \in 1 .. m + 1, k < l PROVE h[k] < h[l]
      OBVIOUS
    <2>1. k \in 1 .. m
      BY <1>1
    <2>2. CASE l = m + 1
      <3>1. h[k] \in 1 .. n - 1
        BY <1>3, <1>4, <2>1, Zenon
      <3>2. h[l] = n
        BY <1>5, <2>2, Zenon
      <3> QED
        BY <1>1, <3>1, <3>2
    <2>3. CASE l # m + 1
      <3>1. l \in 1 .. m
        BY <1>1, <2>3
      <3>2. g[k] < g[l]
        BY <2>1, <3>1 DEF Selects
      <3> QED
        BY <1>4, <2>1, <3>1, <3>2
    <2> QED
      BY <2>2, <2>3
  <1>9. ASSUME NEW k \in 1 .. m + 1 PROVE h[k] \in positions /\ q[k] = s[h[k]]
    <2>1. CASE k = m + 1
      BY <1>2, <1>5, <2>1
    <2>2. CASE k # m + 1
      <3>1. k \in 1 .. m
        BY <1>1, <2>2
      <3> QED
        BY <1>2, <1>3, <1>4, <3>1
    <2> QED
      BY <2>1, <2>2
  <1>10. ASSUME NEW i \in 1 .. n, i \in positions PROVE \E k \in 1 .. m + 1 : h[k] = i
    <2>1. CASE i = n
      BY <1>1, <1>5, <2>1
    <2>2. CASE i # n
      <3>1. PICK k \in 1 .. m : g[k] = i
        BY <1>1, <1>10, <2>2 DEF Selects
      <3> QED
        BY <1>1, <1>4, <3>1
    <2> QED
      BY <2>1, <2>2
  <1>11. Selects(q, s, positions, n, h)
    BY <1>2, <1>6, <1>8, <1>9, <1>10 DEF Selects
  <1> QED
    BY <1>11 DEF q

\* One more position that is not.
LEMMA SelectsSame ==
    ASSUME NEW X, NEW s \in Seq(X), NEW positions, NEW r \in Seq(X), NEW n \in 1 .. Len(s), NEW g,
           Selects(r, s, positions, n - 1, g), n \notin positions
    PROVE  Selects(r, s, positions, n, g)
  <1>1. \A k \in 1 .. Len(r) : g[k] \in 1 .. n - 1
    BY DEF Selects
  <1>2. g \in [1 .. Len(r) -> 1 .. n]
    <2>1. 1 .. n - 1 \subseteq 1 .. n
      OBVIOUS
    <2> QED
      BY <2>1 DEF Selects
  <1>3. \A i \in 1 .. n : i \in positions => i \in 1 .. n - 1
    OBVIOUS
  <1> QED
    BY <1>2, <1>3 DEF Selects

\* Retained selects, in order, exactly the positions it was given.
LEMMA RetainedSelects ==
    ASSUME NEW X, NEW s \in Seq(X), NEW positions
    PROVE  /\ Retained(s, positions) \in Seq(X)
           /\ \E g : Selects(Retained(s, positions), s, positions, Len(s), g)
  <1>1. PICK f : IsRetaining(f, s, positions, X)
    BY RetainingRuns
  <1> DEFINE T == {n \in 0 .. Len(s) : \E g : Selects(f[n], s, positions, n, g)}
  <1>2. 0 \in T
    <2>1. f[0] = <<>> /\ Len(f[0]) = 0
      BY <1>1 DEF IsRetaining
    <2> DEFINE g == [k \in 1 .. 0 |-> k]
    <2>2. Selects(f[0], s, positions, 0, g)
      BY <2>1 DEF Selects
    <2> QED
      BY <2>2
  <1>3. ASSUME NEW n \in 1 .. Len(s), n - 1 \in T PROVE n \in T
    <2>1. PICK g : Selects(f[n - 1], s, positions, n - 1, g)
      BY <1>3
    <2>2. f[n - 1] \in Seq(X)
      BY <1>1 DEF IsRetaining
    <2>3. CASE n \in positions
      <3>1. f[n] = Append(f[n - 1], s[n])
        BY <1>1, <2>3 DEF IsRetaining
      <3>2. \E h : Selects(Append(f[n - 1], s[n]), s, positions, n, h)
        <4> PICK r : r = f[n - 1]
          OBVIOUS
        <4> QED
          BY <2>1, <2>2, <2>3, SelectsMore
      <3>3. \E h : Selects(f[n], s, positions, n, h)
        BY <3>1, <3>2, Zenon
      <3> QED
        BY <3>3
    <2>4. CASE n \notin positions
      <3>1. f[n] = f[n - 1]
        BY <1>1, <2>4 DEF IsRetaining
      <3>2. Selects(f[n - 1], s, positions, n, g)
        BY <2>1, <2>2, <2>4, SelectsSame
      <3>3. \E h : Selects(f[n], s, positions, n, h)
        BY <3>1, <3>2, Zenon
      <3> QED
        BY <3>3
    <2> QED
      BY <2>3, <2>4
  <1>4. 0 .. Len(s) \subseteq T
    <2>1. Len(s) \in Nat /\ \A n \in 1 .. Len(s) : n - 1 \in T => n \in T
      BY <1>3
    <2> HIDE DEF T
    <2> QED
      BY <1>2, <2>1, StepInduction
  <1>5. Len(s) \in T
    <2>1. Len(s) \in 0 .. Len(s)
      OBVIOUS
    <2> HIDE DEF T
    <2> QED
      BY <1>4, <2>1, Zenon
  <1> QED
    BY <1>1, <1>5 DEF IsRetaining

\* A sequence of numbers that is not empty has a greatest element.
LEMMA GreatestElement ==
    ASSUME NEW n \in Nat \ {0}, NEW s \in [1 .. n -> Nat]
    PROVE  \E m \in 1 .. n : \A i \in 1 .. n : s[i] <= s[m]
  <1> DEFINE Upto(k) == \E m \in 1 .. k : \A i \in 1 .. k : s[i] <= s[m]
             T == {k \in 0 .. n : k = 0 \/ Upto(k)}
  <1>1. 0 \in T
    OBVIOUS
  <1>2. ASSUME NEW k \in 1 .. n, k - 1 \in T PROVE k \in T
    <2>1. CASE k = 1
      BY <2>1
    <2>2. CASE k # 1
      <3>1. PICK m \in 1 .. k - 1 : \A i \in 1 .. k - 1 : s[i] <= s[m]
        BY <1>2, <2>2
      <3>2. \A i \in 1 .. k : i = k \/ i \in 1 .. k - 1
        OBVIOUS
      <3>3. \A i \in 1 .. k : s[i] \in Nat
        OBVIOUS
      <3>4. CASE s[m] <= s[k]
        <4>1. \A i \in 1 .. k : s[i] <= s[k]
          BY <3>1, <3>2, <3>3, <3>4
        <4> QED
          BY <4>1
      <3>5. CASE ~(s[m] <= s[k])
        <4>1. \A i \in 1 .. k : s[i] <= s[m]
          BY <3>1, <3>2, <3>3, <3>5
        <4> QED
          BY <4>1
      <3> QED
        BY <3>4, <3>5
    <2> QED
      BY <2>1, <2>2
  <1>3. n \in T
    <2>1. \A k \in 1 .. n : k - 1 \in T => k \in T
      BY <1>2
    <2> HIDE DEF T
    <2>2. 0 .. n \subseteq T
      BY <1>1, <2>1, StepInduction
    <2> QED
      BY <2>2
  <1> QED
    BY <1>3

\* p arranges s in ascending order.
Arranges(p, s, n) ==
    /\ p \in Surjection(1 .. n, 1 .. n)
    /\ \A i, j \in 1 .. n : i < j => s[p[i]] <= s[p[j]]

\* The greatest element goes to the end, the last one into its place.
LEMMA ArrangesMore ==
    ASSUME NEW n \in Nat \ {0}, NEW s \in [1 .. n -> Nat],
           \A t \in [1 .. n - 1 -> Nat] : \E q : Arranges(q, t, n - 1)
    PROVE  \E p : Arranges(p, s, n)
  <1>1. PICK m \in 1 .. n : \A i \in 1 .. n : s[i] <= s[m]
    BY GreatestElement
  <1> DEFINE t == [i \in 1 .. n - 1 |-> IF i = m THEN s[n] ELSE s[i]]
  <1>2. t \in [1 .. n - 1 -> Nat]
    OBVIOUS
  <1>3. PICK q : Arranges(q, t, n - 1)
    BY <1>2
  <1> DEFINE p == [k \in 1 .. n |-> IF k = n THEN m ELSE IF q[k] = m THEN n ELSE q[k]]
  <1>4. \A k \in 1 .. n - 1 : q[k] \in 1 .. n - 1
    BY <1>3 DEF Arranges, Surjection
  <1>5. p \in [1 .. n -> 1 .. n]
    BY <1>4
  <1>6. p[n] = m /\ \A k \in 1 .. n - 1 : p[k] = IF q[k] = m THEN n ELSE q[k]
    OBVIOUS
  <1>7. \A k \in 1 .. n - 1 : s[p[k]] = t[q[k]]
    BY <1>4, <1>6
  <1> HIDE DEF p, t
  <1>8. ASSUME NEW i \in 1 .. n PROVE \E k \in 1 .. n : p[k] = i
    <2>1. CASE i = m
      BY <1>6, <2>1
    <2>2. CASE i # m /\ i = n
      <3>1. m \in 1 .. n - 1
        BY <2>2
      <3>2. PICK k \in 1 .. n - 1 : q[k] = m
        BY <1>3, <3>1 DEF Arranges, Surjection
      <3> QED
        BY <1>6, <2>2, <3>2
    <2>3. CASE i # m /\ i # n
      <3>1. i \in 1 .. n - 1
        BY <2>3
      <3>2. PICK k \in 1 .. n - 1 : q[k] = i
        BY <1>3, <3>1 DEF Arranges, Surjection
      <3> QED
        BY <1>6, <2>3, <3>2
    <2> QED
      BY <2>1, <2>2, <2>3
  <1>9. ASSUME NEW i \in 1 .. n, NEW j \in 1 .. n, i < j PROVE s[p[i]] <= s[p[j]]
    <2>1. i \in 1 .. n - 1 /\ p[i] \in 1 .. n
      <3>1. i \in 1 .. n - 1
        BY <1>9
      <3> QED
        BY <1>5, <3>1, Zenon
    <2>2. CASE j = n
      <3>1. p[j] = m /\ p[i] \in 1 .. n
        BY <1>6, <2>1, <2>2, Zenon
      <3> QED
        BY <1>1, <3>1
    <2>3. CASE j # n
      <3>1. j \in 1 .. n - 1
        BY <2>3
      <3>2. t[q[i]] <= t[q[j]]
        BY <1>3, <1>9, <2>1, <3>1 DEF Arranges
      <3> QED
        BY <1>7, <2>1, <3>1, <3>2
    <2> QED
      BY <2>2, <2>3
  <1>10. Arranges(p, s, n)
    BY <1>5, <1>8, <1>9 DEF Arranges, Surjection
  <1> QED
    BY <1>10

\* Every sequence of numbers can be arranged.
LEMMA ArrangementExists ==
    ASSUME NEW n \in Nat, NEW s \in [1 .. n -> Nat]
    PROVE  \E p : Arranges(p, s, n)
  <1> DEFINE T == {k \in 0 .. n : \A t \in [1 .. k -> Nat] : \E p : Arranges(p, t, k)}
  <1>1. 0 \in T
    <2>1. ASSUME NEW t \in [1 .. 0 -> Nat] PROVE Arranges([i \in 1 .. 0 |-> i], t, 0)
      BY DEF Arranges, Surjection
    <2>2. \A t \in [1 .. 0 -> Nat] : \E p : Arranges(p, t, 0)
      BY <2>1, Zenon
    <2> QED
      BY <2>2
  <1>2. ASSUME NEW k \in 1 .. n, k - 1 \in T PROVE k \in T
    <2>1. k \in Nat \ {0} /\ k \in 0 .. n
      OBVIOUS
    <2>2. \A t \in [1 .. k - 1 -> Nat] : \E p : Arranges(p, t, k - 1)
      BY <1>2, Zenon
    <2>3. \A t \in [1 .. k -> Nat] : \E p : Arranges(p, t, k)
      <3> HIDE DEF T
      <3> QED
        BY <2>1, <2>2, ArrangesMore
    <2> QED
      BY <2>1, <2>3, Zenon
  <1>3. n \in T
    <2>1. \A k \in 1 .. n : k - 1 \in T => k \in T
      BY <1>2
    <2> HIDE DEF T
    <2>2. 0 .. n \subseteq T
      BY <1>1, <2>1, StepInduction
    <2> QED
      BY <2>2
  <1> QED
    BY <1>3

\* Sorted sorts: the same elements, in ascending order.
LEMMA SortedSorts ==
    ASSUME NEW N, N \subseteq Nat, NEW s \in Seq(N)
    PROVE  /\ Sorted(s) \in Seq(N) /\ Len(Sorted(s)) = Len(s)
           /\ ToSet(Sorted(s)) = ToSet(s)
           /\ \A i, j \in 1 .. Len(s) : i < j => Sorted(s)[i] <= Sorted(s)[j]
  <1> PICK n : n = Len(s)
    OBVIOUS
  <1>1. n \in Nat /\ DOMAIN s = 1 .. n /\ s \in [1 .. n -> Nat] /\ \A i \in 1 .. n : s[i] \in N
    <2>1. n \in Nat /\ s \in [1 .. n -> N]
      OBVIOUS
    <2> QED
      BY <2>1
  <1> DEFINE from == CHOOSE p \in Surjection(DOMAIN s, DOMAIN s) :
                        \A i, j \in DOMAIN s : i < j => s[p[i]] <= s[p[j]]
  <1>2. Arranges(from, s, n)
    <2>1. PICK p : Arranges(p, s, n)
      BY <1>1, ArrangementExists
    <2>2. \E q \in Surjection(DOMAIN s, DOMAIN s) :
             \A i, j \in DOMAIN s : i < j => s[q[i]] <= s[q[j]]
      BY <1>1, <2>1 DEF Arranges
    <2>3. /\ from \in Surjection(DOMAIN s, DOMAIN s)
          /\ \A i, j \in DOMAIN s : i < j => s[from[i]] <= s[from[j]]
      BY <2>2, Zenon
    <2> HIDE DEF from
    <2> QED
      BY <1>1, <2>3 DEF Arranges
  <1>3. Sorted(s) = [i \in DOMAIN s |-> s[from[i]]]
    BY DEF Sorted
  <1> HIDE DEF from
  <1>4. \A i \in 1 .. n : from[i] \in 1 .. n /\ Sorted(s)[i] = s[from[i]]
    BY <1>1, <1>2, <1>3 DEF Arranges, Surjection
  <1>5. Sorted(s) \in Seq(N) /\ Len(Sorted(s)) = n /\ DOMAIN Sorted(s) = 1 .. n
    BY <1>1, <1>3, <1>4
  <1>6. ToSet(Sorted(s)) \subseteq ToSet(s)
    BY <1>1, <1>4, <1>5 DEF ToSet
  <1>7. ToSet(s) \subseteq ToSet(Sorted(s))
    <2> SUFFICES ASSUME NEW i \in 1 .. n PROVE \E k \in 1 .. n : Sorted(s)[k] = s[i]
      BY <1>1, <1>5 DEF ToSet
    <2>1. PICK k \in 1 .. n : from[k] = i
      BY <1>2 DEF Arranges, Surjection
    <2> QED
      BY <1>4, <2>1
  <1>8. \A i, j \in 1 .. n : i < j => Sorted(s)[i] <= Sorted(s)[j]
    BY <1>2, <1>4 DEF Arranges
  <1> QED
    BY <1>5, <1>6, <1>7, <1>8

\* Members of a sequence.
LEMMA ToSetMember == \A s, x : x \in ToSet(s) <=> \E i \in DOMAIN s : x = s[i]
  BY Zenon DEF ToSet

Ascending(a) ==
    /\ a \in Seq(Nat)
    /\ \A i, j \in 1 .. Len(a) : i < j => a[i] < a[j]

\* An ascending sequence has the elements of another one at the same places, up
\* to the first place where the two differ.
LEMMA AscendingAgrees ==
    ASSUME NEW a, NEW b, Ascending(a), Ascending(b), ToSet(a) \subseteq ToSet(b),
           NEW i \in 1 .. Len(a),
           \A j \in 1 .. i - 1 : j \in 1 .. Len(b) => a[j] = b[j]
    PROVE  i \in 1 .. Len(b) /\ b[i] <= a[i]
  <1>1. Len(a) \in Nat /\ Len(b) \in Nat /\ i \in Nat
    BY DEF Ascending
  <1>2. PICK k \in 1 .. Len(b) : b[k] = a[i]
    <2>1. DOMAIN a = 1 .. Len(a) /\ DOMAIN b = 1 .. Len(b)
      BY DEF Ascending
    <2>2. a[i] \in ToSet(a)
      BY <2>1, Zenon DEF ToSet
    <2>3. a[i] \in ToSet(b)
      BY <2>2
    <2> QED
      BY <2>1, <2>3, Zenon DEF ToSet
  <1>3. ~(k < i)
    <2> SUFFICES ASSUME k < i PROVE FALSE
      OBVIOUS
    <2>1. k \in 1 .. i - 1 /\ k \in 1 .. Len(a)
      BY <1>1
    <2>2. a[k] = b[k] /\ a[k] < a[i] /\ a[k] \in Nat /\ a[i] \in Nat
      BY <2>1 DEF Ascending
    <2> QED
      BY <1>2, <2>2
  <1>4. i \in 1 .. Len(b)
    BY <1>1, <1>3
  <1>5. b[i] \in Nat /\ b[k] \in Nat
    BY <1>4 DEF Ascending
  <1>6. CASE k = i
    BY <1>2, <1>4, <1>5, <1>6
  <1>7. CASE i < k
    <2>1. b[i] < b[k]
      BY <1>4, <1>7 DEF Ascending
    <2> QED
      BY <1>2, <1>4, <1>5, <2>1
  <1> QED
    BY <1>1, <1>3, <1>6, <1>7

\* An ascending sequence is determined by its elements.
LEMMA AscendingUnique ==
    ASSUME NEW a, NEW b, Ascending(a), Ascending(b), ToSet(a) = ToSet(b)
    PROVE  a = b
  <1>1. a \in Seq(Nat) /\ b \in Seq(Nat) /\ Len(a) \in Nat /\ Len(b) \in Nat
    BY DEF Ascending
  <1> DEFINE D == {i \in 1 .. Len(a) : i \notin 1 .. Len(b) \/ a[i] # b[i]}
  <1>2. D = {}
    <2> SUFFICES ASSUME D # {} PROVE FALSE
      OBVIOUS
    <2>1. PICK i \in D : \A j \in D : i <= j
      <3>1. D \in SUBSET Nat
        OBVIOUS
      <3> HIDE DEF D
      <3> QED
        BY <3>1, LeastNatural
    <2>2. i \in 1 .. Len(a) /\ i \in Nat
      OBVIOUS
    <2>3. \A j \in 1 .. i - 1 : j \in 1 .. Len(b) /\ a[j] = b[j]
      <3> SUFFICES ASSUME NEW j \in 1 .. i - 1 PROVE j \in 1 .. Len(b) /\ a[j] = b[j]
        OBVIOUS
      <3>1. j \in 1 .. Len(a) /\ ~(i <= j)
        BY <1>1, <2>2
      <3>2. j \notin D
        BY <2>1, <3>1
      <3> QED
        BY <3>1, <3>2
    <2>4. i \in 1 .. Len(b) /\ b[i] <= a[i]
      <3> HIDE DEF D
      <3> QED
        BY <2>2, <2>3, AscendingAgrees
    <2>5. a[i] <= b[i]
      <3> HIDE DEF D
      <3>1. \A j \in 1 .. i - 1 : j \in 1 .. Len(a) => b[j] = a[j]
        BY <2>3
      <3> QED
        BY <2>4, <3>1, AscendingAgrees
    <2>6. a[i] \in Nat /\ b[i] \in Nat
      <3> HIDE DEF D
      <3> QED
        BY <1>1, <2>2, <2>4
    <2>7. a[i] = b[i]
      <3> HIDE DEF D
      <3> QED
        BY <2>4, <2>5, <2>6
    <2> QED
      BY <2>4, <2>7
  <1>3. \A i \in 1 .. Len(a) : i \in 1 .. Len(b) /\ a[i] = b[i]
    BY <1>2
  <1>4. Len(b) <= Len(a)
    <2> SUFFICES ASSUME Len(a) < Len(b) PROVE FALSE
      BY <1>1
    <2>1. Len(b) \in 1 .. Len(b) /\ Len(a) + 1 \in 1 .. Len(b)
      BY <1>1
    <2> PICK i : i = Len(a) + 1
      OBVIOUS
    <2>2. \A j \in 1 .. i - 1 : j \in 1 .. Len(a) => b[j] = a[j]
      BY <1>3
    <2>3. i \in 1 .. Len(a)
      BY <2>1, <2>2, AscendingAgrees
    <2> QED
      BY <1>1, <2>3
  <1>5. Len(a) = Len(b)
    <2> SUFFICES ASSUME Len(b) < Len(a) PROVE FALSE
      BY <1>1, <1>4
    <2>1. Len(a) \in 1 .. Len(a)
      BY <1>1
    <2> QED
      BY <1>1, <1>3, <2>1
  <1> QED
    BY <1>1, <1>3, <1>5, SeqEqual

\* sort_by_cached_key and dedup_by leave each element of a group once, in
\* ascending order.
LEMMA CanonicalAscends ==
    ASSUME NEW N, N \subseteq Nat, NEW s \in Seq(N)
    PROVE  /\ Canonical(s) \in Seq(N) /\ Ascending(Canonical(s))
           /\ ToSet(Canonical(s)) = ToSet(s)
  <1> PICK z : z = Sorted(s)
    OBVIOUS
  <1> PICK n : n = Len(z)
    OBVIOUS
  <1>1. z \in Seq(N) /\ ToSet(z) = ToSet(s) /\ \A i, j \in 1 .. n : i < j => z[i] <= z[j]
    BY SortedSorts
  <1>2. n \in Nat /\ DOMAIN z = 1 .. n /\ \A i \in 1 .. n : z[i] \in Nat
    <2>1. z \in Seq(Nat)
      BY <1>1, SeqMonotonic
    <2> QED
      BY <2>1
  <1> DEFINE P == {i \in 1 .. n : i = 1 \/ z[i - 1] # z[i]}
  <1>3. Canonical(s) = Retained(z, P)
    <2>1. Canonical(s) = Retained(z, {i \in DOMAIN z : i = 1 \/ z[i - 1] # z[i]})
      BY Zenon DEF Canonical
    <2>2. {i \in DOMAIN z : i = 1 \/ z[i - 1] # z[i]} = P
      BY <1>2
    <2> HIDE DEF P
    <2> QED
      BY <2>1, <2>2, Zenon
  <1> PICK r : r = Retained(z, P)
    OBVIOUS
  <1>4. r \in Seq(N)
    <2> HIDE DEF P
    <2> QED
      BY <1>1, RetainedSelects
  <1>5. PICK g : Selects(r, z, P, n, g)
    <2> HIDE DEF P
    <2> QED
      BY <1>1, RetainedSelects
  <1>6. \A k \in 1 .. Len(r) : g[k] \in 1 .. n /\ g[k] \in P /\ r[k] = z[g[k]]
    <2> HIDE DEF P
    <2> QED
      BY <1>5 DEF Selects
  <1>7. \A k, l \in 1 .. Len(r) : k < l => g[k] < g[l]
    <2> HIDE DEF P
    <2> QED
      BY <1>5 DEF Selects
  <1>8. \A i \in P : \E k \in 1 .. Len(r) : g[k] = i
    <2>1. P \subseteq 1 .. n
      OBVIOUS
    <2> HIDE DEF P
    <2> QED
      BY <1>5, <2>1 DEF Selects
  <1>9. ASSUME NEW i \in 1 .. n, NEW j \in P, i < j PROVE z[i] < z[j]
    <2>1. j \in 1 .. n /\ j - 1 \in 1 .. n /\ z[j - 1] # z[j]
      BY <1>2, <1>9
    <2>2. z[j - 1] <= z[j] /\ z[j - 1] \in Nat /\ z[j] \in Nat /\ z[i] \in Nat
      BY <1>1, <1>2, <2>1
    <2>3. z[i] <= z[j - 1]
      <3>1. CASE i = j - 1
        BY <2>2, <3>1
      <3>2. CASE i < j - 1
        BY <1>1, <2>1, <3>2
      <3> QED
        BY <1>2, <1>9, <2>1, <3>1, <3>2
    <2> HIDE DEF P
    <2> QED
      BY <2>1, <2>2, <2>3
  <1>10. Ascending(r)
    <2>1. r \in Seq(Nat)
      BY <1>4, SeqMonotonic
    <2>2. ASSUME NEW k \in 1 .. Len(r), NEW l \in 1 .. Len(r), k < l PROVE r[k] < r[l]
      <3> HIDE DEF P
      <3> QED
        BY <1>6, <1>7, <1>9, <2>2
    <2> QED
      BY <2>1, <2>2 DEF Ascending
  <1>11. ToSet(r) \subseteq ToSet(z)
    <2> HIDE DEF P
    <2>1. DOMAIN r = 1 .. Len(r)
      BY <1>4
    <2>2. ASSUME NEW k \in DOMAIN r PROVE r[k] \in ToSet(z)
      <3>1. g[k] \in DOMAIN z /\ r[k] = z[g[k]]
        BY <1>2, <1>6, <2>1, <2>2
      <3> QED
        BY <3>1, Zenon DEF ToSet
    <2>3. \A x \in ToSet(r) : \E k \in DOMAIN r : x = r[k]
      BY Zenon DEF ToSet
    <2> QED
      BY <2>2, <2>3, Zenon
  <1>12. ToSet(z) \subseteq ToSet(r)
    <2> SUFFICES ASSUME NEW x \in ToSet(z) PROVE x \in ToSet(r)
      OBVIOUS
    <2>0. PICK i \in 1 .. n : x = z[i]
      BY <1>2, ToSetMember
    <2> DEFINE E == {j \in 1 .. n : z[j] = z[i]}
    <2>1. PICK j \in E : \A l \in E : j <= l
      <3>1. E \in SUBSET Nat /\ E # {}
        OBVIOUS
      <3> HIDE DEF E
      <3> QED
        BY <3>1, LeastNatural
    <2>2. j \in P
      <3> SUFFICES ASSUME j # 1, z[j - 1] = z[j] PROVE FALSE
        OBVIOUS
      <3>1. j - 1 \in E
        BY <1>2
      <3> QED
        BY <2>1, <3>1
    <2>3. PICK k \in 1 .. Len(r) : g[k] = j
      <3> HIDE DEF P
      <3> QED
        BY <1>8, <2>2
    <2>4. r[k] = z[j] /\ k \in DOMAIN r
      <3> HIDE DEF P, E
      <3> QED
        BY <1>4, <1>6, <2>3
    <2>5. x = r[k]
      <3>1. z[j] = z[i]
        OBVIOUS
      <3> QED
        BY <2>0, <2>4, <3>1
    <2> QED
      BY <2>4, <2>5, ToSetMember, Zenon
  <1>13. Canonical(s) = r
    <2> HIDE DEF P
    <2> QED
      BY <1>3
  <1>14. ToSet(r) = ToSet(s)
    BY <1>1, <1>11, <1>12
  <1> QED
    BY <1>4, <1>10, <1>13, <1>14, Zenon

-------------------------------------------------------------------------------
(* Names of methods.                                                         *)

\* A joined name is a sequence of words.
LEMMA SnakeType ==
    ASSUME NEW group \in Seq(DOMAIN Ident)
    PROVE  Snake(group) \in Seq(STRING)
  <1> DEFINE L == Len(group)
             Y == Seq(STRING)
             names == Sorted([k \in DOMAIN group |-> Ident[group[k]]])
             step(k, t) == t \o Words[names[k]]
             F == [k \in 1 .. L |-> [t \in Y |-> step(k, t)]]
             joined[k \in 0 .. L] == IF k = 0 THEN <<>> ELSE joined[k - 1] \o Words[names[k]]
  <1>1. L \in Nat /\ \A k \in 1 .. L : k - 1 \in 0 .. L /\ k # 0 /\ k \in 0 .. L
    OBVIOUS
  <1>2. \A k \in 1 .. L : Words[names[k]] \in Y
    <2> PICK u : u = [k \in DOMAIN group |-> Ident[group[k]]]
      OBVIOUS
    <2>1. u \in Seq(DOMAIN Words) /\ Len(u) = L
      <3>1. DOMAIN group = 1 .. L /\ \A k \in 1 .. L : Ident[group[k]] \in DOMAIN Words
        BY WordsAssumption
      <3> HIDE DEF L
      <3>2. u \in [1 .. L -> DOMAIN Words]
        BY <3>1
      <3> QED
        BY <1>1, <3>2
    <2>2. Sorted(u) \in Seq(DOMAIN Words) /\ Len(Sorted(u)) = L
      <3> HIDE DEF L
      <3> QED
        BY <2>1, SortedSorts, WordsAssumption
    <2>3. names = Sorted(u)
      OBVIOUS
    <2> HIDE DEF L, names
    <2> QED
      BY <2>2, <2>3, WordsAssumption
  <1>3. Snake(group) = joined[L]
    BY DEF Snake
  <1> HIDE DEF L, names
  <1>4. ASSUME NEW k \in 1 .. L, NEW t \in Y PROVE step(k, t) \in Y
    BY <1>2, ConcatProperties
  <1>5. PICK f : IsRun(f, L, Y, <<>>, F)
    <2>1. <<>> \in Y /\ F \in Steps(L, Y)
      BY <1>4 DEF Steps
    <2> HIDE DEF F, Y, joined
    <2> QED
      BY <1>1, <2>1, Recursion
  <1>6. f \in [0 .. L -> Y] /\ f[0] = <<>> /\ \A k \in 1 .. L : f[k] = step(k, f[k - 1])
    <2>1. f \in [0 .. L -> Y] /\ f[0] = <<>> /\ \A k \in 1 .. L : f[k] = F[k][f[k - 1]]
      <3> HIDE DEF F, Y, joined
      <3> QED
        BY <1>5 DEF IsRun
    <2>2. \A k \in 1 .. L, t \in Y : F[k][t] = step(k, t)
      <3> HIDE DEF step
      <3> QED
        OBVIOUS
    <2> HIDE DEF F, Y, joined, step
    <2> QED
      BY <1>1, <2>1, <2>2
  <1>7. joined = [k \in 0 .. L |-> IF k = 0 THEN <<>> ELSE step(k, joined[k - 1])]
    <2>1. ASSUME NEW k \in 0 .. L
          PROVE  f[k] = IF k = 0 THEN <<>> ELSE step(k, f[k - 1])
      <3> HIDE DEF F, Y, joined, step
      <3> QED
        BY <1>1, <1>6
    <2>2. f = [k \in 0 .. L |-> f[k]]
      BY <1>6
    <2>3. f = [k \in 0 .. L |-> IF k = 0 THEN <<>> ELSE step(k, f[k - 1])]
      BY <2>1, <2>2, Zenon
    <2> QED
      BY <2>3
  <1> HIDE DEF joined, F, step
  <1>8. /\ DOMAIN joined = 0 .. L
        /\ joined[0] = <<>>
        /\ \A k \in 1 .. L : joined[k] = step(k, joined[k - 1])
    BY <1>1, <1>7
  <1>9. joined \in [0 .. L -> Y]
    <2>1. joined[0] \in Y
      BY <1>8
    <2>2. \A k \in 1 .. L : joined[k - 1] \in Y => joined[k] \in Y
      BY <1>4, <1>8
    <2>3. joined = [k \in 0 .. L |-> joined[k]]
      BY <1>7, <1>8
    <2> HIDE DEF Y
    <2> QED
      BY <1>1, <1>8, <2>1, <2>2, <2>3, RunType
  <1> QED
    BY <1>1, <1>3, <1>9

\* Where the parts of a name are: front, the interface's words and back, then
\* rest words of a namespace.
LaysOut(w, front, S, back, rest) ==
    /\ rest \in {0, 2}
    /\ Len(w) = Len(front) + Len(S) + Len(back) + rest
    /\ \A i \in 1 .. Len(front) : w[i] = front[i]
    /\ \A i \in 1 .. Len(S) : w[Len(front) + i] = S[i]
    /\ \A i \in 1 .. Len(back) : w[Len(front) + Len(S) + i] = back[i]

\* A joined name lays out its parts.
LEMMA JoinLaysOut ==
    ASSUME NEW U, NEW front \in Seq(U), NEW S \in Seq(U), NEW back \in Seq(U), NEW x \in Seq(U),
           Len(x) \in {0, 2}
    PROVE  LaysOut(front \o S \o back \o x, front, S, back, Len(x))
  <1> DEFINE a == front \o S
             b == a \o back
             c == b \o x
  <1> PICK l, n, m, k : l = Len(front) /\ n = Len(S) /\ m = Len(back) /\ k = Len(x)
    OBVIOUS
  <1>0. l \in Nat /\ n \in Nat /\ m \in Nat /\ k \in {0, 2}
    OBVIOUS
  <1>1. /\ a \in Seq(U) /\ Len(a) = l + n
        /\ \A i \in 1 .. Len(a) : a[i] = IF i <= l THEN front[i] ELSE S[i - l]
    BY ConcatProperties
  <1> HIDE DEF a
  <1>2. /\ b \in Seq(U) /\ Len(b) = l + n + m
        /\ \A i \in 1 .. Len(b) : b[i] = IF i <= l + n THEN a[i] ELSE back[i - (l + n)]
    <2>1. /\ b \in Seq(U) /\ Len(b) = Len(a) + Len(back)
          /\ \A i \in 1 .. Len(a) + Len(back) :
                b[i] = IF i <= Len(a) THEN a[i] ELSE back[i - Len(a)]
      <3>1. a \in Seq(U)
        BY <1>1
      <3> QED
        BY <3>1, ConcatProperties
    <2> HIDE DEF b
    <2> QED
      BY <1>1, <2>1
  <1> HIDE DEF b
  <1>3. /\ Len(c) = l + n + m + k
        /\ \A i \in 1 .. Len(c) : c[i] = IF i <= l + n + m THEN b[i] ELSE x[i - (l + n + m)]
    <2>1. /\ Len(c) = Len(b) + Len(x)
          /\ \A i \in 1 .. Len(b) + Len(x) :
                c[i] = IF i <= Len(b) THEN b[i] ELSE x[i - Len(b)]
      <3>1. b \in Seq(U)
        BY <1>2
      <3> QED
        BY <3>1, ConcatProperties
    <2> HIDE DEF c
    <2> QED
      BY <1>2, <2>1
  <1> HIDE DEF c
  <1>4. \A i \in 1 .. l : c[i] = front[i]
    BY <1>0, <1>1, <1>2, <1>3
  <1>5. ASSUME NEW i \in 1 .. n PROVE c[l + i] = S[i]
    <2> PICK j : j = l + i
      OBVIOUS
    <2>1. /\ j \in 1 .. l + n + m + k /\ j \in 1 .. l + n + m /\ j \in 1 .. l + n
          /\ j <= l + n + m /\ j <= l + n /\ ~(j <= l) /\ j - l = i
      BY <1>0
    <2>2. c[j] = b[j] /\ b[j] = a[j]
      BY <1>2, <1>3, <2>1
    <2>3. a[j] = S[j - l]
      BY <1>1, <2>1
    <2> QED
      BY <2>1, <2>2, <2>3
  <1>6. ASSUME NEW i \in 1 .. m PROVE c[l + n + i] = back[i]
    <2> PICK j : j = l + n + i
      OBVIOUS
    <2>1. /\ j \in 1 .. l + n + m + k /\ j \in 1 .. l + n + m
          /\ j <= l + n + m /\ ~(j <= l + n) /\ j - (l + n) = i
      BY <1>0
    <2>2. c[j] = b[j]
      BY <1>3, <2>1
    <2>3. b[j] = back[j - (l + n)]
      BY <1>2, <2>1
    <2> QED
      BY <2>1, <2>2, <2>3
  <1>7. LaysOut(c, front, S, back, k)
    BY <1>0, <1>3, <1>4, <1>5, <1>6 DEF LaysOut
  <1> QED
    BY <1>7 DEF a, b, c

\* A word is repeated from each place to the next, n times from place a on.
Repeats(w, a, n) == \A i \in 1 .. n : w[a + i] = w[a + i - 1]

\* Then it is the same at both ends.
LEMMA Shifted ==
    ASSUME NEW w, NEW a \in Nat, NEW n \in Nat, Repeats(w, a, n)
    PROVE  w[a + n] = w[a]
  <1> DEFINE T == {k \in 0 .. n : w[a + k] = w[a]}
  <1>1. 0 \in T
    OBVIOUS
  <1>2. ASSUME NEW k \in 1 .. n, k - 1 \in T PROVE k \in T
    <2>1. a + (k - 1) = a + k - 1 /\ k \in 0 .. n
      OBVIOUS
    <2>2. w[a + (k - 1)] = w[a]
      BY <1>2
    <2>3. w[a + k] = w[a]
      BY <2>1, <2>2 DEF Repeats
    <2> QED
      BY <2>1, <2>3
  <1>3. 0 .. n \subseteq T
    <2>1. \A k \in 1 .. n : k - 1 \in T => k \in T
      BY <1>2
    <2> HIDE DEF T
    <2> QED
      BY <1>1, <2>1, StepInduction
  <1> QED
    BY <1>3

\* Names that begin differently are different.
LEMMA FirstWordsDiffer ==
    ASSUME NEW w, NEW f, NEW S, NEW b, NEW x, NEW g, NEW c, NEW y,
           LaysOut(w, f, S, b, x), LaysOut(w, g, S, c, y),
           Len(f) >= 1, Len(g) >= 1, Len(f) \in Nat, Len(g) \in Nat
    PROVE  f[1] = g[1]
  BY DEF LaysOut

\* Names around the same words have lengths that differ by an even number.
LEMMA LengthsDiffer ==
    ASSUME NEW w, NEW f, NEW S, NEW b, NEW x, NEW g, NEW c, NEW y,
           LaysOut(w, f, S, b, x), LaysOut(w, g, S, c, y), Len(S) \in Nat,
           Len(f) + Len(b) \in Nat, Len(g) + Len(c) \in Nat
    PROVE  Len(f) + Len(b) + x = Len(g) + Len(c) + y
  BY DEF LaysOut

\* A word before the interface's cannot stand for another one after them.
LEMMA WordsShift ==
    ASSUME NEW w, NEW f, NEW S, NEW b, NEW x, NEW g, NEW c, NEW y,
           LaysOut(w, f, S, b, x), LaysOut(w, g, S, c, y), Len(S) \in Nat,
           Len(g) \in Nat \ {0}, Len(f) = Len(g) + 1, Len(c) = 1
    PROVE  f[Len(f)] = c[1]
  <1> PICK n, l : n = Len(S) /\ l = Len(g)
    OBVIOUS
  <1>1. n \in Nat /\ l \in Nat
    OBVIOUS
  <1>2. w[l + 1] = f[l + 1]
    BY <1>1 DEF LaysOut
  <1>3. w[l + n + 1] = c[1]
    BY <1>1 DEF LaysOut
  <1>4. ASSUME NEW i \in 1 .. n PROVE w[l + 1 + i] = w[l + 1 + i - 1]
    <2>1. w[l + 1 + i] = S[i] /\ w[l + i] = S[i]
      BY <1>1 DEF LaysOut
    <2>2. l + 1 + i - 1 = l + i
      BY <1>1
    <2> QED
      BY <2>1, <2>2
  <1>5. w[l + 1 + n] = w[l + 1]
    <2> PICK p : p = l + 1
      OBVIOUS
    <2>1. p \in Nat /\ \A i \in 1 .. n : w[p + i] = w[p + i - 1]
      BY <1>1, <1>4
    <2>2. w[p + n] = w[p]
      <3>1. Repeats(w, p, n)
        BY <2>1, Zenon DEF Repeats
      <3> QED
        BY <1>1, <2>1, <3>1, Shifted, ZenonT(40)
    <2> QED
      BY <2>2
  <1>6. l + 1 + n = l + n + 1
    BY <1>1
  <1>7. w[l + 1 + n] = c[1]
    BY <1>3, <1>6
  <1>8. Len(f) = l + 1
    OBVIOUS
  <1> QED
    BY <1>2, <1>5, <1>7, <1>8

OperationNames ==
    {"Owned", "TryOwned", "Shared", "TryShared", "TryExclusive", "CloneValue", "TryCloneValue",
     "DynShared", "TryDynShared", "UncheckedOwned", "UncheckedShared", "UncheckedExclusive"}

\* The words of each operation.
HasWords(o, front, back) == Operations[o].front = front /\ Operations[o].back = back

\* As the table has them.
LEMMA OperationWords ==
    /\ HasWords("Owned", <<"resolve">>, <<>>)
    /\ HasWords("TryOwned", <<"try", "resolve">>, <<>>)
    /\ HasWords("Shared", <<"resolve">>, <<"ref">>)
    /\ HasWords("TryShared", <<"try", "resolve">>, <<"ref">>)
    /\ HasWords("TryExclusive", <<"try", "resolve">>, <<"ref", "mut">>)
    /\ HasWords("CloneValue", <<"resolve", "clone">>, <<>>)
    /\ HasWords("TryCloneValue", <<"try", "resolve", "clone">>, <<>>)
    /\ HasWords("DynShared", <<"resolve">>, <<"dyn", "ref">>)
    /\ HasWords("TryDynShared", <<"try", "resolve">>, <<"dyn", "ref">>)
    /\ HasWords("UncheckedOwned", <<"resolve">>, <<"unchecked">>)
    /\ HasWords("UncheckedShared", <<"resolve">>, <<"ref", "unchecked">>)
    /\ HasWords("UncheckedExclusive", <<"resolve">>, <<"ref", "mut", "unchecked">>)
  BY DEF Operations, Around, HasWords

\* The words of the names of a registration's methods.
WordsOf(r) ==
    {"resolve", "try", "ref", "mut", "clone", "dyn", "unchecked", "in", "default", r.space}
        \cup STRING

\* Short sequences of words.
LEMMA ShortNames ==
    ASSUME NEW T
    PROVE  /\ <<>> \in Seq(T)
           /\ \A a \in T : <<a>> \in Seq(T)
           /\ \A a, b \in T : <<a, b>> \in Seq(T)
           /\ \A a, b, c \in T : <<a, b, c>> \in Seq(T)
  OBVIOUS

\* The front and back words of an operation are words.
LEMMA OperationTypes ==
    ASSUME NEW r, NEW o \in OperationNames
    PROVE  Operations[o].front \in Seq(WordsOf(r)) /\ Operations[o].back \in Seq(WordsOf(r))
  <1> DEFINE T == WordsOf(r)
  <1>2. /\ "resolve" \in T /\ "try" \in T /\ "ref" \in T /\ "mut" \in T
        /\ "clone" \in T /\ "dyn" \in T /\ "unchecked" \in T
    BY Zenon DEF WordsOf
  <1> HIDE DEF T
  <1> DEFINE Typed(p) == Operations[p].front \in Seq(T) /\ Operations[p].back \in Seq(T)
  <1>1. ASSUME NEW p, NEW f \in Seq(T), NEW b \in Seq(T), HasWords(p, f, b) PROVE Typed(p)
    BY <1>1 DEF HasWords
  <1> HIDE DEF Typed
  <1>3. /\ <<>> \in Seq(T) /\ <<"resolve">> \in Seq(T) /\ <<"try", "resolve">> \in Seq(T)
        /\ <<"resolve", "clone">> \in Seq(T) /\ <<"try", "resolve", "clone">> \in Seq(T)
    BY <1>2, ShortNames
  <1>4. /\ <<"ref">> \in Seq(T) /\ <<"ref", "mut">> \in Seq(T) /\ <<"dyn", "ref">> \in Seq(T)
        /\ <<"unchecked">> \in Seq(T) /\ <<"ref", "unchecked">> \in Seq(T)
        /\ <<"ref", "mut", "unchecked">> \in Seq(T)
    BY <1>2, ShortNames
  <1>5. Typed("Owned") /\ Typed("TryOwned") /\ Typed("CloneValue") /\ Typed("TryCloneValue")
    BY <1>1, <1>3, OperationWords, Zenon
  <1>6. /\ Typed("Shared") /\ Typed("TryShared") /\ Typed("TryExclusive")
        /\ Typed("DynShared") /\ Typed("TryDynShared")
    BY <1>1, <1>3, <1>4, OperationWords, Zenon
  <1>7. Typed("UncheckedOwned") /\ Typed("UncheckedShared") /\ Typed("UncheckedExclusive")
    BY <1>1, <1>3, <1>4, OperationWords, Zenon
  <1>8. Typed(o)
    BY <1>5, <1>6, <1>7 DEF OperationNames
  <1> QED
    BY <1>8 DEF Typed, T

\* A method's name lays out the words of its operation around the interface's.
LEMMA NameLaysOut ==
    ASSUME NEW r, r.group \in Seq(DOMAIN Ident), NEW o \in OperationNames,
           NEW x \in SpaceSuffixes(r)
    PROVE  LaysOut(BaseName(r, o) \o x, Operations[o].front, Snake(r.group),
                   Operations[o].back, Len(x))
  <1> DEFINE U == WordsOf(r)
  <1>1. x \in Seq(U) /\ Len(x) \in {0, 2}
    <2>1. x \in {<<>>, <<"in", "default">>, <<"in", r.space>>}
      BY DEF SpaceSuffixes
    <2>2. r.space \in U /\ "in" \in U /\ "default" \in U
      BY Zenon DEF WordsOf
    <2> HIDE DEF U
    <2>3. CASE x = <<>>
      BY <2>3
    <2>4. CASE x = <<"in", "default">>
      BY <2>2, <2>4
    <2>5. CASE x = <<"in", r.space>>
      BY <2>2, <2>5
    <2> QED
      BY <2>1, <2>3, <2>4, <2>5
  <1>2. Seq(STRING) \subseteq Seq(U)
    BY SeqMonotonic DEF WordsOf
  <1> HIDE DEF U
  <1> PICK f, b, S : f = Operations[o].front /\ b = Operations[o].back /\ S = Snake(r.group)
    OBVIOUS
  <1>3. f \in Seq(U) /\ b \in Seq(U) /\ S \in Seq(U)
    BY <1>2, SnakeType, OperationTypes DEF U
  <1>4. LaysOut(f \o S \o b \o x, f, S, b, Len(x))
    BY <1>1, <1>3, JoinLaysOut
  <1> QED
    BY <1>4, Zenon DEF BaseName

\* The names of two operations of one registration that an earlier pattern must
\* not catch.
Distinct(r, o, p) ==
    \A x, y \in SpaceSuffixes(r) : BaseName(r, o) \o x # BaseName(r, p) \o y

\* Words around an interface's that make different names: the first one, the
\* parity of their number, the last ones, or one before the interface's that
\* would have to be one after them.
Apart(f, b, g, c) ==
    /\ Len(f) \in Nat \ {0} /\ Len(g) \in Nat \ {0} /\ Len(b) \in Nat /\ Len(c) \in Nat
    /\ \/ f[1] # g[1]
       \/ (Len(f) + Len(b) + Len(g) + Len(c)) % 2 = 1
       \/ Len(f) = Len(g) + 1 /\ Len(c) = 1 /\ f[Len(f)] # c[1]
       \/ Len(g) = Len(f) + 1 /\ Len(b) = 1 /\ g[Len(g)] # b[1]
       \/ Len(f) = Len(g) /\ Len(b) = 1 /\ Len(c) = 1 /\ b[1] # c[1]

\* No name has two such layouts.
LEMMA LayoutsDistinct ==
    ASSUME NEW w, NEW f, NEW b, NEW g, NEW c, NEW S, NEW k, NEW m, Len(S) \in Nat,
           LaysOut(w, f, S, b, k), LaysOut(w, g, S, c, m), Apart(f, b, g, c)
    PROVE  FALSE
  <1>3. Len(f) \in Nat \ {0} /\ Len(g) \in Nat \ {0} /\ Len(b) \in Nat /\ Len(c) \in Nat
    BY DEF Apart
  <1>4. f[1] = g[1]
    BY <1>3, FirstWordsDiffer
  <1>5. (Len(f) + Len(b) + Len(g) + Len(c)) % 2 # 1
    <2>1. Len(f) + Len(b) + k = Len(g) + Len(c) + m
      BY <1>3, LengthsDiffer
    <2>2. k \in {0, 2} /\ m \in {0, 2}
      BY DEF LaysOut
    <2> PICK i, j : i = Len(f) + Len(b) /\ j = Len(g) + Len(c)
      OBVIOUS
    <2>3. i \in Nat /\ j \in Nat /\ i + k = j + m
      BY <1>3, <2>1
    <2>4. (i + j) % 2 # 1
      BY <2>2, <2>3
    <2>5. Len(f) + Len(b) + Len(g) + Len(c) = i + j
      BY <1>3
    <2> QED
      BY <2>4, <2>5
  <1>6. ~(Len(f) = Len(g) + 1 /\ Len(c) = 1 /\ f[Len(f)] # c[1])
    BY <1>3, WordsShift
  <1>7. ~(Len(g) = Len(f) + 1 /\ Len(b) = 1 /\ g[Len(g)] # b[1])
    BY <1>3, WordsShift
  <1>8. ~(Len(f) = Len(g) /\ Len(b) = 1 /\ Len(c) = 1 /\ b[1] # c[1])
    <2> SUFFICES ASSUME Len(f) = Len(g), Len(b) = 1, Len(c) = 1 PROVE b[1] = c[1]
      OBVIOUS
    <2>1. w[Len(f) + Len(S) + 1] = b[1] /\ w[Len(g) + Len(S) + 1] = c[1]
      BY DEF LaysOut
    <2> QED
      BY <2>1
  <1> QED
    BY <1>4, <1>5, <1>6, <1>7, <1>8 DEF Apart

\* Operations whose words are apart have different names.
LEMMA NamesDistinct ==
    ASSUME NEW r, r.group \in Seq(DOMAIN Ident),
           NEW o \in OperationNames, NEW p \in OperationNames,
           Apart(Operations[o].front, Operations[o].back, Operations[p].front, Operations[p].back)
    PROVE  Distinct(r, o, p)
  <1>1. Len(Snake(r.group)) \in Nat
    BY SnakeType, LenProperties
  <1>2. ASSUME NEW x \in SpaceSuffixes(r), NEW y \in SpaceSuffixes(r)
        PROVE  BaseName(r, o) \o x # BaseName(r, p) \o y
    <2>1. LaysOut(BaseName(r, o) \o x, Operations[o].front, Snake(r.group),
                  Operations[o].back, Len(x))
      BY NameLaysOut
    <2>2. LaysOut(BaseName(r, p) \o y, Operations[p].front, Snake(r.group),
                  Operations[p].back, Len(y))
      BY NameLaysOut
    <2> QED
      BY <1>1, <2>1, <2>2, LayoutsDistinct, Zenon
  <1> QED
    BY <1>2, Zenon DEF Distinct

\* A pattern is fitted by the names with its words in the registration's
\* namespace, and by their aliases in the default one.
LEMMA FitsSuffix ==
    ASSUME NEW r, r.group \in Seq(DOMAIN Ident), NEW p \in OperationNames, NEW name
    PROVE  Fits(r, p, name) <=> \E y \in SpaceSuffixes(r) : name = BaseName(r, p) \o y
  <1> DEFINE B == BaseName(r, p)
             U == WordsOf(r)
  <1>1. B \in Seq(U)
    <2>1. Seq(STRING) \subseteq Seq(U)
      BY SeqMonotonic DEF WordsOf
    <2> HIDE DEF U
    <2> DEFINE f == Operations[p].front
               b == Operations[p].back
               S == Snake(r.group)
    <2>2. f \in Seq(U) /\ b \in Seq(U) /\ S \in Seq(U)
      BY <2>1, SnakeType, OperationTypes DEF U
    <2>3. B = (f \o S) \o b
      BY Zenon DEF BaseName
    <2> HIDE DEF f, b, S, B
    <2>4. f \o S \in Seq(U)
      BY <2>2, ConcatProperties
    <2>5. (f \o S) \o b \in Seq(U)
      BY <2>2, <2>4, ConcatProperties
    <2> QED
      BY <2>3, <2>5
  <1>2. B \o <<>> = B
    <2> HIDE DEF B, U
    <2> QED
      BY <1>1, ConcatEmptySeq
  <1>3. Primary(r, p) = B \o (IF r.space = "default" THEN <<>> ELSE <<"in", r.space>>)
    BY Zenon DEF Primary
  <1> HIDE DEF B, U
  <1>4. CASE r.space = "default"
    <2>1. Primary(r, p) = B /\ SpaceSuffixes(r) = {<<>>, <<"in", "default">>}
      BY <1>2, <1>3, <1>4, Zenon DEF SpaceSuffixes
    <2>2. Fits(r, p, name) <=> (name = B \/ name = B \o <<"in", "default">>)
      BY <1>4, <2>1, Zenon DEF Fits
    <2>3. (\E y \in SpaceSuffixes(r) : name = B \o y)
            <=> (name = B \o <<>> \/ name = B \o <<"in", "default">>)
      BY <2>1, Zenon
    <2> QED
      BY <1>2, <2>2, <2>3, Zenon DEF B
  <1>5. CASE r.space # "default"
    <2>1. Primary(r, p) = B \o <<"in", r.space>> /\ SpaceSuffixes(r) = {<<"in", r.space>>}
      BY <1>3, <1>5, Zenon DEF SpaceSuffixes
    <2>2. Fits(r, p, name) <=> name = B \o <<"in", r.space>>
      BY <1>5, <2>1, Zenon DEF Fits
    <2>3. (\E y \in SpaceSuffixes(r) : name = B \o y) <=> name = B \o <<"in", r.space>>
      BY <2>1, Zenon
    <2> QED
      BY <2>2, <2>3, Zenon DEF B
  <1> QED
    BY <1>4, <1>5

\* The words of an operation keep its names apart from those of another.
Separated(o, p) ==
    Apart(Operations[o].front, Operations[o].back, Operations[p].front, Operations[p].back)

\* From those of every pattern that scopegen::operation tries before its own.
LEMMA OfferedSeparated ==
    /\ Separated("TryOwned", "Owned")
    /\ Separated("CloneValue", "Owned")
    /\ Separated("CloneValue", "TryOwned")
    /\ Separated("CloneValue", "Shared")
    /\ Separated("CloneValue", "TryShared")
    /\ Separated("CloneValue", "TryExclusive")
    /\ Separated("TryCloneValue", "Owned")
    /\ Separated("TryCloneValue", "TryOwned")
    /\ Separated("TryCloneValue", "Shared")
    /\ Separated("TryCloneValue", "TryShared")
    /\ Separated("TryCloneValue", "TryExclusive")
    /\ Separated("TryCloneValue", "CloneValue")
    /\ Separated("UncheckedOwned", "Owned")
    /\ Separated("UncheckedOwned", "TryOwned")
    /\ Separated("UncheckedOwned", "Shared")
    /\ Separated("UncheckedOwned", "TryShared")
    /\ Separated("UncheckedOwned", "TryExclusive")
    /\ Separated("UncheckedOwned", "CloneValue")
    /\ Separated("UncheckedOwned", "TryCloneValue")
    /\ Separated("UncheckedOwned", "DynShared")
    /\ Separated("UncheckedOwned", "TryDynShared")
  <1>0. ASSUME NEW o, NEW p, NEW f, NEW b, NEW g, NEW c,
               HasWords(o, f, b), HasWords(p, g, c), Apart(f, b, g, c)
        PROVE  Separated(o, p)
    BY <1>0 DEF HasWords, Separated
  <1>1. Separated("TryOwned", "Owned")
    <2>1. Apart(<<"try", "resolve">>, <<>>, <<"resolve">>, <<>>)
      BY DEF Apart
    <2> QED
      BY <1>0, <2>1, OperationWords, Zenon
  <1>2. Separated("CloneValue", "Owned")
    <2>1. Apart(<<"resolve", "clone">>, <<>>, <<"resolve">>, <<>>)
      BY DEF Apart
    <2> QED
      BY <1>0, <2>1, OperationWords, Zenon
  <1>3. Separated("CloneValue", "TryOwned")
    <2>1. Apart(<<"resolve", "clone">>, <<>>, <<"try", "resolve">>, <<>>)
      BY DEF Apart
    <2> QED
      BY <1>0, <2>1, OperationWords, Zenon
  <1>4. Separated("CloneValue", "Shared")
    <2>1. Apart(<<"resolve", "clone">>, <<>>, <<"resolve">>, <<"ref">>)
      BY DEF Apart
    <2> QED
      BY <1>0, <2>1, OperationWords, Zenon
  <1>5. Separated("CloneValue", "TryShared")
    <2>1. Apart(<<"resolve", "clone">>, <<>>, <<"try", "resolve">>, <<"ref">>)
      BY DEF Apart
    <2> QED
      BY <1>0, <2>1, OperationWords, Zenon
  <1>6. Separated("CloneValue", "TryExclusive")
    <2>1. Apart(<<"resolve", "clone">>, <<>>, <<"try", "resolve">>, <<"ref", "mut">>)
      BY DEF Apart
    <2> QED
      BY <1>0, <2>1, OperationWords, Zenon
  <1>7. Separated("TryCloneValue", "Owned")
    <2>1. Apart(<<"try", "resolve", "clone">>, <<>>, <<"resolve">>, <<>>)
      BY DEF Apart
    <2> QED
      BY <1>0, <2>1, OperationWords, Zenon
  <1>8. Separated("TryCloneValue", "TryOwned")
    <2>1. Apart(<<"try", "resolve", "clone">>, <<>>, <<"try", "resolve">>, <<>>)
      BY DEF Apart
    <2> QED
      BY <1>0, <2>1, OperationWords, Zenon
  <1>9. Separated("TryCloneValue", "Shared")
    <2>1. Apart(<<"try", "resolve", "clone">>, <<>>, <<"resolve">>, <<"ref">>)
      BY DEF Apart
    <2> QED
      BY <1>0, <2>1, OperationWords, Zenon
  <1>10. Separated("TryCloneValue", "TryShared")
    <2>1. Apart(<<"try", "resolve", "clone">>, <<>>, <<"try", "resolve">>, <<"ref">>)
      BY DEF Apart
    <2> QED
      BY <1>0, <2>1, OperationWords, Zenon
  <1>11. Separated("TryCloneValue", "TryExclusive")
    <2>1. Apart(<<"try", "resolve", "clone">>, <<>>, <<"try", "resolve">>, <<"ref", "mut">>)
      BY DEF Apart
    <2> QED
      BY <1>0, <2>1, OperationWords, Zenon
  <1>12. Separated("TryCloneValue", "CloneValue")
    <2>1. Apart(<<"try", "resolve", "clone">>, <<>>, <<"resolve", "clone">>, <<>>)
      BY DEF Apart
    <2> QED
      BY <1>0, <2>1, OperationWords, Zenon
  <1>13. Separated("UncheckedOwned", "Owned")
    <2>1. Apart(<<"resolve">>, <<"unchecked">>, <<"resolve">>, <<>>)
      BY DEF Apart
    <2> QED
      BY <1>0, <2>1, OperationWords, Zenon
  <1>14. Separated("UncheckedOwned", "TryOwned")
    <2>1. Apart(<<"resolve">>, <<"unchecked">>, <<"try", "resolve">>, <<>>)
      BY DEF Apart
    <2> QED
      BY <1>0, <2>1, OperationWords, Zenon
  <1>15. Separated("UncheckedOwned", "Shared")
    <2>1. Apart(<<"resolve">>, <<"unchecked">>, <<"resolve">>, <<"ref">>)
      BY DEF Apart
    <2> QED
      BY <1>0, <2>1, OperationWords, Zenon
  <1>16. Separated("UncheckedOwned", "TryShared")
    <2>1. Apart(<<"resolve">>, <<"unchecked">>, <<"try", "resolve">>, <<"ref">>)
      BY DEF Apart
    <2> QED
      BY <1>0, <2>1, OperationWords, Zenon
  <1>17. Separated("UncheckedOwned", "TryExclusive")
    <2>1. Apart(<<"resolve">>, <<"unchecked">>, <<"try", "resolve">>, <<"ref", "mut">>)
      BY DEF Apart
    <2> QED
      BY <1>0, <2>1, OperationWords, Zenon
  <1>18. Separated("UncheckedOwned", "CloneValue")
    <2>1. Apart(<<"resolve">>, <<"unchecked">>, <<"resolve", "clone">>, <<>>)
      BY DEF Apart
    <2> QED
      BY <1>0, <2>1, OperationWords, Zenon
  <1>19. Separated("UncheckedOwned", "TryCloneValue")
    <2>1. Apart(<<"resolve">>, <<"unchecked">>, <<"try", "resolve", "clone">>, <<>>)
      BY DEF Apart
    <2> QED
      BY <1>0, <2>1, OperationWords, Zenon
  <1>20. Separated("UncheckedOwned", "DynShared")
    <2>1. Apart(<<"resolve">>, <<"unchecked">>, <<"resolve">>, <<"dyn", "ref">>)
      BY DEF Apart
    <2> QED
      BY <1>0, <2>1, OperationWords, Zenon
  <1>21. Separated("UncheckedOwned", "TryDynShared")
    <2>1. Apart(<<"resolve">>, <<"unchecked">>, <<"try", "resolve">>, <<"dyn", "ref">>)
      BY DEF Apart
    <2> QED
      BY <1>0, <2>1, OperationWords, Zenon
  <1> QED
    BY <1>1, <1>2, <1>3, <1>4, <1>5, <1>6, <1>7, <1>8, <1>9, <1>10, <1>11,
       <1>12, <1>13, <1>14, <1>15, <1>16, <1>17, <1>18, <1>19, <1>20, <1>21

\* The first pattern that fits decides.
LEMMA FirstFitDecides ==
    ASSUME NEW r, NEW name, NEW k \in 1 .. 12, Fits(r, Patterns[k], name),
           \A j \in 1 .. 12 : j < k => ~Fits(r, Patterns[j], name)
    PROVE  Operation(r, name) = Patterns[k]
  <1> DEFINE fitting == {i \in 1 .. Len(Patterns) : Fits(r, Patterns[i], name)}
  <1>1. Len(Patterns) = 12
    BY DEF Patterns
  <1>2. k \in fitting /\ \A j \in fitting : j \in 1 .. 12 /\ k <= j
    BY <1>1
  <1>3. fitting \subseteq Nat
    OBVIOUS
  <1>4. Operation(r, name) =
            IF fitting = {} THEN "none"
            ELSE Patterns[CHOOSE i \in fitting : \A j \in fitting : i <= j]
    BY DEF Operation
  <1> HIDE DEF fitting
  <1> DEFINE c == CHOOSE i \in fitting : \A j \in fitting : i <= j
  <1>5. c \in fitting /\ \A j \in fitting : c <= j
    BY <1>2
  <1> HIDE DEF c
  <1>6. c = k
    BY <1>2, <1>3, <1>5
  <1>7. Operation(r, name) = Patterns[c]
    BY <1>2, <1>4 DEF c
  <1> QED
    BY <1>6, <1>7

\* The place of each offered operation among the patterns.
LEMMA PatternPlaces ==
    /\ Patterns[1] = "Owned" /\ Patterns[2] = "TryOwned" /\ Patterns[3] = "Shared"
    /\ Patterns[4] = "TryShared" /\ Patterns[5] = "TryExclusive" /\ Patterns[6] = "CloneValue"
    /\ Patterns[7] = "TryCloneValue" /\ Patterns[8] = "DynShared"
    /\ Patterns[9] = "TryDynShared" /\ Patterns[10] = "UncheckedOwned"
  BY DEF Patterns

\* Every method that is generated is taken for its own operation, whatever the
\* words of its interfaces.
LEMMA Recognizes ==
    ASSUME NEW r, r.group \in Seq(DOMAIN Ident), NEW o \in Offered(r), NEW x \in SpaceSuffixes(r)
    PROVE  Operation(r, BaseName(r, o) \o x) = o
  <1> DEFINE name == BaseName(r, o) \o x
  <1>1. o \in {"Owned", "TryOwned", "CloneValue", "TryCloneValue", "UncheckedOwned"}
    <2>1. Offered(r) \in {{"TryOwned"}, {"Owned", "TryOwned"},
                          {"Owned", "TryOwned", "CloneValue", "TryCloneValue"},
                          {"Owned", "TryOwned", "CloneValue", "TryCloneValue"}
                             \cup IF Unchecked THEN {"UncheckedOwned"} ELSE {}}
      BY Zenon DEF Offered
    <2> QED
      BY <2>1
  <1>2. o \in OperationNames
    BY <1>1 DEF OperationNames
  <1>3. Fits(r, o, name)
    BY <1>2, FitsSuffix, Zenon
  <1>4. ASSUME NEW p \in OperationNames, Separated(o, p) PROVE ~Fits(r, p, name)
    <2>1. Distinct(r, o, p)
      BY <1>2, <1>4, NamesDistinct DEF Separated
    <2>2. ~\E y \in SpaceSuffixes(r) : name = BaseName(r, p) \o y
      BY <2>1, Zenon DEF Distinct
    <2> HIDE DEF name
    <2> QED
      BY <1>4, <2>2, FitsSuffix
  <1> HIDE DEF name
  <1> DEFINE Free(j) == ~Fits(r, Patterns[j], name)
  <1>5. \A j \in 1 .. 9 : Patterns[j] \in OperationNames
    BY PatternPlaces DEF OperationNames
  <1>6. ASSUME NEW j \in 1 .. 9, Separated(o, Patterns[j]) PROVE Free(j)
    BY <1>4, <1>5, <1>6
  <1> HIDE DEF Free
  <1>7. ASSUME NEW k \in 1 .. 12, Patterns[k] = o, \A j \in 1 .. 12 : j < k => Free(j)
        PROVE  Operation(r, name) = o
    <2>1. \A j \in 1 .. 12 : j < k => ~Fits(r, Patterns[j], name)
      BY <1>7 DEF Free
    <2> QED
      BY <1>3, <1>7, <2>1, FirstFitDecides
  <1>8. CASE o = "Owned"
    <2> PICK k : k = 1
      OBVIOUS
    <2>1. k \in 1 .. 12 /\ Patterns[k] = o /\ \A j \in 1 .. 12 : j < k => Free(j)
      BY <1>8, PatternPlaces
    <2> QED
      BY <1>7, <2>1, Zenon DEF name
  <1>9. CASE o = "TryOwned"
    <2>1. Free(1)
      BY <1>6, <1>9, OfferedSeparated, PatternPlaces
    <2> PICK k : k = 2
      OBVIOUS
    <2>2. k \in 1 .. 12 /\ Patterns[k] = o /\ \A j \in 1 .. 12 : j < k => Free(j)
      BY <1>9, <2>1, PatternPlaces
    <2> QED
      BY <1>7, <2>2, Zenon DEF name
  <1>10. CASE o = "CloneValue"
    <2>1. Free(1) /\ Free(2) /\ Free(3) /\ Free(4) /\ Free(5)
      BY <1>6, <1>10, OfferedSeparated, PatternPlaces
    <2> PICK k : k = 6
      OBVIOUS
    <2>2. k \in 1 .. 12 /\ Patterns[k] = o /\ \A j \in 1 .. 12 : j < k => Free(j)
      BY <1>10, <2>1, PatternPlaces
    <2> QED
      BY <1>7, <2>2, Zenon DEF name
  <1>11. CASE o = "TryCloneValue"
    <2>1. Free(1) /\ Free(2) /\ Free(3) /\ Free(4) /\ Free(5) /\ Free(6)
      BY <1>6, <1>11, OfferedSeparated, PatternPlaces
    <2> PICK k : k = 7
      OBVIOUS
    <2>2. k \in 1 .. 12 /\ Patterns[k] = o /\ \A j \in 1 .. 12 : j < k => Free(j)
      BY <1>11, <2>1, PatternPlaces
    <2> QED
      BY <1>7, <2>2, Zenon DEF name
  <1>12. CASE o = "UncheckedOwned"
    <2>1. Free(1) /\ Free(2) /\ Free(3) /\ Free(4) /\ Free(5) /\ Free(6) /\ Free(7) /\ Free(8)
          /\ Free(9)
      BY <1>6, <1>12, OfferedSeparated, PatternPlaces
    <2> PICK k : k = 10
      OBVIOUS
    <2>2. k \in 1 .. 12 /\ Patterns[k] = o /\ \A j \in 1 .. 12 : j < k => Free(j)
      BY <1>12, <2>1, PatternPlaces
    <2> QED
      BY <1>7, <2>2, Zenon DEF name
  <1> QED
    BY <1>1, <1>8, <1>9, <1>10, <1>11, <1>12 DEF name

-------------------------------------------------------------------------------
(* Registrations.                                                            *)

Declared ==
    [group : {g \in Seq(DOMAIN Ident) : Ascending(g)}, space : Space, kind : Kind]

NoClash(r, n) == \A i, j \in 1 .. n : i < j => Emitted(r[i]) \cap Emitted(r[j]) = {}

\* What the expansion knows at each stage.  Groups are canonical, so that keys
\* decide about interfaces; the names in use are those of the registrations
\* named so far, and no two of these clash.
RegistryInv ==
    /\ decls \in Seq(Declared) /\ regs \in Seq(Declared) /\ stage \in Stage
    /\ stage \notin {"parse", "override", "duplicate child"} => regs = Winning
    /\ named \in 0 .. Len(regs)
    /\ known = UNION {Emitted(regs[i]) : i \in 1 .. named}
    /\ NoClash(regs, named)
    /\ stage \in {"parse", "override", "duplicate child", "spaces"} => named = 0
    /\ stage \in {"accessors", "ok", "accessor conflict"} => named = Len(regs)
    /\ stage = "ok" => \A k \in 1 .. Len(children) : children[k] \notin known
    /\ stage = "name conflict" => ~NoClash(regs, Len(regs))

\* A declaration has a canonical group.
LEMMA DeclaredCanonical ==
    ASSUME NEW s \in Spelling, NEW n \in Space, NEW k \in Kind
    PROVE  [group |-> Canonical(s), space |-> n, kind |-> k] \in Declared
  BY CanonicalAscends, PathAssumption DEF Declared

\* Two declarations have the same key when they name the same interfaces.
LEMMA SameKey ==
    ASSUME NEW r \in Declared, NEW q \in Declared
    PROVE  Same(r, q) <=> KeyOf(r) = KeyOf(q)
  <1>1. Ascending(r.group) /\ Ascending(q.group)
    BY DEF Declared
  <1>2. ToSet(r.group) = ToSet(q.group) <=> r.group = q.group
    BY <1>1, AscendingUnique
  <1> QED
    BY <1>2 DEF Same, KeyOf

\* The last declaration among the first L with the key of declaration i.
IsLast(m, s, L, i) ==
    /\ i <= m /\ KeyOf(s[m]) = KeyOf(s[i])
    /\ \A j \in m + 1 .. L : KeyOf(s[j]) # KeyOf(s[i])

\* A list of declarations has a last one for each interface that it has.
LEMMA LastSame ==
    ASSUME NEW s \in Seq(Declared), NEW L, L = Len(s), NEW i \in 1 .. L
    PROVE  \E m \in 1 .. L : IsLast(m, s, L, i)
  <1> SUFFICES \E m \in 1 .. L :
                  /\ i <= m /\ KeyOf(s[m]) = KeyOf(s[i])
                  /\ \A j \in m + 1 .. L : KeyOf(s[j]) # KeyOf(s[i])
    BY Zenon DEF IsLast
  <1>1. L \in Nat
    OBVIOUS
  <1> DEFINE D == {d \in 0 .. L : L - d \in i .. L /\ KeyOf(s[L - d]) = KeyOf(s[i])}
  <1>2. D \in SUBSET Nat /\ D # {}
    <2> PICK e : e = L - i
      OBVIOUS
    <2>1. e \in 0 .. L /\ L - e = i /\ i \in i .. L
      BY <1>1
    <2>2. L - e \in i .. L /\ KeyOf(s[L - e]) = KeyOf(s[i])
      BY <2>1, Zenon
    <2>3. e \in D
      BY <2>1, <2>2, Zenon
    <2>4. D \subseteq 0 .. L
      BY Zenon DEF D
    <2> HIDE DEF D
    <2> QED
      BY <1>1, <2>3, <2>4
  <1>3. PICK d \in D : \A e \in D : d <= e
    <2> HIDE DEF D
    <2> QED
      BY <1>2, LeastNatural
  <1> PICK m : m = L - d
    OBVIOUS
  <1>4. m \in 1 .. L /\ i <= m /\ KeyOf(s[m]) = KeyOf(s[i])
    BY <1>1
  <1>5. ASSUME NEW j \in m + 1 .. L, KeyOf(s[j]) = KeyOf(s[i]) PROVE FALSE
    <2> PICK e : e = L - j
      OBVIOUS
    <2>1. e \in 0 .. L /\ L - e = j /\ j \in i .. L /\ e < d
      BY <1>1, <1>4
    <2>2. L - e \in i .. L /\ KeyOf(s[L - e]) = KeyOf(s[i])
      BY <1>5, <2>1, Zenon
    <2>3. e \in D
      BY <2>1, <2>2, Zenon
    <2>4. d <= e
      BY <1>3, <2>3, Zenon
    <2> QED
      BY <1>1, <2>1, <2>4
  <1> QED
    BY <1>4, <1>5

\* Overriding leaves declarations.
LEMMA WinningTyped ==
    ASSUME decls \in Seq(Declared)
    PROVE  Winning \in Seq(Declared)
  BY RetainedSelects DEF Winning

\* The registrations left by overriding are the last ones of their interfaces.
LEMMA WinningIsLast ==
    ASSUME decls \in Seq(Declared), regs = Winning
    PROVE  /\ regs \in Seq(Declared)
           /\ \A i \in 1 .. Len(decls) :
                 \E k \in 1 .. Len(regs) :
                    /\ Same(regs[k], decls[i])
                    /\ \A l \in 1 .. Len(regs) : l # k => ~Same(regs[l], decls[i])
                    /\ (\A j \in i + 1 .. Len(decls) : ~Same(decls[j], decls[i]))
                          => regs[k] = decls[i]
           /\ \A k, l \in 1 .. Len(regs) : k < l =>
                 \E i, j \in 1 .. Len(decls) : i < j /\ regs[k] = decls[i] /\ regs[l] = decls[j]
  <1> PICK s, r : s = decls /\ r = regs
    OBVIOUS
  <1> DEFINE P == {i \in DOMAIN s : \A j \in i + 1 .. Len(s) : KeyOf(s[j]) # KeyOf(s[i])}
  <1>1. s \in Seq(Declared) /\ r = Retained(s, P)
    BY DEF Winning, Wins
  <1>2. r \in Seq(Declared)
    <2> HIDE DEF P
    <2> QED
      BY <1>1, RetainedSelects
  <1>3. PICK g : Selects(r, s, P, Len(s), g)
    <2> HIDE DEF P
    <2> QED
      BY <1>1, RetainedSelects
  <1> PICK L, R : L = Len(s) /\ R = Len(r)
    OBVIOUS
  <1>4. L \in Nat /\ R \in Nat /\ DOMAIN s = 1 .. L
    BY <1>1, <1>2
  <1>5. \A i \in 1 .. L : i \in P <=> \A j \in i + 1 .. L : KeyOf(s[j]) # KeyOf(s[i])
    BY <1>4
  <1> HIDE DEF P
  <1>6. /\ \A k \in 1 .. R : g[k] \in 1 .. L /\ g[k] \in P /\ r[k] = s[g[k]]
        /\ \A k, l \in 1 .. R : k < l => g[k] < g[l]
        /\ \A i \in 1 .. L : i \in P => \E k \in 1 .. R : g[k] = i
    BY <1>3 DEF Selects
  <1>7. \A i, j \in 1 .. L : Same(s[i], s[j]) <=> KeyOf(s[i]) = KeyOf(s[j])
    BY <1>1, SameKey
  <1>8. ASSUME NEW i \in 1 .. L
        PROVE  \E k \in 1 .. R :
                    /\ Same(r[k], s[i])
                    /\ \A l \in 1 .. R : l # k => ~Same(r[l], s[i])
                    /\ (\A j \in i + 1 .. L : ~Same(s[j], s[i])) => r[k] = s[i]
    <2>1. PICK m \in 1 .. L :
              /\ i <= m /\ KeyOf(s[m]) = KeyOf(s[i])
              /\ \A j \in m + 1 .. L : KeyOf(s[j]) # KeyOf(s[i])
      <3>1. \E m \in 1 .. L : IsLast(m, s, L, i)
        BY <1>1, LastSame, Zenon
      <3> QED
        BY <3>1, Zenon DEF IsLast
    <2>2. PICK k \in 1 .. R : g[k] = m
      <3>1. \A j \in m + 1 .. L : KeyOf(s[j]) # KeyOf(s[m])
        BY <2>1
      <3> QED
        BY <1>5, <1>6, <3>1
    <2>3. Same(r[k], s[i])
      BY <1>6, <1>7, <2>1, <2>2
    <2>4. ASSUME NEW l \in 1 .. R, l # k, Same(r[l], s[i]) PROVE FALSE
      <3> PICK n : n = g[l]
        OBVIOUS
      <3>1. n \in 1 .. L /\ n \in P /\ KeyOf(s[n]) = KeyOf(s[i]) /\ n # m
        <4>1. n \in 1 .. L /\ n \in P /\ r[l] = s[n]
          BY <1>6
        <4>2. KeyOf(s[n]) = KeyOf(s[i])
          BY <1>7, <2>4, <4>1
        <4>3. l < k \/ k < l
          BY <1>4, <2>4
        <4>4. n < m \/ m < n
          BY <1>6, <2>2, <4>3
        <4>5. n # m
          BY <4>1, <4>4
        <4> QED
          BY <4>1, <4>2, <4>5
      <3>2. ~(m < n)
        <4> SUFFICES ASSUME m < n PROVE FALSE
          OBVIOUS
        <4>1. n \in m + 1 .. L
          BY <1>4, <3>1
        <4> QED
          BY <2>1, <3>1, <4>1
      <3>3. ~(n < m)
        <4> SUFFICES ASSUME n < m PROVE FALSE
          OBVIOUS
        <4>1. m \in n + 1 .. L
          BY <1>4, <3>1
        <4>2. KeyOf(s[m]) # KeyOf(s[n])
          BY <1>5, <3>1, <4>1
        <4> QED
          BY <2>1, <3>1, <4>2
      <3> QED
        BY <1>4, <3>1, <3>2, <3>3
    <2>5. ASSUME \A j \in i + 1 .. L : ~Same(s[j], s[i]) PROVE r[k] = s[i]
      <3>1. m = i
        <4> SUFFICES ASSUME i < m PROVE FALSE
          BY <1>4, <2>1
        <4>1. m \in i + 1 .. L
          BY <1>4
        <4> QED
          BY <1>7, <2>1, <2>5, <4>1
      <3> QED
        BY <1>6, <2>2, <3>1
    <2> QED
      BY <2>3, <2>4, <2>5
  <1>9. ASSUME NEW k \in 1 .. R, NEW l \in 1 .. R, k < l
        PROVE  \E i, j \in 1 .. L : i < j /\ r[k] = s[i] /\ r[l] = s[j]
    <2>1. g[k] \in 1 .. L /\ g[l] \in 1 .. L /\ r[k] = s[g[k]] /\ r[l] = s[g[l]] /\ g[k] < g[l]
      BY <1>6, <1>9, Zenon
    <2> QED
      BY <2>1, Zenon
  <1>10. s = decls /\ r = regs /\ L = Len(s) /\ R = Len(r)
    OBVIOUS
  <1>11. L = Len(decls) /\ R = Len(regs)
    BY <1>10, Zenon
  <1>12. ASSUME NEW i \in 1 .. Len(decls)
         PROVE  \E k \in 1 .. Len(regs) :
                    /\ Same(regs[k], decls[i])
                    /\ \A l \in 1 .. Len(regs) : l # k => ~Same(regs[l], decls[i])
                    /\ (\A j \in i + 1 .. Len(decls) : ~Same(decls[j], decls[i]))
                          => regs[k] = decls[i]
    BY <1>8, <1>10, <1>11, Zenon
  <1>13. ASSUME NEW k \in 1 .. Len(regs), NEW l \in 1 .. Len(regs), k < l
         PROVE  \E i, j \in 1 .. Len(decls) : i < j /\ regs[k] = decls[i] /\ regs[l] = decls[j]
    <2>1. PICK i, j \in 1 .. L : i < j /\ r[k] = s[i] /\ r[l] = s[j]
      BY <1>9, <1>11, <1>13
    <2>2. i \in 1 .. Len(decls) /\ j \in 1 .. Len(decls)
      BY <1>11
    <2>3. regs[k] = decls[i] /\ regs[l] = decls[j]
      BY <1>10, <2>1, Zenon
    <2> QED
      BY <2>1, <2>2, <2>3, Zenon
  <1> QED
    BY <1>2, <1>10, <1>12, <1>13, Zenon

\* The names recorded for a registration are the ones that are emitted: this is
\* what makes the check against known a check for clashes.
LEMMA NamingStep ==
    ASSUME RegistryInv, stage = "methods", named < Len(regs),
           Emitted(regs[named + 1]) \cap known = {}
    PROVE  /\ named + 1 \in 0 .. Len(regs)
           /\ known \cup Emitted(regs[named + 1]) = UNION {Emitted(regs[i]) : i \in 1 .. named + 1}
           /\ NoClash(regs, named + 1)
  <1> PICK n, R : n = named /\ R = Len(regs)
    OBVIOUS
  <1>1. n \in Nat /\ R \in Nat /\ n < R /\ n \in 0 .. R
    BY DEF RegistryInv
  <1>2. \A i \in 1 .. n + 1 : i \in 1 .. n \/ i = n + 1
    BY <1>1
  <1>3. 1 .. n \subseteq 1 .. n + 1 /\ n + 1 \in 1 .. n + 1
    BY <1>1
  <1> DEFINE E(i) == Emitted(regs[i])
  <1>4. known = UNION {E(i) : i \in 1 .. n} /\ E(n + 1) \cap known = {}
        /\ \A i, j \in 1 .. n : i < j => E(i) \cap E(j) = {}
    BY DEF RegistryInv, NoClash
  <1> HIDE DEF E
  <1>5. known \cup E(n + 1) = UNION {E(i) : i \in 1 .. n + 1}
    <2>1. \A x : x \in known <=> \E i \in 1 .. n : x \in E(i)
      BY <1>4
    <2>2. \A x : x \in UNION {E(i) : i \in 1 .. n + 1} <=> \E i \in 1 .. n + 1 : x \in E(i)
      OBVIOUS
    <2>3. \A x : (\E i \in 1 .. n + 1 : x \in E(i)) <=> x \in E(n + 1) \/ \E i \in 1 .. n : x \in E(i)
      BY <1>2, <1>3
    <2> QED
      BY <2>1, <2>2, <2>3
  <1>6. ASSUME NEW i \in 1 .. n + 1, NEW j \in 1 .. n + 1, i < j
        PROVE  E(i) \cap E(j) = {}
    <2>1. i \in 1 .. n
      BY <1>1, <1>6
    <2>2. CASE j = n + 1
      <3>1. E(i) \subseteq known
        BY <1>4, <2>1
      <3> QED
        BY <1>4, <2>2, <3>1
    <2>3. CASE j \in 1 .. n
      BY <1>4, <1>6, <2>1, <2>3
    <2> QED
      BY <1>2, <2>2, <2>3
  <1>7. n + 1 \in 0 .. R /\ NoClash(regs, n + 1)
        /\ known \cup Emitted(regs[n + 1]) = UNION {Emitted(regs[i]) : i \in 1 .. n + 1}
    <2>1. n + 1 \in 0 .. R
      BY <1>1
    <2>2. NoClash(regs, n + 1)
      BY <1>6 DEF NoClash, E
    <2> QED
      BY <1>5, <2>1, <2>2, Zenon DEF E
  <1> QED
    BY <1>7, Zenon

\* A name already in use belongs to another registration.
LEMMA NamingClashes ==
    ASSUME RegistryInv, named < Len(regs), Emitted(regs[named + 1]) \cap known # {}
    PROVE  ~NoClash(regs, Len(regs))
  <1> PICK n, R : n = named /\ R = Len(regs)
    OBVIOUS
  <1>1. n \in Nat /\ R \in Nat /\ n < R
    <2>1. regs \in Seq(Declared) /\ named \in 0 .. Len(regs)
      BY DEF RegistryInv
    <2>2. Len(regs) \in Nat
      BY <2>1
    <2> QED
      BY <2>1, <2>2
  <1>2. PICK x : x \in Emitted(regs[n + 1]) /\ x \in known
    <2>1. Emitted(regs[n + 1]) \cap known # {}
      BY Zenon
    <2> QED
      BY <2>1
  <1>3. PICK i \in 1 .. n : x \in Emitted(regs[i])
    BY <1>2 DEF RegistryInv
  <1>4. i \in 1 .. R /\ n + 1 \in 1 .. R /\ i < n + 1
    BY <1>1
  <1> QED
    BY <1>2, <1>3, <1>4 DEF NoClash

\* RegistryInv holds of the stages of the expansion, whatever is declared.
THEOREM RegistryInvariant == Spec => []RegistryInv
  <1>1. Init => RegistryInv
    <2> SUFFICES ASSUME Init PROVE RegistryInv
      OBVIOUS
    <2>1. <<>> \in Seq(Declared) /\ Len(<<>>) = 0
      OBVIOUS
    <2>2. decls \in Seq(Declared) /\ regs \in Seq(Declared) /\ Len(regs) = 0
      BY <2>1, Zenon DEF Init
    <2> QED
      BY <2>2 DEF Init, RegistryInv, NoClash, Stage
  <1>2. RegistryInv /\ [Next]_vars => RegistryInv'
    <2> SUFFICES ASSUME RegistryInv, [Next]_vars PROVE RegistryInv'
      OBVIOUS
    <2>1. ASSUME NEW s \in Spelling, NEW n \in Space, NEW k \in Kind, Declare(s, n, k)
          PROVE  RegistryInv'
      <3>1. [group |-> Canonical(s), space |-> n, kind |-> k] \in Declared
        BY DeclaredCanonical
      <3>2. decls' \in Seq(Declared)
        BY <2>1, <3>1 DEF Declare, RegistryInv
      <3> QED
        BY <2>1, <3>2 DEF Declare, RegistryInv, Stage
    <2>2. ASSUME UNCHANGED decls PROVE Winning' = Winning
      BY <2>2 DEF Winning, Wins
    <2>3. ASSUME NEW c \in ChildName, DeclareChild(c) PROVE RegistryInv'
      BY <2>2, <2>3 DEF DeclareChild, RegistryInv
    <2>4. CASE EndParse
      BY <2>2, <2>4 DEF EndParse, RegistryInv, Stage
    <2>5. CASE Override
      <3>1. regs' \in Seq(Declared) /\ regs' = Winning'
        BY <2>2, <2>5, WinningTyped DEF Override, RegistryInv
      <3>2. named' = 0 /\ NoClash(regs', 0) /\ known' = {} /\ Len(regs') \in Nat
        BY <2>5, <3>1 DEF Override, RegistryInv, NoClash
      <3> QED
        BY <2>5, <3>1, <3>2 DEF Override, RegistryInv, Stage
    <2>6. CASE CheckSpaces
      BY <2>2, <2>6 DEF CheckSpaces, RegistryInv, Stage
    <2>7. CASE NameMethods
      <3>1. decls' = decls /\ regs' = regs /\ children' = children /\ Winning' = Winning
        BY <2>2, <2>7 DEF NameMethods
      <3>2. CASE Emitted(regs[named + 1]) \cap known # {}
        <4>1. stage' = "name conflict" /\ named' = named /\ known' = known
          BY <2>7, <3>2 DEF NameMethods, Recorded
        <4>2. ~NoClash(regs, Len(regs))
          BY <2>7, <3>2, NamingClashes DEF NameMethods
        <4> QED
          BY <2>7, <3>1, <4>1, <4>2 DEF NameMethods, RegistryInv, Stage
      <3>3. CASE Emitted(regs[named + 1]) \cap known = {}
        <4>1. /\ stage' = "methods" /\ stage = "methods" /\ named' = named + 1
              /\ known' = known \cup Emitted(regs[named + 1])
          BY <2>7, <3>3 DEF NameMethods, Recorded
        <4>2. /\ named' \in 0 .. Len(regs) /\ NoClash(regs, named')
              /\ known' = UNION {Emitted(regs[i]) : i \in 1 .. named'}
          BY <2>7, <3>3, <4>1, NamingStep DEF NameMethods
        <4> QED
          BY <3>1, <4>1, <4>2 DEF RegistryInv, Stage
      <3> QED
        BY <3>2, <3>3
    <2>8. CASE EndMethods
      BY <2>2, <2>8 DEF EndMethods, RegistryInv, Stage
    <2>9. CASE CheckAccessors
      BY <2>2, <2>9 DEF CheckAccessors, RegistryInv, Stage
    <2>10. CASE UNCHANGED vars
      BY <2>2, <2>10 DEF vars, RegistryInv, Stage
    <2> QED
      BY <2>1, <2>3, <2>4, <2>5, <2>6, <2>7, <2>8, <2>9, <2>10 DEF Next
  <1> QED
    BY <1>1, <1>2, PTL DEF Spec

\* The last declaration of an interface wins.  Groups are sorted and freed of
\* repetitions when they are parsed, which makes equal keys and equal sets of
\* interfaces the same thing (SameKey).
THEOREM RegistryLastWins == Spec => []LastWins
  <1>1. RegistryInv => LastWins
    BY WinningIsLast DEF RegistryInv, LastWins
  <1> QED
    BY <1>1, RegistryInvariant, PTL

\* No two methods of an accepted container have one name, accessors and namespace
\* aliases included, and a name conflict is reported only where there is one.
THEOREM RegistryNamesUnique == Spec => []NamesUnique
  <1>1. RegistryInv => NamesUnique
    <2> SUFFICES ASSUME RegistryInv PROVE NamesUnique
      OBVIOUS
    <2>1. NoClash(regs, Len(regs))
             <=> ~\E i, j \in 1 .. Len(regs) : i < j /\ Emitted(regs[i]) \cap Emitted(regs[j]) # {}
      BY DEF NoClash
    <2>2. CASE stage = "ok"
      <3>1. NoClash(regs, Len(regs))
            /\ known = UNION {Emitted(regs[i]) : i \in 1 .. Len(regs)}
            /\ \A k \in 1 .. Len(children) : children[k] \notin known
        BY <2>2, Zenon DEF RegistryInv
      <3>2. \A k \in 1 .. Len(children), i \in 1 .. Len(regs) : children[k] \notin Emitted(regs[i])
        BY <3>1, Zenon
      <3> QED
        BY <2>1, <2>2, <3>1, <3>2 DEF NamesUnique
    <2>3. CASE stage = "name conflict"
      BY <2>1, <2>3 DEF NamesUnique, RegistryInv
    <2> QED
      BY <2>2, <2>3 DEF NamesUnique
  <1> QED
    BY <1>1, RegistryInvariant, PTL

\* Every generated method is recognized as its operation, whatever words the
\* interfaces and the namespaces are made of.
THEOREM RegistryOperationRecognized == Spec => []OperationRecognized
  <1>1. RegistryInv => OperationRecognized
    <2> SUFFICES ASSUME RegistryInv, NEW k \in 1 .. Len(regs), NEW o \in Offered(regs[k]),
                        NEW suffix \in SpaceSuffixes(regs[k])
                 PROVE  Operation(regs[k], BaseName(regs[k], o) \o suffix) = o
      BY Zenon DEF OperationRecognized
    <2>1. regs[k].group \in Seq(DOMAIN Ident)
      <3>1. regs \in Seq(Declared)
        BY DEF RegistryInv
      <3>2. regs[k] \in Declared
        BY <3>1
      <3> QED
        BY <3>2 DEF Declared
    <2> QED
      BY <2>1, Recognizes, Zenon
  <1> QED
    BY <1>1, RegistryInvariant, PTL

-------------------------------------------------------------------------------
(* Rebase: what a path means after the move.                                 *)

Name == STRING \cup {"n", "super", "extern", "__systasis_injected"}

\* s is the first m elements of base followed by rest.
Laid(s, base, m, rest) ==
    /\ s \in Seq(Name) /\ Len(s) = m + Len(rest)
    /\ \A i \in 1 .. m : s[i] = base[i]
    /\ \A i \in 1 .. Len(rest) : s[m + i] = rest[i]

\* Sequences of the same elements are equal.
LEMMA SameElements ==
    ASSUME NEW X, NEW s \in Seq(X), NEW t \in Seq(X), Len(s) = Len(t),
           \A i \in 1 .. Len(s) : s[i] = t[i]
    PROVE  s = t
  BY SeqEqual

\* A part of a sequence of names is one,
LEMMA PartNamed ==
    ASSUME NEW s \in Seq(Name), NEW m \in Int, NEW n \in Int, \A i \in m .. n : s[i] \in Name
    PROVE  SubSeq(s, m, n) \in Seq(Name)
  BY SubSeqProperties

\* and what follows its first k names has the names after them.
LEMMA RestNamed ==
    ASSUME NEW s \in Seq(Name), NEW L, L = Len(s), NEW k \in 0 .. L
    PROVE  /\ SubSeq(s, k + 1, L) \in Seq(Name) /\ Len(SubSeq(s, k + 1, L)) = L - k
           /\ \A i \in 1 .. L - k : SubSeq(s, k + 1, L)[i] = s[k + i]
  <1>1. L \in Nat /\ \A i \in k + 1 .. L : s[i] \in Name
    OBVIOUS
  <1> QED
    BY <1>1, SubSeqProperties

\* A sequence appended to another.
LEMMA AppendedLaid ==
    ASSUME NEW base \in Seq(Name), NEW rest \in Seq(Name)
    PROVE  Laid(base \o rest, base, Len(base), rest)
  <1> PICK s, L, R : s = base \o rest /\ L = Len(base) /\ R = Len(rest)
    OBVIOUS
  <1>1. s \in Seq(Name) /\ Len(s) = L + R /\ L \in Nat /\ R \in Nat
    BY ConcatProperties
  <1>2. \A i \in 1 .. L + R : s[i] = IF i <= L THEN base[i] ELSE rest[i - L]
    BY ConcatProperties
  <1>3. \A i \in 1 .. L : s[i] = base[i]
    BY <1>1, <1>2
  <1>4. ASSUME NEW i \in 1 .. R PROVE s[L + i] = rest[i]
    <2>1. L + i \in 1 .. L + R /\ ~(L + i <= L) /\ (L + i) - L = i
      BY <1>1
    <2> QED
      BY <1>2, <2>1
  <1> QED
    BY <1>1, <1>3, <1>4 DEF Laid

\* A path in a module, or in one around it.
LEMMA CutLaid ==
    ASSUME NEW base \in Seq(Name), NEW m \in 0 .. Len(base), NEW rest \in Seq(Name)
    PROVE  Laid(SubSeq(base, 1, m) \o rest, base, m, rest)
  <1> PICK c : c = SubSeq(base, 1, m)
    OBVIOUS
  <1>1. c \in Seq(Name) /\ Len(c) = m /\ \A i \in 1 .. m : c[i] = base[i]
    BY SubSeqProperties
  <1>2. Laid(c \o rest, c, m, rest)
    BY <1>1, AppendedLaid
  <1>3. Laid(c \o rest, base, m, rest)
    BY <1>1, <1>2 DEF Laid
  <1> QED
    BY <1>3

\* What is laid out in the same way is the same.
LEMMA LaidSame ==
    ASSUME NEW b, NEW c, NEW m \in Nat, NEW rest \in Seq(Name), NEW s, NEW t,
           Laid(s, b, m, rest), Laid(t, c, m, rest), \A i \in 1 .. m : b[i] = c[i]
    PROVE  s = t
  <1> PICK R : R = Len(rest)
    OBVIOUS
  <1>1. /\ s \in Seq(Name) /\ t \in Seq(Name) /\ Len(s) = m + R /\ Len(t) = m + R /\ R \in Nat
        /\ \A i \in 1 .. m : s[i] = t[i]
        /\ \A i \in 1 .. R : s[m + i] = t[m + i]
    BY DEF Laid
  <1>2. ASSUME NEW i \in 1 .. m + R PROVE s[i] = t[i]
    <2>1. CASE i <= m
      BY <1>1, <2>1
    <2>2. CASE m < i
      <3> PICK j : j = i - m
        OBVIOUS
      <3>1. j \in 1 .. R /\ i = m + j
        BY <1>1, <2>2
      <3> QED
        BY <1>1, <3>1
    <2> QED
      BY <1>1, <2>1, <2>2
  <1> QED
    BY <1>1, <1>2, SameElements

-------------------------------------------------------------------------------

\* The segments of a path.
LEMMA SegmentsNamed == \A s \in Seq(STRING) : s \in Seq(Name)
  BY DEF Name

\* The modules on both sides of the move.
LEMMA HomeNamed ==
    /\ Home \in Seq(Name) /\ Len(Home) \in Nat /\ Len(Home) > 0 /\ Home[1] = "crate"
    /\ Generated \in Seq(Name) /\ Len(Generated) = Len(Home) + 1
    /\ \A i \in 1 .. Len(Home) : Generated[i] = Home[i]
    /\ Generated[Len(Home) + 1] = "__systasis_injected"
  <1>1. Home \in Seq(Name) /\ Len(Home) \in Nat /\ Len(Home) > 0 /\ Home[1] = "crate"
    BY HomeAssumption, SegmentsNamed
  <1>2. "__systasis_injected" \in Name
    BY DEF Name
  <1> QED
    BY <1>1, <1>2, AppendProperties DEF Generated

\* The modules of the source in a module.
LEMMA InsideLaid ==
    ASSUME NEW M \in Seq(Name), NEW d \in Nat
    PROVE  /\ Inside(M, d) \in Seq(Name) /\ Len(Inside(M, d)) = Len(M) + d
           /\ \A i \in 1 .. Len(M) : Inside(M, d)[i] = M[i]
           /\ \A i \in 1 .. d : Inside(M, d)[Len(M) + i] = "n"
  <1> PICK t : t = [i \in 1 .. d |-> "n"]
    OBVIOUS
  <1>1. t \in Seq(Name) /\ Len(t) = d /\ \A i \in 1 .. d : t[i] = "n"
    <2>1. "n" \in Name
      BY DEF Name
    <2> QED
      BY <2>1
  <1>2. Laid(M \o t, M, Len(M), t)
    BY <1>1, AppendedLaid
  <1>3. Inside(M, d) = M \o t
    BY DEF Inside
  <1> PICK s : s = M \o t
    OBVIOUS
  <1>4. Laid(s, M, Len(M), t) /\ Inside(M, d) = s
    BY <1>2, <1>3
  <1> QED
    BY <1>1, <1>4 DEF Laid

\* The modules around a path at a depth, on both sides of the move.
AreModules(M, G, H, d) ==
    /\ H \in Nat /\ H > 0
    /\ M \in Seq(Name) /\ Len(M) = H + d
    /\ G \in Seq(Name) /\ Len(G) = (H + 1) + d
    /\ \A i \in 1 .. H : M[i] = Home[i] /\ G[i] = Home[i]
    /\ G[H + 1] = "__systasis_injected"
    /\ \A i \in 1 .. d : M[H + i] = "n" /\ G[(H + 1) + i] = "n"

\* Inside is what AreModules says.
LEMMA ModulesLaid ==
    ASSUME NEW d \in Nat
    PROVE  AreModules(Inside(Home, d), Inside(Generated, d), Len(Home), d)
  <1> PICK H, M, G, K : H = Len(Home) /\ M = Inside(Home, d) /\ G = Inside(Generated, d)
                        /\ K = Len(Generated)
    OBVIOUS
  <1>1. /\ H \in Nat /\ H > 0 /\ K = H + 1 /\ Home \in Seq(Name) /\ Generated \in Seq(Name)
        /\ \A i \in 1 .. H : Generated[i] = Home[i]
        /\ Generated[H + 1] = "__systasis_injected"
    BY HomeNamed
  <1>2. /\ M \in Seq(Name) /\ Len(M) = H + d
        /\ \A i \in 1 .. H : M[i] = Home[i]
        /\ \A i \in 1 .. d : M[H + i] = "n"
    BY <1>1, InsideLaid
  <1>3. /\ G \in Seq(Name) /\ Len(G) = K + d
        /\ \A i \in 1 .. K : G[i] = Generated[i]
        /\ \A i \in 1 .. d : G[K + i] = "n"
    <2>1. Generated \in Seq(Name)
      BY <1>1
    <2>2. /\ Inside(Generated, d) \in Seq(Name) /\ Len(Inside(Generated, d)) = Len(Generated) + d
          /\ \A i \in 1 .. Len(Generated) : Inside(Generated, d)[i] = Generated[i]
          /\ \A i \in 1 .. d : Inside(Generated, d)[Len(Generated) + i] = "n"
      BY <2>1, InsideLaid, Zenon
    <2>3. G = Inside(Generated, d) /\ K = Len(Generated)
      OBVIOUS
    <2> QED
      BY <2>2, <2>3, Zenon
  <1>4. 1 .. H \subseteq 1 .. K /\ H + 1 \in 1 .. K
    BY <1>1
  <1>5. /\ \A i \in 1 .. H : G[i] = Home[i]
        /\ G[H + 1] = "__systasis_injected"
    BY <1>1, <1>3, <1>4
  <1>6. /\ Len(G) = (H + 1) + d
        /\ \A i \in 1 .. d : G[(H + 1) + i] = "n"
    BY <1>1, <1>3, Zenon
  <1>7. AreModules(M, G, H, d)
    BY <1>1, <1>2, <1>3, <1>5, <1>6, Zenon DEF AreModules
  <1> QED
    BY <1>7, Zenon

\* An item of the source's modules, and where it has moved.
LEMMA Follows ==
    ASSUME NEW b \in Seq(Name), NEW a \in Seq(Name), Len(b) > Len(Home), Len(a) = Len(b) + 1,
           \A i \in 1 .. Len(Home) : b[i] = Home[i] /\ a[i] = Home[i],
           b[Len(Home) + 1] = "n", a[Len(Home) + 1] = "__systasis_injected",
           \A i \in Len(Home) + 1 .. Len(b) : a[i + 1] = b[i]
    PROVE  Relocated(b) = a
  <1> PICK H, L : H = Len(Home) /\ L = Len(b)
    OBVIOUS
  <1>1. H \in Nat /\ L \in Nat /\ H > 0 /\ L > H /\ Home \in Seq(Name) /\ Len(a) = L + 1
    BY HomeNamed
  <1>2. SubSeq(b, 1, H) = Home
    <2> PICK c : c = SubSeq(b, 1, H)
      OBVIOUS
    <2>1. c \in Seq(Name) /\ Len(c) = H /\ \A i \in 1 .. H : c[i] = b[i]
      BY <1>1, SubSeqProperties
    <2>2. c = Home
      BY <1>1, <2>1, SameElements
    <2> QED
      BY <2>2
  <1>3. Own(b)
    BY <1>1, <1>2 DEF Own
  <1> PICK r : r = SubSeq(b, H + 1, L)
    OBVIOUS
  <1>4. r \in Seq(Name) /\ Len(r) = L - H /\ \A i \in 1 .. L - H : r[i] = b[H + i]
    BY <1>1, SubSeqProperties
  <1>5. Relocated(b) = Generated \o r
    BY <1>3 DEF Relocated
  <1> PICK s : s = Generated \o r
    OBVIOUS
  <1>6. Laid(s, Generated, H + 1, r)
    <2>1. Laid(Generated \o r, Generated, Len(Generated), r)
      BY <1>4, HomeNamed, AppendedLaid, Zenon
    <2>2. Len(Generated) = H + 1
      BY HomeNamed, Zenon
    <2> QED
      BY <2>1, <2>2, Zenon
  <1>7. Laid(a, Generated, H + 1, r)
    <2>1. Len(a) = (H + 1) + Len(r)
      <3>1. L + 1 = (H + 1) + (L - H)
        BY <1>1
      <3> QED
        BY <1>1, <1>4, <3>1, Zenon
    <2>2. ASSUME NEW i \in 1 .. H + 1 PROVE a[i] = Generated[i]
      <3>1. i \in 1 .. H \/ i = H + 1
        BY <1>1
      <3> QED
        BY <3>1, HomeNamed
    <2>3. ASSUME NEW i \in 1 .. Len(r) PROVE a[(H + 1) + i] = r[i]
      <3> PICK j : j = H + i
        OBVIOUS
      <3>1. j \in H + 1 .. L /\ (H + 1) + i = j + 1 /\ r[i] = b[j]
        BY <1>1, <1>4
      <3> QED
        BY <3>1
    <2> QED
      BY <2>1, <2>2, <2>3 DEF Laid
  <1>8. s = a
    <2>1. H + 1 \in Nat
      BY <1>1
    <2> QED
      BY <1>4, <1>6, <1>7, <2>1, LaidSame
  <1> QED
    BY <1>5, <1>8

\* An item in the source's modules around the depth it is named at.
LEMMA FollowsFromInside ==
    ASSUME NEW d \in Nat, NEW m \in Nat, m > Len(Home), m <= Len(Home) + d, NEW rest \in Seq(Name),
           NEW b, NEW a, Laid(b, Inside(Home, d), m, rest), Laid(a, Inside(Generated, d), m + 1, rest)
    PROVE  Relocated(b) = a
  <1> PICK H, R : H = Len(Home) /\ R = Len(rest)
    OBVIOUS
  <1> PICK M, G : M = Inside(Home, d) /\ G = Inside(Generated, d)
    OBVIOUS
  <1>1. H \in Nat /\ R \in Nat /\ m \in H + 1 .. H + d
    BY HomeNamed
  <1>2. /\ \A i \in 1 .. H : M[i] = Home[i] /\ G[i] = Home[i]
        /\ G[H + 1] = "__systasis_injected"
        /\ \A i \in 1 .. d : M[H + i] = "n" /\ G[(H + 1) + i] = "n"
    <2>1. AreModules(M, G, H, d)
      BY ModulesLaid, Zenon
    <2> QED
      BY <2>1, Zenon DEF AreModules
  <1>3. /\ b \in Seq(Name) /\ Len(b) = m + R /\ \A i \in 1 .. m : b[i] = M[i]
        /\ \A i \in 1 .. R : b[m + i] = rest[i]
        /\ a \in Seq(Name) /\ Len(a) = (m + 1) + R /\ \A i \in 1 .. m + 1 : a[i] = G[i]
        /\ \A i \in 1 .. R : a[(m + 1) + i] = rest[i]
    BY DEF Laid
  <1>4. \A i \in 1 .. H : b[i] = Home[i] /\ a[i] = Home[i]
    BY <1>1, <1>2, <1>3
  <1>5. b[H + 1] = "n" /\ a[H + 1] = "__systasis_injected"
    <2>1. H + 1 \in 1 .. m /\ H + 1 \in 1 .. m + 1 /\ 1 \in 1 .. d
      BY <1>1
    <2>2. b[H + 1] = M[H + 1] /\ a[H + 1] = G[H + 1]
      BY <1>3, <2>1, Zenon
    <2> QED
      BY <1>2, <2>1, <2>2, Zenon
  <1>6. ASSUME NEW i \in H + 1 .. m + R PROVE a[i + 1] = b[i]
    <2>1. CASE i <= m
      <3> PICK j : j = i - H
        OBVIOUS
      <3>1. j \in 1 .. d /\ H + j = i /\ (H + 1) + j = i + 1 /\ i \in 1 .. m /\ i + 1 \in 1 .. m + 1
        BY <1>1, <2>1
      <3>2. M[H + j] = "n" /\ G[(H + 1) + j] = "n"
        BY <1>2, <3>1
      <3>3. M[i] = "n" /\ G[i + 1] = "n"
        BY <3>1, <3>2, Zenon
      <3>4. b[i] = M[i] /\ a[i + 1] = G[i + 1]
        BY <1>3, <3>1
      <3> QED
        BY <3>3, <3>4
    <2>2. CASE m < i
      <3> PICK j : j = i - m
        OBVIOUS
      <3>1. j \in 1 .. R /\ m + j = i /\ (m + 1) + j = i + 1
        BY <1>1, <2>2
      <3>2. b[m + j] = a[(m + 1) + j]
        BY <1>3, <3>1
      <3> QED
        BY <3>1, <3>2, Zenon
    <2> QED
      BY <1>1, <2>1, <2>2
  <1>7. Len(b) > H /\ Len(a) = Len(b) + 1 /\ Len(b) = m + R
    BY <1>1, <1>3
  <1> QED
    BY <1>3, <1>4, <1>5, <1>6, <1>7, Follows

\* An item outside them that both sides name in the same way.
LEMMA StaysOutside ==
    ASSUME NEW d \in Nat, NEW m \in 0 .. Len(Home), NEW rest \in Seq(Name),
           NEW b, NEW a, Laid(b, Inside(Home, d), m, rest), Laid(a, Inside(Generated, d), m, rest)
    PROVE  b = a
  <1>1. \A i \in 1 .. m : Inside(Home, d)[i] = Home[i] /\ Inside(Generated, d)[i] = Home[i]
    <2>1. 1 .. m \subseteq 1 .. Len(Home)
      BY HomeNamed
    <2> QED
      BY <2>1, ModulesLaid, Zenon DEF AreModules
  <1>2. m \in Nat
    BY HomeNamed
  <1> QED
    BY <1>1, <1>2, LaidSame

-------------------------------------------------------------------------------

\* The number of leading super segments.
LEMMA ParentsCount ==
    ASSUME NEW X, NEW s \in Seq(X), NEW k \in 0 .. Len(s),
           \A j \in 1 .. k : s[j] = "super", k < Len(s) => s[k + 1] # "super"
    PROVE  Parents(s) = k
  <1> PICK L, n : L = Len(s) /\ n = Parents(s)
    OBVIOUS
  <1>1. L \in Nat
    OBVIOUS
  <1>2. n \in 0 .. L /\ (\A j \in 1 .. n : s[j] = "super") /\ (n < L => s[n + 1] # "super")
    BY Zenon DEF Parents, Leading
  <1>3. ~(n < k)
    BY <1>1, <1>2
  <1>4. ~(k < n)
    BY <1>1, <1>2
  <1> QED
    BY <1>1, <1>2, <1>3, <1>4

\* There is such a number.
LEMMA ParentsLead ==
    ASSUME NEW X, NEW s \in Seq(X)
    PROVE  /\ Parents(s) \in 0 .. Len(s)
           /\ \A j \in 1 .. Parents(s) : s[j] = "super"
           /\ Parents(s) < Len(s) => s[Parents(s) + 1] # "super"
  <1> PICK L : L = Len(s)
    OBVIOUS
  <1>1. L \in Nat
    OBVIOUS
  <1> DEFINE C == {i \in 0 .. L : i < L => s[i + 1] # "super"}
  <1>2. C \in SUBSET Nat /\ L \in C
    BY <1>1
  <1>3. PICK k \in C : \A i \in C : k <= i
    <2> HIDE DEF C
    <2> QED
      BY <1>2, LeastNatural
  <1>4. k \in 0 .. L /\ (k < L => s[k + 1] # "super")
    OBVIOUS
  <1>5. ASSUME NEW j \in 1 .. k PROVE s[j] = "super"
    <2> PICK i : i = j - 1
      OBVIOUS
    <2>1. i \in 0 .. L /\ i + 1 = j /\ i < L /\ i < k
      BY <1>1, <1>4
    <2>2. i \notin C
      <3> HIDE DEF C
      <3> QED
        BY <1>1, <1>3, <1>4, <2>1
    <2> QED
      BY <2>1, <2>2
  <1>6. Parents(s) = k
    BY <1>4, <1>5, ParentsCount
  <1> QED
    BY <1>4, <1>5, <1>6

-------------------------------------------------------------------------------

\* A path that begins with super.
LEMMA LookupUp ==
    ASSUME NEW M \in Seq(Name), NEW s \in Seq(Name), NEW k \in 1 .. Len(s), k <= Len(M),
           k = Parents(s)
    PROVE  Laid(Lookup(M, s), M, Len(M) - k, SubSeq(s, k + 1, Len(s)))
           /\ SubSeq(s, k + 1, Len(s)) \in Seq(Name)
  <1> PICK L, m, r : L = Len(s) /\ m = Len(M) - k /\ r = SubSeq(s, k + 1, L)
    OBVIOUS
  <1>1. L \in Nat /\ m \in 0 .. Len(M) /\ r \in Seq(Name)
    <2>1. L \in Nat /\ Len(M) - k \in 0 .. Len(M) /\ k \in 0 .. L
      OBVIOUS
    <2> QED
      BY <2>1, RestNamed, Zenon
  <1>2. s[1] = "super"
    BY ParentsLead
  <1>3. Lookup(M, s) = SubSeq(M, 1, m) \o r
    BY <1>2 DEF Lookup
  <1>4. Laid(SubSeq(M, 1, m) \o r, M, m, r)
    BY <1>1, CutLaid
  <1> QED
    BY <1>1, <1>3, <1>4, Zenon

\* A path that begins with self.
LEMMA LookupSelf ==
    ASSUME NEW M \in Seq(Name), NEW s \in Seq(Name), s # <<>>, s[1] = "self",
           NEW k, k = Parents(Tail(s)), k <= Len(M)
    PROVE  /\ Laid(Lookup(M, s), M, Len(M) - k, SubSeq(Tail(s), k + 1, Len(Tail(s))))
           /\ SubSeq(Tail(s), k + 1, Len(Tail(s))) \in Seq(Name)
           /\ k \in 0 .. Len(Tail(s))
  <1> PICK t : t = Tail(s)
    OBVIOUS
  <1>0. t \in Seq(Name)
    BY HeadTailProperties
  <1> PICK L, m, r : L = Len(t) /\ m = Len(M) - k /\ r = SubSeq(t, k + 1, L)
    OBVIOUS
  <1>1. k \in 0 .. L /\ L \in Nat
    <2>1. Parents(t) \in 0 .. Len(t)
      BY <1>0, ParentsLead, Zenon
    <2>2. Len(t) \in Nat
      BY <1>0
    <2> QED
      BY <2>1, <2>2, Zenon
  <1>2. m \in 0 .. Len(M) /\ r \in Seq(Name)
    BY <1>0, <1>1, SubSeqProperties
  <1>3. Lookup(M, s) = SubSeq(M, 1, m) \o r
    BY DEF Lookup
  <1>4. Laid(SubSeq(M, 1, m) \o r, M, m, r)
    BY <1>2, CutLaid
  <1> QED
    BY <1>1, <1>2, <1>3, <1>4, Zenon

\* A path that begins with the name of an item.
LEMMA LookupPlain ==
    ASSUME NEW M \in Seq(Name), NEW s \in Seq(Name), s[1] \notin {"crate", "self", "super"}
    PROVE  /\ (M # Generated \/ s[1] = "n") => Laid(Lookup(M, s), M, Len(M), s)
           /\ (M = Generated /\ s[1] # "n") => Lookup(M, s) = Home \o s
  <1>1. CASE M # Generated \/ s[1] = "n"
    <2>1. Lookup(M, s) = M \o s
      BY <1>1 DEF Lookup
    <2>2. Laid(M \o s, M, Len(M), s)
      BY AppendedLaid
    <2> QED
      BY <1>1, <2>1, <2>2, Zenon
  <1>2. CASE M = Generated /\ s[1] # "n"
    BY <1>2 DEF Lookup
  <1> QED
    BY <1>1, <1>2

\* A super in front of some segments.
OneMoreSuper(t, s) ==
    t \in Seq(Name) /\ Len(t) = 1 + Len(s) /\ t[1] = "super" /\ \A i \in 1 .. Len(s) : t[1 + i] = s[i]

\* One is put in front of a path,
LEMMA SuperInserted ==
    ASSUME NEW s \in Seq(Name)
    PROVE  OneMoreSuper(<<"super">> \o s, s)
  <1> PICK u : u = <<"super">>
    OBVIOUS
  <1>1. u \in Seq(Name) /\ Len(u) = 1 /\ u[1] = "super"
    <2>1. "super" \in Name
      BY DEF Name
    <2> QED
      BY <2>1
  <1>2. Laid(u \o s, u, 1, s)
    BY <1>1, AppendedLaid
  <1>3. 1 \in 1 .. 1
    OBVIOUS
  <1>4. OneMoreSuper(u \o s, s)
    BY <1>1, <1>2, <1>3, Zenon DEF Laid, OneMoreSuper
  <1> QED
    BY <1>4, Zenon

\* or in the place of self.
LEMMA SuperForSelf ==
    ASSUME NEW s \in Seq(Name), s # <<>>
    PROVE  OneMoreSuper([s EXCEPT ![1] = "super"], Tail(s))
  <1> PICK t, u, L : t = [s EXCEPT ![1] = "super"] /\ u = Tail(s) /\ L = Len(s)
    OBVIOUS
  <1>1. "super" \in Name /\ L \in Nat /\ L > 0
    BY DEF Name
  <1>2. t \in Seq(Name) /\ Len(t) = L /\ t[1] = "super" /\ \A i \in 2 .. L : t[i] = s[i]
    BY <1>1, ExceptSeq
  <1>3. Len(u) = L - 1 /\ \A i \in 1 .. L - 1 : u[i] = s[i + 1]
    BY <1>1, HeadTailProperties
  <1>4. \A i \in 1 .. L - 1 : t[1 + i] = u[i]
    BY <1>1, <1>2, <1>3
  <1>5. Len(t) = 1 + Len(u)
    BY <1>1, <1>2, <1>3
  <1>6. OneMoreSuper(t, u)
    BY <1>2, <1>3, <1>4, <1>5 DEF OneMoreSuper
  <1> QED
    BY <1>6, Zenon

\* It is one more parent, and what follows the parents is as before.
LEMMA ParentsMore ==
    ASSUME NEW s \in Seq(Name), NEW t, OneMoreSuper(t, s), NEW k, k = Parents(s)
    PROVE  /\ k \in 0 .. Len(s) /\ Parents(t) = k + 1 /\ k + 1 \in 1 .. Len(t)
           /\ SubSeq(t, (k + 1) + 1, Len(t)) = SubSeq(s, k + 1, Len(s))
  <1> PICK L : L = Len(s)
    OBVIOUS
  <1>3. t \in Seq(Name) /\ Len(t) = 1 + L /\ t[1] = "super" /\ L \in Nat
        /\ \A i \in 1 .. L : t[1 + i] = s[i]
    BY DEF OneMoreSuper
  <1>4. k \in 0 .. L /\ (\A j \in 1 .. k : s[j] = "super") /\ (k < L => s[k + 1] # "super")
    BY ParentsLead
  <1>5. \A j \in 1 .. k + 1 : t[j] = "super"
    <2> SUFFICES ASSUME NEW j \in 1 .. k + 1 PROVE t[j] = "super"
      OBVIOUS
    <2>1. CASE j = 1
      BY <1>3, <2>1
    <2>2. CASE j # 1
      <3> PICK i : i = j - 1
        OBVIOUS
      <3>1. i \in 1 .. L /\ i \in 1 .. k /\ 1 + i = j
        BY <1>3, <1>4, <2>2
      <3> QED
        BY <1>3, <1>4, <3>1
    <2> QED
      BY <2>1, <2>2
  <1>6. ASSUME k + 1 < 1 + L PROVE t[(k + 1) + 1] # "super"
    <2>1. k < L /\ k + 1 \in 1 .. L /\ (k + 1) + 1 = 1 + (k + 1)
      BY <1>3, <1>4, <1>6
    <2>2. t[1 + (k + 1)] = s[k + 1]
      BY <1>3, <2>1, Zenon
    <2> QED
      BY <1>4, <2>1, <2>2
  <1>7. Parents(t) = k + 1
    <2>1. k + 1 \in 0 .. Len(t)
      BY <1>3, <1>4
    <2>2. k + 1 < Len(t) => t[(k + 1) + 1] # "super"
      BY <1>3, <1>6, Zenon
    <2> QED
      BY <1>3, <1>5, <2>1, <2>2, ParentsCount
  <1>8. SubSeq(t, (k + 1) + 1, 1 + L) = SubSeq(s, k + 1, L)
    <2>0. /\ (1 + L) - ((k + 1) + 1) + 1 = L - k
          /\ (k + 1) + 1 <= 1 + L \/ L - k = 0
          /\ \A i \in 1 .. L - k : ((k + 1) + 1) + i - 1 = 1 + (k + i)
      <3>1. k \in Nat /\ k <= L /\ L \in Nat
        BY <1>3, <1>4
      <3>2. (1 + L) - ((k + 1) + 1) + 1 = L - k
        BY <3>1
      <3>3. (k + 1) + 1 <= 1 + L \/ L - k = 0
        BY <3>1
      <3>4. \A i \in 1 .. L - k : ((k + 1) + 1) + i - 1 = 1 + (k + i)
        BY <3>1
      <3> QED
        BY <3>2, <3>3, <3>4, Zenon
    <2> PICK a, b : a = SubSeq(t, (k + 1) + 1, 1 + L) /\ b = SubSeq(s, k + 1, L)
      OBVIOUS
    <2>1. k \in Nat /\ k <= L
      BY <1>3, <1>4
    <2>2. b \in Seq(Name) /\ Len(b) = L - k /\ \A i \in 1 .. L - k : b[i] = s[k + i]
      <3>1. k \in 0 .. L
        BY <1>3, <2>1
      <3>2. SubSeq(s, k + 1, L) \in Seq(Name) /\ Len(SubSeq(s, k + 1, L)) = L - k
        BY <3>1, RestNamed, Zenon
      <3>3. \A i \in 1 .. L - k : SubSeq(s, k + 1, L)[i] = s[k + i]
        BY <3>1, RestNamed, ZenonT(40)
      <3> QED
        BY <3>2, <3>3, Zenon
    <2>3. a \in Seq(Name) /\ Len(a) = L - k /\ \A i \in 1 .. L - k : a[i] = t[1 + (k + i)]
      <3> PICK n, N : n = (k + 1) + 1 /\ N = 1 + L
        OBVIOUS
      <3>1. n \in Int /\ N \in Int /\ \A i \in n .. N : t[i] \in Name
        BY <1>3, <2>1
      <3>2. /\ SubSeq(t, n, N) \in Seq(Name)
            /\ Len(SubSeq(t, n, N)) = IF n <= N THEN N - n + 1 ELSE 0
            /\ \A i \in 1 .. N - n + 1 : SubSeq(t, n, N)[i] = t[n + i - 1]
        BY <3>1, SubSeqProperties
      <3>3. a = SubSeq(t, n, N)
        BY Zenon
      <3>4. /\ a \in Seq(Name) /\ Len(a) = IF n <= N THEN N - n + 1 ELSE 0
            /\ \A i \in 1 .. N - n + 1 : a[i] = t[n + i - 1]
        BY <3>2, <3>3, Zenon
      <3>5. N - n + 1 = L - k /\ (n <= N \/ L - k = 0) /\ \A i \in 1 .. L - k : n + i - 1 = 1 + (k + i)
        BY <2>0, Zenon
      <3> QED
        BY <3>4, <3>5
    <2>4. ASSUME NEW i \in 1 .. L - k PROVE a[i] = b[i]
      <3>1. k + i \in 1 .. L
        BY <1>3, <2>1
      <3> QED
        BY <1>3, <2>2, <2>3, <3>1, Zenon
    <2>5. a = b
      BY <2>2, <2>3, <2>4, SameElements
    <2> QED
      BY <2>5
  <1>9. k + 1 \in 1 .. 1 + L
    BY <1>3, <1>4
  <1> QED
    BY <1>3, <1>4, <1>7, <1>8, <1>9, Zenon

-------------------------------------------------------------------------------

\* Segments at a depth of the source, and what they become, name the same item.
Follow(d, s, t) == Relocated(Lookup(Inside(Home, d), s)) = Lookup(Inside(Generated, d), t)

\* Paths that climb out of the source's modules need one super more.
LEMMA KeptClimbing ==
    ASSUME NEW d \in Nat, NEW s \in Seq(Name), NEW t, OneMoreSuper(t, s),
           Parents(s) > 0, Parents(s) >= d, Parents(s) < Len(Home) + d,
           ~Own(Lookup(Inside(Home, d), s))
    PROVE  Follow(d, s, t)
  <1> PICK H, M, G, k : H = Len(Home) /\ M = Inside(Home, d) /\ G = Inside(Generated, d)
                        /\ k = Parents(s)
    OBVIOUS
  <1>1. AreModules(M, G, H, d)
    BY ModulesLaid, Zenon
  <1>2. H \in Nat /\ M \in Seq(Name) /\ Len(M) = H + d /\ G \in Seq(Name) /\ Len(G) = (H + 1) + d
    BY <1>1 DEF AreModules
  <1>0. k \in 0 .. Len(s) /\ Len(s) \in Nat
    BY ParentsMore
  <1>4. k \in 1 .. Len(s) /\ k <= H + d /\ k + 1 <= (H + 1) + d
    BY <1>0, <1>2
  <1> PICK r : r = SubSeq(s, k + 1, Len(s))
    OBVIOUS
  <1>3. /\ k \in 0 .. Len(s) /\ Parents(t) = k + 1 /\ k + 1 \in 1 .. Len(t)
        /\ SubSeq(t, (k + 1) + 1, Len(t)) = r
    BY ParentsMore, Zenon
  <1>5. Laid(Lookup(M, s), M, (H + d) - k, r) /\ r \in Seq(Name)
    BY <1>2, <1>4, LookupUp, Zenon
  <1>6. Laid(Lookup(G, t), G, ((H + 1) + d) - (k + 1), r)
    <2>1. t \in Seq(Name)
      BY DEF OneMoreSuper
    <2> QED
      BY <1>2, <1>3, <1>4, <2>1, LookupUp, Zenon
  <1> PICK m : m = (H + d) - k
    OBVIOUS
  <1>7. m \in 0 .. H /\ ((H + 1) + d) - (k + 1) = m
    BY <1>2, <1>4
  <1>8. Lookup(M, s) = Lookup(G, t)
    BY <1>5, <1>6, <1>7, StaysOutside, Zenon
  <1>9. ~Own(Lookup(M, s))
    OBVIOUS
  <1> QED
    BY <1>8, <1>9, Zenon DEF Follow, Relocated

\* Outside the modules, super takes the place of self.
LEMMA KeptSelf ==
    ASSUME NEW s \in Seq(Name), s # <<>>, s[1] = "self", NEW t, OneMoreSuper(t, Tail(s)),
           Parents(Tail(s)) < Len(Home), ~Own(Lookup(Inside(Home, 0), s))
    PROVE  Follow(0, s, t)
  <1> PICK H, M, G, u, k : H = Len(Home) /\ M = Inside(Home, 0) /\ G = Inside(Generated, 0)
                           /\ u = Tail(s) /\ k = Parents(u)
    OBVIOUS
  <1>1. AreModules(M, G, H, 0)
    BY ModulesLaid, Zenon
  <1>2. H \in Nat /\ M \in Seq(Name) /\ Len(M) = H /\ G \in Seq(Name) /\ Len(G) = H + 1
    BY <1>1 DEF AreModules
  <1>3. u \in Seq(Name)
    BY HeadTailProperties
  <1>4. k \in Nat /\ k <= H /\ k + 1 <= H + 1
    <2>1. k \in 0 .. Len(u) /\ Len(u) \in Nat
      <3>1. Parents(u) \in 0 .. Len(u)
        BY <1>3, ParentsLead, Zenon
      <3>2. Len(u) \in Nat
        BY <1>3
      <3> QED
        BY <3>1, <3>2, Zenon
    <2>2. k < H
      BY Zenon
    <2> QED
      BY <1>2, <2>1, <2>2
  <1> PICK m : m = H - k
    OBVIOUS
  <1>5. m \in 0 .. H /\ (H + 1) - (k + 1) = m /\ 0 \in Nat
    BY <1>2, <1>4
  <1> PICK r : r = SubSeq(u, k + 1, Len(u))
    OBVIOUS
  <1>6. /\ k \in 0 .. Len(u) /\ Parents(t) = k + 1 /\ k + 1 \in 1 .. Len(t)
        /\ SubSeq(t, (k + 1) + 1, Len(t)) = r
    BY <1>3, ParentsMore, Zenon
  <1>7. Laid(Lookup(M, s), M, H - k, r) /\ r \in Seq(Name)
    BY <1>2, <1>4, LookupSelf, Zenon
  <1>8. Laid(Lookup(G, t), G, (H + 1) - (k + 1), r)
    <2>1. t \in Seq(Name)
      BY DEF OneMoreSuper
    <2> QED
      BY <1>2, <1>6, <1>4, <2>1, LookupUp, Zenon
  <1>9. Lookup(M, s) = Lookup(G, t)
    BY <1>7, <1>8, <1>5, StaysOutside, Zenon
  <1>10. ~Own(Lookup(M, s))
    OBVIOUS
  <1> QED
    BY <1>9, <1>10, Zenon DEF Follow, Relocated

\* Paths that stay in the source's modules are left alone.
LEMMA KeptInside ==
    ASSUME NEW d \in Nat, NEW s \in Seq(Name), Parents(s) > 0, Parents(s) < d
    PROVE  Follow(d, s, s)
  <1> PICK H, M, G, k : H = Len(Home) /\ M = Inside(Home, d) /\ G = Inside(Generated, d)
                        /\ k = Parents(s)
    OBVIOUS
  <1>1. AreModules(M, G, H, d)
    BY ModulesLaid, Zenon
  <1>2. H \in Nat /\ M \in Seq(Name) /\ Len(M) = H + d /\ G \in Seq(Name) /\ Len(G) = (H + 1) + d
    BY <1>1 DEF AreModules
  <1>3. k \in 0 .. Len(s)
    BY ParentsLead, Zenon
  <1>4. k \in 1 .. Len(s) /\ k <= H + d /\ k <= (H + 1) + d
    BY <1>2, <1>3
  <1> PICK m : m = (H + d) - k
    OBVIOUS
  <1>5. m \in Nat /\ m > H /\ m <= H + d /\ ((H + 1) + d) - k = m + 1
    BY <1>2, <1>4
  <1> PICK r : r = SubSeq(s, k + 1, Len(s))
    OBVIOUS
  <1>6. Laid(Lookup(M, s), M, (H + d) - k, r) /\ r \in Seq(Name)
    BY <1>2, <1>4, LookupUp, Zenon
  <1>7. Laid(Lookup(G, s), G, ((H + 1) + d) - k, r)
    BY <1>2, <1>4, LookupUp, Zenon
  <1>8. Relocated(Lookup(M, s)) = Lookup(G, s)
    BY <1>6, <1>7, <1>5, FollowsFromInside, Zenon
  <1> QED
    BY <1>8, Zenon DEF Follow

\* So are those that begin with self, in a module.
LEMMA KeptOwnSelf ==
    ASSUME NEW d \in Nat, d > 0, NEW s \in Seq(Name), s # <<>>, s[1] = "self",
           Len(s) > 1 => s[2] # "super"
    PROVE  Follow(d, s, s)
  <1> PICK H, M, G, u : H = Len(Home) /\ M = Inside(Home, d) /\ G = Inside(Generated, d) /\ u = Tail(s)
    OBVIOUS
  <1>1. AreModules(M, G, H, d)
    BY ModulesLaid, Zenon
  <1>2. H \in Nat /\ M \in Seq(Name) /\ Len(M) = H + d /\ G \in Seq(Name) /\ Len(G) = (H + 1) + d
    BY <1>1 DEF AreModules
  <1>3. u \in Seq(Name) /\ Len(u) = Len(s) - 1 /\ \A i \in 1 .. Len(u) : u[i] = s[i + 1]
    BY HeadTailProperties
  <1>4. Parents(u) = 0
    <2>1. 0 \in 0 .. Len(u) /\ (0 < Len(u) => u[0 + 1] # "super")
      BY <1>3
    <2>2. \A j \in 1 .. 0 : u[j] = "super"
      OBVIOUS
    <2> QED
      BY <1>3, <2>1, <2>2, ParentsCount
  <1> PICK r : r = SubSeq(u, 0 + 1, Len(u))
    OBVIOUS
  <1>5. 0 <= H + d /\ 0 <= (H + 1) + d
    BY <1>2
  <1>6. Laid(Lookup(M, s), M, (H + d) - 0, r) /\ r \in Seq(Name)
    BY <1>2, <1>4, <1>5, LookupSelf, Zenon
  <1>7. Laid(Lookup(G, s), G, ((H + 1) + d) - 0, r)
    BY <1>2, <1>4, <1>5, LookupSelf, Zenon
  <1> PICK m : m = (H + d) - 0
    OBVIOUS
  <1>8. m \in Nat /\ m > H /\ m <= H + d /\ ((H + 1) + d) - 0 = m + 1
    BY <1>2
  <1>9. Relocated(Lookup(M, s)) = Lookup(G, s)
    BY <1>6, <1>7, <1>8, FollowsFromInside, Zenon
  <1> QED
    BY <1>9, Zenon DEF Follow

\* Without modules around it, a place of the source is in the module itself.
LEMMA InsideNothing == Inside(Home, 0) = Home /\ Inside(Generated, 0) = Generated
  <1> PICK H, M, G : H = Len(Home) /\ M = Inside(Home, 0) /\ G = Inside(Generated, 0)
    OBVIOUS
  <1>1. AreModules(M, G, H, 0)
    BY ModulesLaid, Zenon
  <1>2. /\ H \in Nat /\ M \in Seq(Name) /\ Len(M) = H /\ \A i \in 1 .. H : M[i] = Home[i]
        /\ G \in Seq(Name) /\ Len(G) = H + 1 /\ \A i \in 1 .. H : G[i] = Home[i]
        /\ G[H + 1] = "__systasis_injected"
    BY <1>1 DEF AreModules
  <1>3. M = Home
    BY <1>2, HomeNamed, SameElements
  <1>4. ASSUME NEW i \in 1 .. H + 1 PROVE G[i] = Generated[i]
    <2>1. i \in 1 .. H \/ i = H + 1
      BY <1>2
    <2> QED
      BY <1>2, <2>1, HomeNamed
  <1>5. G = Generated
    BY <1>2, <1>4, HomeNamed, SameElements
  <1> QED
    BY <1>3, <1>5

\* A module of the source, named beside it.
LEMMA FollowsAppended ==
    ASSUME NEW s \in Seq(Name), s # <<>>, s[1] = "n",
           NEW b, Laid(b, Home, Len(Home), s), NEW a, Laid(a, Generated, Len(Home) + 1, s)
    PROVE  Relocated(b) = a
  <1> PICK H, L : H = Len(Home) /\ L = Len(s)
    OBVIOUS
  <1>1. H \in Nat /\ L \in Nat /\ L > 0 /\ 1 \in 1 .. L /\ H + 1 \in 1 .. H + 1
    BY HomeNamed
  <1>2. /\ b \in Seq(Name) /\ Len(b) = H + L /\ \A i \in 1 .. H : b[i] = Home[i]
        /\ \A i \in 1 .. L : b[H + i] = s[i]
    BY Zenon DEF Laid
  <1>3. /\ a \in Seq(Name) /\ Len(a) = (H + 1) + L /\ \A i \in 1 .. H + 1 : a[i] = Generated[i]
        /\ \A i \in 1 .. L : a[(H + 1) + i] = s[i]
    BY Zenon DEF Laid
  <1>4. /\ \A i \in 1 .. H : Generated[i] = Home[i]
        /\ Generated[H + 1] = "__systasis_injected"
    BY HomeNamed, Zenon
  <1>5. \A i \in 1 .. H : b[i] = Home[i] /\ a[i] = Home[i]
    BY <1>1, <1>2, <1>3, <1>4
  <1>6. a[H + 1] = "__systasis_injected"
    BY <1>1, <1>3, <1>4, Zenon
  <1>7. b[H + 1] = "n"
    BY <1>1, <1>2, Zenon
  <1>8. ASSUME NEW i \in H + 1 .. H + L PROVE a[i + 1] = b[i]
    <2> PICK j : j = i - H
      OBVIOUS
    <2>1. j \in 1 .. L /\ H + j = i /\ (H + 1) + j = i + 1
      BY <1>1
    <2>2. a[(H + 1) + j] = b[H + j]
      BY <1>2, <1>3, <2>1, Zenon
    <2> QED
      BY <2>1, <2>2, Zenon
  <1>9. Len(b) > H /\ Len(a) = Len(b) + 1
    BY <1>1, <1>2, <1>3
  <1> QED
    BY <1>2, <1>3, <1>5, <1>6, <1>7, <1>8, <1>9, Follows, Zenon

\* Names of items are left alone, too: outside the modules `use super::*` finds
\* them, except for the modules themselves.
LEMMA KeptPlain ==
    ASSUME NEW d \in Nat, NEW s \in Seq(Name), s # <<>>, s[1] \notin {"crate", "self", "super"}
    PROVE  Follow(d, s, s)
  <1> PICK H, M, G : H = Len(Home) /\ M = Inside(Home, d) /\ G = Inside(Generated, d)
    OBVIOUS
  <1>1. AreModules(M, G, H, d)
    BY ModulesLaid, Zenon
  <1>2. /\ H \in Nat /\ M \in Seq(Name) /\ Len(M) = H + d /\ G \in Seq(Name) /\ Len(G) = (H + 1) + d
        /\ \A i \in 1 .. H : M[i] = Home[i] /\ G[i] = Home[i]
        /\ G[H + 1] = "__systasis_injected"
    BY <1>1 DEF AreModules
  <1>3. Len(Generated) = H + 1 /\ Home \in Seq(Name)
    BY HomeNamed
  <1> PICK L : L = Len(s)
    OBVIOUS
  <1>4. L \in Nat /\ L > 0
    OBVIOUS
  <1>5. CASE d > 0
    <2>1. G # Generated
      BY <1>2, <1>3, <1>5
    <2>2. CASE M = Generated
      <3>1. d = 1 /\ M[H + 1] = "__systasis_injected"
        BY <1>2, <1>3, <2>2, HomeNamed
      <3>2. \A i \in 1 .. d : M[H + i] = "n"
        BY <1>1 DEF AreModules
      <3> QED
        BY <3>1, <3>2
    <2>3. CASE M # Generated
      <3>1. Laid(Lookup(M, s), M, H + d, s)
        BY <1>2, <2>3, LookupPlain, Zenon
      <3>2. Laid(Lookup(G, s), G, (H + 1) + d, s)
        BY <1>2, <2>1, LookupPlain, Zenon
      <3> PICK m : m = H + d
        OBVIOUS
      <3>3. m \in Nat /\ m > H /\ m <= H + d /\ (H + 1) + d = m + 1
        BY <1>2, <1>5
      <3>4. Relocated(Lookup(M, s)) = Lookup(G, s)
        BY <3>1, <3>2, <3>3, FollowsFromInside, Zenon
      <3> QED
        BY <3>4, Zenon DEF Follow
    <2> QED
      BY <2>2, <2>3
  <1>6. CASE d = 0
    <2>1. M = Home /\ G = Generated /\ Len(M) = H /\ M # Generated
      <3>1. M = Home /\ G = Generated
        BY <1>6, InsideNothing, Zenon
      <3> QED
        BY <1>2, <1>3, <3>1
    <2> PICK b, a : b = Lookup(M, s) /\ a = Lookup(G, s)
      OBVIOUS
    <2>2. Laid(b, M, H, s)
      BY <1>2, <2>1, LookupPlain, Zenon
    <2>3. /\ b \in Seq(Name) /\ Len(b) = H + L /\ \A i \in 1 .. H : b[i] = Home[i]
          /\ \A i \in 1 .. L : b[H + i] = s[i]
      BY <2>1, <2>2, Zenon DEF Laid
    <2>4. CASE s[1] = "n"
      <3>1. Laid(a, G, Len(G), s)
        BY <1>2, <2>4, LookupPlain, Zenon
      <3>2. Laid(a, Generated, Len(Home) + 1, s)
        BY <1>3, <2>1, <3>1, Zenon
      <3>3. Laid(b, Home, Len(Home), s)
        BY <2>1, <2>2, Zenon
      <3>4. Relocated(b) = a
        BY <2>4, <3>2, <3>3, FollowsAppended, Zenon
      <3> QED
        BY <3>4, Zenon DEF Follow
    <2>5. CASE s[1] # "n"
      <3>1. a = Home \o s
        BY <1>2, <2>1, <2>5, LookupPlain, Zenon
      <3>2. Laid(a, Home, H, s)
        BY <1>3, <3>1, AppendedLaid, Zenon
      <3>3. b = a
        <4>1. Laid(b, Home, H, s) /\ \A i \in 1 .. H : Home[i] = Home[i]
          BY <2>1, <2>2, Zenon
        <4>2. H \in Nat
          BY <1>2
        <4> QED
          BY <3>2, <4>1, <4>2, LaidSame, Zenon
      <3>4. ~Own(b)
        <4>1. 1 \in 1 .. L
          BY <1>4
        <4>2. b[H + 1] = s[1]
          BY <2>3, <4>1, Zenon
        <4> QED
          BY <2>5, <4>2, Zenon DEF Own
      <3> QED
        BY <3>3, <3>4, Zenon DEF Follow, Relocated
    <2> QED
      BY <2>4, <2>5
  <1> QED
    BY <1>5, <1>6

\* Absolute paths are left alone.
LEMMA KeptAbsolute ==
    ASSUME NEW d, NEW s, s[1] = "crate", ~Own(Lookup(Inside(Home, d), s))
    PROVE  Follow(d, s, s)
  BY DEF Follow, Relocated, Lookup

-------------------------------------------------------------------------------

\* What becomes of the segments of a path.
Moved(d, s) ==
    IF Parents(s) > 0 /\ Parents(s) >= d THEN <<"super">> \o s
    ELSE IF d = 0 /\ Len(s) > 1 /\ s[1] = "self" THEN [s EXCEPT ![1] = "super"]
    ELSE s

\* The part of the segments that names an item.
LookedUp(s, p) == IF p = 0 THEN s ELSE SubSeq(s, 1, p)

\* Segments are all that changes.
LEMMA RebasedFields ==
    ASSUME NEW d \in Nat, NEW path \in Path, ~path.colon
    PROVE  /\ Rebased(d, path).colon = path.colon /\ Rebased(d, path).position = path.position
           /\ Rebased(d, path).form = path.form /\ Rebased(d, path).segments = Moved(d, path.segments)
  <1> PICK q : q = Rebased(d, path)
    OBVIOUS
  <1>1. path \in [colon : BOOLEAN, segments : Seq(STRING) \ {<<>>}, position : Nat,
                  form : {"path", "restricted", "in"}]
    BY DEF Path
  <1>2. CASE Parents(path.segments) > 0 /\ Parents(path.segments) >= d
    <2>1. q = [path EXCEPT !.segments = <<"super">> \o @]
      BY <1>2 DEF Rebased
    <2> PICK t : t = <<"super">> \o path.segments
      OBVIOUS
    <2>2. q = [path EXCEPT !.segments = t]
      BY <2>1
    <2>3. Moved(d, path.segments) = t
      BY <1>2 DEF Moved
    <2> HIDE DEF Moved
    <2>4. q.colon = path.colon /\ q.position = path.position /\ q.form = path.form /\ q.segments = t
      BY <1>1, <2>2
    <2> QED
      BY <2>3, <2>4
  <1>3. CASE /\ ~(Parents(path.segments) > 0 /\ Parents(path.segments) >= d)
             /\ d = 0 /\ Len(path.segments) > 1 /\ path.segments[1] = "self"
    <2>1. q = [path EXCEPT !.segments[1] = "super"]
      BY <1>3 DEF Rebased
    <2> PICK t : t = [path.segments EXCEPT ![1] = "super"]
      OBVIOUS
    <2>2. q = [path EXCEPT !.segments = t]
      BY <2>1
    <2>3. Moved(d, path.segments) = t
      BY <1>3, Zenon DEF Moved
    <2>4. q.colon = path.colon /\ q.position = path.position /\ q.form = path.form /\ q.segments = t
      BY <1>1, <2>2
    <2> QED
      BY <2>3, <2>4
  <1>4. CASE /\ ~(Parents(path.segments) > 0 /\ Parents(path.segments) >= d)
             /\ ~(d = 0 /\ Len(path.segments) > 1 /\ path.segments[1] = "self")
    BY <1>4, Zenon DEF Rebased, Moved
  <1> QED
    BY <1>2, <1>3, <1>4, Zenon

\* The part that names an item begins as the path does.
LEMMA LookedUpBegins ==
    ASSUME NEW s \in Seq(Name), s # <<>>, NEW p \in 0 .. Len(s)
    PROVE  /\ LookedUp(s, p) \in Seq(Name) /\ LookedUp(s, p) # <<>> /\ LookedUp(s, p)[1] = s[1]
           /\ Len(LookedUp(s, p)) = IF p = 0 THEN Len(s) ELSE p
           /\ \A i \in 1 .. Len(LookedUp(s, p)) : LookedUp(s, p)[i] = s[i]
  <1> PICK L, l : L = Len(s) /\ l = LookedUp(s, p)
    OBVIOUS
  <1>1. L \in Nat /\ L > 0 /\ p \in 0 .. L
    OBVIOUS
  <1>2. CASE p = 0
    <2>1. l = s
      BY <1>2 DEF LookedUp
    <2>2. /\ l \in Seq(Name) /\ l # <<>> /\ l[1] = s[1] /\ Len(l) = IF p = 0 THEN Len(s) ELSE p
          /\ \A i \in 1 .. Len(l) : l[i] = s[i]
      BY <1>2, <2>1, Zenon
    <2> QED
      BY <2>2, Zenon
  <1>3. CASE p > 0
    <2>1. l = SubSeq(s, 1, p)
      BY <1>1, <1>3 DEF LookedUp
    <2>2. p \in Int /\ p <= L /\ \A i \in 1 .. p : s[i] \in Name
      BY <1>1
    <2>3. l \in Seq(Name) /\ Len(l) = p /\ \A i \in 1 .. p : l[i] = s[i]
      BY <1>3, <2>1, <2>2, SubSeqProperties
    <2>4. l # <<>> /\ l[1] = s[1]
      BY <1>1, <1>3, <2>3
    <2>5. /\ l \in Seq(Name) /\ l # <<>> /\ l[1] = s[1] /\ Len(l) = IF p = 0 THEN Len(s) ELSE p
          /\ \A i \in 1 .. Len(l) : l[i] = s[i]
      BY <1>1, <1>3, <2>3, <2>4
    <2> QED
      BY <2>5, Zenon
  <1> QED
    BY <1>1, <1>2, <1>3

\* Changing the first segment changes nothing after it.
LEMMA FirstReplaced ==
    ASSUME NEW s \in Seq(Name), s # <<>>, NEW p \in 0 .. Len(s), NEW t, t = [s EXCEPT ![1] = "super"]
    PROVE  /\ LookedUp(t, p) = [LookedUp(s, p) EXCEPT ![1] = "super"]
           /\ p > 0 => SubSeq(t, p + 1, Len(t)) = SubSeq(s, p + 1, Len(s))
           /\ t \in Seq(Name) /\ t # <<>> /\ Len(t) = Len(s)
  <1> PICK L : L = Len(s)
    OBVIOUS
  <1>1. L \in Nat /\ L > 0 /\ p \in 0 .. L /\ "super" \in Name
    BY DEF Name
  <1>2. /\ t \in Seq(Name) /\ Len(t) = L
        /\ \A i \in 1 .. L : t[i] = IF i = 1 THEN "super" ELSE s[i]
    BY <1>1, ExceptSeq
  <1>3. t # <<>>
    BY <1>1, <1>2
  <1> PICK l, m : l = LookedUp(s, p) /\ m = LookedUp(t, p)
    OBVIOUS
  <1>4. /\ l \in Seq(Name) /\ l # <<>> /\ Len(l) = (IF p = 0 THEN L ELSE p)
        /\ \A i \in 1 .. Len(l) : l[i] = s[i]
    BY LookedUpBegins, Zenon
  <1>5. /\ m \in Seq(Name) /\ Len(m) = (IF p = 0 THEN L ELSE p)
        /\ \A i \in 1 .. Len(m) : m[i] = t[i]
    <2>1. t \in Seq(Name) /\ p \in 0 .. Len(t)
      BY <1>1, <1>2, Zenon
    <2>2. /\ LookedUp(t, p) \in Seq(Name) /\ Len(LookedUp(t, p)) = IF p = 0 THEN Len(t) ELSE p
          /\ \A i \in 1 .. Len(LookedUp(t, p)) : LookedUp(t, p)[i] = t[i]
      BY <1>3, <2>1, LookedUpBegins, Zenon
    <2>3. Len(t) = L
      BY <1>2
    <2> QED
      BY <2>2, <2>3, Zenon
  <1> PICK n : n = [l EXCEPT ![1] = "super"]
    OBVIOUS
  <1>6. n \in Seq(Name) /\ Len(n) = Len(l) /\ \A i \in 1 .. Len(l) : n[i] = IF i = 1 THEN "super" ELSE l[i]
    BY <1>1, <1>4, ExceptSeq
  <1>7. m = n
    <2>1. Len(m) = Len(n)
      BY <1>4, <1>5, <1>6, Zenon
    <2>2. ASSUME NEW i \in 1 .. Len(m) PROVE m[i] = n[i]
      <3>1. i \in 1 .. Len(l) /\ i \in 1 .. L
        BY <1>1, <1>4, <1>5
      <3>2. m[i] = t[i] /\ t[i] = (IF i = 1 THEN "super" ELSE s[i]) /\ l[i] = s[i]
        BY <1>2, <1>4, <1>5, <3>1, Zenon
      <3>3. n[i] = IF i = 1 THEN "super" ELSE l[i]
        BY <1>6, <3>1, Zenon
      <3> QED
        BY <3>2, <3>3, Zenon
    <2>3. m \in Seq(Name) /\ n \in Seq(Name)
      BY <1>5, <1>6, Zenon
    <2> QED
      BY <2>1, <2>2, <2>3, SameElements, Zenon
  <1>8. ASSUME p > 0 PROVE SubSeq(t, p + 1, L) = SubSeq(s, p + 1, L)
    <2>1. p + 1 \in Int /\ L \in Int /\ \A i \in p + 1 .. L : s[i] \in Name /\ t[i] = s[i] /\ t[i] \in Name
      BY <1>1, <1>2, <1>8
    <2> PICK a, b, N : a = SubSeq(t, p + 1, L) /\ b = SubSeq(s, p + 1, L) /\ N = L - (p + 1) + 1
      OBVIOUS
    <2>2. /\ a \in Seq(Name) /\ Len(a) = (IF p + 1 <= L THEN N ELSE 0)
          /\ \A i \in 1 .. N : a[i] = t[(p + 1) + i - 1]
      BY <2>1, SubSeqProperties
    <2>3. /\ b \in Seq(Name) /\ Len(b) = (IF p + 1 <= L THEN N ELSE 0)
          /\ \A i \in 1 .. N : b[i] = s[(p + 1) + i - 1]
      BY <2>1, SubSeqProperties
    <2>4. N \in Nat /\ (IF p + 1 <= L THEN N ELSE 0) = N /\ \A i \in 1 .. N : (p + 1) + i - 1 \in p + 1 .. L
      BY <1>1
    <2>5. \A i \in 1 .. N : a[i] = b[i]
      BY <2>1, <2>2, <2>3, <2>4
    <2>6. a = b
      BY <2>2, <2>3, <2>4, <2>5, SameElements
    <2> QED
      BY <2>6
  <1> QED
    BY <1>2, <1>3, <1>7, <1>8, Zenon

\* The part of a path that names an item names it after the move.
LEMMA LookedUpFollows ==
    ASSUME NEW d \in Nat, NEW path, Movable(d, path), ~path.colon, NEW s, s = path.segments,
           NEW p, p = path.position
    PROVE  Follow(d, LookedUp(s, p), LookedUp(Moved(d, s), p))
  <1> PICK k, l : k = Parents(s) /\ l = LookedUp(s, p)
    OBVIOUS
  <1>1. /\ s \in Seq(Name) /\ s # <<>> /\ Len(s) \in Nat /\ Len(s) > 0 /\ p \in 0 .. Len(s)
        /\ k > 0 /\ k >= d => p = 0 /\ k < Len(Home) + d
        /\ p > 0 => p > k
    <2>1. s \in Seq(STRING) \ {<<>>} /\ p \in Nat /\ p <= Len(s)
      BY DEF Movable, Path
    <2>2. s \in Seq(Name) /\ s # <<>> /\ Len(s) \in Nat /\ Len(s) > 0 /\ p \in 0 .. Len(s)
      BY <2>1, SegmentsNamed
    <2> QED
      BY <2>2 DEF Movable
  <1>2. /\ s[1] = "crate" \/ (k > 0 /\ k >= d) \/ (d = 0 /\ s[1] = "self")
              => ~Own(Lookup(Inside(Home, d), l))
        /\ s[1] = "self" => IF d = 0 THEN Len(l) > 1 /\ Parents(Tail(l)) < Len(Home)
                            ELSE Len(l) > 1 => l[2] # "super"
    BY Zenon DEF Movable, LookedUp
  <1>3. /\ l \in Seq(Name) /\ l # <<>> /\ l[1] = s[1] /\ Len(l) = (IF p = 0 THEN Len(s) ELSE p)
        /\ \A i \in 1 .. Len(l) : l[i] = s[i]
    BY <1>1, LookedUpBegins, Zenon
  <1>4. /\ k \in 0 .. Len(s) /\ (\A j \in 1 .. k : s[j] = "super")
        /\ k < Len(s) => s[k + 1] # "super"
    BY <1>1, ParentsLead, Zenon
  <1>5. CASE k > 0 /\ k >= d
    <2>1. p = 0 /\ l = s /\ LookedUp(Moved(d, s), p) = <<"super">> \o s
      BY <1>1, <1>5, Zenon DEF LookedUp, Moved
    <2>2. OneMoreSuper(<<"super">> \o s, s)
      BY <1>1, SuperInserted, Zenon
    <2>3. Follow(d, s, <<"super">> \o s)
      BY <1>1, <1>2, <1>5, <2>1, <2>2, KeptClimbing, Zenon
    <2> QED
      BY <2>1, <2>3, Zenon
  <1>6. CASE k > 0 /\ ~(k >= d)
    <2>1. k < d /\ d # 0
      BY <1>1, <1>4, <1>6
    <2>2. LookedUp(Moved(d, s), p) = l
      BY <1>6, <2>1, Zenon DEF Moved
    <2>3. Parents(l) = k
      <3>1. k \in 0 .. Len(l) /\ (p = 0 => l = s) /\ (p # 0 => k < Len(l) /\ Len(l) \in Nat)
        BY <1>1, <1>3, <1>4 DEF LookedUp
      <3>2. CASE p = 0
        BY <3>1, <3>2, Zenon
      <3>3. CASE p # 0
        <4>1. \A j \in 1 .. k : l[j] = "super"
          BY <1>3, <1>4, <3>1
        <4>2. k < Len(s) /\ k + 1 \in 1 .. Len(l)
          BY <1>1, <1>3, <1>4, <3>1, <3>3
        <4>3. l[k + 1] # "super"
          BY <1>3, <1>4, <4>2, Zenon
        <4> QED
          <5>1. l \in Seq(Name) /\ k \in 0 .. Len(l) /\ (k < Len(l) => l[k + 1] # "super")
            BY <1>3, <3>1, <4>3, Zenon
          <5> QED
            BY <4>1, <5>1, ParentsCount, Zenon
      <3> QED
        BY <3>2, <3>3
    <2>4. Follow(d, l, l)
      BY <1>3, <1>6, <2>1, <2>3, KeptInside, Zenon
    <2> QED
      BY <2>2, <2>4, Zenon
  <1>7. CASE ~(k > 0)
    <2>1. k = 0 /\ s[1] # "super"
      <3>1. k = 0
        BY <1>1, <1>4, <1>7
      <3> QED
        BY <1>1, <1>4, <3>1
    <2>2. CASE s[1] = "self" /\ d = 0
      <3>1. Len(l) > 1 /\ Parents(Tail(l)) < Len(Home)
        BY <1>2, <2>2, Zenon
      <3>2. Len(s) > 1
        BY <1>1, <1>3, <3>1
      <3> PICK t : t = [s EXCEPT ![1] = "super"]
        OBVIOUS
      <3>3. Moved(d, s) = t
        BY <1>7, <2>2, <3>2, Zenon DEF Moved
      <3>4. LookedUp(t, p) = [l EXCEPT ![1] = "super"]
        BY <1>1, FirstReplaced, Zenon
      <3>5. OneMoreSuper([l EXCEPT ![1] = "super"], Tail(l))
        BY <1>3, SuperForSelf, Zenon
      <3>6. l[1] = "self" /\ ~Own(Lookup(Inside(Home, 0), l))
        BY <1>2, <1>3, <2>2, Zenon
      <3>7. Follow(0, l, [l EXCEPT ![1] = "super"])
        BY <1>3, <3>1, <3>5, <3>6, KeptSelf, Zenon
      <3> QED
        BY <2>2, <3>3, <3>4, <3>7, Zenon
    <2>3. CASE ~(s[1] = "self" /\ d = 0)
      <3>1. LookedUp(Moved(d, s), p) = l
        BY <1>7, <2>3, Zenon DEF Moved
      <3>2. CASE s[1] = "crate"
        <4>1. Follow(d, l, l)
          BY <1>2, <1>3, <3>2, KeptAbsolute, Zenon
        <4> QED
          BY <3>1, <4>1, Zenon
      <3>3. CASE s[1] = "self"
        <4>1. d > 0 /\ d # 0
          BY <2>3, <3>3
        <4>2. Follow(d, l, l)
          BY <1>2, <1>3, <3>3, <4>1, KeptOwnSelf, Zenon
        <4> QED
          BY <3>1, <4>2, Zenon
      <3>4. CASE s[1] \notin {"crate", "self"}
        <4>1. l[1] \notin {"crate", "self", "super"}
          BY <1>3, <2>1, <3>4
        <4>2. Follow(d, l, l)
          BY <1>3, <4>1, KeptPlain, Zenon
        <4> QED
          BY <3>1, <4>2, Zenon
      <3> QED
        BY <3>2, <3>3, <3>4
    <2> QED
      BY <2>2, <2>3
  <1> QED
    BY <1>5, <1>6, <1>7, Zenon

\* The source's modules are in the crate.
LEMMA OwnInCrate ==
    ASSUME NEW x \in Seq(Name), Own(x)
    PROVE  x[1] = "crate"
  <1> PICK H, c : H = Len(Home) /\ c = SubSeq(x, 1, H)
    OBVIOUS
  <1>1. H \in Nat /\ H > 0 /\ Home[1] = "crate"
    BY HomeNamed
  <1>2. Len(x) > H /\ c = Home
    BY Zenon DEF Own
  <1>3. \A i \in 1 .. H : x[i] \in Name
    BY <1>1, <1>2
  <1>4. \A i \in 1 .. H : c[i] = x[i]
    BY <1>1, <1>3, SubSeqProperties
  <1> QED
    BY <1>1, <1>2, <1>4

\* A path with a leading `::` names the same item everywhere.
LEMMA ExternStays ==
    ASSUME NEW s \in Seq(Name)
    PROVE  Relocated(<<"extern">> \o s) = <<"extern">> \o s
  <1> PICK u, x : u = <<"extern">> /\ x = u \o s
    OBVIOUS
  <1>1. u \in Seq(Name) /\ Len(u) = 1 /\ u[1] = "extern"
    <2>1. "extern" \in Name
      BY DEF Name
    <2> QED
      BY <2>1
  <1>2. Laid(u \o s, u, 1, s)
    BY <1>1, AppendedLaid
  <1>3. x \in Seq(Name) /\ x[1] = "extern"
    <2>1. 1 \in 1 .. 1
      OBVIOUS
    <2>2. Laid(x, u, 1, s)
      BY <1>2, Zenon
    <2> QED
      BY <1>1, <2>1, <2>2, Zenon DEF Laid
  <1>4. ~Own(x)
    BY <1>3, OwnInCrate
  <1>5. Relocated(x) = x
    BY <1>4, Zenon DEF Relocated
  <1> QED
    BY <1>5, Zenon

\* Rebase keeps the meaning of every path it is meant for, at every depth of the
\* moved source and wherever the attributed function is.
THEOREM RebasedKeepsMeaning ==
    ASSUME NEW d \in Nat, NEW path, Movable(d, path)
    PROVE  KeepsMeaning(d, path, Rebased(d, path))
  <1> PICK M, G, s, p : M = Inside(Home, d) /\ G = Inside(Generated, d)
                        /\ s = path.segments /\ p = path.position
    OBVIOUS
  <1>1. /\ path \in Path /\ s \in Seq(Name) /\ s # <<>> /\ Len(s) \in Nat
        /\ p \in 0 .. Len(s)
        /\ path.form = "restricted" => ~(Len(s) > 1)
    <2>1. path \in Path /\ s \in Seq(STRING) \ {<<>>} /\ p \in Nat /\ p <= Len(s)
          /\ (path.form = "restricted" => Len(s) = 1)
      BY DEF Movable, Path
    <2>2. s \in Seq(Name) /\ s # <<>> /\ Len(s) \in Nat /\ p \in 0 .. Len(s)
      BY <2>1, SegmentsNamed
    <2>3. Len(s) = 1 => ~(Len(s) > 1)
      OBVIOUS
    <2> QED
      BY <2>1, <2>2, <2>3, Zenon
  <1>2. CASE path.colon
    <2>1. Rebased(d, path) = path
      BY <1>2 DEF Rebased
    <2> PICK x : x = <<"extern">> \o s
      OBVIOUS
    <2>2. Relocated(x) = x
      BY <1>1, ExternStays, Zenon
    <2>3. Meaning(M, path) = <<x>> /\ Meaning(G, path) = <<x>>
      BY <1>2, Zenon DEF Meaning
    <2> QED
      BY <2>1, <2>2, <2>3 DEF KeepsMeaning
  <1>3. CASE ~path.colon
    <2> PICK q, t : q = Rebased(d, path) /\ t = Moved(d, s)
      OBVIOUS
    <2>1. ~q.colon /\ q.position = p /\ q.form = path.form /\ q.segments = t
      BY <1>1, <1>3, RebasedFields, Zenon
    <2>2. Follow(d, LookedUp(s, p), LookedUp(t, p))
      BY <1>3, LookedUpFollows, Zenon
    <2> PICK b, a : b = Lookup(M, LookedUp(s, p)) /\ a = Lookup(G, LookedUp(t, p))
      OBVIOUS
    <2>3. Relocated(b) = a
      BY <2>2, Zenon DEF Follow
    <2>4. ~(path.form = "restricted" /\ Len(s) > 1)
      BY <1>1, Zenon
    <2>5. (path.form = "restricted" \/ p > 0) => ~(Parents(s) > 0 /\ Parents(s) >= d)
      BY <1>1, <1>3 DEF Movable
    <2>6. ~(q.form = "restricted" /\ Len(t) > 1)
      <3> SUFFICES ASSUME path.form = "restricted" PROVE ~(Len(t) > 1)
        BY <2>1
      <3>1. ~(Len(s) > 1)
        BY <2>4, Zenon
      <3>2. t = s
        BY <2>5, <3>1, Zenon DEF Moved
      <3> QED
        BY <3>1, <3>2
    <2>7. CASE p = 0
      <3>1. Meaning(M, path) = <<b>> /\ Meaning(G, q) = <<a>>
        BY <1>3, <2>1, <2>4, <2>6, <2>7, Zenon DEF Meaning, LookedUp
      <3> QED
        BY <2>3, <3>1 DEF KeepsMeaning
    <2>8. CASE p # 0
      <3> PICK v, w : v = SubSeq(s, p + 1, Len(s)) /\ w = SubSeq(t, p + 1, Len(t))
        OBVIOUS
      <3>1. v = w
        <4>1. p > 0
          BY <1>1, <2>8
        <4>2. t = s \/ t = [s EXCEPT ![1] = "super"]
          BY <2>5, <4>1, Zenon DEF Moved
        <4>3. CASE t = s
          BY <4>3, Zenon
        <4>4. CASE t = [s EXCEPT ![1] = "super"]
          <5>1. s \in Seq(Name) /\ s # <<>> /\ p \in 0 .. Len(s)
            BY <1>1, Zenon
          <5>2. p > 0 => SubSeq(t, p + 1, Len(t)) = SubSeq(s, p + 1, Len(s))
            BY <4>4, <5>1, FirstReplaced, ZenonT(40)
          <5> QED
            BY <4>1, <5>2, Zenon
        <4> QED
          BY <4>2, <4>3, <4>4
      <3>2. Meaning(M, path) = <<b, v>> /\ Meaning(G, q) = <<a, w>>
        BY <1>3, <2>1, <2>4, <2>6, <2>8, Zenon DEF Meaning, LookedUp
      <3> QED
        BY <2>3, <3>1, <3>2 DEF KeepsMeaning
    <2> QED
      BY <2>7, <2>8
  <1> QED
    BY <1>2, <1>3

-------------------------------------------------------------------------------
(* Injected: one registration on its way into the generated module.          *)

\* An item is a sequence of names.
LEMMA LookupTyped ==
    ASSUME NEW M \in Seq(Name), NEW s \in Seq(Name), s # <<>>
    PROVE  Lookup(M, s) \in Seq(Name)
  <1> PICK u : u = IF s[1] = "self" THEN Tail(s) ELSE s
    OBVIOUS
  <1>1. u \in Seq(Name) /\ Len(u) \in Nat
    BY HeadTailProperties
  <1> PICK k, L, N : k = Parents(u) /\ L = Len(u) /\ N = Len(M)
    OBVIOUS
  <1>2. k \in 0 .. L /\ L \in Nat /\ N \in Nat
    <2>1. Parents(u) \in 0 .. Len(u)
      BY <1>1, ParentsLead, Zenon
    <2>2. Len(M) \in Nat
      OBVIOUS
    <2> QED
      BY <1>1, <2>1, <2>2, Zenon
  <1> PICK m, n : m = N - k /\ n = k + 1
    OBVIOUS
  <1>3. m \in Int /\ n \in Int /\ L \in Int /\ 1 \in Int /\ (\A i \in 1 .. m : M[i] \in Name)
        /\ (\A i \in n .. L : u[i] \in Name)
    <2>1. m \in Int /\ n \in Int /\ L \in Int /\ 1 \in Int /\ m <= N /\ n >= 1
      BY <1>2
    <2>2. \A i \in 1 .. m : i \in 1 .. Len(M)
      BY <2>1
    <2>3. \A i \in n .. L : i \in 1 .. Len(u)
      BY <2>1
    <2>4. (\A i \in 1 .. Len(M) : M[i] \in Name) /\ (\A i \in 1 .. Len(u) : u[i] \in Name)
      BY <1>1
    <2> QED
      BY <2>1, <2>2, <2>3, <2>4, Zenon
  <1>4. SubSeq(M, 1, m) \in Seq(Name) /\ SubSeq(u, n, L) \in Seq(Name)
    BY <1>1, <1>3, PartNamed, Zenon
  <1>5. SubSeq(M, 1, m) \o SubSeq(u, n, L) \in Seq(Name) /\ M \o s \in Seq(Name) /\ Home \o s \in Seq(Name)
    BY <1>4, HomeNamed, ConcatProperties
  <1>6. Lookup(M, s) \in {s, SubSeq(M, 1, m) \o SubSeq(u, n, L), Home \o s, M \o s}
    BY Zenon DEF Lookup
  <1> QED
    BY <1>5, <1>6, Zenon

\* What a path that can be moved names in the function's module.
LEMMA MeaningTyped ==
    ASSUME NEW path, Movable(0, path)
    PROVE  Meaning(Home, path)[1] \in Seq(Name)
  <1> PICK s, p : s = path.segments /\ p = path.position
    OBVIOUS
  <1>1. /\ s \in Seq(Name) /\ s # <<>> /\ p \in 0 .. Len(s)
        /\ ~(path.form = "restricted" /\ Len(s) > 1)
    <2>1. /\ s \in Seq(STRING) \ {<<>>} /\ p \in Nat /\ p <= Len(s)
          /\ (path.form = "restricted" => Len(s) = 1)
      BY DEF Movable, Path
    <2>2. s \in Seq(Name) /\ s # <<>> /\ p \in 0 .. Len(s)
      BY <2>1, SegmentsNamed
    <2>3. Len(s) = 1 => ~(Len(s) > 1)
      OBVIOUS
    <2> QED
      BY <2>1, <2>2, <2>3, Zenon
  <1>2. LookedUp(s, p) \in Seq(Name) /\ LookedUp(s, p) # <<>>
    BY <1>1, LookedUpBegins, Zenon
  <1> PICK x, y : x = <<"extern">> \o s /\ y = Lookup(Home, LookedUp(s, p))
    OBVIOUS
  <1>3. y \in Seq(Name)
    BY <1>2, HomeNamed, LookupTyped, Zenon
  <1>4. x \in Seq(Name)
    <2>1. "extern" \in Name
      BY DEF Name
    <2>2. <<"extern">> \in Seq(Name)
      BY <2>1
    <2>3. <<"extern">> \o s \in Seq(Name)
      BY <1>1, <2>2, ConcatProperties, Zenon
    <2> QED
      BY <2>3, Zenon
  <1>5. Meaning(Home, path) = <<x>> \/ Meaning(Home, path) = <<y>>
        \/ Meaning(Home, path) = <<y, SubSeq(s, p + 1, Len(s))>>
    BY <1>1, Zenon DEF Meaning, LookedUp
  <1>6. \A a, b : <<a>>[1] = a /\ <<a, b>>[1] = a
    OBVIOUS
  <1> QED
    BY <1>3, <1>4, <1>5, <1>6, Zenon

\* The declarations that rustc knows are outside the source's modules.
LEMMA DeclaresMoved ==
    ASSUME NEW x \in Seq(Name)
    PROVE  Declares(Relocated(x)) = Declares(x)
  <1>1. CASE ~Own(x)
    BY <1>1, Zenon DEF Relocated
  <1>2. CASE Own(x)
    <2> PICK H, L, g : H = Len(Home) /\ L = Len(x) /\ g = Append(Home, "V")
      OBVIOUS
    <2>1. H \in Nat /\ H > 0 /\ L \in Nat /\ L > H /\ x[H + 1] = "n"
      BY <1>2, HomeNamed DEF Own
    <2>2. g[H + 1] = "V"
      BY HomeAssumption
    <2>3. x # g
      BY <2>1, <2>2
    <2>4. x # <<"crate", "V">>
      <3> SUFFICES ASSUME x = <<"crate", "V">> PROVE FALSE
        OBVIOUS
      <3>1. L = 2 /\ x[2] = "V"
        OBVIOUS
      <3>2. H + 1 = 2
        BY <2>1, <3>1
      <3> QED
        BY <2>1, <3>1, <3>2
    <2>5. \A n \in Nat : n = L - H => (H + 1) + n > 2
      BY <2>1
    <2>6. L - H \in Nat
      BY <2>1
    <2>7. \A n : n > 2 => n # Len(<<"crate", "V">>)
      OBVIOUS
    <2> PICK r, y : r = SubSeq(x, H + 1, L) /\ y = Generated \o r
      OBVIOUS
    <2>8. r \in Seq(Name) /\ Len(r) = L - H
      <3>1. \A i \in H + 1 .. L : x[i] \in Name
        BY <2>1
      <3> QED
        BY <2>1, <3>1, SubSeqProperties
    <2>9. Laid(Generated \o r, Generated, Len(Generated), r)
      BY <2>8, HomeNamed, AppendedLaid, Zenon
    <2>10. Len(Generated) = H + 1 /\ Generated[H + 1] = "__systasis_injected"
      BY HomeNamed, Zenon
    <2>11. Laid(y, Generated, H + 1, r)
      BY <2>9, <2>10, Zenon
    <2>12. Len(y) = (H + 1) + Len(r) /\ y[H + 1] = "__systasis_injected"
      <3>1. H + 1 \in 1 .. H + 1
        BY <2>1
      <3> QED
        BY <2>10, <2>11, <3>1, Zenon DEF Laid
    <2>13. y # g
      BY <2>2, <2>12
    <2>14. y # <<"crate", "V">>
      <3>1. Len(r) \in Nat /\ Len(r) = L - H
        BY <2>8, <2>6, Zenon
      <3>2. Len(y) > 2
        BY <2>12, <2>5, <3>1, Zenon
      <3> QED
        BY <2>7, <3>2, Zenon
    <2>15. Relocated(x) = y
      BY <1>2, Zenon DEF Relocated
    <2> QED
      BY <2>3, <2>4, <2>13, <2>14, <2>15, Zenon DEF Declares
  <1> QED
    BY <1>1, <1>2

\* A moved type is the declared one to rustc.
LEMMA DeclaredSame ==
    ASSUME NEW path, Movable(0, path)
    PROVE  Declares(Meaning(Generated, Rebased(0, path))[1])
              = Declares(Meaning(Home, path)[1])
  <1>1. KeepsMeaning(0, path, Rebased(0, path))
    BY RebasedKeepsMeaning
  <1>2. Relocated(Meaning(Home, path)[1]) = Meaning(Generated, Rebased(0, path))[1]
    BY <1>1, InsideNothing, Zenon DEF KeepsMeaning
  <1> QED
    BY <1>2, MeaningTyped, DeclaresMoved, Zenon

-------------------------------------------------------------------------------
(* Policy: what the expansion claims and what rustc knows.                   *)

\* The parts of a type.
LEMMA TypeParts ==
    ASSUME NEW t \in Type
    PROVE  /\ t.around \in Seq(STRING)
           /\ \A n : Operand(t, n).leaf = t.leaf
           /\ \A n : Operand(t, n).around = SubSeq(t.around, n + 1, Len(t.around))
           /\ ungrouped_type_spelling(t).leaf = t.leaf
           /\ Identity(t).leaf = t.leaf
           /\ \A n : Identity(Operand(t, n)).leaf = t.leaf
  <1>1. /\ DOMAIN t = {"around", "leaf"} /\ t.around \in Seq(STRING)
        /\ t = [k \in DOMAIN t |-> t[k]]
    BY DEF Type
  <1>2. \A u, a : DOMAIN u = {"around", "leaf"} =>
            /\ DOMAIN [u EXCEPT !.around = a] = {"around", "leaf"}
            /\ [u EXCEPT !.around = a].leaf = u.leaf
            /\ [u EXCEPT !.around = a].around = a
    OBVIOUS
  <1>3. \A n : /\ DOMAIN Operand(t, n) = {"around", "leaf"}
               /\ Operand(t, n).leaf = t.leaf
               /\ Operand(t, n).around = SubSeq(t.around, n + 1, Len(t.around))
    BY <1>1, <1>2, Zenon DEF Operand
  <1>4. \A u : DOMAIN u = {"around", "leaf"} =>
            /\ DOMAIN ungrouped_type_spelling(u) = {"around", "leaf"}
            /\ ungrouped_type_spelling(u).leaf = u.leaf
    BY <1>2, Zenon DEF ungrouped_type_spelling
  <1>5. \A u : DOMAIN u = {"around", "leaf"} => Identity(u).leaf = u.leaf
    BY <1>2, <1>4, Zenon DEF Identity
  <1> QED
    BY <1>1, <1>3, <1>4, <1>5, Zenon

\* A type is its own whole operand.
LEMMA WholeOperand ==
    ASSUME NEW t \in Type
    PROVE  Operand(t, 0) = t
  <1>1. SubSeq(t.around, 0 + 1, Len(t.around)) = t.around
    <2>1. SubSeq(t.around, 1, Len(t.around)) = t.around
      BY TypeParts, SubSeqFull, Zenon
    <2>2. 0 + 1 = 1
      OBVIOUS
    <2> QED
      BY <2>1, <2>2, Zenon
  <1>2. [t EXCEPT !.around = t.around] = t
    BY DEF Type
  <1> QED
    BY <1>1, <1>2, Zenon DEF Operand

\* The parts of a registration.
LEMMA RegistrationParts ==
    ASSUME NEW r \in Registration
    PROVE  /\ r.ty \in Type
           /\ \A b \in r.bounds : b.ty \in Type /\ b.ty.leaf = <<"param">>
           /\ r.fresh \in BOOLEAN
           /\ r.source \in Seq(Path \cup {Begin, End})
  BY DEF Registration

\* No bound is on a type, or an operand of a type, that has no parameter.
LEMMA Unbounded ==
    ASSUME NEW r \in Registration, r.ty.leaf[1] # "param"
    PROVE  /\ \A b \in r.bounds : \A n : Identity(b.ty) # Identity(Operand(r.ty, n))
           /\ \A spellings : ~Bounded(r.ty, r.bounds, spellings)
  <1>1. \A b \in r.bounds : b.ty.leaf # r.ty.leaf
    <2>1. \A b \in r.bounds : b.ty.leaf[1] = "param"
      BY RegistrationParts
    <2> QED
      BY <2>1, Zenon
  <1>2. \A b \in r.bounds : \A n : Identity(b.ty) # Identity(Operand(r.ty, n))
    <2>1. \A b \in r.bounds : Identity(b.ty).leaf = b.ty.leaf
      BY RegistrationParts, TypeParts, Zenon
    <2>2. \A n : Identity(Operand(r.ty, n)).leaf = r.ty.leaf
      BY RegistrationParts, TypeParts, Zenon
    <2> TAKE b \in r.bounds
    <2> TAKE n
    <2>3. Identity(b.ty).leaf # Identity(Operand(r.ty, n)).leaf
      BY <1>1, <2>1, <2>2, Zenon
    <2> QED
      BY <2>3, Zenon
  <1>3. \A spellings : ~Bounded(r.ty, r.bounds, spellings)
    <2>1. \A b \in r.bounds : ungrouped_type_spelling(b.ty).leaf = b.ty.leaf
      BY RegistrationParts, TypeParts, Zenon
    <2>2. ungrouped_type_spelling(r.ty).leaf = r.ty.leaf
      BY RegistrationParts, TypeParts, Zenon
    <2>3. \A b \in r.bounds :
              ungrouped_type_spelling(b.ty) # ungrouped_type_spelling(r.ty)
      BY <1>1, <2>1, <2>2, Zenon
    <2> QED
      BY <2>3, Zenon DEF Bounded
  <1> QED
    BY <1>2, <1>3, Zenon

\* rustc finds the same impls for a type without generics in the generated module
\* as where the type was declared, bounds or not.
LEMMA FlagExact ==
    ASSUME NEW r, WellFormed(r), r.ty.leaf[1] = "named", NEW trait
    PROVE  Proves(Generated, [r.ty EXCEPT !.leaf = <<"named", Rebased(0, r.ty.leaf[2])>>],
                      trait, {}, r.shadowed)
              <=> Known(r, trait)
  <1> PICK z : z = [r.ty EXCEPT !.leaf = <<"named", Rebased(0, r.ty.leaf[2])>>]
    OBVIOUS
  <1>1. r \in Registration /\ Movable(0, r.ty.leaf[2])
    BY DEF WellFormed
  <1>2. z.around = r.ty.around /\ z.leaf[1] = "named" /\ z.leaf[2] = Rebased(0, r.ty.leaf[2])
    <2>1. DOMAIN r.ty = {"around", "leaf"}
      BY <1>1, RegistrationParts DEF Type
    <2> QED
      BY <2>1
  <1>3. Declares(Meaning(Generated, z.leaf[2])[1])
          = Declares(Meaning(Home, r.ty.leaf[2])[1])
    BY <1>1, <1>2, DeclaredSame, Zenon
  <1>4. \A b \in r.bounds : \A n : Identity(b.ty) # Identity(Operand(r.ty, n))
    BY <1>1, Unbounded
  <1>5. Proves(Generated, z, trait, {}, r.shadowed) <=> Known(r, trait)
    BY <1>2, <1>3, <1>4, Zenon DEF Proves, Known
  <1> QED
    BY <1>5, Zenon

\* A child's type on its own has the traits of its policy, and no others.
LEMMA InheritedExact ==
    ASSUME NEW r \in Registration, Inherited(r.ty)
    PROVE  /\ Explicit(r).copy <=> Known(r, "Copy")
           /\ Explicit(r).clone <=> Known(r, "Clone")
  <1>1. r.ty.around = <<>> /\ r.ty.leaf[1] = "projected" /\ Len(r.ty.around) = 0
    BY DEF Inherited
  <1>2. \A n : n \in 0 .. Len(r.ty.around) <=> n = 0
    BY <1>1
  <1>3. UngroupedOutside(r.ty).around = <<>>
    <2>1. Leading(r.ty.around, "paren") \in 0 .. Len(r.ty.around)
      <3>1. /\ 0 \in 0 .. Len(r.ty.around)
            /\ \A i \in 1 .. 0 : r.ty.around[i] = "paren"
            /\ 0 < Len(r.ty.around) => r.ty.around[0 + 1] # "paren"
        BY <1>1
      <3> QED
        BY <3>1, Zenon DEF Leading
    <2>2. Leading(r.ty.around, "paren") = 0
      BY <1>2, <2>1, Zenon
    <2>3. SubSeq(<<>>, 0 + 1, Len(<<>>)) = <<>>
      OBVIOUS
    <2> QED
      BY <1>1, <2>2, <2>3, RegistrationParts, TypeParts, Zenon DEF UngroupedOutside
  <1>4. \A spellings : ~Bounded(r.ty, r.bounds, spellings)
    BY <1>1, Unbounded
  <1>5. ~has_explicit_copy_bound(r.ty, r.bounds) /\ ~has_explicit_clone_bound(r.ty, r.bounds)
    BY <1>3, <1>4, Zenon DEF has_explicit_copy_bound, has_explicit_clone_bound
  <1>6. Explicit(r) = [copy |-> "Copy" \in r.ty.leaf[2], clone |-> "Clone" \in r.ty.leaf[2]]
    BY <1>5, Zenon DEF Explicit
  <1>7. \A trait : Known(r, trait) <=> trait \in r.ty.leaf[2]
    <2> TAKE trait
    <2>1. \A b \in r.bounds : \A n : Identity(b.ty) # Identity(Operand(r.ty, n))
      BY <1>1, Unbounded
    <2>2. ~(0 < Len(r.ty.around)) /\ \A i : i \notin 1 .. 0
      BY <1>1
    <2> QED
      BY <1>1, <1>2, <2>1, <2>2, Zenon DEF Known, Proves
  <1>8. /\ Explicit(r).copy <=> ("Copy" \in r.ty.leaf[2])
        /\ Explicit(r).clone <=> ("Clone" \in r.ty.leaf[2])
    <2> PICK l : l = r.ty.leaf[2]
      OBVIOUS
    <2>1. ("Copy" \in l) \in BOOLEAN /\ ("Clone" \in l) \in BOOLEAN
      OBVIOUS
    <2>2. PICK a \in BOOLEAN, c \in BOOLEAN : a = ("Copy" \in l) /\ c = ("Clone" \in l)
      BY <2>1, Zenon
    <2>3. Explicit(r) = [copy |-> a, clone |-> c]
      BY <1>6, <2>2, Zenon
    <2>4. Explicit(r).copy = a /\ Explicit(r).clone = c
      BY <2>3
    <2> QED
      BY <2>2, <2>4, Zenon
  <1> QED
    BY <1>7, <1>8, Zenon

\* What rustc knows, and what the expansion claims, is true or false.
LEMMA Truths ==
    ASSUME NEW r
    PROVE  /\ \A trait : Known(r, trait) \in BOOLEAN
           /\ ~Inherited(r.ty) => Explicit(r) =
                [copy |-> has_explicit_copy_bound(r.ty, r.bounds),
                 clone |-> has_explicit_clone_bound(r.ty, r.bounds)]
           /\ \E copy \in BOOLEAN, clone \in BOOLEAN :
                 Explicit(r) = [copy |-> copy, clone |-> clone]
  <1>1. \A trait : Known(r, trait) \in BOOLEAN
    BY DEF Known, Proves
  <1>2. /\ has_explicit_copy_bound(r.ty, r.bounds) \in BOOLEAN
        /\ has_explicit_clone_bound(r.ty, r.bounds) \in BOOLEAN
    BY DEF has_explicit_copy_bound, has_explicit_clone_bound
  <1>3. ~Inherited(r.ty) => Explicit(r) =
           [copy |-> has_explicit_copy_bound(r.ty, r.bounds),
            clone |-> has_explicit_clone_bound(r.ty, r.bounds)]
    BY Zenon DEF Explicit
  <1>4. \E copy \in BOOLEAN, clone \in BOOLEAN :
           Explicit(r) = [copy |-> copy, clone |-> clone]
    <2>1. ("Copy" \in r.ty.leaf[2]) \in BOOLEAN /\ ("Clone" \in r.ty.leaf[2]) \in BOOLEAN
      OBVIOUS
    <2> QED
      BY <1>2, <2>1, Zenon DEF Explicit
  <1> QED
    BY <1>1, <1>3, <1>4, Zenon

\* What is accepted is exact.
LEMMA AcceptedExact ==
    ASSUME NEW r \in Registration, Accepts(r), ~r.fresh
    PROVE  Explicit(r) = [copy |-> Known(r, "Copy"), clone |-> Known(r, "Clone")]
  <1>1. /\ Explicit(r).copy <=> Known(r, "Copy")
        /\ Explicit(r).clone <=> Known(r, "Clone")
    BY InheritedExact, Zenon DEF Accepts
  <1> PICK copy \in BOOLEAN, clone \in BOOLEAN : Explicit(r) = [copy |-> copy, clone |-> clone]
    BY Truths
  <1>2. copy = Known(r, "Copy") /\ clone = Known(r, "Clone")
    BY <1>1, Truths
  <1> QED
    BY <1>2, Zenon

\* An explicit bound on the registered type makes both sides know its traits.
LEMMA BoundKnown ==
    ASSUME NEW r \in Registration, NEW bounds, NEW b \in bounds, b.ty = r.ty,
           NEW trait, trait \in Implies(b.trait, r.shadowed)
    PROVE  Proves(Home, r.ty, trait, bounds, r.shadowed)
  <1>1. 0 \in 0 .. Len(r.ty.around) /\ \A i : i \notin 1 .. 0
    BY RegistrationParts, TypeParts
  <1>2. Identity(b.ty) = Identity(Operand(r.ty, 0))
    BY RegistrationParts, WholeOperand, Zenon
  <1> QED
    BY <1>1, <1>2, Zenon DEF Proves

\* A bound that does not imply a trait changes nothing about it.
LEMMA OtherBound ==
    ASSUME NEW r, NEW b, NEW trait, trait \notin Implies(b.trait, r.shadowed)
    PROVE  Proves(Home, r.ty, trait, r.bounds \cup {b}, r.shadowed)
              <=> Known(r, trait)
  BY Zenon DEF Proves, Known

\* The bound that a rejection advises, on a registration that claims nothing which
\* rustc does not know, is enough.
LEMMA AdviceEnough ==
    ASSUME NEW r \in Registration, ~Accepts(r),
           Explicit(r).copy => Known(r, "Copy"),
           Explicit(r).clone => Known(r, "Clone"),
           NEW trait, trait = IF Known(r, "Copy") THEN "::core::marker::Copy"
                              ELSE "::core::clone::Clone"
    PROVE  Accepts([r EXCEPT !.bounds = @ \cup {[ty |-> r.ty, trait |-> trait]}])
  <1> PICK b, q : b = [ty |-> r.ty, trait |-> trait] /\ q = [r EXCEPT !.bounds = @ \cup {b}]
    OBVIOUS
  <1>1. b.ty = r.ty /\ b.trait = trait
    OBVIOUS
  <1>2. q.ty = r.ty /\ q.bounds = r.bounds \cup {b} /\ q.shadowed = r.shadowed /\ q.fresh = r.fresh
    <2>1. DOMAIN r = {"ty", "shadowed", "fresh", "source", "bounds"}
      BY DEF Registration
    <2> QED
      BY <2>1
  <1>3. /\ ~Inherited(r.ty)
        /\ \/ Known(r, "Copy") /\ ~Explicit(r).copy
           \/ Known(r, "Clone") /\ ~Explicit(r).clone
    BY InheritedExact, Zenon DEF Accepts
  <1>4. /\ Explicit(r) = [copy |-> has_explicit_copy_bound(r.ty, r.bounds),
                             clone |-> has_explicit_clone_bound(r.ty, r.bounds)]
        /\ Explicit(q) = [copy |-> has_explicit_copy_bound(r.ty, q.bounds),
                             clone |-> has_explicit_clone_bound(r.ty, q.bounds)]
    <2>1. ~Inherited(q.ty)
      BY <1>2, <1>3, Zenon
    <2>2. Explicit(q) = [copy |-> has_explicit_copy_bound(q.ty, q.bounds),
                             clone |-> has_explicit_clone_bound(q.ty, q.bounds)]
      BY <2>1, Truths, Zenon
    <2>3. Explicit(r) = [copy |-> has_explicit_copy_bound(r.ty, r.bounds),
                             clone |-> has_explicit_clone_bound(r.ty, r.bounds)]
      BY <1>3, Truths, Zenon
    <2> QED
      BY <1>2, <2>2, <2>3
  <1>5. /\ Explicit(r).copy = has_explicit_copy_bound(r.ty, r.bounds)
        /\ Explicit(r).clone = has_explicit_clone_bound(r.ty, r.bounds)
        /\ Explicit(q).copy = has_explicit_copy_bound(r.ty, q.bounds)
        /\ Explicit(q).clone = has_explicit_clone_bound(r.ty, q.bounds)
    BY <1>4
  <1>6. \A t : Known(q, t) <=> Proves(Home, r.ty, t, q.bounds, r.shadowed)
    BY <1>2, Zenon DEF Known
  <1>7. b \in q.bounds
    BY <1>2, Zenon
  <1>8. \A spellings : trait \in spellings => Bounded(r.ty, q.bounds, spellings)
    BY <1>1, <1>7, Zenon DEF Bounded
  <1>9. CASE Known(r, "Copy")
    <2>1. trait = "::core::marker::Copy"
      BY <1>9, Zenon
    <2>2. trait \in CopySpelling
      BY <2>1 DEF CopySpelling
    <2>3. Explicit(q).copy /\ Explicit(q).clone
      BY <1>5, <1>8, <2>2, Zenon DEF has_explicit_copy_bound, has_explicit_clone_bound
    <2>4. "Copy" \in Implies(b.trait, r.shadowed) /\ "Clone" \in Implies(b.trait, r.shadowed)
      BY <1>1, <2>1 DEF Implies
    <2>5. Known(q, "Copy") /\ Known(q, "Clone")
      BY <1>1, <1>6, <1>7, <2>4, BoundKnown, Zenon
    <2> QED
      BY <2>3, <2>5, Zenon DEF Accepts
  <1>10. CASE ~Known(r, "Copy")
    <2>1. trait = "::core::clone::Clone"
      BY <1>10, Zenon
    <2>2. trait \in CloneSpelling /\ trait \notin CopySpelling
      BY <2>1 DEF CopySpelling, CloneSpelling
    <2>3. ~has_explicit_copy_bound(r.ty, r.bounds)
      BY <1>5, <1>10, Zenon
    <2>4. ~has_explicit_copy_bound(r.ty, q.bounds)
      BY <1>1, <1>2, <2>2, <2>3, Zenon DEF has_explicit_copy_bound, Bounded
    <2>5. ~Explicit(q).copy /\ Explicit(q).clone
      BY <1>5, <1>8, <2>2, <2>4, Zenon DEF has_explicit_clone_bound
    <2>6. "Copy" \notin Implies(b.trait, r.shadowed) /\ "Clone" \in Implies(b.trait, r.shadowed)
      BY <1>1, <2>1 DEF Implies
    <2>7. Known(q, "Clone")
      BY <1>1, <1>6, <1>7, <2>6, BoundKnown, Zenon
    <2>8. ~Known(q, "Copy")
      <3>1. ~Proves(Home, r.ty, "Copy", r.bounds \cup {b}, r.shadowed)
        BY <1>10, <2>6, OtherBound, Zenon
      <3>2. ~Proves(Home, r.ty, "Copy", q.bounds, r.shadowed)
        BY <1>2, <3>1
      <3> QED
        BY <1>6, <3>2, Zenon
    <2> QED
      BY <2>5, <2>7, <2>8, Zenon DEF Accepts
  <1> QED
    BY <1>9, <1>10, Zenon

-------------------------------------------------------------------------------
(* The invariant of Injected.                                                *)

\* What a moved item is made of.
Source == Seq(Path \cup {Begin, End})
Item == {item \in [visibility : {ParentImport, Super}, body : Source] :
            Balanced(item.body)}

\* What comes out.
Emission ==
    LET sources == Path \cup {ParentImport, Super}
    IN  [generated : BOOLEAN, depth : Nat, source : sources,
         moved : sources \cup {Rebased(n, p) : n \in Nat, p \in Path}]

\* The registration is one of those the move is meant for.
Given ==
    /\ WellFormed(registration)
    /\ phase \in {"declared", "moving", "accepted", "rejected"}
    /\ emitted \in Seq(Emission)

\* The counter is the depth, and the rest of the item closes what is open.
Placed ==
    /\ depth \in Nat /\ nested_modules = depth /\ todo \in Source
    /\ \E levels : Levels(todo, levels) /\ levels[1] = depth

Waiting == items \in Seq(Item)

\* The three items of a type without generics.
ImportItem == [visibility |-> ParentImport, body |-> <<>>]
TypeItem == [visibility |-> Super, body |-> <<registration.ty.leaf[2]>>]
SourceItem == [visibility |-> Super, body |-> registration.source]

TypeMoved == Len(emitted) >= 3 /\ emitted[3].moved = Rebased(0, registration.ty.leaf[2])

\* How far the visit of those items is.
Visited ==
    \/ items = <<ImportItem, TypeItem, SourceItem>> /\ todo = <<>> /\ emitted = <<>>
    \/ items = <<TypeItem, SourceItem>> /\ todo = <<>> /\ Len(emitted) = 1
    \/ items = <<SourceItem>> /\ todo = <<registration.ty.leaf[2]>> /\ depth = 0 /\ Len(emitted) = 2
    \/ items = <<SourceItem>> /\ todo = <<>> /\ TypeMoved
    \/ items = <<>> /\ TypeMoved

Staged ==
    /\ phase = "declared" => items = <<>> /\ todo = <<>> /\ emitted = <<>> /\ depth = 0
    /\ phase = "moving" /\ ~generic => Visited

\* The policy of a generic type is the explicit one.
Chosen ==
    /\ phase = "moving" /\ generic => policy = Explicit(registration)
    /\ phase = "rejected" => ~Accepts(registration)
    /\ PolicyExact

InjectedInv == Given /\ Placed /\ Waiting /\ PathsPreserved /\ Staged /\ Chosen

\* The registrations the move is meant for.
AllMovable == \A i \in DOMAIN Registrations : \A r \in Registrations[i] : WellFormed(r)

-------------------------------------------------------------------------------

\* The marks of modules are not paths, and the two visibilities differ.
LEMMA Marks ==
    /\ Begin \notin Path /\ End \notin Path /\ Begin # End
    /\ Super # ParentImport
  <1>1. Begin \notin Path /\ End \notin Path
    <2>1. DOMAIN Begin = {"module"} /\ DOMAIN End = {"module"}
      BY DEF Begin, End
    <2>2. \A p \in Path : "colon" \in DOMAIN p
      BY DEF Path
    <2> QED
      BY <2>1, <2>2
  <1>2. Begin # End
    BY DEF Begin, End
  <1>3. Super # ParentImport
    <2>1. Super.form = "restricted"
      BY DEF Super, PathOf
    <2>2. ParentImport.form = "path"
      BY DEF ParentImport, PathOf
    <2> QED
      BY <2>1, <2>2
  <1> QED
    BY <1>1, <1>2, <1>3

\* The levels of what is left once the first element of a source was visited.
LEMMA LevelsRest ==
    ASSUME NEW s \in Source, s # <<>>, NEW levels, Levels(s, levels)
    PROVE  /\ levels[1] \in Nat /\ levels[2] \in Nat
           /\ \E rest : Levels(Tail(s), rest) /\ rest[1] = levels[2]
           /\ \/ Head(s) = Begin /\ levels[2] = levels[1] + 1
              \/ Head(s) = End /\ levels[1] = levels[2] + 1
              \/ Head(s) \in Path /\ Movable(levels[1], Head(s)) /\ levels[2] = levels[1]
  <1> PICK L : L = Len(s)
    OBVIOUS
  <1>1. L \in Nat /\ L > 0
    BY DEF Source
  <1>2. /\ levels \in [1 .. L + 1 -> Nat] /\ levels[L + 1] = 0
        /\ \A i \in 1 .. L :
             \/ s[i] = Begin /\ levels[i + 1] = levels[i] + 1
             \/ s[i] = End /\ levels[i] = levels[i + 1] + 1
             \/ s[i] \in Path /\ Movable(levels[i], s[i]) /\ levels[i + 1] = levels[i]
    BY Zenon DEF Levels
  <1>3. Head(s) = s[1]
    BY DEF Source
  <1> PICK t : t = Tail(s)
    OBVIOUS
  <1>4. Len(t) = L - 1 /\ \A i \in 1 .. L - 1 : t[i] = s[i + 1]
    BY <1>1 DEF Source
  <1> PICK K : K = L - 1
    OBVIOUS
  <1>5. K \in Nat /\ K + 1 = L /\ 1 \in 1 .. L /\ 1 + 1 = 2 /\ 1 \in 1 .. L + 1 /\ 2 \in 1 .. L + 1
        /\ 1 \in 1 .. K + 1
    BY <1>1
  <1> PICK rest : rest = [i \in 1 .. K + 1 |-> levels[i + 1]]
    OBVIOUS
  <1>6. \A i \in 1 .. K + 1 : rest[i] = levels[i + 1] /\ i + 1 \in 1 .. L + 1
    BY <1>5
  <1>7. rest \in [1 .. K + 1 -> Nat]
    BY <1>2, <1>6, Zenon
  <1>8. rest[K + 1] = 0
    BY <1>2, <1>5, <1>6
  <1>9. \A i \in 1 .. K : /\ i + 1 \in 1 .. L /\ rest[i] = levels[i + 1]
                          /\ rest[i + 1] = levels[(i + 1) + 1] /\ t[i] = s[i + 1]
    <2> TAKE i \in 1 .. K
    <2>1. i \in 1 .. L - 1 /\ i \in 1 .. K + 1 /\ i + 1 \in 1 .. K + 1 /\ i + 1 \in 1 .. L
      BY <1>1, <1>5
    <2> QED
      BY <1>4, <1>6, <2>1, Zenon
  <1>10. \A i \in 1 .. K :
             \/ t[i] = Begin /\ rest[i + 1] = rest[i] + 1
             \/ t[i] = End /\ rest[i] = rest[i + 1] + 1
             \/ t[i] \in Path /\ Movable(rest[i], t[i]) /\ rest[i + 1] = rest[i]
    <2> TAKE i \in 1 .. K
    <2>1. PICK j \in 1 .. L : j = i + 1
      BY <1>9, Zenon
    <2>2. rest[i] = levels[j] /\ rest[i + 1] = levels[j + 1] /\ t[i] = s[j]
      BY <1>9, <2>1, Zenon
    <2>3. \/ s[j] = Begin /\ levels[j + 1] = levels[j] + 1
          \/ s[j] = End /\ levels[j] = levels[j + 1] + 1
          \/ s[j] \in Path /\ Movable(levels[j], s[j]) /\ levels[j + 1] = levels[j]
      BY <1>2, Zenon
    <2> QED
      BY <2>2, <2>3, Zenon
  <1>11. Levels(t, rest)
    BY <1>4, <1>7, <1>8, <1>10, Zenon DEF Levels
  <1>12. rest[1] = levels[2]
    BY <1>5, <1>6, Zenon
  <1>13. levels[1] \in Nat /\ levels[2] \in Nat
    BY <1>2, <1>5
  <1>14. \/ Head(s) = Begin /\ levels[2] = levels[1] + 1
         \/ Head(s) = End /\ levels[1] = levels[2] + 1
         \/ Head(s) \in Path /\ Movable(levels[1], Head(s)) /\ levels[2] = levels[1]
    BY <1>2, <1>3, <1>5, Zenon
  <1> QED
    BY <1>11, <1>12, <1>13, <1>14, Zenon

\* Nothing left, nothing open.
LEMMA LevelsEnd ==
    ASSUME NEW levels, Levels(<<>>, levels)
    PROVE  levels[1] = 0
  BY DEF Levels

\* The source of one path,
LEMMA LevelsOne ==
    ASSUME NEW p \in Path, Movable(0, p)
    PROVE  Balanced(<<p>>) /\ <<p>> \in Source
  <1> PICK levels : levels = [i \in 1 .. 2 |-> 0]
    OBVIOUS
  <1>1. levels \in [1 .. 2 -> Nat] /\ levels[1] = 0 /\ levels[2] = 0
    OBVIOUS
  <1>2. Len(<<p>>) = 1 /\ <<p>>[1] = p /\ 1 + 1 = 2 /\ \A i : i \in 1 .. 1 <=> i = 1
    OBVIOUS
  <1>3. Levels(<<p>>, levels)
    BY <1>1, <1>2, Zenon DEF Levels
  <1>4. <<p>> \in Source
    BY DEF Source
  <1> QED
    BY <1>1, <1>3, <1>4, Zenon DEF Balanced

\* and the empty one.
LEMMA LevelsNone == Balanced(<<>>) /\ <<>> \in Source
  <1> PICK levels : levels = [i \in 1 .. 1 |-> 0]
    OBVIOUS
  <1>1. levels \in [1 .. 1 -> Nat] /\ levels[1] = 0
    OBVIOUS
  <1>2. Len(<<>>) = 0 /\ 0 + 1 = 1 /\ \A i : i \notin 1 .. 0
    OBVIOUS
  <1>3. Levels(<<>>, levels)
    BY <1>1, <1>2, Zenon DEF Levels
  <1>4. <<>> \in Source
    BY DEF Source
  <1> QED
    BY <1>1, <1>3, <1>4, Zenon DEF Balanced

\* The items that SelectPolicy makes.
LEMMA RegistrationItems ==
    ASSUME WellFormed(registration)
    PROVE  /\ ImportItem \in Item /\ SourceItem \in Item
           /\ ~generic => /\ registration.ty.leaf[1] = "named" /\ TypeItem \in Item
                              /\ registration.ty.leaf[2] \in Path
  <1>1. registration \in Registration /\ Balanced(registration.source)
    BY DEF WellFormed
  <1>2. registration.source \in Source
    BY <1>1, RegistrationParts, Zenon DEF Source
  <1>3. \A body, v : [visibility |-> v, body |-> body].body = body
    OBVIOUS
  <1>4. ImportItem \in Item
    <2>1. ImportItem \in [visibility : {ParentImport, Super}, body : Source]
      BY LevelsNone DEF ImportItem
    <2>2. ImportItem.body = <<>>
      BY DEF ImportItem
    <2> QED
      BY <2>1, <2>2, LevelsNone DEF Item
  <1>5. SourceItem \in Item
    <2>1. SourceItem \in [visibility : {ParentImport, Super}, body : Source]
      BY <1>2 DEF SourceItem
    <2>2. SourceItem.body = registration.source
      BY DEF SourceItem
    <2> QED
      BY <1>1, <2>1, <2>2 DEF Item
  <1>6. ASSUME ~generic
        PROVE  registration.ty.leaf[1] = "named" /\ TypeItem \in Item /\ registration.ty.leaf[2] \in Path
    <2>1. registration.ty.leaf \in {"named"} \X Path
      <3>1. registration.ty.leaf \in {<<"param">>} \cup ({"named"} \X Path)
                                     \cup ({"projected"} \X SUBSET {"Copy", "Clone"})
        BY <1>1, RegistrationParts DEF Type
      <3>2. registration.ty.leaf[1] \notin {"param", "projected"}
        BY <1>6 DEF generic, depends_on_generics
      <3> QED
        BY <3>1, <3>2
    <2>2. registration.ty.leaf[1] = "named" /\ registration.ty.leaf[2] \in Path
      BY <2>1
    <2>3. Movable(0, registration.ty.leaf[2])
      BY <2>2 DEF WellFormed
    <2>4. Balanced(<<registration.ty.leaf[2]>>) /\ <<registration.ty.leaf[2]>> \in Source
      BY <2>2, <2>3, LevelsOne, Zenon
    <2>5. TypeItem \in [visibility : {ParentImport, Super}, body : Source]
      BY <2>4 DEF TypeItem
    <2>6. TypeItem.body = <<registration.ty.leaf[2]>>
      BY DEF TypeItem
    <2> QED
      BY <2>2, <2>4, <2>5, <2>6 DEF Item
  <1> QED
    BY <1>4, <1>5, <1>6

\* The first states satisfy the invariant.
LEMMA InjectedStart == AllMovable /\ InjectedInit => InjectedInv
  <1> SUFFICES ASSUME AllMovable, InjectedInit PROVE InjectedInv
    OBVIOUS
  <1>1. Given
    <2>1. WellFormed(registration)
      BY Zenon DEF AllMovable, InjectedInit
    <2>2. phase = "declared" /\ emitted = <<>>
      BY DEF InjectedInit
    <2> QED
      BY <2>1, <2>2 DEF Given
  <1>2. Placed
    <2>1. depth = 0 /\ nested_modules = 0 /\ todo = <<>>
      BY DEF InjectedInit
    <2>2. todo \in Source /\ \E levels : Levels(todo, levels) /\ levels[1] = depth
      BY <2>1, LevelsNone, Zenon DEF Balanced
    <2>3. depth \in Nat /\ nested_modules = depth
      BY <2>1
    <2> QED
      BY <2>2, <2>3, Zenon DEF Placed
  <1>3. Waiting
    BY DEF InjectedInit, Waiting
  <1>4. PathsPreserved
    BY DEF InjectedInit, PathsPreserved
  <1>5. Staged
    BY DEF InjectedInit, Staged
  <1>6. Chosen
    BY DEF InjectedInit, Chosen, PolicyExact
  <1> QED
    BY <1>1, <1>2, <1>3, <1>4, <1>5, <1>6, Zenon DEF InjectedInv

\* Something more comes out.
LEMMA Appended ==
    ASSUME NEW es \in Seq(Emission), NEW e \in Emission, NEW fs, fs = Append(es, e)
    PROVE  /\ fs \in Seq(Emission) /\ Len(fs) = Len(es) + 1 /\ fs[Len(es) + 1] = e
           /\ \A i \in 1 .. Len(es) : fs[i] = es[i]
           /\ \A i \in DOMAIN fs : i \in 1 .. Len(es) \/ i = Len(es) + 1
           /\ \A i \in 1 .. Len(es) : i \in DOMAIN es
           /\ Len(es) \in Nat
  OBVIOUS

\* What came out earlier is as it was, and what comes out now keeps its meaning.
LEMMA PathsKept ==
    ASSUME emitted \in Seq(Emission), PathsPreserved, NEW e \in Emission,
           emitted' = Append(emitted, e),
           IF e.generated THEN e.moved = e.source ELSE KeepsMeaning(e.depth, e.source, e.moved)
    PROVE  PathsPreserved'
  <1>1. /\ \A i \in 1 .. Len(emitted) : emitted'[i] = emitted[i]
        /\ \A i \in DOMAIN emitted' : i \in 1 .. Len(emitted) \/ i = Len(emitted) + 1
        /\ \A i \in 1 .. Len(emitted) : i \in DOMAIN emitted
        /\ emitted'[Len(emitted) + 1] = e
    BY Appended
  <1>2. IF e.generated THEN e.moved = e.source ELSE KeepsMeaning(e.depth, e.source, e.moved)
    BY Zenon
  <1>3. \A i \in DOMAIN emitted' :
            IF emitted'[i].generated THEN emitted'[i].moved = emitted'[i].source
            ELSE KeepsMeaning(emitted'[i].depth, emitted'[i].source, emitted'[i].moved)
    <2> TAKE i \in DOMAIN emitted'
    <2>1. CASE i = Len(emitted) + 1
      BY <1>1, <1>2, <2>1, Zenon
    <2>2. CASE i \in 1 .. Len(emitted)
      <3>1. i \in DOMAIN emitted /\ emitted'[i] = emitted[i]
        BY <1>1, <2>2, Zenon
      <3> QED
        BY <3>1, Zenon DEF PathsPreserved
    <2> QED
      BY <1>1, <2>1, <2>2, Zenon
  <1> QED
    BY <1>3, Zenon DEF PathsPreserved

\* A generated visibility or import comes out as it is.
LEMMA GeneratedKept ==
    ASSUME emitted \in Seq(Emission), PathsPreserved, depth \in Nat,
           NEW v \in {ParentImport, Super}, Emit(TRUE, v, v)
    PROVE  /\ emitted' \in Seq(Emission) /\ PathsPreserved' /\ Len(emitted') = Len(emitted) + 1
           /\ \A i \in 1 .. Len(emitted) : emitted'[i] = emitted[i]
           /\ Len(emitted) \in Nat
  <1>1. PICK e \in Emission : e.generated /\ e.moved = e.source /\ emitted' = Append(emitted, e)
    <2> PICK e : e = [generated |-> TRUE, depth |-> depth, source |-> v, moved |-> v]
      OBVIOUS
    <2>1. e \in Emission
      BY DEF Emission
    <2>2. emitted' = Append(emitted, e)
      BY Zenon DEF Emit
    <2>3. e.generated /\ e.moved = e.source
      OBVIOUS
    <2> QED
      BY <2>1, <2>2, <2>3, Zenon
  <1>2. emitted' = Append(emitted, e)
    BY <1>1, Zenon
  <1>3. PathsPreserved'
    BY <1>1, PathsKept, Zenon
  <1>4. /\ emitted' \in Seq(Emission) /\ Len(emitted') = Len(emitted) + 1 /\ Len(emitted) \in Nat
        /\ \A i \in 1 .. Len(emitted) : emitted'[i] = emitted[i]
    BY <1>2, Appended
  <1> QED
    BY <1>3, <1>4, Zenon

\* A path of the source comes out with the meaning it had.
LEMMA MovedKept ==
    ASSUME emitted \in Seq(Emission), PathsPreserved, depth \in Nat, nested_modules = depth,
           NEW p \in Path, Movable(depth, p), Emit(FALSE, p, Rebased(nested_modules, p))
    PROVE  /\ emitted' \in Seq(Emission) /\ PathsPreserved' /\ Len(emitted') = Len(emitted) + 1
           /\ \A i \in 1 .. Len(emitted) : emitted'[i] = emitted[i]
           /\ emitted'[Len(emitted) + 1].moved = Rebased(depth, p)
           /\ Len(emitted) \in Nat
  <1>1. PICK e \in Emission :
            /\ ~e.generated /\ e.depth = depth /\ e.source = p /\ e.moved = Rebased(depth, p)
            /\ emitted' = Append(emitted, e)
    <2> PICK m, e : /\ m = Rebased(depth, p)
                    /\ e = [generated |-> FALSE, depth |-> depth, source |-> p, moved |-> m]
      OBVIOUS
    <2>1. m \in {Rebased(n, q) : n \in Nat, q \in Path}
      OBVIOUS
    <2>2. e \in Emission
      BY <2>1 DEF Emission
    <2>3. emitted' = Append(emitted, e)
      BY Zenon DEF Emit
    <2>4. ~e.generated /\ e.depth = depth /\ e.source = p /\ e.moved = m
      OBVIOUS
    <2> QED
      BY <2>2, <2>3, <2>4, Zenon
  <1>2. KeepsMeaning(e.depth, e.source, e.moved)
    BY <1>1, RebasedKeepsMeaning, Zenon
  <1>3. PathsPreserved'
    BY <1>1, <1>2, PathsKept, Zenon
  <1>4. /\ emitted' \in Seq(Emission) /\ Len(emitted') = Len(emitted) + 1 /\ Len(emitted) \in Nat
        /\ emitted'[Len(emitted) + 1] = e
        /\ \A i \in 1 .. Len(emitted) : emitted'[i] = emitted[i]
    <2>1. emitted' = Append(emitted, e)
      BY <1>1, Zenon
    <2> QED
      BY <2>1, Appended
  <1>5. emitted'[Len(emitted) + 1].moved = Rebased(depth, p)
    BY <1>1, <1>4, Zenon
  <1> QED
    BY <1>3, <1>4, <1>5, Zenon

-------------------------------------------------------------------------------

\* Nothing to visit: at no depth.
LEMMA NothingOpen == Placed /\ todo = <<>> => depth = 0 /\ nested_modules = 0
  BY LevelsEnd, Zenon DEF Placed

\* The first element of what is left to visit.
LEMMA NextPlaced ==
    ASSUME Placed, todo # <<>>
    PROVE  /\ todo \in Source /\ depth \in Nat /\ nested_modules = depth
           /\ Tail(todo) \in Source
           /\ \E d \in Nat :
                 /\ \E rest : Levels(Tail(todo), rest) /\ rest[1] = d
                 /\ \/ Head(todo) = Begin /\ d = depth + 1
                    \/ Head(todo) = End /\ depth = d + 1
                    \/ Head(todo) \in Path /\ Movable(depth, Head(todo)) /\ d = depth
  <1>1. todo \in Source /\ depth \in Nat /\ nested_modules = depth
    BY DEF Placed
  <1>2. Tail(todo) \in Source
    BY <1>1, HeadTailProperties DEF Source
  <1> PICK levels : Levels(todo, levels) /\ levels[1] = depth
    BY DEF Placed
  <1>3. /\ levels[2] \in Nat
        /\ \E rest : Levels(Tail(todo), rest) /\ rest[1] = levels[2]
        /\ \/ Head(todo) = Begin /\ levels[2] = levels[1] + 1
           \/ Head(todo) = End /\ levels[1] = levels[2] + 1
           \/ Head(todo) \in Path /\ Movable(levels[1], Head(todo)) /\ levels[2] = levels[1]
    BY <1>1, LevelsRest, Zenon
  <1> QED
    BY <1>1, <1>2, <1>3, Zenon

\* VisitPath keeps the depth,
LEMMA PlacedPath ==
    ASSUME Placed, VisitPath
    PROVE  /\ Head(todo) \in Path /\ Movable(depth, Head(todo)) /\ Placed'
           /\ Emit(FALSE, Head(todo), Rebased(nested_modules, Head(todo)))
  <1>1. /\ todo # <<>> /\ Head(todo) # Begin /\ Head(todo) # End /\ todo' = Tail(todo)
        /\ Emit(FALSE, Head(todo), Rebased(nested_modules, Head(todo)))
        /\ nested_modules' = nested_modules /\ depth' = depth
    BY Zenon DEF VisitPath
  <1>2. /\ Head(todo) \in Path /\ Movable(depth, Head(todo))
        /\ \E rest : Levels(Tail(todo), rest) /\ rest[1] = depth
    BY <1>1, NextPlaced, Zenon
  <1>3. Placed'
    BY <1>1, <1>2, NextPlaced, Zenon DEF Placed
  <1> QED
    BY <1>1, <1>2, <1>3, Zenon

\* EnterModule deepens it and the counter,
LEMMA PlacedEnter ==
    ASSUME Placed, EnterModule
    PROVE  Placed'
  <1>1. /\ todo # <<>> /\ Head(todo) = Begin /\ todo' = Tail(todo)
        /\ nested_modules' = nested_modules + 1 /\ depth' = depth + 1
    BY Zenon DEF EnterModule
  <1>2. \E rest : Levels(Tail(todo), rest) /\ rest[1] = depth + 1
    BY <1>1, NextPlaced, Marks, Zenon
  <1>3. depth' \in Nat /\ nested_modules' = depth'
    BY <1>1, NextPlaced
  <1> QED
    BY <1>1, <1>2, <1>3, NextPlaced, Zenon DEF Placed

\* and LeaveModule undoes that.
LEMMA PlacedLeave ==
    ASSUME Placed, LeaveModule
    PROVE  Placed'
  <1>1. /\ todo # <<>> /\ Head(todo) = End /\ todo' = Tail(todo)
        /\ nested_modules' = nested_modules - 1 /\ depth' = depth - 1
    BY Zenon DEF LeaveModule
  <1>2. \E d \in Nat : /\ \E rest : Levels(Tail(todo), rest) /\ rest[1] = d
                       /\ depth = d + 1
    BY <1>1, NextPlaced, Marks, Zenon
  <1> PICK d \in Nat : /\ \E rest : Levels(Tail(todo), rest) /\ rest[1] = d
                       /\ depth = d + 1
    BY <1>2
  <1>3. depth' = d /\ nested_modules' = d
    <2>1. nested_modules = depth
      BY <1>1, NextPlaced, Zenon
    <2> QED
      BY <1>1, <2>1
  <1> QED
    BY <1>1, <1>3, NextPlaced, Zenon DEF Placed

-------------------------------------------------------------------------------

\* Items one after the other.
LEMMA AsTuple ==
    ASSUME NEW X, NEW s \in Seq(X), NEW x \in X, NEW t \in Seq(X), Len(t) = Len(s) + 1,
           \A i \in 1 .. Len(s) : t[i] = s[i], t[Len(s) + 1] = x
    PROVE  s \o <<x>> = t
  <1> PICK u : u = s \o <<x>>
    OBVIOUS
  <1>1. u = Append(s, x)
    BY AppendIsConcat, Zenon
  <1>2. u \in Seq(X) /\ Len(u) = Len(s) + 1 /\ u[Len(s) + 1] = x /\ \A i \in 1 .. Len(s) : u[i] = s[i]
    BY <1>1, AppendProperties
  <1>3. Len(s) \in Nat
    OBVIOUS
  <1>4. \A i \in 1 .. Len(u) : u[i] = t[i]
    BY <1>2, <1>3
  <1> QED
    BY <1>2, <1>4, SameElements, Zenon

\* Two of them,
LEMMA Two == ASSUME NEW a, NEW b PROVE <<a>> \o <<b>> = <<a, b>>
  <1> PICK X : X = {a, b}
    OBVIOUS
  <1>1. <<a>> \in Seq(X) /\ <<a, b>> \in Seq(X) /\ b \in X
    OBVIOUS
  <1>2. /\ Len(<<a, b>>) = Len(<<a>>) + 1 /\ \A i \in 1 .. Len(<<a>>) : <<a, b>>[i] = <<a>>[i]
        /\ <<a, b>>[Len(<<a>>) + 1] = b
    OBVIOUS
  <1> QED
    BY <1>1, <1>2, AsTuple, Zenon

\* and three.
LEMMA Three == ASSUME NEW a, NEW b, NEW c PROVE <<a>> \o <<b>> \o <<c>> = <<a, b, c>>
  <1>1. <<a>> \o <<b>> = <<a, b>>
    BY Two
  <1>2. <<a, b>> \o <<c>> = <<a, b, c>>
    <2> PICK X : X = {a, b, c}
      OBVIOUS
    <2>1. <<a, b>> \in Seq(X) /\ <<a, b, c>> \in Seq(X) /\ c \in X
      OBVIOUS
    <2>2. /\ Len(<<a, b, c>>) = Len(<<a, b>>) + 1
          /\ \A i \in 1 .. Len(<<a, b>>) : <<a, b, c>>[i] = <<a, b>>[i]
          /\ <<a, b, c>>[Len(<<a, b>>) + 1] = c
      OBVIOUS
    <2> QED
      BY <2>1, <2>2, AsTuple, Zenon
  <1> QED
    BY <1>1, <1>2, Zenon

\* The visit does not touch the choice of the policy,
LEMMA ChoiceKept ==
    ASSUME Chosen, registration' = registration, phase' = phase, policy' = policy
    PROVE  Chosen'
  BY DEF Chosen, generic, PolicyExact

\* nor the registration.
LEMMA GivenKept ==
    ASSUME Given, registration' = registration,
           phase' \in {"declared", "moving", "accepted", "rejected"}, emitted' \in Seq(Emission)
    PROVE  Given'
  BY Zenon DEF Given

\* What waits, and what is left of it.
LEMMA WaitingItem ==
    ASSUME Waiting, items # <<>>
    PROVE  /\ Head(items) \in Item /\ Tail(items) \in Seq(Item)
           /\ Head(items).visibility \in {ParentImport, Super}
           /\ Head(items).body \in Source /\ Balanced(Head(items).body)
  <1>1. Head(items) \in Item /\ Tail(items) \in Seq(Item)
    BY HeadTailProperties DEF Waiting
  <1> QED
    BY <1>1 DEF Item

\* SelectPolicy.
LEMMA InjectedSelect ==
    ASSUME InjectedInv, SelectPolicy
    PROVE  InjectedInv'
  <1>1. /\ phase = "declared" /\ phase' = "moving"
        /\ policy' = IF generic THEN Explicit(registration) ELSE "flags"
        /\ items' = <<ImportItem>> \o (IF generic THEN <<>> ELSE <<TypeItem>>) \o <<SourceItem>>
        /\ registration' = registration /\ todo' = todo /\ nested_modules' = nested_modules
        /\ depth' = depth /\ emitted' = emitted
    BY Zenon DEF SelectPolicy, ImportItem, TypeItem, SourceItem
  <1>2. Given /\ Placed /\ PathsPreserved /\ Staged
    BY Zenon DEF InjectedInv
  <1>3. WellFormed(registration) /\ emitted \in Seq(Emission)
    BY <1>2, Zenon DEF Given
  <1>4. Given'
    BY <1>1, <1>2, <1>3, GivenKept, Zenon
  <1>5. Placed'
    BY <1>1, <1>2, Zenon DEF Placed
  <1>6. /\ generic => items' = <<ImportItem, SourceItem>>
        /\ ~generic => items' = <<ImportItem, TypeItem, SourceItem>>
    <2>1. \A a, b : <<a>> \o <<b>> = <<a, b>>
      BY Two
    <2>2. \A a, b, c : <<a>> \o <<b>> \o <<c>> = <<a, b, c>>
      BY Three
    <2>3. \A a : <<a>> \o <<>> = <<a>>
      OBVIOUS
    <2> QED
      BY <1>1, <2>1, <2>2, <2>3, Zenon
  <1>7. Waiting'
    <2>1. \A a \in Item, b \in Item, c \in Item : <<a, b, c>> \in Seq(Item) /\ <<a, b>> \in Seq(Item)
      OBVIOUS
    <2>2. items' \in Seq(Item)
      BY <1>3, <1>6, <2>1, RegistrationItems, Zenon
    <2> QED
      BY <2>2, Zenon DEF Waiting
  <1>8. PathsPreserved'
    BY <1>1, <1>2 DEF PathsPreserved
  <1>9. generic' <=> generic
    BY <1>1 DEF generic
  <1>10. Staged'
    <2>1. todo = <<>> /\ emitted = <<>>
      BY <1>1, <1>2, Zenon DEF Staged
    <2>2. ImportItem' = ImportItem /\ TypeItem' = TypeItem /\ SourceItem' = SourceItem
      BY <1>1, Zenon DEF ImportItem, TypeItem, SourceItem
    <2>3. ~generic => Visited'
      BY <1>1, <1>6, <2>1, <2>2, Zenon DEF Visited
    <2> QED
      BY <1>1, <1>9, <2>3 DEF Staged
  <1>11. Chosen'
    BY <1>1, <1>9 DEF Chosen, PolicyExact
  <1> QED
    BY <1>4, <1>5, <1>7, <1>8, <1>10, <1>11, Zenon DEF InjectedInv

\* SkipImport.
LEMMA InjectedSkip ==
    ASSUME InjectedInv, SkipImport
    PROVE  InjectedInv'
  <1>1. /\ phase = "moving" /\ todo = <<>> /\ items # <<>>
        /\ Head(items).visibility = ParentImport
        /\ items' = Tail(items)
        /\ Emit(TRUE, ParentImport, ParentImport)
        /\ registration' = registration /\ phase' = phase /\ policy' = policy /\ todo' = todo
        /\ nested_modules' = nested_modules /\ depth' = depth
    BY Zenon DEF SkipImport
  <1>2. Given /\ Placed /\ Waiting /\ PathsPreserved /\ Staged /\ Chosen
    BY Zenon DEF InjectedInv
  <1>3. emitted \in Seq(Emission) /\ depth \in Nat
    BY <1>2, Zenon DEF Given, Placed
  <1>4. /\ emitted' \in Seq(Emission) /\ PathsPreserved' /\ Len(emitted') = Len(emitted) + 1
    BY <1>1, <1>2, <1>3, GeneratedKept, Zenon
  <1>5. Given'
    BY <1>1, <1>2, <1>4, GivenKept, Zenon
  <1>6. Placed'
    BY <1>1, <1>2, Zenon DEF Placed
  <1>7. Waiting'
    BY <1>1, <1>2, WaitingItem, Zenon DEF Waiting
  <1>8. Staged'
    <2> SUFFICES ASSUME ~generic PROVE Visited'
      BY <1>1 DEF Staged, generic
    <2>1. Visited
      BY <1>1, <1>2, Zenon DEF Staged
    <2>2. TypeItem.visibility # ParentImport /\ SourceItem.visibility # ParentImport
      BY Marks DEF TypeItem, SourceItem
    <2>3. /\ \A a : Head(<<a>>) = a /\ <<a>> # <<>>
          /\ \A a, b : Head(<<a, b>>) = a
          /\ \A a, b, c : Tail(<<a, b, c>>) = <<b, c>>
      OBVIOUS
    <2>4. items = <<ImportItem, TypeItem, SourceItem>> /\ emitted = <<>>
      BY <1>1, <2>1, <2>2, <2>3, Zenon DEF Visited
    <2>5. items' = <<TypeItem, SourceItem>>
      BY <1>1, <2>3, <2>4, Zenon
    <2>6. TypeItem' = TypeItem /\ SourceItem' = SourceItem
      BY <1>1, Zenon DEF TypeItem, SourceItem
    <2>7. Len(emitted') = 1
      BY <1>4, <2>4
    <2> QED
      BY <1>1, <2>5, <2>6, <2>7, Zenon DEF Visited
  <1>9. Chosen'
    BY <1>1, <1>2, ChoiceKept, Zenon
  <1> QED
    BY <1>4, <1>5, <1>6, <1>7, <1>8, <1>9, Zenon DEF InjectedInv

\* VisitItem.
LEMMA InjectedVisitItem ==
    ASSUME InjectedInv, VisitItem
    PROVE  InjectedInv'
  <1>1. /\ phase = "moving" /\ todo = <<>> /\ items # <<>>
        /\ Head(items).visibility # ParentImport
        /\ items' = Tail(items) /\ todo' = Head(items).body
        /\ nested_modules' = 0
        /\ Emit(TRUE, Head(items).visibility, Head(items).visibility)
        /\ registration' = registration /\ phase' = phase /\ policy' = policy /\ depth' = depth
    BY Zenon DEF VisitItem
  <1>2. Given /\ Placed /\ Waiting /\ PathsPreserved /\ Staged /\ Chosen
    BY Zenon DEF InjectedInv
  <1>3. emitted \in Seq(Emission) /\ depth \in Nat
    BY <1>2, Zenon DEF Given, Placed
  <1>4. Head(items).visibility \in {ParentImport, Super}
    BY <1>1, <1>2, WaitingItem, Zenon
  <1>5. /\ emitted' \in Seq(Emission) /\ PathsPreserved' /\ Len(emitted') = Len(emitted) + 1
        /\ \A i \in 1 .. Len(emitted) : emitted'[i] = emitted[i]
        /\ Len(emitted) \in Nat
    BY <1>1, <1>2, <1>3, <1>4, GeneratedKept, Zenon
  <1>6. Given'
    BY <1>1, <1>2, <1>5, GivenKept, Zenon
  <1>7. Placed'
    <2>1. depth = 0
      BY <1>1, <1>2, NothingOpen, Zenon
    <2>2. todo' \in Source /\ \E levels : Levels(todo', levels) /\ levels[1] = 0
      BY <1>1, <1>2, WaitingItem, Zenon DEF Balanced
    <2> QED
      BY <1>1, <1>3, <2>1, <2>2, Zenon DEF Placed
  <1>8. Waiting'
    BY <1>1, <1>2, WaitingItem, Zenon DEF Waiting
  <1>9. Staged'
    <2> SUFFICES ASSUME ~generic PROVE Visited'
      BY <1>1 DEF Staged, generic
    <2>1. Visited
      BY <1>1, <1>2, Zenon DEF Staged
    <2>2. /\ ImportItem.visibility = ParentImport
          /\ TypeItem.body = <<registration.ty.leaf[2]>>
      BY DEF ImportItem, TypeItem
    <2>3. /\ \A a : Head(<<a>>) = a /\ Tail(<<a>>) = <<>> /\ <<a>> # <<>>
          /\ \A a, b : Head(<<a, b>>) = a /\ Tail(<<a, b>>) = <<b>>
          /\ \A a, b, c : Head(<<a, b, c>>) = a
      OBVIOUS
    <2>4. SourceItem' = SourceItem
      BY <1>1, Zenon DEF SourceItem
    <2>5. items # <<ImportItem, TypeItem, SourceItem>>
      <3> SUFFICES ASSUME items = <<ImportItem, TypeItem, SourceItem>> PROVE FALSE
        OBVIOUS
      <3>1. Head(items) = ImportItem
        BY <2>3, Zenon
      <3> QED
        BY <1>1, <2>2, <3>1
    <2>6. \/ items = <<TypeItem, SourceItem>> /\ Len(emitted) = 1
          \/ items = <<SourceItem>> /\ TypeMoved
      <3>1. todo = <<>> /\ items # <<>>
        BY <1>1, Zenon
      <3> QED
        BY <2>1, <2>3, <2>5, <3>1, Zenon DEF Visited
    <2>7. CASE items = <<TypeItem, SourceItem>> /\ Len(emitted) = 1
      <3>1. items' = <<SourceItem>> /\ todo' = <<registration.ty.leaf[2]>>
        BY <1>1, <2>2, <2>3, <2>7, Zenon
      <3>2. depth = 0
        BY <1>1, <1>2, NothingOpen, Zenon
      <3>3. Len(emitted') = 2
        BY <1>5, <2>7
      <3> QED
        BY <1>1, <2>4, <3>1, <3>2, <3>3, Zenon DEF Visited
    <2>8. CASE items = <<SourceItem>> /\ TypeMoved
      <3>1. items' = <<>>
        BY <1>1, <2>3, <2>8, Zenon
      <3>2. Len(emitted') >= 3 /\ emitted'[3] = emitted[3]
        BY <1>5, <2>8 DEF TypeMoved
      <3>3. TypeMoved'
        BY <1>1, <2>8, <3>2, Zenon DEF TypeMoved
      <3> QED
        BY <3>1, <3>3, Zenon DEF Visited
    <2> QED
      BY <2>6, <2>7, <2>8, Zenon
  <1>10. Chosen'
    BY <1>1, <1>2, ChoiceKept, Zenon
  <1> QED
    BY <1>5, <1>6, <1>7, <1>8, <1>9, <1>10, Zenon DEF InjectedInv

\* VisitPath.
LEMMA InjectedVisitPath ==
    ASSUME InjectedInv, VisitPath
    PROVE  InjectedInv'
  <1>1. /\ todo # <<>> /\ Head(todo) # Begin /\ todo' = Tail(todo)
        /\ registration' = registration /\ phase' = phase /\ policy' = policy /\ items' = items
        /\ depth' = depth
    BY Zenon DEF VisitPath
  <1>2. Given /\ Placed /\ Waiting /\ PathsPreserved /\ Staged /\ Chosen
    BY Zenon DEF InjectedInv
  <1>3. emitted \in Seq(Emission) /\ depth \in Nat /\ nested_modules = depth
    BY <1>2, Zenon DEF Given, Placed
  <1>4. /\ Head(todo) \in Path /\ Movable(depth, Head(todo)) /\ Placed'
        /\ Emit(FALSE, Head(todo), Rebased(nested_modules, Head(todo)))
    BY <1>2, PlacedPath, Zenon
  <1> PICK p : p = Head(todo)
    OBVIOUS
  <1>5. /\ emitted' \in Seq(Emission) /\ PathsPreserved' /\ Len(emitted') = Len(emitted) + 1
        /\ \A i \in 1 .. Len(emitted) : emitted'[i] = emitted[i]
        /\ emitted'[Len(emitted) + 1].moved = Rebased(depth, p)
        /\ Len(emitted) \in Nat
    <2>1. p \in Path /\ Movable(depth, p) /\ Emit(FALSE, p, Rebased(nested_modules, p))
      BY <1>4, Zenon
    <2> QED
      BY <1>2, <1>3, <2>1, MovedKept, Zenon
  <1>6. Given'
    <2>1. phase' \in {"declared", "moving", "accepted", "rejected"}
      BY <1>1, <1>2, Zenon DEF Given
    <2> QED
      BY <1>1, <1>2, <1>5, <2>1, GivenKept, Zenon
  <1>7. Waiting'
    BY <1>1, <1>2, Zenon DEF Waiting
  <1>8. Staged'
    <2>1. phase # "declared"
      BY <1>1, <1>2, Zenon DEF Staged
    <2> SUFFICES ASSUME phase = "moving", ~generic PROVE Visited'
      BY <1>1, <2>1 DEF Staged, generic
    <2>2. Visited
      BY <1>2, Zenon DEF Staged
    <2>3. SourceItem' = SourceItem
      BY <1>1, Zenon DEF SourceItem
    <2>4. \/ items = <<SourceItem>> /\ todo = <<registration.ty.leaf[2]>> /\ depth = 0 /\ Len(emitted) = 2
          \/ items = <<>> /\ TypeMoved
      BY <1>1, <2>2, Zenon DEF Visited
    <2>5. CASE items = <<SourceItem>> /\ todo = <<registration.ty.leaf[2]>> /\ depth = 0 /\ Len(emitted) = 2
      <3>1. \A a : Head(<<a>>) = a /\ Tail(<<a>>) = <<>>
        OBVIOUS
      <3>2. p = registration.ty.leaf[2] /\ todo' = <<>>
        BY <1>1, <2>5, <3>1, Zenon
      <3>3. Len(emitted') >= 3 /\ Len(emitted) + 1 = 3
        BY <1>5, <2>5
      <3>4. emitted'[3].moved = Rebased(0, registration.ty.leaf[2])
        BY <1>5, <2>5, <3>2, <3>3, Zenon
      <3>5. TypeMoved'
        BY <1>1, <3>3, <3>4, Zenon DEF TypeMoved
      <3> QED
        BY <1>1, <2>3, <2>5, <3>2, <3>5, Zenon DEF Visited
    <2>6. CASE items = <<>> /\ TypeMoved
      <3>1. Len(emitted') >= 3 /\ emitted'[3] = emitted[3]
        BY <1>5, <2>6 DEF TypeMoved
      <3>2. TypeMoved'
        BY <1>1, <2>6, <3>1, Zenon DEF TypeMoved
      <3> QED
        BY <1>1, <2>6, <3>2, Zenon DEF Visited
    <2> QED
      BY <2>4, <2>5, <2>6, Zenon
  <1>9. Chosen'
    BY <1>1, <1>2, ChoiceKept, Zenon
  <1> QED
    BY <1>4, <1>5, <1>6, <1>7, <1>8, <1>9, Zenon DEF InjectedInv

\* A module begins or ends: nothing comes out.
LEMMA InjectedBoundary ==
    ASSUME InjectedInv, Placed', todo # <<>>, Head(todo) \notin Path,
           UNCHANGED <<registration, phase, policy, items, emitted>>
    PROVE  InjectedInv'
  <1>1. /\ registration' = registration /\ phase' = phase /\ policy' = policy /\ items' = items
        /\ emitted' = emitted
    OBVIOUS
  <1>2. Given /\ Waiting /\ PathsPreserved /\ Staged /\ Chosen
    BY Zenon DEF InjectedInv
  <1>3. Given'
    BY <1>1, <1>2 DEF Given
  <1>4. Waiting'
    BY <1>1, <1>2, Zenon DEF Waiting
  <1>5. PathsPreserved'
    BY <1>1, <1>2 DEF PathsPreserved
  <1>6. Staged'
    <2>1. phase # "declared"
      BY <1>2, Zenon DEF Staged
    <2> SUFFICES ASSUME phase = "moving", ~generic PROVE Visited'
      BY <1>1, <2>1 DEF Staged, generic
    <2>2. Visited
      BY <1>2, Zenon DEF Staged
    <2>3. registration.ty.leaf[2] \in Path
      BY <1>2, RegistrationItems, Zenon DEF Given
    <2>4. todo # <<registration.ty.leaf[2]>>
      <3>1. \A a : Head(<<a>>) = a
        OBVIOUS
      <3> QED
        BY <2>3, <3>1, Zenon
    <2>5. items = <<>> /\ TypeMoved
      BY <2>2, <2>4, Zenon DEF Visited
    <2> QED
      BY <1>1, <2>5, Zenon DEF Visited, TypeMoved
  <1>7. Chosen'
    BY <1>1, <1>2, ChoiceKept, Zenon
  <1> QED
    BY <1>3, <1>4, <1>5, <1>6, <1>7, Zenon DEF InjectedInv

\* EnterModule and LeaveModule.
LEMMA InjectedModule ==
    ASSUME InjectedInv, EnterModule \/ LeaveModule
    PROVE  InjectedInv'
  <1>1. Placed'
    BY PlacedEnter, PlacedLeave, Zenon DEF InjectedInv
  <1>2. /\ todo # <<>> /\ (Head(todo) = Begin \/ Head(todo) = End)
        /\ UNCHANGED <<registration, phase, policy, items, emitted>>
    BY Zenon DEF EnterModule, LeaveModule
  <1>3. Head(todo) \notin Path
    BY <1>2, Marks, Zenon
  <1> QED
    BY <1>1, <1>2, <1>3, InjectedBoundary, Zenon

\* Compile.
LEMMA InjectedCompile ==
    ASSUME InjectedInv, Compile
    PROVE  InjectedInv'
  <1>1. /\ phase = "moving" /\ todo = <<>> /\ items = <<>>
        /\ registration' = registration /\ todo' = todo /\ nested_modules' = nested_modules
        /\ depth' = depth /\ emitted' = emitted /\ items' = items
    BY Zenon DEF Compile
  <1>2. Given /\ Placed /\ Waiting /\ PathsPreserved /\ Staged /\ Chosen
    BY Zenon DEF InjectedInv
  <1>3. WellFormed(registration) /\ emitted \in Seq(Emission) /\ registration \in Registration
    BY <1>2, Zenon DEF Given, WellFormed
  <1>4. \/ generic /\ policy' = policy /\ phase' = "accepted" /\ Accepts(registration)
        \/ generic /\ phase' = "rejected" /\ ~Accepts(registration)
        \/ /\ ~generic /\ phase' = "accepted"
           /\ policy' = [copy |-> Flag("Copy"), clone |-> Flag("Clone")]
    BY Zenon DEF Compile
  <1>5. Given'
    <2>1. phase' \in {"declared", "moving", "accepted", "rejected"}
      BY <1>4
    <2> QED
      BY <1>1, <1>2, <1>3, <2>1, GivenKept, Zenon
  <1>6. Placed'
    BY <1>1, <1>2, Zenon DEF Placed
  <1>7. Waiting'
    BY <1>1, <1>2, Zenon DEF Waiting
  <1>8. PathsPreserved'
    BY <1>1, <1>2 DEF PathsPreserved
  <1>9. phase' # "declared" /\ phase' # "moving"
    BY <1>4
  <1>10. Staged'
    BY <1>9 DEF Staged
  <1>11. phase' = "accepted" /\ ~registration.fresh =>
            policy' = [copy |-> Known(registration, "Copy"), clone |-> Known(registration, "Clone")]
    <2>1. CASE generic /\ policy' = policy /\ Accepts(registration)
      <3>1. policy' = Explicit(registration)
        BY <1>1, <1>2, <2>1, Zenon DEF Chosen
      <3> QED
        BY <1>3, <2>1, <3>1, AcceptedExact, Zenon
    <2>2. CASE phase' = "rejected"
      BY <2>2
    <2>3. CASE ~generic /\ policy' = [copy |-> Flag("Copy"), clone |-> Flag("Clone")]
      <3>1. TypeMoved
        <4>1. Visited
          BY <1>1, <1>2, <2>3, Zenon DEF Staged
        <4>2. /\ \A a : <<a>> # <<>>
              /\ \A a, b : <<a, b>> # <<>>
              /\ \A a, b, c : <<a, b, c>> # <<>>
          OBVIOUS
        <4> QED
          BY <1>1, <4>1, <4>2, Zenon DEF Visited
      <3>2. registration.ty.leaf[1] = "named"
        BY <1>3, <2>3, RegistrationItems, Zenon
      <3>3. \A trait : Flag(trait) <=> Known(registration, trait)
        <4>1. emitted[3].moved = Rebased(0, registration.ty.leaf[2])
          BY <3>1, Zenon DEF TypeMoved
        <4> TAKE trait
        <4>2. Flag(trait) <=>
                Proves(Generated,
                           [registration.ty EXCEPT !.leaf = <<"named", Rebased(0, registration.ty.leaf[2])>>],
                           trait, {}, registration.shadowed)
          BY <4>1, Zenon DEF Flag
        <4> QED
          BY <1>3, <3>2, <4>2, FlagExact, Zenon
      <3>4. \A trait : Flag(trait) \in BOOLEAN
        BY DEF Flag, Proves
      <3>5. /\ Flag("Copy") = Known(registration, "Copy")
            /\ Flag("Clone") = Known(registration, "Clone")
        BY <3>3, <3>4, Truths
      <3> QED
        BY <2>3, <3>5
    <2> QED
      BY <1>4, <2>1, <2>2, <2>3, Zenon
  <1>12. phase' = "rejected" => ~Accepts(registration)
    BY <1>4
  <1>13. Chosen'
    BY <1>1, <1>9, <1>11, <1>12 DEF Chosen, PolicyExact
  <1> QED
    BY <1>5, <1>6, <1>7, <1>8, <1>10, <1>13, Zenon DEF InjectedInv

\* Stuttering.
LEMMA InjectedSame ==
    ASSUME InjectedInv, UNCHANGED injected_vars
    PROVE  InjectedInv'
  <1>1. /\ registration' = registration /\ phase' = phase /\ policy' = policy /\ items' = items
        /\ todo' = todo /\ nested_modules' = nested_modules /\ depth' = depth /\ emitted' = emitted
    BY DEF injected_vars
  <1>2. Given' /\ Waiting' /\ PathsPreserved'
    BY <1>1 DEF InjectedInv, Given, Waiting, PathsPreserved
  <1>3. Placed'
    BY <1>1, Zenon DEF InjectedInv, Placed
  <1>4. Staged'
    BY <1>1 DEF InjectedInv, Staged, Visited, TypeMoved, ImportItem, TypeItem, SourceItem, generic
  <1>5. Chosen'
    BY <1>1, ChoiceKept, Zenon DEF InjectedInv
  <1> QED
    BY <1>2, <1>3, <1>4, <1>5, Zenon DEF InjectedInv

-------------------------------------------------------------------------------

\* The expansion of a registration that the move is meant for keeps its invariant:
\* Rebase's counter is the number of modules around the next path, the rest of the
\* item closes them, and what was chosen and moved so far is right.
THEOREM InjectedInvariant ==
    ASSUME AllMovable
    PROVE  InjectedSpec => []InjectedInv
  <1>1. InjectedInit => InjectedInv
    BY InjectedStart
  <1>2. InjectedInv /\ [InjectedNext]_injected_vars => InjectedInv'
    BY InjectedSelect, InjectedSkip, InjectedVisitItem, InjectedVisitPath, InjectedModule,
       InjectedCompile, InjectedSame, Zenon DEF InjectedNext, Done
  <1> QED
    BY <1>1, <1>2, PTL DEF InjectedSpec

\* "Source-relative paths are preserved when hoisted": however long its paths and
\* however deep its modules, every path that Rebase moves means what it meant where
\* it was written, and what was generated stays as generated.
THEOREM InjectedPathsPreserved ==
    ASSUME AllMovable
    PROVE  InjectedSpec => []PathsPreserved
  <1>1. InjectedInv => PathsPreserved
    BY DEF InjectedInv
  <1> QED
    BY <1>1, InjectedInvariant, PTL

\* An accepted registration has exactly the storage policy that rustc's knowledge of
\* its type at the declaration calls for, whatever constructors are around the type,
\* whatever bounds the function has and wherever the type's path was moved.
THEOREM InjectedPolicyExact ==
    ASSUME AllMovable
    PROVE  InjectedSpec => []PolicyExact
  <1>1. InjectedInv => PolicyExact
    BY DEF InjectedInv, Chosen
  <1> QED
    BY <1>1, InjectedInvariant, PTL

\* A registration that is refused because a trait is known indirectly is accepted
\* with the explicit bound on the registered type that the diagnostic advises.
THEOREM InjectedAdviceHelps ==
    ASSUME AllMovable
    PROVE  InjectedSpec => []AdviceHelps
  <1>1. InjectedInv => AdviceHelps
    <2> SUFFICES ASSUME InjectedInv, phase = "rejected" PROVE AdviceHelps
      BY DEF AdviceHelps
    <2>1. registration \in Registration /\ ~Accepts(registration)
      BY Zenon DEF InjectedInv, Given, Chosen, WellFormed
    <2>2. CASE ~Known(registration, "Copy") /\ Explicit(registration).copy
      BY <2>2 DEF AdviceHelps
    <2>3. CASE ~Known(registration, "Clone") /\ Explicit(registration).clone
      BY <2>3 DEF AdviceHelps
    <2>4. CASE /\ Explicit(registration).copy => Known(registration, "Copy")
               /\ Explicit(registration).clone => Known(registration, "Clone")
      BY <2>1, <2>4, AdviceEnough, Zenon DEF AdviceHelps
    <2> QED
      BY <2>2, <2>3, <2>4, Zenon
  <1> QED
    BY <1>1, InjectedInvariant, PTL
===============================================================================
