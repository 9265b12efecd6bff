--------------------------- MODULE TypeLookupProofs ---------------------------
(***************************************************************************)
(* The expansion of type lookups finds exactly what a registration depends   *)
(* on, and rejects exactly what cannot be expanded, for any number of        *)
(* registrations and any types.                                              *)
(***************************************************************************)
EXTENDS TypeLookup, SequenceTheorems, TLAPS

USE NAssumption, ContentAssumption, QueriesAssumption

TypeInv ==
    /\ types \in [Node -> Seq(Lookup)] /\ dynamic \in SUBSET Node
    /\ reg \in 0 .. N /\ (stage \in {"lookup", "query", "err"} => reg \in Node)
    /\ extra \in Seq(Lookup) /\ queries \in SUBSET (0 .. N)
    /\ stack \in Seq(Seq(Lookup)) /\ active \in Seq(Node) /\ deps \in SUBSET Node
    /\ stage \in {"begin", "lookup", "query", "ok", "err"}

\* The text whose rest is at level k of the traversal.
Text(k) == IF k = 1 THEN own ELSE types[active[k - 1]]

\* The levels are nested expansions: each is the rest of the type of a
\* registration that the text of the level above looks up, and no registration is
\* expanded inside itself.
WalkInv ==
    stage = "lookup" =>
        /\ Len(stack) = Len(active) + 1
        /\ \A k \in 1 .. Len(stack) : ToSet(stack[k]) \subseteq ToSet(Text(k))
        /\ \A k \in 1 .. Len(active) : active[k] \in StaticIn(Text(k))
        /\ \A k \in 1 .. Len(active) : active[k] \in Reached(types, own)
        /\ \A j, k \in 1 .. Len(active) :
             j < k => active[j] # active[k] /\ active[k] \in Reached(types, types[active[j]])

\* A closed path of lookups that visits nothing twice.
IsCycle(declared, path) ==
    /\ Len(path) > 1 /\ path[1] = path[Len(path)]
    /\ \A i \in 1 .. Len(path) - 1 : path[i + 1] \in StaticIn(declared[path[i]])
    /\ \A i, j \in 1 .. Len(path) - 1 : path[i] = path[j] => i = j

\* An error has a reason.
ErrorInv ==
    /\ \/ error \in {None, <<"unregistered">>, <<"not dyn">>}
       \/ \E path \in Seq(Node) : IsCycle(types, path) /\ error = <<"cycle">> \o path
    /\ stage = "lookup" /\ error # None => Cyclic \/ Faulty
    /\ stage = "err" => error # None /\ (Cyclic \/ Faulty \/ Missing \in queries)
    /\ stage \in {"begin", "query", "ok"} => error = None

\* A lookup that was replaced.
Replaced(l) == l.node # Missing /\ (l.dyn => l.node \in dynamic /\ l.node \in deps)

\* What is known of the registrations D whose types were expanded to the end: they
\* reach only each other, and none itself.
Expanded(D) ==
    /\ D \subseteq Reached(types, own) /\ D \subseteq deps
    /\ \A i \in D : /\ StaticIn(types[i]) \subseteq D
                    /\ i \notin Reached(types, types[i])
                    /\ \A l \in ToSet(types[i]) : Replaced(l)

\* Every lookup at a level is still to come, or replaced: by a type expanded to the
\* end, or by the one of the next level.
Followed(D) ==
    \A k \in 1 .. Len(stack) : \A l \in ToSet(Text(k)) :
        \/ l \in ToSet(stack[k])
        \/ Replaced(l) /\ (l.dyn \/ l.node \in D \/ (k <= Len(active) /\ l.node = active[k]))

\* Nothing else is a dependency.
Needed(D) ==
    /\ ToSet(active) \subseteq deps
    /\ \A n \in deps : \/ n \in D \cup ToSet(active)
                       \/ n \in DynIn(own)
                       \/ \E i \in D \cup ToSet(active) : n \in DynIn(types[i])

FoundInv ==
    stage = "lookup" /\ error = None =>
        \E D \in SUBSET Node : Expanded(D) /\ Followed(D) /\ Needed(D)

\* The outcome for an accepted registration.
AcceptInv == stage = "query" => CollectsAll /\ ~Cyclic /\ ~Faulty

IndInv == TypeInv /\ WalkInv /\ ErrorInv /\ FoundInv /\ AcceptInv

-------------------------------------------------------------------------------
(* Lookups, and what they reach.                                             *)

\* Lookups of something unregistered name no node.
LEMMA StaticNodes == \A lookups : StaticIn(lookups) \subseteq Node /\ DynIn(lookups) \subseteq Node
  BY DEF StaticIn, DynIn

\* The lookups of a text are those it holds at some place.
LEMMA Holds ==
    ASSUME NEW X, NEW s \in Seq(X)
    PROVE  \A x : x \in ToSet(s) <=> \E i \in 1 .. Len(s) : s[i] = x
  BY DEF ToSet

\* A sequence without its last element.
LEMMA FrontOf ==
    ASSUME NEW X, NEW s \in Seq(X), Len(s) >= 1
    PROVE  /\ Front(s) \in Seq(X) /\ Len(Front(s)) = Len(s) - 1
           /\ \A k \in 1 .. Len(s) - 1 : Front(s)[k] = s[k]
  <1> DEFINE n == Len(s)
             f == SubSeq(s, 1, n - 1)
  <1>1. n \in Nat /\ n >= 1
    OBVIOUS
  <1>2. /\ f \in Seq(X)
        /\ Len(f) = IF 1 <= n - 1 THEN n - 1 - 1 + 1 ELSE 0
        /\ \A k \in 1 .. n - 1 - 1 + 1 : f[k] = s[1 + k - 1]
    BY <1>1, SubSeqProperties
  <1> HIDE DEF n, f
  <1>3. Len(f) = n - 1
    BY <1>1, <1>2
  <1>4. \A k \in 1 .. n - 1 : f[k] = s[k]
    BY <1>1, <1>2
  <1> QED
    BY <1>2, <1>3, <1>4 DEF Front, n, f

\* A sequence with one more element,
LEMMA AppendOf ==
    ASSUME NEW X, NEW s \in Seq(X), NEW x \in X, NEW t, t = Append(s, x)
    PROVE  /\ t \in Seq(X) /\ Len(t) = Len(s) + 1
           /\ \A i \in 1 .. Len(s) : t[i] = s[i]
           /\ t[Len(s) + 1] = x
  BY AppendProperties

\* and the elements it holds.
LEMMA PushedSet ==
    ASSUME NEW X, NEW s \in Seq(X), NEW x \in X
    PROVE  ToSet(Append(s, x)) = ToSet(s) \cup {x}
  <1> DEFINE t == Append(s, x)
  <1>1. /\ t \in Seq(X) /\ Len(t) = Len(s) + 1 /\ Len(s) \in Nat
        /\ \A i \in 1 .. Len(s) : t[i] = s[i]
        /\ t[Len(s) + 1] = x
    BY AppendOf
  <1> HIDE DEF t
  <1>2. /\ \A y : y \in ToSet(t) <=> \E i \in 1 .. Len(t) : t[i] = y
        /\ \A y : y \in ToSet(s) <=> \E i \in 1 .. Len(s) : s[i] = y
    BY <1>1, Holds
  <1>3. /\ \A i \in 1 .. Len(t) : i \in 1 .. Len(s) \/ i = Len(s) + 1
        /\ \A i \in 1 .. Len(s) : i \in 1 .. Len(t)
        /\ Len(s) + 1 \in 1 .. Len(t)
    BY <1>1
  <1>4. \A y \in ToSet(t) : y \in ToSet(s) \cup {x}
    BY <1>1, <1>2, <1>3
  <1>5. \A y \in ToSet(s) \cup {x} : y \in ToSet(t)
    BY <1>1, <1>2, <1>3
  <1> QED
    BY <1>4, <1>5 DEF t

\* What is not registered is no registration.
LEMMA MissingIsNoNode == \A n \in Node : n # Missing
  BY DEF Missing, Node

\* A lookup that is registered names a registration, statically or as a trait object.
LEMMA StaticLookup ==
    ASSUME NEW s, NEW l \in ToSet(s), l \in Lookup
    PROVE  /\ ~l.dyn /\ l.node # Missing => l.node \in Node /\ l.node \in StaticIn(s)
           /\ l.dyn /\ l.node # Missing => l.node \in Node /\ l.node \in DynIn(s)
  <1>1. l.node # Missing => l.node \in Node
    BY DEF Lookup, Missing, Node
  <1> QED
    BY <1>1 DEF StaticIn, DynIn

\* What is reached is the least set closed under lookups.
LEMMA ReachedLeast ==
    ASSUME NEW declared, NEW lookups
    PROVE  /\ Reached(declared, lookups) \in SUBSET Node
           /\ Closed(declared, lookups, Reached(declared, lookups))
           /\ \A R \in SUBSET Node :
                Closed(declared, lookups, R) => Reached(declared, lookups) \subseteq R
  <1> DEFINE L == {n \in Node : \A R \in SUBSET Node : Closed(declared, lookups, R) => n \in R}
             Least(S) == /\ Closed(declared, lookups, S)
                         /\ \A R \in SUBSET S : Closed(declared, lookups, R) => R = S
  <1>1. L \in SUBSET Node /\ \A R \in SUBSET Node : Closed(declared, lookups, R) => L \subseteq R
    OBVIOUS
  <1>2. Closed(declared, lookups, L)
    <2>1. StaticIn(lookups) \subseteq L
      BY StaticNodes DEF Closed
    <2>2. ASSUME NEW i \in L PROVE StaticIn(declared[i]) \subseteq L
      BY StaticNodes DEF Closed
    <2> QED
      BY <2>1, <2>2 DEF Closed
  <1> HIDE DEF L
  <1>3. Least(L)
    BY <1>1, <1>2
  <1>4. Reached(declared, lookups) \in SUBSET Node /\ Least(Reached(declared, lookups))
    BY <1>1, <1>3 DEF Reached
  <1>5. L = Reached(declared, lookups)
    BY <1>1, <1>2, <1>4
  <1> QED
    BY <1>1, <1>2, <1>5

\* The same, as the proofs below use it.
LEMMA ReachedSteps ==
    ASSUME NEW declared, NEW lookups
    PROVE  /\ Reached(declared, lookups) \subseteq Node
           /\ StaticIn(lookups) \subseteq Reached(declared, lookups)
           /\ \A i \in Reached(declared, lookups) :
                StaticIn(declared[i]) \subseteq Reached(declared, lookups)
  BY ReachedLeast DEF Closed

\* A set that holds what is looked up, and is closed, holds what is reached.
LEMMA ReachedWithin ==
    ASSUME NEW declared, NEW lookups, NEW R \in SUBSET Node, StaticIn(lookups) \subseteq R,
           \A i \in R : StaticIn(declared[i]) \subseteq R
    PROVE  Reached(declared, lookups) \subseteq R
  BY ReachedLeast DEF Closed

-------------------------------------------------------------------------------
(* The traversal.                                                            *)

\* Every level has a text of lookups.
LEMMA Levels ==
    ASSUME TypeInv, WalkInv, stage = "lookup"
    PROVE  /\ Len(stack) \in Nat /\ Len(stack) >= 1 /\ Len(active) = Len(stack) - 1
           /\ own \in Seq(Lookup)
           /\ \A k \in 1 .. Len(stack) : Text(k) \in Seq(Lookup) /\ stack[k] \in Seq(Lookup)
           /\ \A k \in 1 .. Len(active) : active[k] \in Node
  <1>1. own \in Seq(Lookup)
    BY DEF TypeInv, own
  <1>2. Len(stack) \in Nat /\ Len(active) \in Nat /\ Len(stack) = Len(active) + 1
    BY DEF TypeInv, WalkInv
  <1>3. \A k \in 1 .. Len(active) : active[k] \in Node /\ types[active[k]] \in Seq(Lookup)
    BY DEF TypeInv
  <1>4. \A k \in 1 .. Len(stack) : stack[k] \in Seq(Lookup)
    BY DEF TypeInv
  <1>5. \A k \in 1 .. Len(stack) : k # 1 => k - 1 \in 1 .. Len(active)
    BY <1>2
  <1>6. \A k \in 1 .. Len(stack) : Text(k) \in Seq(Lookup)
    BY <1>1, <1>3, <1>5 DEF Text
  <1> QED
    BY <1>1, <1>2, <1>3, <1>4, <1>6

\* What the text of a level looks up is part of the expansion of the registration
\* and of every type being expanded.
LEMMA LevelReach ==
    ASSUME TypeInv, WalkInv, stage = "lookup", NEW n \in StaticIn(Text(Len(stack)))
    PROVE  /\ n \in Reached(types, own)
           /\ \A k \in 1 .. Len(active) : n \in Reached(types, types[active[k]])
  <1>1. Len(stack) \in Nat /\ Len(stack) >= 1 /\ Len(active) = Len(stack) - 1
    BY Levels
  <1>2. CASE Len(stack) = 1
    <2>1. n \in StaticIn(own) /\ Len(active) = 0
      BY <1>1, <1>2 DEF Text
    <2> QED
      BY <2>1, ReachedSteps
  <1>3. CASE Len(stack) > 1
    <2> DEFINE last == active[Len(active)]
    <2>1. n \in StaticIn(types[last]) /\ Len(active) \in 1 .. Len(active)
      BY <1>1, <1>3 DEF Text
    <2>2. last \in Reached(types, own)
      BY <2>1 DEF WalkInv
    <2>3. n \in Reached(types, own)
      BY <2>1, <2>2, ReachedSteps
    <2>4. ASSUME NEW k \in 1 .. Len(active) PROVE n \in Reached(types, types[active[k]])
      <3>1. CASE k = Len(active)
        BY <2>1, <3>1, ReachedSteps
      <3>2. CASE k < Len(active)
        <4>1. last \in Reached(types, types[active[k]])
          BY <2>1, <3>2 DEF WalkInv
        <4> QED
          BY <2>1, <4>1, ReachedSteps
      <3> QED
        BY <1>1, <3>1, <3>2
    <2> QED
      BY <2>3, <2>4
  <1> QED
    BY <1>1, <1>2, <1>3

\* The next lookup, and the traversal after it.
LEMMA NextLookup ==
    ASSUME TypeInv, WalkInv, Pending
    PROVE  /\ lookup \in Lookup /\ lookup \in ToSet(Text(Len(stack)))
           /\ Rest \in Seq(Seq(Lookup)) /\ Len(Rest) = Len(stack)
           /\ \A k \in 1 .. Len(stack) : k < Len(stack) => Rest[k] = stack[k]
           /\ \A l \in ToSet(stack[Len(stack)]) : l = lookup \/ l \in ToSet(Rest[Len(stack)])
           /\ \A k \in 1 .. Len(stack) : ToSet(Rest[k]) \subseteq ToSet(stack[k])
  <1> DEFINE n == Len(stack)
             top == stack[n]
  <1>1. stage = "lookup" /\ top # <<>>
    BY DEF Pending, Last
  <1>2. n \in Nat /\ n >= 1 /\ n \in 1 .. n /\ top \in Seq(Lookup) /\ ToSet(top) \subseteq ToSet(Text(n))
    BY <1>1, Levels DEF WalkInv
  <1>3. Front(stack) \in Seq(Seq(Lookup)) /\ Len(Front(stack)) = n - 1
        /\ \A k \in 1 .. n - 1 : Front(stack)[k] = stack[k]
    BY <1>2, FrontOf DEF TypeInv
  <1>4. lookup = top[1] /\ lookup \in ToSet(top) /\ lookup \in Lookup
    <2>1. Len(top) \in Nat /\ Len(top) >= 1
      BY <1>1, <1>2
    <2>2. lookup = top[1]
      BY DEF lookup, Last
    <2>3. 1 \in 1 .. Len(top)
      BY <2>1
    <2> QED
      BY <1>2, <2>2, <2>3, Holds
  <1>5. Tail(top) \in Seq(Lookup) /\ Len(Tail(top)) = Len(top) - 1 /\ Len(top) \in Nat
        /\ \A i \in 1 .. Len(top) - 1 : Tail(top)[i] = top[i + 1]
    BY <1>1, <1>2
  <1>6. /\ Rest \in Seq(Seq(Lookup)) /\ Len(Rest) = n /\ Rest[n] = Tail(top)
        /\ \A k \in 1 .. n - 1 : Rest[k] = stack[k]
    <2>1. Rest = Append(Front(stack), Tail(top))
      BY <1>3, <1>5 DEF Rest, Last
    <2> QED
      BY <1>2, <1>3, <1>5, <2>1
  <1>7. ASSUME NEW l \in ToSet(top) PROVE l = lookup \/ l \in ToSet(Tail(top))
    <2>1. PICK i \in 1 .. Len(top) : top[i] = l
      BY <1>2, Holds
    <2>2. CASE i = 1
      BY <1>4, <2>1, <2>2
    <2>3. CASE i # 1
      <3>1. i - 1 \in 1 .. Len(top) - 1 /\ Tail(top)[i - 1] = l
        BY <1>5, <2>1, <2>3
      <3> QED
        BY <1>5, <3>1, Holds
    <2> QED
      BY <2>2, <2>3
  <1>8. ToSet(Tail(top)) \subseteq ToSet(top)
    <2> SUFFICES ASSUME NEW l \in ToSet(Tail(top)) PROVE l \in ToSet(top)
      OBVIOUS
    <2>1. PICK i \in 1 .. Len(top) - 1 : Tail(top)[i] = l
      BY <1>5, Holds
    <2>2. i + 1 \in 1 .. Len(top) /\ top[i + 1] = l
      BY <1>5, <2>1
    <2> QED
      BY <1>2, <2>2, Holds
  <1> HIDE DEF top
  <1>9. \A k \in 1 .. n : k < n => Rest[k] = stack[k]
    BY <1>2, <1>6
  <1>10. \A k \in 1 .. n : ToSet(Rest[k]) \subseteq ToSet(stack[k])
    <2>1. \A k \in 1 .. n : k < n \/ k = n
      BY <1>2
    <2> QED
      BY <1>6, <1>8, <1>9, <2>1 DEF top
  <1> QED
    BY <1>2, <1>4, <1>6, <1>7, <1>9, <1>10 DEF top

\* The texts do not change while a registration is expanded.
LEMMA SameTexts ==
    ASSUME UNCHANGED <<types, dynamic, reg, extra>>
    PROVE  own' = own /\ Texts' = Texts /\ (Cyclic' <=> Cyclic) /\ (Faulty' <=> Faulty)
  <1>1. own' = own
    BY DEF own
  <1>2. Texts' = Texts
    BY <1>1 DEF Texts
  <1> QED
    BY <1>1, <1>2 DEF Cyclic, Faulty

\* The text of every level is part of the expansion.
LEMMA LevelTexts ==
    ASSUME TypeInv, WalkInv, stage = "lookup"
    PROVE  \A k \in 1 .. Len(stack) : Text(k) \in Texts
  <1> SUFFICES ASSUME NEW k \in 1 .. Len(stack) PROVE Text(k) \in Texts
    OBVIOUS
  <1>1. CASE k = 1
    BY <1>1 DEF Text, Texts
  <1>2. CASE k # 1
    <2>1. k - 1 \in 1 .. Len(active)
      BY <1>2, Levels
    <2>2. active[k - 1] \in Reached(types, own)
      BY <2>1 DEF WalkInv
    <2> QED
      BY <1>2, <2>2 DEF Text, Texts
  <1> QED
    BY <1>1, <1>2

\* Going past a lookup keeps the nesting.
LEMMA AdvanceWalk ==
    ASSUME TypeInv, WalkInv, Pending, stack' = Rest,
           UNCHANGED <<types, dynamic, reg, extra, active, stage>>
    PROVE  WalkInv'
  <1>1. own' = own /\ stage = "lookup" /\ \A k : Text(k)' = Text(k)
    BY SameTexts DEF Text, Pending
  <1>2. Len(stack') = Len(stack) /\ \A k \in 1 .. Len(stack) : ToSet(stack'[k]) \subseteq ToSet(stack[k])
    BY NextLookup
  <1>3. \A k \in 1 .. Len(stack') : ToSet(stack'[k]) \subseteq ToSet(Text(k)')
    BY <1>1, <1>2 DEF WalkInv
  <1> QED
    BY <1>1, <1>2, <1>3 DEF WalkInv

\* An error that is a cycle names it.
LEMMA CycleError ==
    ASSUME NEW path \in Seq(Node), NEW e, e = <<"cycle">> \o path
    PROVE  e[1] = "cycle" /\ Tail(e) = path /\ e # None
  <1> DEFINE S == {"cycle"} \cup Node
  <1>1. <<"cycle">> \in Seq(S) /\ Len(<<"cycle">>) = 1 /\ <<"cycle">>[1] = "cycle"
    OBVIOUS
  <1>2. path \in Seq(S) /\ Len(path) \in Nat
    BY SeqMonotonic
  <1>3. /\ e \in Seq(S) /\ Len(e) = 1 + Len(path)
        /\ \A i \in 1 .. 1 + Len(path) :
             e[i] = IF i <= 1 THEN <<"cycle">>[i] ELSE path[i - 1]
    BY <1>1, <1>2, ConcatProperties
  <1>4. e[1] = "cycle" /\ e # <<>>
    BY <1>1, <1>2, <1>3
  <1>5. /\ Tail(e) \in Seq(S) /\ Len(Tail(e)) = Len(path)
        /\ \A i \in 1 .. Len(path) : Tail(e)[i] = e[i + 1]
    BY <1>2, <1>3, <1>4, HeadTailProperties
  <1>6. \A i \in 1 .. Len(path) : Tail(e)[i] = path[i]
    BY <1>2, <1>3, <1>5
  <1>7. Tail(e) = path
    BY <1>2, <1>5, <1>6, SeqEqual
  <1>8. None[1] = "none"
    BY DEF None
  <1> QED
    BY <1>4, <1>7, <1>8

\* The other errors are not cycles.
LEMMA Reasons ==
    /\ <<"unregistered">> # None /\ <<"not dyn">> # None
    /\ None[1] # "cycle" /\ <<"unregistered">>[1] # "cycle" /\ <<"not dyn">>[1] # "cycle"
  <1>1. None[1] = "none" /\ <<"unregistered">>[1] = "unregistered" /\ <<"not dyn">>[1] = "not dyn"
    BY DEF None
  <1>2. <<"unregistered">>[1] # None[1] /\ <<"not dyn">>[1] # None[1]
    BY <1>1
  <1>3. <<"unregistered">> # None /\ <<"not dyn">> # None
    BY <1>2
  <1> QED
    BY <1>1, <1>3

\* The active registrations from start on, and the repeated one.
RepeatFrom(path, start) == path = SubSeq(active, start, Len(active)) \o <<lookup.node>>

\* They are a cycle if the one at start is repeated.
LEMMA SuffixIsCycle ==
    ASSUME TypeInv, WalkInv, Expands,
           NEW start \in 1 .. Len(active), active[start] = lookup.node,
           NEW path, RepeatFrom(path, start)
    PROVE  path \in Seq(Node) /\ IsCycle(types, path)
  <1> DEFINE m == Len(active)
             suffix == SubSeq(active, start, m)
             size == m - start + 1
  <1>1. stage = "lookup" /\ Pending /\ lookup.node \in Node /\ ~lookup.dyn
    BY DEF Expands, Pending
  <1>2. m \in Nat /\ start \in 1 .. m /\ Len(stack) = m + 1 /\ \A k \in 1 .. m : active[k] \in Node
    <2>1. Len(active) \in Nat /\ \A k \in 1 .. Len(active) : active[k] \in Node
      BY DEF TypeInv
    <2>2. Len(stack) = Len(active) + 1
      BY <1>1 DEF WalkInv
    <2> QED
      BY <2>1, <2>2
  <1>3. lookup.node \in StaticIn(types[active[m]])
    <2>1. lookup \in Lookup /\ lookup \in ToSet(Text(m + 1)) /\ lookup.node # Missing
      BY <1>1, <1>2, NextLookup DEF Missing, Node
    <2>2. Text(m + 1) = types[active[m]]
      BY <1>2 DEF Text
    <2> QED
      BY <1>1, <2>1, <2>2, StaticLookup
  <1>4. /\ suffix \in Seq(Node) /\ Len(suffix) = IF start <= m THEN m - start + 1 ELSE 0
        /\ \A i \in 1 .. m - start + 1 : suffix[i] = active[start + i - 1]
    BY <1>2, SubSeqProperties
  <1> HIDE DEF suffix, m
  <1>5. size \in Nat /\ size >= 1 /\ Len(suffix) = size
    BY <1>2, <1>4
  <1>6. path = Append(suffix, lookup.node)
    BY <1>1, <1>4 DEF suffix, m, RepeatFrom
  <1>7. /\ path \in Seq(Node) /\ Len(path) = size + 1 /\ path[size + 1] = lookup.node
        /\ \A i \in 1 .. size : path[i] = suffix[i]
    <2>1. /\ path \in Seq(Node) /\ Len(path) = Len(suffix) + 1
          /\ \A i \in 1 .. Len(suffix) : path[i] = suffix[i]
          /\ path[Len(suffix) + 1] = lookup.node
      <3>1. suffix \in Seq(Node) /\ lookup.node \in Node
        BY <1>1, <1>4
      <3> QED
        BY <1>6, <3>1, AppendOf
    <2> QED
      BY <1>5, <2>1
  <1>8. \A i \in 1 .. size : start + i - 1 \in 1 .. m /\ path[i] = active[start + i - 1]
    <2>1. \A i \in 1 .. size : start + i - 1 \in 1 .. m
      BY <1>2
    <2> QED
      BY <1>4, <1>7, <2>1
  <1>9. path[1] = lookup.node
    <2>1. 1 \in 1 .. size /\ start + 1 - 1 = start
      BY <1>2, <1>5
    <2>2. path[1] = active[start + 1 - 1]
      BY <1>8, <2>1
    <2> QED
      BY <2>1, <2>2
  <1>10. ASSUME NEW i \in 1 .. size PROVE path[i + 1] \in StaticIn(types[path[i]])
    <2> DEFINE a == start + i - 1
    <2>1. a \in 1 .. m /\ path[i] = active[a]
      BY <1>8
    <2>2. CASE i = size
      <3>1. a = m
        BY <1>2, <2>2
      <3> QED
        BY <1>3, <1>7, <2>1, <2>2, <3>1
    <2>3. CASE i < size
      <3>1. i + 1 \in 1 .. size /\ start + (i + 1) - 1 = a + 1
        BY <1>2, <1>5, <2>3
      <3>2. path[i + 1] = active[a + 1] /\ a + 1 \in 1 .. m
        BY <1>8, <3>1
      <3>3. Text(a + 1) = types[active[a]]
        BY <1>2, <2>1 DEF Text
      <3>4. active[a + 1] \in StaticIn(Text(a + 1))
        BY <1>1, <3>2 DEF WalkInv, m
      <3> QED
        BY <2>1, <3>2, <3>3, <3>4
    <2>4. i = size \/ i < size
      BY <1>5
    <2> QED
      BY <2>2, <2>3, <2>4
  <1>11. ASSUME NEW i \in 1 .. size, NEW j \in 1 .. size, path[i] = path[j] PROVE i = j
    <2>1. /\ start + i - 1 \in 1 .. m /\ start + j - 1 \in 1 .. m
          /\ active[start + i - 1] = active[start + j - 1]
      BY <1>8, <1>11
    <2>2. \A a, b \in 1 .. m : a < b => active[a] # active[b]
      BY <1>1 DEF WalkInv, m
    <2>3. ~(start + i - 1 < start + j - 1) /\ ~(start + j - 1 < start + i - 1)
      BY <2>1, <2>2
    <2> QED
      BY <1>2, <1>5, <2>3
  <1>12. Len(path) - 1 = size /\ Len(path) > 1
    BY <1>5, <1>7
  <1> HIDE DEF size
  <1>13. path[1] = path[Len(path)]
    BY <1>7, <1>9
  <1> QED
    BY <1>7, <1>10, <1>11, <1>12, <1>13 DEF IsCycle

-------------------------------------------------------------------------------
(* Every step preserves the invariant.                                       *)

\* Before the first registration there is nothing to show.
LEMMA InitInd == Init => IndInv
  <1> SUFFICES ASSUME Init PROVE IndInv
    OBVIOUS
  <1>1. stage = "begin" /\ error = None
    BY DEF Init
  <1>2. TypeInv
    BY DEF Init, TypeInv
  <1> QED
    BY <1>1, <1>2 DEF IndInv, WalkInv, ErrorInv, FoundInv, AcceptInv

\* Nothing is expanded yet, and every lookup is to come.
LEMMA BeginInd ==
    ASSUME IndInv, NEW e \in Extra, NEW q \in Queries, Begin(e, q)
    PROVE  IndInv'
  <1>1. TypeInv /\ reg \in Node /\ types[reg] \in Seq(Lookup) /\ e \in Seq(Lookup) /\ q \in SUBSET (0 .. N)
    BY DEF IndInv, TypeInv, Begin, Node
  <1>2. /\ stage' = "lookup" /\ error' = None /\ deps' = {} /\ active' = <<>>
        /\ extra' = e /\ queries' = q /\ stack' = <<types[reg] \o e>>
        /\ UNCHANGED <<types, dynamic, reg>>
    BY DEF Begin, inputs
  <1>3. own' = types[reg] \o e /\ own' \in Seq(Lookup)
    BY <1>1, <1>2 DEF own
  <1>4. stack' = <<own'>> /\ Len(stack') = 1 /\ Len(active') = 0 /\ stack'[1] = own'
    BY <1>2, <1>3
  <1>5. TypeInv'
    BY <1>1, <1>2, <1>3, <1>4 DEF TypeInv
  <1>6. \A k \in 1 .. Len(stack') : k = 1 /\ Text(k)' = stack'[k]
    BY <1>4 DEF Text
  <1>7. WalkInv'
    <2>1. Len(stack') = Len(active') + 1
      BY <1>4
    <2>2. \A k : k \notin 1 .. Len(active')
      BY <1>4
    <2>3. \A k \in 1 .. Len(stack') : ToSet(stack'[k]) \subseteq ToSet(Text(k)')
      BY <1>6
    <2> QED
      BY <2>1, <2>2, <2>3 DEF WalkInv
  <1>8. ErrorInv'
    BY <1>2 DEF ErrorInv
  <1>9. Expanded({})' /\ Followed({})' /\ Needed({})'
    <2>1. ToSet(active') = {}
      BY <1>2 DEF ToSet
    <2> QED
      BY <1>2, <1>6, <2>1 DEF Expanded, Followed, Needed
  <1>10. FoundInv'
    BY <1>9 DEF FoundInv
  <1> QED
    BY <1>2, <1>5, <1>7, <1>8, <1>10 DEF IndInv, AcceptInv

\* An error that is not a cycle is a faulty lookup.
LEMMA RejectInd == ASSUME IndInv, RejectLookup PROVE IndInv'
  <1>1. TypeInv /\ WalkInv /\ Pending /\ stage = "lookup"
    BY DEF IndInv, RejectLookup, Pending
  <1>2. /\ error' \in {<<"unregistered">>, <<"not dyn">>}
        /\ lookup.node = Missing \/ (lookup.dyn /\ lookup.node \notin dynamic)
        /\ stack' = Rest /\ UNCHANGED <<types, dynamic, reg, extra, queries, active, deps, stage>>
    BY DEF RejectLookup, Fail, inputs
  <1>3. error' # None
    BY <1>2, Reasons
  <1>4. TypeInv'
    BY <1>1, <1>2, NextLookup DEF TypeInv
  <1>5. WalkInv'
    BY <1>1, <1>2, AdvanceWalk
  <1>6. Faulty
    <2>1. lookup \in Lookup /\ lookup \in ToSet(Text(Len(stack)))
      BY <1>1, NextLookup
    <2>2. Text(Len(stack)) \in Texts
      BY <1>1, Levels, LevelTexts
    <2> QED
      BY <1>2, <2>1, <2>2 DEF Faulty
  <1>7. Faulty'
    BY <1>2, <1>6, SameTexts
  <1>8. ErrorInv'
    BY <1>1, <1>2, <1>3, <1>7 DEF ErrorInv
  <1> QED
    BY <1>1, <1>2, <1>3, <1>4, <1>5, <1>8 DEF IndInv, FoundInv, AcceptInv

\* A reported cycle is one.
LEMMA CycleInd == ASSUME IndInv, ReportCycle PROVE IndInv'
  <1>1. TypeInv /\ WalkInv /\ Expands /\ Pending /\ stage = "lookup" /\ ~lookup.dyn /\ lookup.node \in Node
    BY DEF IndInv, ReportCycle, Expands, Pending
  <1>2. PICK start \in 1 .. Len(active) :
           /\ active[start] = lookup.node
           /\ Fail(<<"cycle">> \o SubSeq(active, start, Len(active)) \o <<lookup.node>>)
    BY DEF ReportCycle
  <1>3. stack' = Rest /\ UNCHANGED <<types, dynamic, reg, extra, queries, active, deps, stage>>
    BY <1>2 DEF Fail, inputs
  <1>4. PICK path : RepeatFrom(path, start)
    BY DEF RepeatFrom
  <1>5. path \in Seq(Node) /\ IsCycle(types, path)
    BY <1>1, <1>2, <1>4, SuffixIsCycle
  <1>6. error' = <<"cycle">> \o path
    <2> DEFINE S == {"cycle"} \cup Node
               suffix == SubSeq(active, start, Len(active))
    <2>1. suffix \in Seq(Node)
      BY <1>1, SubSeqProperties DEF TypeInv
    <2>2. <<"cycle">> \in Seq(S) /\ suffix \in Seq(S) /\ <<lookup.node>> \in Seq(S)
      BY <1>1, <2>1, SeqMonotonic
    <2>3. (<<"cycle">> \o suffix) \o <<lookup.node>> = <<"cycle">> \o (suffix \o <<lookup.node>>)
      BY <2>2, ConcatAssociative
    <2>4. error' = (<<"cycle">> \o suffix) \o <<lookup.node>>
      BY <1>2 DEF Fail
    <2>5. path = suffix \o <<lookup.node>>
      BY <1>4 DEF RepeatFrom
    <2> QED
      BY <2>3, <2>4, <2>5
  <1>7. error' # None
    BY <1>5, <1>6, CycleError
  <1>8. TypeInv'
    BY <1>1, <1>3, NextLookup DEF TypeInv
  <1>9. WalkInv'
    BY <1>1, <1>3, AdvanceWalk
  <1>10. Cyclic
    <2>1. lookup.node \in StaticIn(Text(Len(stack)))
      BY <1>1, NextLookup, StaticLookup DEF Missing, Node
    <2>2. lookup.node \in Reached(types, own) /\ lookup.node \in Reached(types, types[active[start]])
      BY <1>1, <2>1, LevelReach
    <2> QED
      BY <1>2, <2>2 DEF Cyclic
  <1>11. Cyclic'
    BY <1>3, <1>10, SameTexts
  <1>12. ErrorInv'
    BY <1>1, <1>3, <1>5, <1>6, <1>7, <1>11 DEF ErrorInv
  <1> QED
    BY <1>1, <1>3, <1>7, <1>8, <1>9, <1>12 DEF IndInv, FoundInv, AcceptInv

\* The step goes past a lookup that it replaced, and nothing is unreplaced.
Advanced(x) ==
    /\ Pending /\ stack' = Rest /\ active' = active
    /\ x = lookup /\ x.dyn /\ Replaced(x)'
    /\ \A k : Text(k)' = Text(k)
    /\ \A l : Replaced(l) => Replaced(l)'

\* Such a step leaves no lookup behind.
LEMMA FollowedOn ==
    ASSUME TypeInv, WalkInv, NEW D, Followed(D), NEW x, Advanced(x) PROVE Followed(D)'
  <1>1. /\ Len(stack) \in Nat /\ Len(stack') = Len(stack)
        /\ \A k \in 1 .. Len(stack) : k < Len(stack) => stack'[k] = stack[k]
        /\ \A l \in ToSet(stack[Len(stack)]) : l = lookup \/ l \in ToSet(stack'[Len(stack)])
    BY NextLookup DEF Advanced, TypeInv
  <1> SUFFICES ASSUME NEW k \in 1 .. Len(stack), NEW l \in ToSet(Text(k)), l \notin ToSet(stack'[k])
               PROVE  Replaced(l)' /\ (l.dyn \/ l.node \in D \/ (k <= Len(active) /\ l.node = active[k]))
    BY <1>1 DEF Followed, Advanced
  <1>2. CASE l = lookup
    BY <1>2 DEF Advanced
  <1>3. CASE l # lookup
    <2>1. k < Len(stack) \/ k = Len(stack)
      BY <1>1
    <2>2. l \notin ToSet(stack[k])
      BY <1>1, <1>3, <2>1
    <2> QED
      BY <2>2 DEF Followed, Advanced
  <1> QED
    BY <1>2, <1>3

\* A trait object is needed, and not expanded.
LEMMA ReplaceDynInd == ASSUME IndInv, ReplaceDyn PROVE IndInv'
  <1>1. TypeInv /\ WalkInv /\ ErrorInv /\ Pending /\ stage = "lookup" /\ lookup.dyn /\ lookup.node \in dynamic
    BY DEF IndInv, ReplaceDyn, Pending
  <1>2. /\ deps' = deps \cup {lookup.node} /\ stack' = Rest
        /\ UNCHANGED <<types, dynamic, reg, extra, queries, active, error, stage>>
    BY DEF ReplaceDyn, inputs
  <1>3. /\ lookup \in Lookup /\ lookup \in ToSet(Text(Len(stack)))
        /\ lookup.node \in Node /\ lookup.node # Missing
        /\ lookup.node \in DynIn(Text(Len(stack)))
    <2>1. lookup.node \in Node /\ lookup.node # Missing
      BY <1>1, MissingIsNoNode DEF TypeInv
    <2> QED
      BY <1>1, <2>1, NextLookup, StaticLookup
  <1>4. TypeInv'
    BY <1>1, <1>2, <1>3, NextLookup DEF TypeInv
  <1>5. WalkInv'
    BY <1>1, <1>2, AdvanceWalk
  <1>6. ErrorInv'
    BY <1>1, <1>2, SameTexts DEF ErrorInv
  <1>7. FoundInv'
    <2> SUFFICES ASSUME error = None
                 PROVE  \E D \in SUBSET Node : Expanded(D)' /\ Followed(D)' /\ Needed(D)'
      BY <1>2 DEF FoundInv
    <2>1. PICK D \in SUBSET Node : Expanded(D) /\ Followed(D) /\ Needed(D)
      BY <1>1 DEF IndInv, FoundInv
    <2>2. own' = own /\ \A k : Text(k)' = Text(k)
      BY <1>2, SameTexts DEF Text
    <2>3. \A l : Replaced(l) => Replaced(l)'
      BY <1>2 DEF Replaced
    <2>4. PICK x : x = lookup
      OBVIOUS
    <2>here. Replaced(x)'
      BY <1>1, <1>2, <1>3, <2>4 DEF Replaced
    <2>5. Expanded(D)'
      BY <1>2, <2>1, <2>2, <2>3 DEF Expanded
    <2>6. Followed(D)'
      BY <1>1, <1>2, <2>1, <2>2, <2>3, <2>4, <2>here, FollowedOn DEF Advanced
    <2>7. Needed(D)'
      <3>1. \/ lookup.node \in DynIn(own)
            \/ \E i \in ToSet(active) : lookup.node \in DynIn(types[i])
        <4>1. Len(stack) \in Nat /\ Len(active) = Len(stack) - 1 /\ Len(stack) >= 1
          BY <1>1, Levels
        <4>2. CASE Len(stack) = 1
          BY <1>3, <4>2 DEF Text
        <4>3. CASE Len(stack) > 1
          <5>1. Len(active) \in 1 .. Len(active) /\ Text(Len(stack)) = types[active[Len(active)]]
            BY <4>1, <4>3 DEF Text
          <5>2. active[Len(active)] \in ToSet(active)
            BY <1>1, <5>1, Holds DEF TypeInv
          <5> QED
            BY <1>3, <5>1, <5>2
        <4> QED
          BY <4>1, <4>2, <4>3
      <3> QED
        BY <1>2, <2>1, <2>2, <3>1 DEF Needed
    <2> QED
      BY <2>5, <2>6, <2>7
  <1> QED
    BY <1>1, <1>2, <1>4, <1>5, <1>6, <1>7 DEF IndInv, AcceptInv

\* A registration starts to be expanded at a new level.
LEMMA ExpandInd == ASSUME IndInv, Expand PROVE IndInv'
  <1>level. PICK n : n = Len(stack)
    OBVIOUS
  <1>looked. PICK x : x = lookup
    OBVIOUS
  <1>named. PICK i : i = x.node
    OBVIOUS
  <1>1. /\ TypeInv /\ WalkInv /\ ErrorInv /\ Expands /\ Pending /\ stage = "lookup"
        /\ ~x.dyn /\ i \in Node /\ i \notin ToSet(active)
    BY <1>looked, <1>named DEF IndInv, Expand, Expands, Pending
  <1>2. /\ active' = Append(active, i) /\ deps' = deps \cup {i}
        /\ stack' = Append(Rest, types[i])
        /\ UNCHANGED <<types, dynamic, reg, extra, queries, error, stage>>
    BY <1>looked, <1>named DEF Expand, inputs
  <1>3. /\ n \in Nat /\ n >= 1 /\ Len(active) = n - 1
        /\ \A k \in 1 .. n - 1 : active[k] \in Node
    BY <1>level, <1>1, Levels
  <1>4. /\ x \in Lookup /\ x \in ToSet(Text(n)) /\ i # Missing
        /\ Rest \in Seq(Seq(Lookup)) /\ Len(Rest) = n
        /\ \A k \in 1 .. n : k < n => Rest[k] = stack[k]
        /\ \A l \in ToSet(stack[n]) : l = x \/ l \in ToSet(Rest[n])
        /\ \A k \in 1 .. n : ToSet(Rest[k]) \subseteq ToSet(stack[k])
    BY <1>level, <1>looked, <1>1, NextLookup, MissingIsNoNode
  <1>5. types[i] \in Seq(Lookup) /\ active \in Seq(Node)
    BY <1>1 DEF TypeInv
  <1>6. /\ stack' \in Seq(Seq(Lookup)) /\ Len(stack') = n + 1 /\ stack'[n + 1] = types[i]
        /\ \A k \in 1 .. n : stack'[k] = Rest[k]
    BY <1>2, <1>4, <1>5, AppendOf
  <1>7. /\ active' \in Seq(Node) /\ Len(active') = n /\ active'[n] = i
        /\ \A k \in 1 .. n - 1 : active'[k] = active[k]
    BY <1>1, <1>2, <1>3, <1>5, AppendOf
  <1>8. i \in StaticIn(Text(n))
    BY <1>named, <1>1, <1>4, StaticLookup
  <1>9. i \in Reached(types, own) /\ \A k \in 1 .. n - 1 : i \in Reached(types, types[active[k]])
    BY <1>level, <1>1, <1>3, <1>8, LevelReach
  <1>10. own' = own
    BY <1>2, SameTexts
  <1>12. (\A k \in 1 .. n : Text(k)' = Text(k)) /\ Text(n + 1)' = types[i]
    <2>1. \A k \in 1 .. n : k = 1 \/ k - 1 \in 1 .. n - 1
      BY <1>3
    <2>2. n + 1 # 1 /\ (n + 1) - 1 = n
      BY <1>3
    <2> QED
      BY <1>2, <1>7, <1>10, <2>1, <2>2 DEF Text
  <1>13. \A k \in 1 .. n + 1 : k \in 1 .. n \/ k = n + 1
    BY <1>3
  <1>14. TypeInv'
    BY <1>1, <1>2, <1>6, <1>7 DEF TypeInv
  <1>15. WalkInv'
    <2>1. Len(stack') = Len(active') + 1
      BY <1>6, <1>7
    <2>2. ASSUME NEW k \in 1 .. Len(stack') PROVE ToSet(stack'[k]) \subseteq ToSet(Text(k)')
      <3>1. CASE k \in 1 .. n
        BY <1>level, <1>1, <1>4, <1>6, <1>12, <3>1 DEF WalkInv
      <3>2. CASE k = n + 1
        BY <1>6, <1>12, <3>2
      <3> QED
        BY <1>6, <1>13, <3>1, <3>2
    <2>3. \A k \in 1 .. n : k \in 1 .. n - 1 \/ k = n
      BY <1>3
    <2>4. ASSUME NEW k \in 1 .. n
          PROVE  active'[k] \in StaticIn(Text(k)') /\ active'[k] \in Reached(types, own)
      <3>1. CASE k = n
        BY <1>7, <1>8, <1>9, <1>12, <3>1
      <3>2. CASE k \in 1 .. n - 1
        BY <1>1, <1>3, <1>7, <1>12, <3>2 DEF WalkInv
      <3> QED
        BY <2>3, <3>1, <3>2
    <2>5. ASSUME NEW j \in 1 .. n, NEW k \in 1 .. n, j < k
          PROVE  active'[j] # active'[k] /\ active'[k] \in Reached(types, types[active'[j]])
      <3>1. j \in 1 .. n - 1
        BY <1>3, <2>5
      <3>2. CASE k = n
        <4>1. active[j] # i
          BY <1>1, <1>3, <1>5, <3>1, Holds
        <4> QED
          BY <1>7, <1>9, <3>1, <3>2, <4>1
      <3>3. CASE k \in 1 .. n - 1
        BY <1>1, <1>3, <1>7, <2>5, <3>1, <3>3 DEF WalkInv
      <3> QED
        BY <2>3, <3>2, <3>3
    <2> QED
      BY <1>2, <1>7, <1>10, <2>1, <2>2, <2>4, <2>5 DEF WalkInv
  <1>16. ErrorInv'
    BY <1>1, <1>2, SameTexts DEF ErrorInv
  <1>17. FoundInv'
    <2> SUFFICES ASSUME error = None
                 PROVE  \E D \in SUBSET Node : Expanded(D)' /\ Followed(D)' /\ Needed(D)'
      BY <1>2 DEF FoundInv
    <2>1. PICK D \in SUBSET Node : Expanded(D) /\ Followed(D) /\ Needed(D)
      BY <1>1 DEF IndInv, FoundInv
    <2>2. \A l : Replaced(l) => Replaced(l)'
      BY <1>2 DEF Replaced
    <2>3. Replaced(x)'
      BY <1>named, <1>1, <1>4 DEF Replaced
    <2>4. Expanded(D)'
      BY <1>2, <1>10, <2>1, <2>2 DEF Expanded
    <2>5. Followed(D)'
      <3> SUFFICES ASSUME NEW k \in 1 .. n + 1, NEW l \in ToSet(Text(k)'), l \notin ToSet(stack'[k])
                   PROVE  Replaced(l)' /\ (l.dyn \/ l.node \in D \/ (k <= n /\ l.node = active'[k]))
        BY <1>6, <1>7 DEF Followed
      <3>1. k \in 1 .. n /\ l \in ToSet(Text(k))
        BY <1>6, <1>12, <1>13
      <3>2. CASE l = x /\ k = n
        BY <1>named, <1>3, <1>7, <2>3, <3>2
      <3>3. CASE ~(l = x /\ k = n)
        <4>1. l \notin ToSet(stack[k])
          <5>1. stack'[k] = Rest[k] /\ (k < n \/ k = n)
            BY <1>3, <1>6, <3>1
          <5>2. CASE k < n
            BY <1>4, <3>1, <5>1, <5>2
          <5>3. CASE k = n
            BY <1>4, <3>3, <5>1, <5>3
          <5> QED
            BY <5>1, <5>2, <5>3
        <4>2. Replaced(l) /\ (l.dyn \/ l.node \in D \/ (k <= Len(active) /\ l.node = active[k]))
          BY <1>level, <2>1, <3>1, <4>1 DEF Followed
        <4>3. k <= Len(active) => k \in 1 .. n - 1 /\ k <= n
          BY <1>3, <3>1
        <4> QED
          BY <1>7, <2>2, <4>2, <4>3
      <3> QED
        BY <3>2, <3>3
    <2>6. Needed(D)'
      <3>1. ToSet(active') = ToSet(active) \cup {i}
        <4>1. active \in Seq(Node) /\ i \in Node /\ active' = Append(active, i)
          BY <1>1, <1>2, <1>5
        <4> QED
          BY <4>1, PushedSet
      <3> QED
        BY <1>2, <1>10, <2>1, <3>1 DEF Needed
    <2> QED
      BY <2>4, <2>5, <2>6
  <1> QED
    BY <1>1, <1>2, <1>14, <1>15, <1>16, <1>17 DEF IndInv, AcceptInv

\* A registration has been expanded to the end: what it looks up was too, so it is
\* not among what it reaches.
LEMMA EndExpansionInd == ASSUME IndInv, EndExpansion PROVE IndInv'
  <1>1. /\ TypeInv /\ WalkInv /\ ErrorInv /\ stage = "lookup"
        /\ stack[Len(stack)] = <<>> /\ Len(stack) > 1
        /\ stack' = Front(stack) /\ active' = Front(active)
        /\ UNCHANGED <<types, dynamic, reg, extra, queries, deps, error, stage>>
    BY DEF IndInv, EndExpansion, Last, inputs
  <1>2. PICK m : m = Len(active)
    OBVIOUS
  <1>3. /\ m \in Nat /\ m >= 1 /\ Len(stack) = m + 1
        /\ active \in Seq(Node) /\ stack \in Seq(Seq(Lookup))
    BY <1>1, <1>2, Levels DEF TypeInv
  <1>4. /\ stack' \in Seq(Seq(Lookup)) /\ Len(stack') = m
        /\ \A k \in 1 .. m : stack'[k] = stack[k]
    <2>1. /\ Front(stack) \in Seq(Seq(Lookup)) /\ Len(Front(stack)) = Len(stack) - 1
          /\ \A k \in 1 .. Len(stack) - 1 : Front(stack)[k] = stack[k]
      <3>1. stack \in Seq(Seq(Lookup)) /\ Len(stack) >= 1
        BY <1>3
      <3> QED
        BY <3>1, FrontOf
    <2>2. Len(stack) - 1 = m
      BY <1>3
    <2> QED
      BY <1>1, <2>1, <2>2
  <1>5. /\ active' \in Seq(Node) /\ Len(active') = m - 1
        /\ \A k \in 1 .. m - 1 : active'[k] = active[k]
    BY <1>1, <1>2, <1>3, FrontOf
  <1>6. PICK i \in Node : i = active[m]
    BY <1>2, <1>3
  <1>7. own' = own
    BY <1>1, SameTexts
  <1>8. (\A k \in 1 .. m : Text(k)' = Text(k)) /\ Text(m + 1) = types[i]
    <2>1. \A k \in 1 .. m : k = 1 \/ k - 1 \in 1 .. m - 1
      BY <1>3
    <2>2. m + 1 # 1 /\ (m + 1) - 1 = m
      BY <1>3
    <2> QED
      BY <1>1, <1>5, <1>6, <1>7, <2>1, <2>2 DEF Text
  <1>9. /\ \A k \in 1 .. m : k \in 1 .. m + 1 /\ (k \in 1 .. m - 1 \/ k = m)
        /\ \A k \in 1 .. m - 1 : k \in 1 .. m
        /\ m \in 1 .. m /\ m + 1 \in 1 .. m + 1
    BY <1>3
  <1>10. TypeInv'
    BY <1>1, <1>4, <1>5 DEF TypeInv
  <1>11. WalkInv'
    <2>1. Len(stack') = Len(active') + 1
      BY <1>3, <1>4, <1>5
    <2>2. \A k \in 1 .. m : ToSet(stack'[k]) \subseteq ToSet(Text(k)')
      BY <1>1, <1>3, <1>4, <1>8, <1>9 DEF WalkInv
    <2>3. \A k \in 1 .. m - 1 : active'[k] \in StaticIn(Text(k)') /\ active'[k] \in Reached(types, own)
      BY <1>1, <1>2, <1>5, <1>8, <1>9 DEF WalkInv
    <2>4. \A j, k \in 1 .. m - 1 :
            j < k => active'[j] # active'[k] /\ active'[k] \in Reached(types, types[active'[j]])
      BY <1>1, <1>2, <1>5, <1>9 DEF WalkInv
    <2> QED
      BY <1>1, <1>4, <1>5, <1>7, <2>1, <2>2, <2>3, <2>4 DEF WalkInv
  <1>12. ErrorInv'
    BY <1>1, SameTexts DEF ErrorInv
  <1>13. FoundInv'
    <2> SUFFICES ASSUME error = None
                 PROVE  \E D \in SUBSET Node : Expanded(D)' /\ Followed(D)' /\ Needed(D)'
      BY <1>1 DEF FoundInv
    <2>1. PICK D \in SUBSET Node : Expanded(D) /\ Followed(D) /\ Needed(D)
      BY <1>1 DEF IndInv, FoundInv
    <2>2. PICK E \in SUBSET Node : E = D \cup {i}
      BY <1>6
    <2>3. \A l : Replaced(l)' <=> Replaced(l)
      BY <1>1 DEF Replaced
    <2>4. ASSUME NEW l \in ToSet(types[i]) PROVE Replaced(l) /\ (l.dyn \/ l.node \in D)
      <3>1. ToSet(stack[m + 1]) = {}
        BY <1>1, <1>3 DEF ToSet
      <3>2. ~(m + 1 <= Len(active))
        BY <1>2, <1>3
      <3> QED
        BY <1>3, <1>8, <1>9, <2>1, <3>1, <3>2 DEF Followed
    <2>5. StaticIn(types[i]) \subseteq D
      BY <2>4 DEF StaticIn
    <2>6. i \notin D => i \notin Reached(types, types[i])
      <3>1. \A j \in D : StaticIn(types[j]) \subseteq D
        BY <2>1 DEF Expanded
      <3>2. Reached(types, types[i]) \subseteq D
        BY <2>1, <2>5, <3>1, ReachedWithin
      <3> QED
        BY <3>2
    <2>7. i \in Reached(types, own) /\ i \in deps
      <3>1. i \in ToSet(active)
        BY <1>2, <1>3, <1>6, <1>9, Holds
      <3> QED
        BY <1>1, <1>2, <1>6, <1>9, <2>1, <3>1 DEF WalkInv, Needed
    <2>8. Expanded(E)'
      <3>1. E \subseteq Reached(types, own) /\ E \subseteq deps
        BY <2>1, <2>2, <2>7 DEF Expanded
      <3>2. ASSUME NEW j \in E
            PROVE  /\ StaticIn(types[j]) \subseteq E
                   /\ j \notin Reached(types, types[j])
                   /\ \A l \in ToSet(types[j]) : Replaced(l)
        <4>1. CASE j \in D
          BY <2>1, <2>2, <4>1 DEF Expanded
        <4>2. CASE j = i /\ i \notin D
          BY <2>2, <2>4, <2>5, <2>6, <4>2
        <4> QED
          BY <2>2, <4>1, <4>2
      <3> QED
        BY <1>1, <1>7, <2>3, <3>1, <3>2 DEF Expanded
    <2>9. Followed(E)'
      <3> SUFFICES ASSUME NEW k \in 1 .. m, NEW l \in ToSet(Text(k)), l \notin ToSet(stack[k])
                   PROVE  Replaced(l) /\ (l.dyn \/ l.node \in E \/ (k <= m - 1 /\ l.node = active'[k]))
        BY <1>4, <1>5, <1>8, <2>3 DEF Followed
      <3>1. Replaced(l) /\ (l.dyn \/ l.node \in D \/ (k <= m /\ l.node = active[k]))
        BY <1>2, <1>3, <1>9, <2>1 DEF Followed
      <3>2. CASE k = m
        BY <1>6, <2>2, <3>1, <3>2
      <3>3. CASE k \in 1 .. m - 1
        <4>1. k <= m - 1 /\ active'[k] = active[k]
          BY <1>3, <1>5, <3>3
        <4> QED
          BY <2>2, <3>1, <4>1
      <3> QED
        BY <1>9, <3>2, <3>3
    <2>10. Needed(E)'
      <3>1. ToSet(active') \subseteq ToSet(active)
        <4>1. /\ \A x : x \in ToSet(active') <=> \E k \in 1 .. m - 1 : active'[k] = x
              /\ \A x : x \in ToSet(active) <=> \E k \in 1 .. m : active[k] = x
          BY <1>2, <1>3, <1>5, Holds
        <4> QED
          BY <1>5, <1>9, <4>1
      <3>2. E \cup ToSet(active') = D \cup ToSet(active)
        <4>1. /\ \A x : x \in ToSet(active') <=> \E k \in 1 .. m - 1 : active'[k] = x
              /\ \A x : x \in ToSet(active) <=> \E k \in 1 .. m : active[k] = x
          BY <1>2, <1>3, <1>5, Holds
        <4>2. \A x \in ToSet(active) : x \in ToSet(active') \/ x = i
          BY <1>5, <1>6, <1>9, <4>1
        <4>3. i \in ToSet(active)
          BY <1>6, <1>9, <4>1
        <4> QED
          BY <2>2, <3>1, <4>2, <4>3
      <3>3. \A n \in deps : \/ n \in D \cup ToSet(active)
                            \/ n \in DynIn(own)
                            \/ \E j \in D \cup ToSet(active) : n \in DynIn(types[j])
        BY <2>1 DEF Needed
      <3> QED
        BY <1>1, <1>7, <2>1, <3>1, <3>2, <3>3 DEF Needed
    <2> QED
      BY <2>8, <2>9, <2>10
  <1> QED
    BY <1>1, <1>10, <1>11, <1>12, <1>13 DEF IndInv, AcceptInv

\* With nothing left to expand, what was expanded is what is reached.
LEMMA EndLookupInd == ASSUME IndInv, EndLookup PROVE IndInv'
  <1>1. /\ TypeInv /\ WalkInv /\ ErrorInv /\ stage = "lookup" /\ stack = <<<<>>>>
        /\ stage' = (IF error = None THEN "query" ELSE "err")
        /\ UNCHANGED <<types, dynamic, reg, extra, queries, stack, active, deps, error>>
    BY DEF IndInv, EndLookup, inputs
  <1>2. TypeInv'
    BY <1>1 DEF TypeInv
  <1>3. WalkInv' /\ FoundInv'
    BY <1>1 DEF WalkInv, FoundInv
  <1>4. ErrorInv'
    BY <1>1, SameTexts DEF ErrorInv
  <1>5. ASSUME error = None PROVE CollectsAll' /\ ~Cyclic /\ ~Faulty
    <2>1. PICK D \in SUBSET Node : Expanded(D) /\ Followed(D) /\ Needed(D)
      BY <1>1, <1>5 DEF IndInv, FoundInv
    <2>2. /\ Len(stack) = 1 /\ Len(active) = 0 /\ stack[1] = <<>> /\ ToSet(stack[1]) = {}
          /\ Text(1) = own /\ own \in Seq(Lookup)
      BY <1>1, Levels DEF ToSet, Text
    <2>3. ToSet(active) = {}
      BY <1>1, <2>2, Holds DEF TypeInv
    <2>4. \A l \in ToSet(own) : Replaced(l) /\ (l.dyn \/ l.node \in D)
      BY <2>1, <2>2 DEF Followed
    <2>5. StaticIn(own) \subseteq D
      BY <2>4 DEF StaticIn
    <2>6. D = Reached(types, own)
      <3>1. \A i \in D : StaticIn(types[i]) \subseteq D
        BY <2>1 DEF Expanded
      <3>2. Reached(types, own) \subseteq D
        BY <2>1, <2>5, <3>1, ReachedWithin
      <3> QED
        BY <2>1, <3>2 DEF Expanded
    <2>7. \A t \in Texts : \A l \in ToSet(t) : Replaced(l)
      <3>1. \A t \in Texts : t = own \/ \E i \in D : t = types[i]
        BY <2>6 DEF Texts
      <3>2. \A i \in D : \A l \in ToSet(types[i]) : Replaced(l)
        BY <2>1 DEF Expanded
      <3> QED
        BY <2>4, <3>1, <3>2
    <2>8. ~Faulty
      BY <2>7 DEF Faulty, Replaced
    <2>9. ~Cyclic
      BY <2>1, <2>6 DEF Expanded, Cyclic
    <2>10. deps = Reached(types, own) \cup UNION {DynIn(t) : t \in Texts}
      <3>1. ASSUME NEW n \in deps PROVE n \in D \cup UNION {DynIn(t) : t \in Texts}
        <4>1. n \in D \/ n \in DynIn(own) \/ \E i \in D : n \in DynIn(types[i])
          BY <2>1, <2>3 DEF Needed
        <4>2. own \in Texts /\ \A i \in D : types[i] \in Texts
          BY <2>6 DEF Texts
        <4> QED
          BY <4>1, <4>2
      <3>2. ASSUME NEW t \in Texts, NEW n \in DynIn(t) PROVE n \in deps
        <4>1. PICK l \in ToSet(t) : l.dyn /\ l.node = n
          BY DEF DynIn
        <4> QED
          BY <2>7, <4>1 DEF Replaced
      <3>3. D \subseteq deps
        BY <2>1 DEF Expanded
      <3> QED
        BY <2>6, <3>1, <3>2, <3>3
    <2>11. own' = own /\ Texts' = Texts
      BY <1>1, SameTexts
    <2>12. CollectsAll'
      BY <1>1, <2>10, <2>11 DEF CollectsAll
    <2> QED
      BY <2>8, <2>9, <2>12
  <1>6. AcceptInv'
    <2>1. (Cyclic' <=> Cyclic) /\ (Faulty' <=> Faulty)
      BY <1>1, SameTexts
    <2>2. stage' = "query" => error = None
      BY <1>1
    <2> QED
      BY <1>5, <2>1, <2>2 DEF AcceptInv
  <1> QED
    BY <1>2, <1>3, <1>4, <1>6 DEF IndInv

\* A query of something unregistered is the other reason to reject.
LEMMA QueriesInd == ASSUME IndInv, VisitQueries PROVE IndInv'
  <1>1. /\ TypeInv /\ ErrorInv /\ stage = "query" /\ error = None
        /\ deps' = deps \cup (queries \ {Missing})
        /\ UNCHANGED <<types, dynamic, extra, queries, stack, active>>
    BY DEF IndInv, VisitQueries, inputs, ErrorInv
  <1>2. deps' \in SUBSET Node /\ reg \in Node /\ reg + 1 \in 0 .. N /\ reg \in 0 .. N
    BY <1>1 DEF TypeInv, Missing, Node
  <1>3. CASE Missing \in queries
    <2>1. error' = <<"unregistered">> /\ stage' = "err" /\ reg' = reg
      BY <1>3 DEF VisitQueries
    <2>2. TypeInv'
      BY <1>1, <1>2, <2>1 DEF TypeInv
    <2>3. ErrorInv'
      BY <1>1, <1>3, <2>1, Reasons DEF ErrorInv, Missing
    <2> QED
      BY <2>1, <2>2, <2>3 DEF IndInv, WalkInv, FoundInv, AcceptInv
  <1>4. CASE Missing \notin queries
    <2>1. error' = None /\ stage' = "begin" /\ reg' = reg + 1
      BY <1>1, <1>4 DEF VisitQueries
    <2>2. TypeInv'
      BY <1>1, <1>2, <2>1 DEF TypeInv
    <2>3. ErrorInv'
      BY <2>1 DEF ErrorInv
    <2> QED
      BY <2>1, <2>2, <2>3 DEF IndInv, WalkInv, FoundInv, AcceptInv
  <1> QED
    BY <1>3, <1>4

\* The analysis ends without an error.
LEMMA EndAnalysisInd == ASSUME IndInv, EndAnalysis PROVE IndInv'
  <1>1. /\ TypeInv /\ ErrorInv /\ stage = "begin" /\ stage' = "ok" /\ error = None
        /\ UNCHANGED <<types, dynamic, reg, extra, queries, stack, active, deps, error>>
    BY DEF IndInv, EndAnalysis, inputs, ErrorInv
  <1>2. TypeInv'
    BY <1>1 DEF TypeInv
  <1> QED
    BY <1>1, <1>2 DEF IndInv, WalkInv, ErrorInv, FoundInv, AcceptInv

\* A step that changes nothing.
LEMMA StutterInd == ASSUME IndInv, UNCHANGED vars PROVE IndInv'
  <1>1. UNCHANGED <<types, dynamic, reg, extra, queries, stack, active, deps, error, stage>>
    BY DEF vars
  <1>2. /\ own' = own /\ Texts' = Texts /\ (Cyclic' <=> Cyclic) /\ (Faulty' <=> Faulty)
        /\ (\A k : Text(k)' = Text(k)) /\ \A l : Replaced(l)' <=> Replaced(l)
    BY <1>1, SameTexts DEF Text, Replaced
  <1>3. TypeInv' /\ WalkInv'
    BY <1>1, <1>2 DEF IndInv, TypeInv, WalkInv
  <1>4. ErrorInv' /\ AcceptInv'
    BY <1>1, <1>2 DEF IndInv, ErrorInv, AcceptInv, CollectsAll
  <1>5. \A D : (Expanded(D) => Expanded(D)') /\ (Followed(D) => Followed(D)') /\ (Needed(D) => Needed(D)')
    BY <1>1, <1>2 DEF Expanded, Followed, Needed
  <1>6. FoundInv'
    BY <1>1, <1>5 DEF IndInv, FoundInv
  <1> QED
    BY <1>3, <1>4, <1>6 DEF IndInv

\* The invariant holds throughout the analysis.
THEOREM Inductive == Spec => []IndInv
  <1>1. IndInv /\ [Next]_vars => IndInv'
    BY BeginInd, RejectInd, ReplaceDynInd, CycleInd, ExpandInd, EndExpansionInd, EndLookupInd,
       QueriesInd, EndAnalysisInd, StutterInd DEF Next, Work
  <1> QED
    BY <1>1, InitInd, PTL DEF Spec

\* For an accepted registration, TypeLookup collects exactly the registrations that
\* its expanded type needs and the trait objects it names, whatever the types.
THEOREM FindsDependencies == Spec => []CollectsAll
  <1>1. IndInv => CollectsAll
    BY DEF IndInv, AcceptInv, CollectsAll
  <1> QED
    BY <1>1, Inductive, PTL

\* A registration is rejected exactly when its expansion meets a lookup that cannot
\* be replaced or never ends, and "cyclic type lookup" names an actual cycle, the
\* repeated suffix of the active path only.
THEOREM RejectsOnlyFaulty == Spec => []RejectsExactly
  <1>1. ASSUME IndInv, stage \in {"query", "err"}
        PROVE  error # None <=> Cyclic \/ Faulty \/ (stage = "err" /\ Missing \in queries)
    BY <1>1 DEF IndInv, ErrorInv, AcceptInv
  <1>2. ASSUME IndInv, error[1] = "cycle" PROVE \E path \in Seq(Node) : Tail(error) = path /\ IsCycle(types, path)
    <2>1. error \notin {None, <<"unregistered">>, <<"not dyn">>}
      BY <1>2, Reasons
    <2>2. PICK path \in Seq(Node) : IsCycle(types, path) /\ error = <<"cycle">> \o path
      BY <1>2, <2>1 DEF IndInv, ErrorInv
    <2> QED
      BY <2>2, CycleError
  <1>3. IndInv => RejectsExactly
    BY <1>1, <1>2 DEF RejectsExactly, IsCycle, Last
  <1> QED
    BY <1>3, Inductive, PTL
===============================================================================
