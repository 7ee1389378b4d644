--------------------------- MODULE HierarchyProofs ---------------------------
(* The tree of Questions, for any number of Questions, agents, drafts in a    *)
(* batch and limits: it stays a tree, batches respect its limits, and the     *)
(* Answer handed out waits for those above it.                                *)
EXTENDS QuestionHierarchy, RecursionLemmas, FiniteSetTheorems

N == Cardinality(Questions)
Parents == [Questions -> Questions \cup {NoParent}]

LEMMA Finite == N \in Nat /\ IsFiniteSet(Questions) /\ NoParent \notin Questions
BY HierarchyAssumption, FS_CardinalityType DEF N

-----------------------------------------------------------------------------
(* AncestorsIn climbs N levels; that is enough to reach every ancestor.      *)

OneUp(up, A) == {up[p] : p \in A} \ {NoParent}
Closed(up, A) == \A p \in A : up[p] \in A \cup {NoParent}
Climb(up, q, climb) ==
  Iteration(climb, N, SUBSET Questions, OneUp(up, {q}),
            [ib \in (1..N) \X SUBSET Questions |-> ib[2] \cup OneUp(up, ib[2])])

LEMMA AncestorsClimb ==
  ASSUME NEW up \in Parents, NEW q \in Questions
  PROVE  \E climb : Climb(up, q, climb) /\ AncestorsIn(up, q) = climb[N]
<1> DEFINE step == [ib \in (1..N) \X SUBSET Questions |-> ib[2] \cup OneUp(up, ib[2])]
           Eq(h) == h = [n \in 0..N |-> IF n = 0 THEN {up[q]} \ {NoParent}
                           ELSE h[n - 1] \cup ({up[p] : p \in h[n - 1]} \ {NoParent})]
           c == CHOOSE h : Eq(h)
<1>1. OneUp(up, {q}) \in SUBSET Questions /\ OneUp(up, {q}) = {up[q]} \ {NoParent}
  BY DEF OneUp, Parents
<1>2. \A A \in SUBSET Questions : OneUp(up, A) \in SUBSET Questions
  BY DEF OneUp, Parents
<1>3. step \in [(1..N) \X SUBSET Questions -> SUBSET Questions]
  BY <1>2
<1>4. PICK g : Iteration(g, N, SUBSET Questions, OneUp(up, {q}), step)
  <2> HIDE DEF step
  <2>1. QED
    BY <1>1, <1>3, Finite, Iterates
<1>5. \A n \in 1..N : g[n] = g[n - 1] \cup OneUp(up, g[n - 1])
  <2> TAKE n \in 1..N
  <2>1. n - 1 \in 0..N
    BY Finite
  <2>2. g[n - 1] \in SUBSET Questions /\ g[n] = step[<<n, g[n - 1]>>]
    BY <1>4, <2>1 DEF Iteration
  <2>3. QED
    BY <2>2
<1>6. Eq(g)
  <2> DEFINE r == [n \in 0..N |-> IF n = 0 THEN {up[q]} \ {NoParent}
                     ELSE g[n - 1] \cup ({up[p] : p \in g[n - 1]} \ {NoParent})]
  <2>1. \A n \in 0..N : n # 0 => n \in 1..N
    BY Finite
  <2>2. \A n \in 0..N : r[n] = g[n]
    BY <1>1, <1>4, <1>5, <2>1 DEF Iteration, OneUp
  <2>3. g = [n \in 0..N |-> g[n]]
    BY <1>4 DEF Iteration
  <2>4. r = [n \in 0..N |-> r[n]]
    OBVIOUS
  <2> HIDE DEF r
  <2>5. g = r
    BY <2>2, <2>3, <2>4
  <2>6. QED
    BY <2>5 DEF r
<1>7. Eq(c)
  <2> HIDE DEF Eq
  <2>1. QED
    BY <1>6
<1>8. \A n \in 0..N : c[n] = g[n]
  <2> DEFINE T == {n \in 0..N : c[n] = g[n]}
  <2>1. 0 \in T
    <3>1. 0 \in 0..N
      BY Finite
    <3>2. QED
      BY <1>6, <1>7, <3>1
  <2>2. ASSUME NEW n \in 1..N, n - 1 \in T PROVE n \in T
    <3>1. n \in 0..N /\ n # 0
      BY Finite
    <3>2. c[n - 1] = g[n - 1]
      BY <2>2
    <3> HIDE DEF c
    <3>3. c[n] = c[n - 1] \cup ({up[p] : p \in c[n - 1]} \ {NoParent})
      BY <1>7, <3>1
    <3>4. g[n] = g[n - 1] \cup ({up[p] : p \in g[n - 1]} \ {NoParent})
      BY <1>6, <3>1
    <3>5. QED
      BY <3>1, <3>2, <3>3, <3>4
  <2> HIDE DEF T, c
  <2>3. \A n \in 0..N : n \in T
    BY <2>1, <2>2, Finite, StepByStep
  <2>4. QED
    BY <2>3 DEF T
<1>9. AncestorsIn(up, q) = c[N]
  BY DEF AncestorsIn, N
<1>10. AncestorsIn(up, q) = g[N]
  <2> HIDE DEF c
  <2>1. N \in 0..N
    BY Finite
  <2>2. QED
    BY <1>8, <1>9, <2>1
<1>11. QED
  BY <1>4, <1>10 DEF Climb

\* What there is to know of a climb.
LEMMA ClimbGrows ==
  ASSUME NEW up \in Parents, NEW q \in Questions, NEW climb, Climb(up, q, climb)
  PROVE  /\ climb[0] = {up[q]} \ {NoParent}
         /\ \A n \in 0..N : climb[n] \in SUBSET Questions
         /\ \A n \in 1..N : climb[n] = climb[n - 1] \cup OneUp(up, climb[n - 1])
<1>1. climb[0] = {up[q]} \ {NoParent}
  BY DEF Climb, Iteration, OneUp
<1>2. \A n \in 0..N : climb[n] \in SUBSET Questions
  BY DEF Climb, Iteration
<1>3. ASSUME NEW n \in 1..N PROVE climb[n] = climb[n - 1] \cup OneUp(up, climb[n - 1])
  <2>1. n - 1 \in 0..N
    BY Finite
  <2>2. climb[n - 1] \in SUBSET Questions
    BY <1>2, <2>1
  <2>3. QED
    BY <2>2 DEF Climb, Iteration
<1>4. QED
  BY <1>1, <1>2, <1>3

\* A climb that has not come to an end has found another ancestor on each level.
LEMMA ClimbEnds ==
  ASSUME NEW up \in Parents, NEW q \in Questions, NEW climb, Climb(up, q, climb)
  PROVE  OneUp(up, climb[N]) \subseteq climb[N]
<1> DEFINE Over(n) == OneUp(up, climb[n]) \subseteq climb[n]
           T == {n \in 0..N : Over(n) \/ n < Cardinality(climb[n])}
<1>1. \A n \in 0..N : IsFiniteSet(climb[n]) /\ Cardinality(climb[n]) \in Nat
  BY ClimbGrows, Finite, FS_Subset, FS_CardinalityType
<1>2. 0 \in T
  <2>1. climb[0] = {up[q]} \ {NoParent} /\ 0 \in 0..N
    BY ClimbGrows, Finite
  <2>2. CASE up[q] = NoParent
    BY <2>1, <2>2 DEF OneUp
  <2>3. CASE up[q] # NoParent
    <3>1. climb[0] = {up[q]}
      BY <2>1, <2>3
    <3>2. Cardinality(climb[0]) = 1
      BY <3>1, FS_Singleton
    <3>3. QED
      BY <2>1, <3>2
  <2>4. QED
    BY <2>2, <2>3
<1>3. ASSUME NEW n \in 1..N, n - 1 \in T PROVE n \in T
  <2>1. /\ n \in 0..N /\ n - 1 \in 0..N /\ n \in Nat
        /\ climb[n] = climb[n - 1] \cup OneUp(up, climb[n - 1])
    BY ClimbGrows, Finite
  <2>2. CASE Over(n - 1)
    <3>1. climb[n] = climb[n - 1]
      BY <2>1, <2>2
    <3>2. QED
      BY <2>1, <2>2, <3>1
  <2>3. CASE ~Over(n - 1)
    <3>1. climb[n - 1] \subseteq climb[n] /\ climb[n - 1] # climb[n]
      BY <2>1, <2>3
    <3>2. Cardinality(climb[n - 1]) < Cardinality(climb[n])
      <4>1. IsFiniteSet(climb[n]) /\ climb[n - 1] \in SUBSET climb[n]
        BY <1>1, <2>1, <3>1
      <4>2. /\ Cardinality(climb[n - 1]) <= Cardinality(climb[n])
            /\ Cardinality(climb[n]) # Cardinality(climb[n - 1])
        BY <3>1, <4>1, FS_Subset
      <4>3. QED
        BY <1>1, <2>1, <4>2
    <3>3. n - 1 < Cardinality(climb[n - 1])
      BY <1>3, <2>3
    <3>4. n < Cardinality(climb[n])
      BY <1>1, <2>1, <3>2, <3>3
    <3>5. QED
      BY <2>1, <3>4
  <2>4. QED
    BY <2>2, <2>3
<1>4. N \in T
  <2> HIDE DEF T
  <2>1. N \in 0..N
    BY Finite
  <2>2. QED
    BY <1>2, <1>3, <2>1, Finite, StepByStep
<1>5. Cardinality(climb[N]) <= N
  <2>1. N \in 0..N
    BY Finite
  <2>2. climb[N] \in SUBSET Questions
    BY <2>1, ClimbGrows
  <2>3. QED
    BY <2>2, Finite, FS_Subset DEF N
<1>6. QED
  BY <1>1, <1>4, <1>5, Finite

\* The ancestors are the least set that holds the parent of q and the parent of
\* each of its members.
LEMMA Ancestors ==
  ASSUME NEW up \in Parents, NEW q \in Questions
  PROVE  /\ AncestorsIn(up, q) \in SUBSET Questions
         /\ up[q] \in AncestorsIn(up, q) \cup {NoParent}
         /\ Closed(up, AncestorsIn(up, q))
         /\ \A S \in SUBSET Questions :
              Closed(up, S) /\ up[q] \in S \cup {NoParent} => AncestorsIn(up, q) \subseteq S
<1>1. PICK climb : Climb(up, q, climb) /\ AncestorsIn(up, q) = climb[N]
  BY AncestorsClimb
<1>2. /\ climb[0] = {up[q]} \ {NoParent}
      /\ \A n \in 0..N : climb[n] \in SUBSET Questions
      /\ \A n \in 1..N : climb[n] = climb[n - 1] \cup OneUp(up, climb[n - 1])
  BY <1>1, ClimbGrows
<1>3. N \in 0..N /\ 0 \in 0..N
  BY Finite
<1>4. Closed(up, climb[N])
  <2>1. OneUp(up, climb[N]) \subseteq climb[N]
    BY <1>1, ClimbEnds
  <2>2. QED
    BY <2>1 DEF OneUp, Closed
<1>5. climb[0] \subseteq climb[N]
  <2> DEFINE T == {n \in 0..N : climb[0] \subseteq climb[n]}
  <2>1. 0 \in T
    BY <1>3
  <2>2. ASSUME NEW n \in 1..N, n - 1 \in T PROVE n \in T
    BY <1>2, <2>2, Finite
  <2> HIDE DEF T
  <2>3. N \in T
    BY <1>3, <2>1, <2>2, Finite, StepByStep
  <2>4. QED
    BY <2>3 DEF T
<1>6. ASSUME NEW S \in SUBSET Questions, Closed(up, S), up[q] \in S \cup {NoParent}
      PROVE  climb[N] \subseteq S
  <2> DEFINE T == {n \in 0..N : climb[n] \subseteq S}
  <2>1. 0 \in T
    BY <1>2, <1>3, <1>6
  <2>2. ASSUME NEW n \in 1..N, n - 1 \in T PROVE n \in T
    <3>1. climb[n - 1] \subseteq S /\ n \in 0..N
      BY <2>2, Finite
    <3>2. OneUp(up, climb[n - 1]) \subseteq S
      BY <1>6, <3>1 DEF OneUp, Closed
    <3>3. QED
      BY <1>2, <3>1, <3>2
  <2> HIDE DEF T
  <2>3. N \in T
    BY <1>3, <2>1, <2>2, Finite, StepByStep
  <2>4. QED
    BY <2>3 DEF T
<1>7. QED
  BY <1>1, <1>2, <1>3, <1>4, <1>5, <1>6

-----------------------------------------------------------------------------
(* What a new parent does to a tree.                                         *)

Moved(up, q, p) == [up EXCEPT ![q] = p]
Upwards(up, p) == IF p = NoParent THEN {} ELSE AncestorsIn(up, p) \cup {p}
Acyclic(up) == \A q \in Questions : q \notin AncestorsIn(up, q)

LEMMA NoAncestors ==
  ASSUME NEW up \in Parents, NEW q \in Questions, up[q] = NoParent
  PROVE  AncestorsIn(up, q) = {}
<1>1. {} \in SUBSET Questions /\ Closed(up, {}) /\ up[q] \in {} \cup {NoParent}
  BY DEF Closed
<1>2. AncestorsIn(up, q) \subseteq {}
  BY <1>1, Ancestors
<1>3. QED
  BY <1>2

\* The ancestors of an ancestor are ancestors.
LEMMA AncestorsNest ==
  ASSUME NEW up \in Parents, NEW q \in Questions, NEW p \in AncestorsIn(up, q)
  PROVE  AncestorsIn(up, p) \subseteq AncestorsIn(up, q)
<1>1. p \in Questions /\ up[p] \in AncestorsIn(up, q) \cup {NoParent}
  BY Ancestors DEF Closed
<1>2. QED
  BY <1>1, Ancestors

\* A Question that is not above its new parent p, and is not p, gets p and what
\* is above p; the others that are not below it keep what they have.
LEMMA Attached ==
  ASSUME NEW up \in Parents, Acyclic(up), NEW q \in Questions, NEW p \in Questions \cup {NoParent},
         p # q, p # NoParent => q \notin AncestorsIn(up, p)
  PROVE  /\ Moved(up, q, p) \in Parents /\ Acyclic(Moved(up, q, p))
         /\ AncestorsIn(Moved(up, q, p), q) = Upwards(up, p)
         /\ \A x \in Questions : x # q /\ q \notin AncestorsIn(up, x) =>
              AncestorsIn(Moved(up, q, p), x) = AncestorsIn(up, x)
<1> DEFINE new == Moved(up, q, p)
           above == Upwards(up, p)
<1>1. /\ new \in Parents /\ new[q] = p
      /\ \A x \in Questions : x # q => new[x] = up[x]
      /\ \A x \in Questions : up[x] \in Questions \cup {NoParent}
  BY DEF Parents, Moved
<1> HIDE DEF new
<1>2. /\ above \in SUBSET Questions /\ q \notin above /\ Closed(up, above)
      /\ p \in above \cup {NoParent}
  BY Ancestors DEF Closed, Upwards
<1> HIDE DEF above
<1>3. Closed(new, above)
  BY <1>1, <1>2 DEF Closed
<1>4. AncestorsIn(new, q) \subseteq above
  BY <1>1, <1>2, <1>3, Ancestors
<1>5. above \subseteq AncestorsIn(new, q)
  <2> DEFINE A == AncestorsIn(new, q)
  <2>1. A \in SUBSET Questions /\ p \in A \cup {NoParent} /\ Closed(new, A) /\ q \notin A
    BY <1>1, <1>2, <1>4, Ancestors
  <2> HIDE DEF A
  <2>2. Closed(up, A)
    BY <1>1, <2>1 DEF Closed
  <2>3. CASE p = NoParent
    BY <2>3 DEF above, Upwards
  <2>4. CASE p # NoParent
    <3>1. p \in Questions /\ p \in A
      BY <2>1, <2>4
    <3>2. up[p] \in A \cup {NoParent}
      BY <2>2, <3>1 DEF Closed
    <3>3. AncestorsIn(up, p) \subseteq A
      BY <2>1, <2>2, <3>1, <3>2, Ancestors
    <3>4. QED
      BY <3>1, <3>3 DEF above, A, Upwards
  <2>5. QED
    BY <2>3, <2>4
<1>6. ASSUME NEW x \in Questions, x # q, q \notin AncestorsIn(up, x)
      PROVE  AncestorsIn(new, x) = AncestorsIn(up, x)
  <2> DEFINE A == AncestorsIn(up, x)
             B == AncestorsIn(new, x)
  <2>1. A \in SUBSET Questions /\ up[x] \in A \cup {NoParent} /\ Closed(up, A) /\ q \notin A
    BY <1>6, Ancestors
  <2>2. B \in SUBSET Questions /\ new[x] \in B \cup {NoParent} /\ Closed(new, B)
    BY <1>1, Ancestors
  <2> HIDE DEF A, B
  <2>3. Closed(new, A) /\ new[x] \in A \cup {NoParent}
    BY <1>1, <1>6, <2>1 DEF Closed
  <2>4. B \subseteq A
    BY <1>1, <2>1, <2>3, Ancestors DEF B
  <2>5. Closed(up, B) /\ up[x] \in B \cup {NoParent}
    BY <1>1, <1>6, <2>1, <2>2, <2>4 DEF Closed
  <2>6. A \subseteq B
    BY <2>2, <2>5, Ancestors DEF A
  <2>7. QED
    BY <2>4, <2>6 DEF A, B
<1>7. Acyclic(new)
  <2> SUFFICES ASSUME NEW x \in Questions PROVE x \notin AncestorsIn(new, x)
    BY DEF Acyclic
  <2>1. CASE x = q
    BY <1>2, <1>4, <2>1
  <2>2. CASE x # q /\ q \notin AncestorsIn(up, x)
    BY <1>6, <2>2 DEF Acyclic
  <2>3. CASE x # q /\ q \in AncestorsIn(up, x)
    <3> DEFINE A == AncestorsIn(up, x)
               S == A \cup above
    <3>1. A \in SUBSET Questions /\ up[x] \in A \cup {NoParent} /\ Closed(up, A) /\ x \notin A
      BY Ancestors DEF Acyclic
    <3>2. x \notin above
      <4>1. SUFFICES ASSUME x \in above PROVE FALSE
        OBVIOUS
      <4>2. p # NoParent /\ p \in Questions
        BY <4>1 DEF above, Upwards
      <4>3. x = p \/ x \in AncestorsIn(up, p)
        BY <4>1, <4>2 DEF above, Upwards
      <4>4. AncestorsIn(up, x) \subseteq AncestorsIn(up, p)
        BY <4>2, <4>3, AncestorsNest
      <4>5. QED
        BY <2>3, <4>2, <4>4
    <3> HIDE DEF A
    <3>3. S \in SUBSET Questions /\ Closed(new, S) /\ new[x] \in S \cup {NoParent}
      BY <1>1, <1>2, <1>3, <2>3, <3>1 DEF Closed
    <3> HIDE DEF S
    <3>4. AncestorsIn(new, x) \subseteq S
      BY <1>1, <3>3, Ancestors
    <3>5. QED
      BY <3>1, <3>2, <3>4 DEF S
  <2>4. QED
    BY <2>1, <2>2, <2>3
<1>8. QED
  BY <1>1, <1>4, <1>5, <1>6, <1>7 DEF new, above

\* The tree that `up` makes of the Questions in `known`.
TreeOk(up, known) ==
  /\ up \in Parents /\ known \in SUBSET Questions /\ Acyclic(up)
  /\ \A q \in Questions : /\ up[q] \in known \cup {NoParent}
                          /\ q \notin known => up[q] = NoParent

LEMMA AncestorsKnown ==
  ASSUME NEW up, NEW known, TreeOk(up, known), NEW q \in Questions
  PROVE  AncestorsIn(up, q) \subseteq known
<1>1. Closed(up, known) /\ up[q] \in known \cup {NoParent}
  BY DEF TreeOk, Closed
<1>2. QED
  BY <1>1, Ancestors DEF TreeOk

\* q has become a leaf below p.
LeafBelow(up, q, p) ==
  /\ AncestorsIn(Moved(up, q, p), q) = Upwards(up, p)
  /\ \A x \in Questions : x # q => AncestorsIn(Moved(up, q, p), x) = AncestorsIn(up, x)

\* A new Question below one that is known: it is a leaf, and nothing else moves.
LEMMA Joined ==
  ASSUME NEW up, NEW known, TreeOk(up, known), NEW q \in Questions, q \notin known,
         NEW p, p \in known \/ p = NoParent
  PROVE  TreeOk(Moved(up, q, p), known \cup {q}) /\ LeafBelow(up, q, p)
<1> DEFINE new == Moved(up, q, p)
<1>1. \A x \in Questions : q \notin AncestorsIn(up, x)
  BY AncestorsKnown
<1>2. /\ up \in Parents /\ Acyclic(up) /\ known \in SUBSET Questions
      /\ p \in Questions \cup {NoParent} /\ p # q
      /\ p # NoParent => q \notin AncestorsIn(up, p)
  BY <1>1, Finite DEF TreeOk
<1>3. /\ new \in Parents /\ Acyclic(new)
      /\ AncestorsIn(new, q) = Upwards(up, p)
      /\ \A x \in Questions : x # q => AncestorsIn(new, x) = AncestorsIn(up, x)
  BY <1>1, <1>2, Attached
<1>4. new[q] = p /\ \A x \in Questions : x # q => new[x] = up[x]
  BY <1>2 DEF Parents, Moved
<1>5. TreeOk(new, known \cup {q})
  <2> DEFINE more == known \cup {q}
  <2>1. \A x \in Questions : /\ new[x] \in more \cup {NoParent}
                             /\ x \notin more => new[x] = NoParent
    BY <1>2, <1>4 DEF TreeOk
  <2>2. more \in SUBSET Questions
    BY <1>2
  <2> HIDE DEF more
  <2>3. TreeOk(new, more)
    BY <1>3, <2>1, <2>2 DEF TreeOk
  <2>4. QED
    BY <2>3 DEF more
<1>6. QED
  BY <1>3, <1>5 DEF LeafBelow

\* The limits of a hierarchy.
ChildrenOk(up) == \A q \in Questions : Cardinality(ChildrenIn(up, q)) <= MaxChildren
LevelsOk(up) == \A q \in Questions : LevelIn(up, q) <= MaxDepth

LEMMA Sizes ==
  ASSUME NEW up \in Parents, NEW x \in Questions
  PROVE  /\ IsFiniteSet(ChildrenIn(up, x)) /\ Cardinality(ChildrenIn(up, x)) \in Nat
         /\ IsFiniteSet(AncestorsIn(up, x)) /\ Cardinality(AncestorsIn(up, x)) \in Nat
         /\ MaxDepth \in Nat /\ MaxDepth >= 1 /\ MaxChildren \in Nat
<1>1. ChildrenIn(up, x) \in SUBSET Questions /\ AncestorsIn(up, x) \in SUBSET Questions
  BY Ancestors DEF ChildrenIn
<1>2. QED
  BY <1>1, Finite, FS_Subset, FS_CardinalityType, HierarchyAssumption

\* One more member makes a finite set at most one larger.
LEMMA OneMore ==
  ASSUME NEW S, IsFiniteSet(S), NEW x
  PROVE  /\ IsFiniteSet(S \cup {x})
         /\ Cardinality(S) \in Nat /\ Cardinality(S \cup {x}) \in Nat
         /\ Cardinality(S \cup {x}) <= Cardinality(S) + 1
<1>1. /\ IsFiniteSet(S \cup {x})
      /\ Cardinality(S \cup {x}) = IF x \in S THEN Cardinality(S) ELSE Cardinality(S) + 1
  BY FS_AddElement
<1>2. Cardinality(S) \in Nat
  BY FS_CardinalityType
<1>3. CASE x \in S
  BY <1>1, <1>2, <1>3
<1>4. CASE x \notin S
  BY <1>1, <1>2, <1>4
<1>5. QED
  BY <1>3, <1>4

\* Below a parent that validateHierarchy allows no Question has too many children.
LEMMA ChildrenWithin ==
  ASSUME NEW up \in Parents, NEW known, NEW q \in Questions, NEW p \in Questions \cup {NoParent},
         HierarchyAllows(up, known, p), ChildrenOk(up)
  PROVE  ChildrenOk(Moved(up, q, p))
<1> DEFINE new == Moved(up, q, p)
<1>1. new[q] = p /\ \A x \in Questions : x # q => new[x] = up[x]
  BY DEF Parents, Moved
<1> HIDE DEF new
<1> SUFFICES ASSUME NEW x \in Questions PROVE Cardinality(ChildrenIn(new, x)) <= MaxChildren
  BY DEF ChildrenOk, new
<1> DEFINE S == ChildrenIn(up, x)
<1>2. IsFiniteSet(S) /\ Cardinality(S) \in Nat /\ Cardinality(S) <= MaxChildren /\ MaxChildren \in Nat
  BY Sizes DEF ChildrenOk
<1>3. CASE x = p
  <2>1. ChildrenIn(new, x) \subseteq S \cup {q}
    BY <1>1 DEF ChildrenIn
  <2>2. Cardinality(S) < MaxChildren
    BY <1>3, Finite DEF HierarchyAllows
  <2> HIDE DEF S
  <2>3. IsFiniteSet(S \cup {q}) /\ Cardinality(S \cup {q}) \in Nat /\ Cardinality(S \cup {q}) <= Cardinality(S) + 1
    BY <1>2, OneMore
  <2>4. Cardinality(ChildrenIn(new, x)) \in Nat /\ Cardinality(ChildrenIn(new, x)) <= Cardinality(S \cup {q})
    BY <2>1, <2>3, FS_Subset, FS_CardinalityType
  <2>5. QED
    BY <1>2, <2>2, <2>3, <2>4
<1>4. CASE x # p
  <2>1. ChildrenIn(new, x) \subseteq S
    BY <1>1, <1>4 DEF ChildrenIn
  <2> HIDE DEF S
  <2>2. Cardinality(ChildrenIn(new, x)) \in Nat /\ Cardinality(ChildrenIn(new, x)) <= Cardinality(S)
    BY <1>2, <2>1, FS_Subset, FS_CardinalityType
  <2>3. QED
    BY <1>2, <2>2
<1>5. QED
  BY <1>3, <1>4

\* A leaf below such a parent is not too deep.
LEMMA LevelsWithin ==
  ASSUME NEW up \in Parents, NEW known, NEW q \in Questions, NEW p \in Questions \cup {NoParent},
         LeafBelow(up, q, p), HierarchyAllows(up, known, p), LevelsOk(up)
  PROVE  LevelsOk(Moved(up, q, p))
<1> DEFINE new == Moved(up, q, p)
<1>1. /\ AncestorsIn(new, q) = Upwards(up, p)
      /\ \A x \in Questions : x # q => AncestorsIn(new, x) = AncestorsIn(up, x)
  BY DEF LeafBelow
<1> HIDE DEF new
<1> SUFFICES ASSUME NEW x \in Questions PROVE LevelIn(new, x) <= MaxDepth
  BY DEF LevelsOk, new
<1>2. CASE x # q
  BY <1>1, <1>2 DEF LevelIn, LevelsOk
<1>3. CASE x = q /\ p = NoParent
  <2>1. Cardinality(AncestorsIn(new, x)) = 0
    BY <1>1, <1>3, FS_EmptySet DEF Upwards
  <2>2. QED
    BY <2>1, Sizes DEF LevelIn
<1>4. CASE x = q /\ p # NoParent
  <2> DEFINE A == AncestorsIn(up, p)
  <2>1. IsFiniteSet(A) /\ Cardinality(A) \in Nat /\ AncestorsIn(new, x) = A \cup {p} /\ 1 + Cardinality(A) + 1 <= MaxDepth
    BY <1>1, <1>4, Sizes DEF Upwards, HierarchyAllows, LevelIn
  <2> HIDE DEF A
  <2>2. Cardinality(A \cup {p}) \in Nat /\ Cardinality(A \cup {p}) <= Cardinality(A) + 1
    BY <2>1, OneMore
  <2>3. MaxDepth \in Nat
    BY HierarchyAssumption
  <2>4. QED
    BY <2>1, <2>2, <2>3 DEF LevelIn
<1>5. QED
  BY <1>2, <1>3, <1>4

\* Whatever moves to the top level takes what is below it up with it.
LEMMA LevelsShrink ==
  ASSUME NEW up \in Parents, NEW q \in Questions, LevelsOk(up)
  PROVE  LevelsOk(Moved(up, q, NoParent))
<1> DEFINE new == Moved(up, q, NoParent)
<1>1. new \in Parents /\ \A x \in Questions : new[x] \in {up[x], NoParent}
  BY DEF Parents, Moved
<1> HIDE DEF new
<1> SUFFICES ASSUME NEW x \in Questions PROVE LevelIn(new, x) <= MaxDepth
  BY DEF LevelsOk, new
<1> DEFINE A == AncestorsIn(up, x)
<1>2. A \in SUBSET Questions /\ Closed(up, A) /\ up[x] \in A \cup {NoParent} /\ IsFiniteSet(A) /\ Cardinality(A) \in Nat
      /\ 1 + Cardinality(A) <= MaxDepth /\ MaxDepth \in Nat
  BY Ancestors, Sizes DEF LevelsOk, LevelIn
<1> HIDE DEF A
<1>3. Closed(new, A) /\ new[x] \in A \cup {NoParent}
  BY <1>1, <1>2 DEF Closed
<1>4. AncestorsIn(new, x) \subseteq A
  BY <1>1, <1>2, <1>3, Ancestors
<1>5. Cardinality(AncestorsIn(new, x)) \in Nat /\ Cardinality(AncestorsIn(new, x)) <= Cardinality(A)
  BY <1>2, <1>4, FS_Subset, FS_CardinalityType
<1>6. QED
  BY <1>2, <1>5 DEF LevelIn

-----------------------------------------------------------------------------
(* A batch: its drafts are handled one after the other.                      *)

BatchStates(drafts) ==
  [up : Parents, known : SUBSET Questions, handled : SUBSET (1..Len(drafts)), aborted : BOOLEAN]
BatchStart == [up |-> parent, known |-> Known, handled |-> {}, aborted |-> FALSE]

\* What every draft leaves intact.
Sound(batch) ==
  /\ TreeOk(batch.up, batch.known) /\ Known \subseteq batch.known
  /\ ChildrenOk(parent) => ChildrenOk(batch.up)
  /\ LevelsOk(parent) => LevelsOk(batch.up)

LEMMA DraftsAre ==
  ASSUME NEW drafts \in Batches
  PROVE  Len(drafts) \in Nat /\ \A i \in 1..Len(drafts) : drafts[i] \in Draft
<1>1. PICK n \in 1..MaxBatch : drafts \in [1..n -> Draft]
  BY DEF Batches
<1>2. n \in Nat
  BY HierarchyAssumption
<1>3. Len(drafts) = n
  BY <1>1, <1>2
<1>4. QED
  BY <1>1, <1>2, <1>3

LEMMA DraftStep ==
  ASSUME NEW drafts \in Batches, NEW i \in 1..Len(drafts), NEW b \in BatchStates(drafts)
  PROVE  /\ HandleDraft(drafts, i, b) \in BatchStates(drafts)
         /\ Sound(b) => Sound(HandleDraft(drafts, i, b))
<1> DEFINE draft == drafts[i]
           p == IF draft.via = "local" THEN drafts[draft.ref].id ELSE draft.ref
           new == [b EXCEPT !.up[draft.id] = p, !.known = @ \cup {draft.id}, !.handled = @ \cup {i}]
           after == HandleDraft(drafts, i, b)
<1>1. /\ b.up \in Parents /\ b.known \in SUBSET Questions
      /\ b.handled \in SUBSET (1..Len(drafts)) /\ b.aborted \in BOOLEAN
  BY DEF BatchStates
<1>2. draft \in Draft
  BY DraftsAre
<1>3. draft.id \in Questions
  BY <1>2 DEF Draft
<1>4. \/ after \in {b, [b EXCEPT !.aborted = TRUE], [b EXCEPT !.handled = @ \cup {i}]}
      \/ /\ after = new /\ draft.id \notin b.known
         /\ draft.via = "local" => draft.ref \in b.handled
         /\ HierarchyAllows(b.up, b.known, p)
  BY DEF HandleDraft
<1>5. CASE after \in {b, [b EXCEPT !.aborted = TRUE], [b EXCEPT !.handled = @ \cup {i}]}
  <2>1. after \in BatchStates(drafts) /\ after.up = b.up /\ after.known = b.known
    BY <1>1, <1>5 DEF BatchStates
  <2>2. QED
    BY <2>1 DEF Sound
<1>6. CASE /\ after = new /\ draft.id \notin b.known
           /\ draft.via = "local" => draft.ref \in b.handled
           /\ HierarchyAllows(b.up, b.known, p)
  <2>1. p \in b.known \/ p = NoParent
    BY <1>6 DEF HierarchyAllows
  <2> HIDE DEF p
  <2>2. /\ after.up = Moved(b.up, draft.id, p) /\ after.known = b.known \cup {draft.id}
        /\ after.handled = b.handled \cup {i} /\ after.aborted = b.aborted
        /\ after = [up |-> after.up, known |-> after.known, handled |-> after.handled,
                    aborted |-> after.aborted]
    BY <1>6 DEF BatchStates, Moved
  <2> HIDE DEF after, draft, new
  <2>3. after.up \in Parents
    BY <1>1, <1>3, <2>1, <2>2 DEF Parents, Moved
  <2>4. after \in BatchStates(drafts)
    BY <1>1, <1>3, <2>2, <2>3 DEF BatchStates
  <2>5. ASSUME Sound(b) PROVE Sound(after)
    <3>1. TreeOk(after.up, after.known) /\ LeafBelow(b.up, draft.id, p)
      BY <1>3, <1>6, <2>1, <2>2, <2>5, Joined DEF Sound
    <3>2. /\ ChildrenOk(parent) => ChildrenOk(after.up)
          /\ LevelsOk(parent) => LevelsOk(after.up)
      BY <1>1, <1>3, <1>6, <2>1, <2>2, <2>5, <3>1, ChildrenWithin, LevelsWithin DEF Sound
    <3>3. Known \subseteq after.known
      BY <2>2, <2>5 DEF Sound
    <3>4. QED
      BY <3>1, <3>2, <3>3 DEF Sound
  <2>6. QED
    BY <2>4, <2>5 DEF after
<1>7. QED
  BY <1>4, <1>5, <1>6

\* So the whole batch leaves it intact.
LEMMA BatchRuns ==
  ASSUME NEW drafts \in Batches, parent \in Parents
  PROVE  /\ AfterBatch(drafts) \in BatchStates(drafts)
         /\ Sound(BatchStart) => Sound(AfterBatch(drafts))
<1> DEFINE L == Len(drafts)
           S == BatchStates(drafts)
           step == [ib \in (1..L) \X S |-> HandleDraft(drafts, ib[1], ib[2])]
           Eq(h) == h = [i \in 0..L |-> IF i = 0
                           THEN [up |-> parent, known |-> Known, handled |-> {}, aborted |-> FALSE]
                           ELSE HandleDraft(drafts, i, h[i - 1])]
           c == CHOOSE h : Eq(h)
<1>1. L \in Nat /\ 0 \in 0..L /\ L \in 0..L
  BY DraftsAre
<1>2. BatchStart \in S
  BY DEF BatchStart, BatchStates, Known
<1>3. step \in [(1..L) \X S -> S]
  <2> HIDE DEF S
  <2>1. \A i \in 1..L, b \in S : HandleDraft(drafts, i, b) \in S
    BY DraftStep DEF S
  <2>2. QED
    BY <2>1
<1> HIDE DEF L, S
<1>4. PICK g : Iteration(g, L, S, BatchStart, step)
  <2> HIDE DEF step
  <2>1. QED
    BY <1>1, <1>2, <1>3, Iterates
<1>5. /\ g \in [0..L -> S] /\ g[0] = BatchStart
      /\ \A n \in 1..L : g[n - 1] \in S /\ g[n] = HandleDraft(drafts, n, g[n - 1])
  <2>1. g \in [0..L -> S] /\ g[0] = BatchStart
    BY <1>4 DEF Iteration
  <2>2. ASSUME NEW n \in 1..L
        PROVE  g[n - 1] \in S /\ g[n] = HandleDraft(drafts, n, g[n - 1])
    <3>1. n - 1 \in 0..L
      BY <1>1
    <3>2. g[n - 1] \in S /\ g[n] = step[<<n, g[n - 1]>>]
      BY <1>4, <3>1 DEF Iteration
    <3>3. QED
      BY <3>2
  <2>3. QED
    BY <2>1, <2>2
<1>6. Eq(g)
  <2> DEFINE r == [i \in 0..L |-> IF i = 0
                     THEN [up |-> parent, known |-> Known, handled |-> {}, aborted |-> FALSE]
                     ELSE HandleDraft(drafts, i, g[i - 1])]
  <2>1. \A n \in 0..L : n # 0 => n \in 1..L
    BY <1>1
  <2>2. \A n \in 0..L : r[n] = g[n]
    BY <1>5, <2>1 DEF BatchStart
  <2>3. g = [n \in 0..L |-> g[n]]
    BY <1>5
  <2>4. r = [n \in 0..L |-> r[n]]
    OBVIOUS
  <2> HIDE DEF r
  <2>5. g = r
    BY <2>2, <2>3, <2>4
  <2>6. QED
    BY <2>5 DEF r
<1>7. Eq(c)
  <2> HIDE DEF Eq
  <2>1. QED
    BY <1>6
<1>8. \A n \in 0..L : c[n] = g[n]
  <2> DEFINE T == {n \in 0..L : c[n] = g[n]}
  <2>1. 0 \in T
    <3> HIDE DEF c
    <3>1. QED
      BY <1>1, <1>5, <1>7 DEF BatchStart
  <2>2. ASSUME NEW n \in 1..L, n - 1 \in T PROVE n \in T
    <3>1. n \in 0..L /\ n # 0
      BY <1>1
    <3>2. c[n - 1] = g[n - 1]
      BY <2>2
    <3> HIDE DEF c
    <3>3. c[n] = HandleDraft(drafts, n, c[n - 1])
      BY <1>7, <3>1
    <3>4. QED
      BY <1>5, <3>1, <3>2, <3>3
  <2> HIDE DEF T, c
  <2>3. \A n \in 0..L : n \in T
    BY <1>1, <2>1, <2>2, StepByStep
  <2>4. QED
    BY <2>3 DEF T
<1>9. AfterBatch(drafts) = c[L]
  BY DEF AfterBatch, L
<1>10. AfterBatch(drafts) = g[L]
  <2> HIDE DEF c
  <2>1. QED
    BY <1>1, <1>8, <1>9
<1>11. ASSUME Sound(BatchStart) PROVE Sound(g[L])
  <2> DEFINE T == {n \in 0..L : Sound(g[n])}
  <2>1. 0 \in T
    BY <1>1, <1>5, <1>11
  <2>2. ASSUME NEW n \in 1..L, n - 1 \in T PROVE n \in T
    <3>1. Sound(g[n - 1]) /\ n \in 0..L
      BY <1>1, <2>2
    <3>2. Sound(HandleDraft(drafts, n, g[n - 1]))
      BY <1>5, <3>1, DraftStep DEF L, S
    <3>3. QED
      BY <1>5, <3>1, <3>2
  <2> HIDE DEF T
  <2>3. L \in T
    BY <1>1, <2>1, <2>2, StepByStep
  <2>4. QED
    BY <2>3 DEF T
<1>12. g[L] \in S
  BY <1>1, <1>5
<1>13. QED
  BY <1>10, <1>11, <1>12 DEF S

-----------------------------------------------------------------------------
(* The tree through the steps of the system.                                 *)

HierarchyInv ==
  /\ TreeOk(parent, Known)
  /\ phase \in [Questions -> {"absent", "pending", "closed"}]
  /\ unread \in Seq(Questions)

LEMMA HierarchyStart == Init => HierarchyInv
<1> SUFFICES ASSUME Init PROVE HierarchyInv
  OBVIOUS
<1>1. parent \in Parents /\ \A q \in Questions : parent[q] = NoParent
  BY DEF Init, Parents
<1>2. Acyclic(parent)
  BY <1>1, NoAncestors DEF Acyclic
<1>3. Known = {}
  BY DEF Init, Known
<1>4. TreeOk(parent, Known)
  BY <1>1, <1>2, <1>3 DEF TreeOk
<1>5. QED
  BY <1>4 DEF HierarchyInv, Init

LEMMA LifecycleKeeps ==
  ASSUME HierarchyInv, Lifecycle
  PROVE  HierarchyInv' /\ parent' = parent
<1>1. /\ parent' = parent /\ Known' = Known
      /\ phase' \in [Questions -> {"absent", "pending", "closed"}]
  BY DEF HierarchyInv, Lifecycle, Transfer, Answer, Withdraw, ReadAnswer, Known
<1>2. unread' \in Seq(Questions)
  <2>1. CASE UNCHANGED unread
    BY <2>1 DEF HierarchyInv
  <2>2. CASE \E q \in Questions : unread' = Append(unread, q)
    BY <2>2 DEF HierarchyInv
  <2>3. CASE \E i \in DOMAIN unread :
               unread' = SubSeq(unread, 1, i - 1) \o SubSeq(unread, i + 1, Len(unread))
    BY <2>3 DEF HierarchyInv
  <2>4. QED
    BY <2>1, <2>2, <2>3 DEF Lifecycle, Transfer, Answer, Withdraw, ReadAnswer
<1>3. QED
  BY <1>1, <1>2 DEF HierarchyInv

LEMMA BatchingKeeps ==
  ASSUME HierarchyInv, Batching
  PROVE  HierarchyInv' /\ (ChildrenOk(parent) => ChildrenOk(parent')) /\ (LevelsOk(parent) => LevelsOk(parent'))
<1>1. PICK o \in Owners, drafts \in Batches : CreateBatch(o, drafts)
  BY DEF Batching
<1> DEFINE batch == AfterBatch(drafts)
<1>2. parent \in Parents /\ Sound(BatchStart)
  BY DEF HierarchyInv, TreeOk, Sound, BatchStart
<1>3. Sound(batch)
  BY <1>2, BatchRuns
<1>4. /\ parent' = batch.up /\ unread' = unread
      /\ phase' = [q \in Questions |-> IF q \in batch.known \ Known THEN "pending" ELSE phase[q]]
  BY <1>1 DEF CreateBatch
<1> HIDE DEF batch
<1>5. Known' = batch.known
  BY <1>3, <1>4 DEF Known, Sound, TreeOk
<1>6. TreeOk(parent', Known') /\ (ChildrenOk(parent) => ChildrenOk(parent')) /\ (LevelsOk(parent) => LevelsOk(parent'))
  BY <1>3, <1>4, <1>5 DEF Sound
<1>7. phase' \in [Questions -> {"absent", "pending", "closed"}]
  BY <1>4 DEF HierarchyInv
<1>8. QED
  BY <1>4, <1>6, <1>7 DEF HierarchyInv

LEMMA HierarchyStep == HierarchyInv /\ [Next]_vars => HierarchyInv'
<1> SUFFICES ASSUME HierarchyInv, [Next]_vars PROVE HierarchyInv'
  OBVIOUS
<1>1. CASE Lifecycle
  BY <1>1, LifecycleKeeps
<1>2. CASE Batching
  BY <1>2, BatchingKeeps
<1>3. CASE Creating
  <2>1. PICK o \in Owners, q \in Questions, p \in Questions \cup {NoParent} : CreateQuestion(o, q, p)
    BY <1>3 DEF Creating
  <2>2. q \notin Known /\ (p \in Known \/ p = NoParent)
    BY <2>1 DEF CreateQuestion
  <2>3. TreeOk(Moved(parent, q, p), Known \cup {q})
    BY <2>2, Joined DEF HierarchyInv
  <2>4. parent' = Moved(parent, q, p) /\ Known' = Known \cup {q} /\ unread' = unread
        /\ phase' \in [Questions -> {"absent", "pending", "closed"}]
    BY <2>1 DEF CreateQuestion, Moved, Known, HierarchyInv
  <2>5. QED
    BY <2>3, <2>4 DEF HierarchyInv
<1>4. CASE Moving
  <2>1. PICK o \in Owners, q \in Questions, p \in Questions \cup {NoParent} : Reparent(o, q, p)
    BY <1>4 DEF Moving
  <2>2. p # q /\ (p \in Known \/ p = NoParent) /\ q \in Known
        /\ parent' = Moved(parent, q, p) /\ UNCHANGED <<phase, unread>>
    BY <2>1, Finite DEF Reparent, NewParentAllowed, Known, Moved
  <2>3. p # NoParent => q \notin AncestorsIn(parent, p)
    BY <2>1, <2>2 DEF Reparent, NewParentAllowed, DescendantsIn, Known
  <2>4. parent \in Parents /\ Acyclic(parent)
    BY DEF HierarchyInv, TreeOk
  <2>5. parent' \in Parents /\ Acyclic(parent')
    BY <2>2, <2>3, <2>4, Attached
  <2>6. \A x \in Questions : /\ parent'[x] \in Known \cup {NoParent}
                             /\ x \notin Known => parent'[x] = NoParent
    BY <2>2, <2>4 DEF HierarchyInv, TreeOk, Moved, Parents
  <2>7. Known' = Known
    BY <2>2 DEF Known
  <2>8. TreeOk(parent', Known')
    BY <2>5, <2>6, <2>7 DEF TreeOk, HierarchyInv
  <2>9. QED
    BY <2>2, <2>8 DEF HierarchyInv
<1>5. CASE UNCHANGED vars
  BY <1>5 DEF vars, HierarchyInv, TreeOk, Known
<1>6. QED
  BY <1>1, <1>2, <1>3, <1>4, <1>5 DEF Next

\* Whatever is created, alone or in batches, moved, handed over, answered and
\* withdrawn, no Question comes to be below itself or below one that does not
\* exist: the recursive queries return.
THEOREM TreeStaysForest == Spec => []Forest
<1>1. HierarchyInv => Forest
  BY DEF HierarchyInv, TreeOk, Acyclic, Forest
<1>2. QED
  BY <1>1, HierarchyStart, HierarchyStep, PTL DEF Spec

\* The Answer handed out, when nothing below it is unread, has nothing unread
\* of its owner above it.
THEOREM AnswersWaitForAncestors == Spec => []LeafWaitsForAncestors
<1>1. ASSUME HierarchyInv, NEW o \in Owners, UnreadIndexes(o) # {},
             UnreadBelow(NextUnread(o)) = {}, NEW i \in UnreadIndexes(o)
      PROVE  unread[i] \notin AncestorsIn(parent, NextUnread(o))
  <2>1. UnreadIndexes(o) \in SUBSET Nat /\ \A j \in UnreadIndexes(o) : j \in DOMAIN unread
    BY <1>1 DEF HierarchyInv, UnreadIndexes
  <2> DEFINE above == {j \in UnreadIndexes(o) : UnreadBelow(unread[j]) # {}}
             next == CHOOSE j \in Ranked(o) : \A k \in Ranked(o) : j <= k
  <2>2. Ranked(o) \in SUBSET UnreadIndexes(o) /\ Ranked(o) # {}
        /\ (above # {} => Ranked(o) = above)
    BY <1>1 DEF Ranked
  <2>3. next \in Ranked(o)
    <3>1. \E j \in Ranked(o) : \A k \in Ranked(o) : j <= k
      BY <2>1, <2>2, LeastNatural
    <3>2. QED
      BY <3>1
  <2>4. NextUnread(o) = unread[next]
    BY DEF NextUnread
  <2> HIDE DEF next
  <2>5. above = {}
    BY <1>1, <2>2, <2>3, <2>4
  <2>6. next \in DOMAIN unread /\ unread[next] \in Questions
    BY <1>1, <2>1, <2>2, <2>3 DEF HierarchyInv
  <2>7. UnreadBelow(unread[i]) = {}
    BY <2>5
  <2>8. unread[next] \notin DescendantsIn(parent, unread[i])
    BY <2>6, <2>7 DEF UnreadBelow
  <2>9. QED
    BY <2>4, <2>6, <2>8 DEF DescendantsIn
<1>2. HierarchyInv => LeafWaitsForAncestors
  BY <1>1 DEF LeafWaitsForAncestors
<1>3. QED
  BY <1>2, HierarchyStart, HierarchyStep, PTL DEF Spec

LimitsInv ==
  /\ bypassed \subseteq {"children", "depth"}
  /\ "children" \notin bypassed => ChildrenOk(parent)
  /\ "depth" \notin bypassed => LevelsOk(parent)

LEMMA LimitsStart == Init => LimitsInv
<1> SUFFICES ASSUME Init PROVE LimitsInv
  OBVIOUS
<1>1. parent \in Parents /\ \A q \in Questions : parent[q] = NoParent
  BY DEF Init, Parents
<1>2. \A q \in Questions : ChildrenIn(parent, q) = {} /\ AncestorsIn(parent, q) = {}
  BY <1>1, Finite, NoAncestors DEF ChildrenIn
<1>3. ChildrenOk(parent) /\ LevelsOk(parent)
  BY <1>2, FS_EmptySet, HierarchyAssumption DEF ChildrenOk, LevelsOk, LevelIn
<1>4. QED
  BY <1>3 DEF Init, LimitsInv

LEMMA LimitsStep == HierarchyInv /\ LimitsInv /\ [Next]_vars => LimitsInv'
<1> SUFFICES ASSUME HierarchyInv, LimitsInv, [Next]_vars PROVE LimitsInv'
  OBVIOUS
<1>1. /\ ChildrenOk(parent)' <=> ChildrenOk(parent')
      /\ LevelsOk(parent)' <=> LevelsOk(parent')
  BY DEF ChildrenOk, LevelsOk, LevelIn, ChildrenIn, AncestorsIn
<1>2. parent \in Parents /\ TreeOk(parent, Known)
  BY DEF HierarchyInv, TreeOk
<1>3. ASSUME UNCHANGED bypassed,
             ChildrenOk(parent) => ChildrenOk(parent'), LevelsOk(parent) => LevelsOk(parent')
      PROVE  LimitsInv'
  BY <1>1, <1>3 DEF LimitsInv
<1>4. CASE Lifecycle \/ UNCHANGED vars
  <2>1. UNCHANGED <<parent, bypassed>>
    BY <1>4 DEF Lifecycle, Transfer, Answer, Withdraw, ReadAnswer, vars
  <2>2. QED
    BY <1>3, <2>1
<1>5. CASE Batching
  <2>1. UNCHANGED bypassed
    BY <1>5 DEF Batching, CreateBatch
  <2>2. QED
    BY <1>3, <1>5, <2>1, BatchingKeeps
<1>6. CASE Creating
  <2>1. PICK o \in Owners, q \in Questions, p \in Questions \cup {NoParent} : CreateQuestion(o, q, p)
    BY <1>6 DEF Creating
  <2>2. q \notin Known /\ p \in Known \cup {NoParent} /\ parent' = Moved(parent, q, p)
        /\ bypassed' = IF p = NoParent THEN bypassed ELSE {"children", "depth"}
    BY <2>1 DEF CreateQuestion, Moved
  <2>3. CASE p # NoParent
    BY <2>2, <2>3 DEF LimitsInv
  <2>4. CASE p = NoParent
    <3>1. HierarchyAllows(parent, Known, p)
      BY <2>4 DEF HierarchyAllows
    <3>2. QED
      BY <1>2, <1>3, <2>2, <2>4, <3>1, ChildrenWithin, LevelsShrink
  <2>5. QED
    BY <2>3, <2>4
<1>7. CASE Moving
  <2>1. PICK o \in Owners, q \in Questions, p \in Questions \cup {NoParent} : Reparent(o, q, p)
    BY <1>7 DEF Moving
  <2>2. /\ parent' = Moved(parent, q, p) /\ HierarchyAllows(parent, Known, p)
        /\ bypassed' = bypassed \cup {limit \in {"depth"} : p # NoParent /\ DescendantsIn(parent, q) # {}}
        /\ p # NoParent => p # q /\ p \in Known
    BY <2>1 DEF Reparent, NewParentAllowed, HierarchyAllows, Moved
  <2>3. ChildrenOk(parent) => ChildrenOk(parent')
    BY <1>2, <2>2, ChildrenWithin
  <2>4. CASE p = NoParent
    <3>1. LevelsOk(parent) => LevelsOk(parent')
      BY <1>2, <2>2, <2>4, LevelsShrink
    <3>2. QED
      BY <1>3, <2>2, <2>3, <2>4, <3>1
  <2>5. CASE p # NoParent /\ DescendantsIn(parent, q) = {}
    <3>1. \A x \in Questions : q \notin AncestorsIn(parent, x)
      BY <2>5 DEF DescendantsIn
    <3>2. LeafBelow(parent, q, p)
      BY <1>2, <2>2, <2>5, <3>1, Attached DEF LeafBelow, TreeOk, Known
    <3>3. LevelsOk(parent) => LevelsOk(parent')
      BY <1>2, <2>2, <3>2, LevelsWithin
    <3>4. QED
      BY <1>3, <2>2, <2>3, <2>5, <3>3
  <2>6. CASE p # NoParent /\ DescendantsIn(parent, q) # {}
    BY <1>1, <2>2, <2>3, <2>6 DEF LimitsInv
  <2>7. QED
    BY <2>4, <2>5, <2>6
<1>8. QED
  BY <1>4, <1>5, <1>6, <1>7 DEF Next

\* The limits of create_batch and of moves hold for any number of Questions and
\* any limits: what exceeds one is a single creation below a Question, or, as to
\* the levels, the move of a subtree below another Question.
THEOREM LimitsAreKept == Spec => []LimitsKept
<1>1. LimitsInv => LimitsKept
  BY DEF LimitsInv, ChildrenOk, LevelsOk, LimitsKept, ChildLimit, DepthLimit
<1>2. QED
  BY <1>1, HierarchyStart, HierarchyStep, LimitsStart, LimitsStep, PTL DEF Spec
=============================================================================
