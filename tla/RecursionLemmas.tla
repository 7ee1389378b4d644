---------------------------- MODULE RecursionLemmas ----------------------------
(* What the proofs about recursive functions rest on: a set of naturals has a *)
(* least element, and what can be computed step by step from 0 to n exists.   *)
EXTENDS Naturals, WellFoundedInduction, TLAPS

LEMMA NaturalsWellFounded == IsWellFoundedOn({ss \in Nat \X Nat : ss[1] < ss[2]}, Nat)
BY NatLessThanWellFounded DEF OpToRel

\* The induction on naturals: take the set of those for which it fails.
LEMMA LeastNatural ==
  ASSUME NEW T \in SUBSET Nat, T # {}
  PROVE  \E n \in T : \A m \in T : n <= m
<1>1. PICK n \in T : \A m \in T : ~ (<<m, n>> \in {ss \in Nat \X Nat : ss[1] < ss[2]})
  BY NaturalsWellFounded, WFMin
<1>2. \A m \in T : m \in Nat
  OBVIOUS
<1>3. \A m \in T : ~(m < n)
  BY <1>1, <1>2
<1>4. QED
  BY <1>2, <1>3

\* What holds of 0, and of each number after one it holds of, holds of all.
LEMMA StepByStep ==
  ASSUME NEW N \in Nat, NEW T, 0 \in T, \A n \in 1..N : n - 1 \in T => n \in T
  PROVE  \A n \in 0..N : n \in T
<1> DEFINE F == {n \in 0..N : n \notin T}
<1> SUFFICES ASSUME F # {} PROVE FALSE
  OBVIOUS
<1>1. F \in SUBSET Nat
  OBVIOUS
<1>2. PICK n \in F : \A m \in F : n <= m
  BY <1>1, LeastNatural
<1>3. n \in 1..N /\ n - 1 \in 0..N /\ ~(n <= n - 1)
  OBVIOUS
<1>4. n - 1 \in T
  BY <1>2, <1>3
<1>5. QED
  BY <1>3, <1>4

\* g results from iterating a step function N times.
Iteration(g, N, S, x, step) ==
  /\ g \in [0..N -> S] /\ g[0] = x
  /\ \A n \in 1..N : g[n] = step[<<n, g[n - 1]>>]

\* Every step function can be iterated.  So the equation of a recursive
\* definition has a solution, and the function it defines, by CHOOSE, is one.
LEMMA Iterates ==
  ASSUME NEW N \in Nat, NEW S, NEW x \in S, NEW step \in [(1..N) \X S -> S]
  PROVE  \E g : Iteration(g, N, S, x, step)
<1> DEFINE Good(n, g) == g[0] = x /\ \A i \in 1..n : g[i] = step[<<i, g[i - 1]>>]
           T == {n \in 0..N : \E g \in [0..n -> S] : Good(n, g)}
<1>1. 0 \in T
  <2> DEFINE h == [i \in 0..0 |-> x]
  <2>1. h \in [0..0 -> S] /\ h[0] = x
    OBVIOUS
  <2>2. \A i \in 1..0 : FALSE
    OBVIOUS
  <2> HIDE DEF h
  <2>3. Good(0, h)
    BY <2>1, <2>2
  <2>4. 0 \in 0..N
    OBVIOUS
  <2>5. QED
    BY <2>1, <2>3, <2>4
<1>2. ASSUME NEW n \in 1..N, n - 1 \in T
      PROVE  n \in T
  <2>1. PICK g \in [0..(n - 1) -> S] : Good(n - 1, g)
    BY <1>2
  <2> DEFINE h == [i \in 0..n |-> IF i = n THEN step[<<n, g[n - 1]>>] ELSE g[i]]
  <2>2. n \in Nat /\ n - 1 \in 0..(n - 1) /\ \A i \in 0..n : i # n => i \in 0..(n - 1)
    OBVIOUS
  <2>3. <<n, g[n - 1]>> \in (1..N) \X S
    BY <2>2
  <2>4. h \in [0..n -> S]
    BY <2>2, <2>3
  <2>5. \A i \in 1..n : h[i] = step[<<i, h[i - 1]>>]
    <3> SUFFICES ASSUME NEW i \in 1..n PROVE h[i] = step[<<i, h[i - 1]>>]
      OBVIOUS
    <3>1. i - 1 \in 0..(n - 1) /\ i - 1 # n /\ i \in 0..n /\ i - 1 \in 0..n
      OBVIOUS
    <3>2. h[i - 1] = g[i - 1]
      BY <3>1
    <3>3. CASE i = n
      BY <3>1, <3>2, <3>3
    <3>4. CASE i # n
      BY <2>1, <3>1, <3>2, <3>4
    <3>5. QED
      BY <3>3, <3>4
  <2>6. h[0] = x
    BY <2>1, <2>2
  <2> HIDE DEF h
  <2>7. QED
    BY <2>4, <2>5, <2>6
<1>3. N \in T
  <2> HIDE DEF T
  <2>1. \A n \in 0..N : n \in T
    BY <1>1, <1>2, StepByStep
  <2>2. QED
    BY <2>1
<1>4. QED
  BY <1>3 DEF Iteration
================================================================================
