--------------------------- MODULE MCRequestStore ---------------------------
(* TLC values for RequestStore and for the hand-off it implements.          *)
EXTENDS RequestStoreRefinement, TLC

CONSTANTS o1, o2, q1, q2, a, b

\* Owners are interchangeable; Questions are not, since one is multi-choice,
\* and option values are not under the bound below.
Symmetry == Permutations(Owners)

\* A bound: Questions start with the option a, and b is what a revision of q1
\* or a proposal for it adds.
FewOptions ==
  \A q \in Questions : questions[q] # Absent =>
    \/ questions[q].options = {a}
    \/ q = q1 /\ questions[q].revision = 2 /\ questions[q].options = {a, b}
=============================================================================
