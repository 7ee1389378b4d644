--------------------------- MODULE MCDecisionDesk ---------------------------
(* TLC values for DecisionDesk. *)
EXTENDS DecisionDesk, TLC

CONSTANTS o1, o2, q1, a, b

Symmetry == Permutations({o1, o2}) \cup Permutations({a, b})
=============================================================================
