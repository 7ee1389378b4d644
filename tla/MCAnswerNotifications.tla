------------------------ MODULE MCAnswerNotifications ------------------------
(* Small instances of AnswerNotifications for TLC. *)
EXTENDS AnswerNotifications, TLC

CONSTANTS k1, k2, k3, a1, a2

\* Connections are interchangeable before they are used, and so are Answers.
Symmetry == Permutations(Connections) \cup Permutations(Answers)
=============================================================================
