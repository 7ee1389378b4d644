--------------------------- MODULE MCQuestionChat ---------------------------
(* TLC values for QuestionChat. *)
EXTENDS QuestionChat

CONSTANTS s1, s2, c1

AllFromOne == [q \in Questions |-> s1]
=============================================================================
