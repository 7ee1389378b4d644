------------------------ MODULE MCQuestionHierarchy ------------------------
(* TLC values for QuestionHierarchy.  A behaviour of HierarchySpec is one of  *)
(* single creations, batches of one and moves ("tree"), or one of lifecycle   *)
(* steps and larger batches alone ("batch"), which needs other bounds.        *)
EXTENDS QuestionHierarchy, TLC

CONSTANTS o1, o2, q1, q2, q3, q4

VARIABLE part

Symmetry == Permutations(Questions)

Batch == INSTANCE QuestionHierarchy
           WITH Owners <- {o1}, MaxBatch <- 2

HierarchyInit == Init /\ part \in {"tree", "batch"}

TreeStep == part = "tree" /\ Next /\ UNCHANGED part
BatchStep == part = "batch" /\ (Batch!Lifecycle \/ Batch!Batching) /\ UNCHANGED part

HierarchySpec == HierarchyInit /\ [][TreeStep \/ BatchStep]_<<vars, part>>
=============================================================================
