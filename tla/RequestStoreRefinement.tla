----------------------- MODULE RequestStoreRefinement -----------------------
(* RequestStore implements DecisionHandoff.                                 *)
EXTENDS RequestStore

\* What the tables say about a Question: its row, and its answers row if any.
DeskEntry(q) ==
  LET row == questions[q]
      resolved == answers[q] # <<>>
  IN [outcome |-> CASE row.status = "absent" -> "unasked"
                    [] row.status = "pending" -> "open"
                    [] OTHER -> row.status,
      responsible |-> row.owner,
      offer |-> row.options,
      chosen |-> IF resolved THEN answers[q][1].selected ELSE {},
      reader |-> IF resolved THEN answers[q][1].reader ELSE Nobody]

Handoff == INSTANCE DecisionHandoff
             WITH desk <- [q \in Questions |-> DeskEntry(q)], Agents <- Owners

\* Every call of the store is a step of the abstract hand-off, or none.
ImplementsHandoff == Handoff!Spec
=============================================================================
