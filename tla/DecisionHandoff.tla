--------------------------- MODULE DecisionHandoff ---------------------------
(* What the Postbox promises about each Question, whatever the order of     *)
(* calls (CONTEXT.md, docs/protocol.md): an agent hands a decision over,    *)
(* exactly one outcome is ever recorded for it, by whoever came first, and  *)
(* a human's Answer is consumed for the first time by exactly one agent.    *)
(* Who is responsible may change until the outcome is recorded; what was    *)
(* offered may change too, and the Answer is about the final offer.         *)
(*                                                                          *)
(* Questions are independent here.  RequestStore implements this through    *)
(* tables, version counters and an expiry that resolves several Questions   *)
(* in one call, which is why a step may move more than one Question.        *)
CONSTANTS Agents, Questions, OptionValues, Other, Nobody

VARIABLE desk   \* what is known of each Question

Unasked == [outcome |-> "unasked", responsible |-> Nobody, offer |-> {},
            chosen |-> {}, reader |-> Nobody]

Asked(o, offer) == [Unasked EXCEPT !.outcome = "open", !.responsible = o, !.offer = offer]

Init == desk = [q \in Questions |-> Unasked]

\* One way forward for a single Question, from entry d to entry e.
Ask(d, e) ==
  /\ d = Unasked
  /\ \E o \in Agents, offer \in SUBSET OptionValues : e = Asked(o, offer)

Amend(d, e) ==
  /\ d.outcome = "open"
  /\ \E offer \in SUBSET OptionValues : e = [d EXCEPT !.offer = offer]

HandOver(d, e) ==
  /\ d.outcome = "open"
  /\ \E o \in Agents : e = [d EXCEPT !.responsible = o]

Decide(d, e) ==
  /\ d.outcome = "open"
  /\ \E chosen \in SUBSET (d.offer \cup {Other}) :
       e = [d EXCEPT !.outcome = "answered", !.chosen = chosen]

\* Anything but an Answer is known to the responsible agent from the start.
Drop(d, e, outcome) ==
  /\ d.outcome = "open"
  /\ e = [d EXCEPT !.outcome = outcome, !.reader = d.responsible]

Expire(d, e) == Drop(d, e, "expired")

Consume(d, e) ==
  /\ d.outcome = "answered"
  /\ d.reader = Nobody
  /\ \E o \in Agents : e = [d EXCEPT !.reader = o]

Advance(d, e) ==
  \/ Ask(d, e) \/ Amend(d, e) \/ HandOver(d, e) \/ Consume(d, e)
  \/ Decide(d, e) \/ Drop(d, e, "cancelled") \/ Drop(d, e, "superseded") \/ Expire(d, e)

\* One Question advances; whatever else is overdue may expire along with it.
Next ==
  \E q \in Questions :
    /\ DOMAIN desk' = Questions
    /\ desk'[q] = desk[q] \/ Advance(desk[q], desk'[q])
    /\ \A p \in Questions \ {q} : desk'[p] = desk[p] \/ Expire(desk[p], desk'[p])

Spec == Init /\ [][Next]_desk
=============================================================================
