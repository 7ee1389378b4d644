----------------------------- MODULE MCLiveness -----------------------------
(* What must eventually happen, in the store (part "store") and on the way   *)
(* of a notification (part "delivery"): a behaviour is one of the two and    *)
(* leaves the variables of the other as they were.  The fairness of each is  *)
(* the one its module states, restricted to its part.                        *)
EXTENDS RequestStore, TLC

CONSTANTS o1, o2, q1, q2, a, b, k1, k2, k3, a1, a2,
          Connections, NoConnection, ManyClients, MaxWaits, InboxMayFail

VARIABLES part, current, session, sockets, announced, blocked, tracked, prior,
          clients, outbox, acks, inbox, shown

Delivery == INSTANCE AnswerNotifications WITH Answers <- {a1}, answers <- announced

both == <<part, vars, current, session, sockets, announced, blocked, tracked,
          prior, clients, outbox, acks, inbox, shown>>

deliveryVars == <<current, session, sockets, announced, blocked, tracked, prior,
                  clients, outbox, acks, inbox, shown>>

InStore(A) == part = "store" /\ A /\ UNCHANGED <<part, deliveryVars>>
InDelivery(A) == part = "delivery" /\ A /\ UNCHANGED <<part, vars>>

LivenessInit == part \in {"store", "delivery"} /\ Init /\ Delivery!Init
LivenessNext == InStore(Next) \/ InDelivery(Delivery!Next)

LivenessSpec ==
  /\ LivenessInit /\ [][LivenessNext]_both
  /\ WF_both(InStore(ExpireDue))
  /\ \A k \in Connections :
       /\ WF_both(InDelivery(Delivery!Heartbeat(k)))
       /\ WF_both(InDelivery(Delivery!SessionUpdate(k)))
       /\ WF_both(InDelivery(Delivery!Present(k, a1)))
       /\ WF_both(InDelivery(Delivery!NotificationAck(k, a1)))

\* An agent that stays connected and idle is told of every Answer it has not
\* read, whatever was claimed, lost or restarted before that (flush, heartbeat,
\* releaseAnswerNotifications).
NotificationArrives == part = "delivery" => Delivery!NotificationArrives
=============================================================================
