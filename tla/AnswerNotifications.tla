------------------------- MODULE AnswerNotifications -------------------------
(***************************************************************************)
(* How one owner learns that a human answered: the extension socket        *)
(* (packages/server/src/ws/extensionSocket.ts), the presence bookkeeping   *)
(* of its session (sessionStore.ts), the claims on unread Answers          *)
(* (requestStore.ts) and the extension at the other end of the connection  *)
(* (PostboxClient.ts, lifecycle.ts, answerNotificationInbox.ts).           *)
(*                                                                         *)
(* An owner has one session; its process reaches the server over one       *)
(* connection after another, and a server may hold an old connection open  *)
(* long after its client is gone.  A message handler of the server is one  *)
(* action.  The promise callbacks that follow the end of a wait run before *)
(* the next event, so they belong to the action that ends the wait.  State *)
(* updates, acknowledgements and notifications travel: they can be late,   *)
(* and are lost with the connection.                                       *)
(***************************************************************************)
EXTENDS Naturals, FiniteSets

CONSTANTS
  Answers,        \* the Questions of this owner, each with its Answer to come
  Connections,    \* connection ids (randomUUID); none is used twice
  NoConnection,
  ManyClients,    \* may a second process open the same session meanwhile?
  MaxWaits,       \* wait_for_postbox calls an agent makes at the same time
  InboxMayFail    \* may writing the notification inbox fail?

ASSUME DeliveryAssumption ==
  /\ NoConnection \notin Connections
  /\ ManyClients \in BOOLEAN /\ InboxMayFail \in BOOLEAN
  /\ MaxWaits \in Nat

VARIABLES
  current,   \* activeConnections.get(sessionId)
  session,   \* the row of the session: semantic state, age of heartbeat, down
  sockets,   \* sockets[k]: who still has connection k open
  answers,   \* answers[a]: state, delivered_at, claim_token
  blocked,   \* the connection whose wait is in ownerWaits
  tracked,   \* the connection in activeSessionWaits
  prior,     \* the semantic state that wait restores
  clients,   \* clients[k]: the process at the other end of k
  outbox,    \* outbox[k]: answer.available on its way to the client
  acks,      \* acks[k]: answer.available.ack on its way to the server
  inbox,     \* the notification inbox, a file that outlives processes
  shown      \* the Answers onAnswerAvailable was called for

server == <<current, session, answers, blocked, tracked, prior>>
client == <<clients, inbox, shown>>
vars == <<server, sockets, client, outbox, acks>>

-----------------------------------------------------------------------------

Semantic == {"working", "idle", "waiting_for_postbox"}
Row == [semantic: Semantic, beat: {"live", "stale", "offline"}, down: BOOLEAN]

\* down: disconnected_at or shutdown_at is set.
Unregistered == [semantic |-> "idle", beat |-> "offline", down |-> TRUE]

\* Calls: wait_for_postbox calls under way; asking: the last one is not at the
\* server yet; telling: a session.update is not at the server yet.
Client == [agent: {"working", "idle"}, calls: 0..MaxWaits, asking: BOOLEAN, telling: BOOLEAN]
Fresh(agent) == [agent |-> agent, calls |-> 0, asking |-> FALSE, telling |-> FALSE]

\* What lifecycle.ts publishes for an agent.
Stated(k) == IF clients[k].calls > 0 THEN "waiting_for_postbox" ELSE clients[k].agent

AnswerRow == [state: {"pending", "withdrawn", "unread", "read"},
              delivered: BOOLEAN, claim: Connections \cup {NoConnection}]

\* A client that is there; a connection the server believes to be there.
Alive(k) == sockets[k] = "open"
Held(k) == sockets[k] \in {"open", "gone"}

\* derivePresence
Presence(cur, row) == IF row.down \/ cur = NoConnection THEN "offline" ELSE row.beat

Unread(a) == answers[a].state = "unread"

-----------------------------------------------------------------------------
(* flushAnswerNotifications, called at the end of a handler of connection k *)
(* with the state that handler leaves: what the connection claims and is    *)
(* sent.  A claim of this very connection is not renewed; one of any other  *)
(* connection is taken over. *)

SlipClaimable(k, cur, row, table) ==
  {a \in Answers : /\ cur = k
                   /\ Presence(cur, row) = "live" /\ row.semantic = "idle"
                   /\ table[a].state = "unread" /\ ~table[a].delivered
                   /\ table[a].claim = NoConnection}
SlipClaimableAnytime(k, cur, row, table) ==
  {a \in Answers : /\ cur = k
                   /\ Presence(cur, row) = "live"
                   /\ table[a].state = "unread" /\ ~table[a].delivered
                   /\ table[a].claim # k}
Claimable(k, cur, row, table) ==
  {a \in Answers : /\ cur = k
                   /\ Presence(cur, row) = "live" /\ row.semantic = "idle"
                   /\ table[a].state = "unread" /\ ~table[a].delivered
                   /\ table[a].claim # k}

Claimed(table, claim, k) ==
  [a \in Answers |-> IF a \in claim THEN [table[a] EXCEPT !.claim = k] ELSE table[a]]

\* The end of a handler of k that leaves the session row as row.
SlipFlush(k, row) ==
  LET claim == Claimable(k, current', row, answers)
  IN /\ session' = row
     /\ answers' = [a \in Answers |-> [Claimed(answers, claim, k)[a] EXCEPT !.delivered = @ \/ a \in claim]]
     /\ outbox' = [outbox EXCEPT ![k] = @ \cup claim]
Flush(k, row) ==
  LET claim == Claimable(k, current', row, answers)
  IN /\ session' = row
     /\ answers' = Claimed(answers, claim, k)
     /\ outbox' = [outbox EXCEPT ![k] = @ \cup claim]

-----------------------------------------------------------------------------
(* Waits. *)

\* The client of k learns that one of its waits is over, and says so.
Released(k) ==
  IF Alive(k) /\ clients[k].calls > 0
  THEN [clients EXCEPT ![k] = [@ EXCEPT !.calls = clients[k].calls - 1, !.telling = TRUE]] ELSE clients

\* The semantic state a wait's finally block leaves, when cur is current then.
Restored(cur) == IF cur = blocked THEN prior ELSE session.semantic

\* The end of the wait leaves its entry in ownerWaits, or in activeSessionWaits.
SlipForgetTracked == tracked' = NoConnection /\ UNCHANGED blocked
Forget == /\ blocked' = NoConnection
          /\ tracked' = IF tracked = blocked THEN NoConnection ELSE tracked

\* beginAskPostboxWait publishes the state, then the client sends the wait.
BeginWait(k) ==
  /\ Alive(k)
  /\ clients[k].calls < MaxWaits /\ ~clients[k].asking
  /\ clients' = [clients EXCEPT ![k] =
       [@ EXCEPT !.calls = clients[k].calls + 1, !.asking = TRUE, !.telling = TRUE]]
  /\ UNCHANGED <<server, sockets, inbox, shown, outbox, acks>>

\* postbox.wait: refused, answered at once, or registered.  A wait that does
\* not block replaces the entry of one that does, and then removes it.
PostboxWait(k) ==
  /\ Alive(k) /\ clients[k].asking /\ ~clients[k].telling
  /\ LET blocks == /\ current = k
                   /\ \A a \in Answers : ~Unread(a)
                   /\ \E a \in Answers : answers[a].state = "pending"
                   /\ blocked = NoConnection
     IN IF blocks
        THEN /\ blocked' = k /\ tracked' = k
             /\ prior' = session.semantic
             /\ session' = [session EXCEPT !.semantic = "waiting_for_postbox"]
             /\ clients' = [clients EXCEPT ![k].asking = FALSE]
        ELSE /\ tracked' = IF current = k THEN NoConnection ELSE tracked
             /\ clients' = [Released(k) EXCEPT ![k].asking = FALSE]
             /\ UNCHANGED <<blocked, prior, session>>
  /\ UNCHANGED <<current, answers, sockets, inbox, shown, outbox, acks>>

\* The tool call is aborted: postbox.wait.cancel, ignored unless k is current.
CancelWait(k) ==
  /\ Alive(k)
  /\ clients[k].calls > 0 /\ ~clients[k].asking /\ ~clients[k].telling
  /\ clients' = Released(k)
  /\ IF current = k /\ blocked = k
     THEN /\ Forget
          /\ session' = [session EXCEPT !.semantic = Restored(current)]
     ELSE UNCHANGED <<blocked, tracked, session>>
  /\ UNCHANGED <<current, answers, prior, sockets, inbox, shown, outbox, acks>>

-----------------------------------------------------------------------------
(* Messages of the extension. *)

\* session.register, the first message of a connection.  A wait that is still
\* tracked is settled with connection_replaced first.
Register(k, agent) ==
  /\ sockets[k] = "unused"
  /\ ManyClients \/ \A j \in Connections : ~Alive(j)
  /\ sockets' = [sockets EXCEPT ![k] = "open"]
  /\ current' = k
  /\ IF tracked # NoConnection
     THEN /\ Forget
          /\ clients' = [Released(tracked) EXCEPT ![k] = Fresh(agent)]
     ELSE /\ UNCHANGED <<blocked, tracked>>
          /\ clients' = [clients EXCEPT ![k] = Fresh(agent)]
  /\ Flush(k, [semantic |-> agent, beat |-> "live", down |-> FALSE])
  /\ UNCHANGED <<prior, inbox, shown, acks>>

\* A heartbeat of a replaced connection is ignored; one of a session without
\* a connection adopts it, and revives it.
Heartbeat(k) ==
  /\ Alive(k) /\ ~clients[k].telling
  /\ IF current \in {k, NoConnection}
     THEN /\ current' = k
          /\ Flush(k, [semantic |-> Stated(k), beat |-> "live", down |-> FALSE])
     ELSE UNCHANGED <<current, session, answers, outbox>>
  /\ UNCHANGED <<blocked, tracked, prior, sockets, client, acks>>

\* session.update is taken from every connection.
SessionUpdate(k) ==
  /\ Alive(k) /\ clients[k].telling
  /\ UNCHANGED current
  /\ Flush(k, [session EXCEPT !.semantic = Stated(k)])
  /\ clients' = [clients EXCEPT ![k].telling = FALSE]
  /\ UNCHANGED <<blocked, tracked, prior, sockets, inbox, shown, acks>>

\* The agent starts or ends a turn.
AgentTurn(k) ==
  /\ Alive(k) /\ clients[k].calls = 0
  /\ clients' = [clients EXCEPT ![k] =
       [@ EXCEPT !.agent = IF clients[k].agent = "idle" THEN "working" ELSE "idle", !.telling = TRUE]]
  /\ UNCHANGED <<server, sockets, inbox, shown, outbox, acks>>

\* The extension states that it is idle, shuts the session down and stops.
\* session.shutdown, too, is taken from every connection.
SessionShutdown(k) ==
  /\ Alive(k)
  /\ LET row == [session EXCEPT !.semantic = "idle"]
         claim == Claimable(k, current, row, answers)
     IN /\ session' = [row EXCEPT !.down = TRUE]
        /\ answers' = Claimed(answers, claim, k)
        /\ outbox' = [outbox EXCEPT ![k] = @ \cup claim]
  /\ current' = NoConnection
  /\ sockets' = [sockets EXCEPT ![k] = "gone"]
  /\ acks' = [acks EXCEPT ![k] = {}]
  /\ UNCHANGED <<blocked, tracked, prior, client>>

-----------------------------------------------------------------------------
(* Notifications. *)

\* deliverAnswerNotification, up to the call that tells the agent.
Present(k, a) ==
  /\ Alive(k) /\ a \in outbox[k]
  /\ inbox[a] # "delivered"
  /\ inbox' = [inbox EXCEPT ![a] = "pending"]
  /\ shown' = shown \cup {a}
  /\ UNCHANGED <<server, sockets, clients, outbox, acks>>

\* ... and the rest of it: the inbox is marked and the ack sent.  An Answer
\* already in the inbox as delivered is acknowledged again, not shown again.
Acknowledge(k, a) ==
  /\ Alive(k) /\ a \in outbox[k]
  /\ inbox[a] # "new"
  /\ inbox' = [inbox EXCEPT ![a] = "delivered"]
  /\ outbox' = [outbox EXCEPT ![k] = @ \ {a}]
  /\ acks' = [acks EXCEPT ![k] = @ \cup {a}]
  /\ UNCHANGED <<server, sockets, clients, shown>>

\* The inbox cannot be locked or written: a status line, and no ack.
InboxFails(k, a) ==
  /\ InboxMayFail
  /\ Alive(k) /\ a \in outbox[k]
  /\ outbox' = [outbox EXCEPT ![k] = @ \ {a}]
  /\ UNCHANGED <<server, sockets, client, acks>>

\* answer.available.ack counts from the current connection and the claimant.
NotificationAck(k, a) ==
  /\ Alive(k) /\ a \in acks[k]
  /\ acks' = [acks EXCEPT ![k] = @ \ {a}]
  /\ answers' = IF current = k /\ answers[a].claim = k /\ ~answers[a].delivered
                THEN [answers EXCEPT ![a] = [@ EXCEPT !.delivered = TRUE, !.claim = NoConnection]]
                ELSE answers
  /\ UNCHANGED <<current, session, blocked, tracked, prior, sockets, client, outbox>>

-----------------------------------------------------------------------------
(* Questions. *)

\* answer: every connection's listener flushes, then the waiting owner wakes.
\* Only the current connection's flush can claim anything.
HumanAnswers(a) ==
  /\ answers[a].state = "pending"
  /\ LET table == [answers EXCEPT ![a].state = "unread"]
         claim == IF current = NoConnection THEN {} ELSE Claimable(current, current, session, table)
     IN /\ answers' = Claimed(table, claim, current)
        /\ outbox' = IF claim = {} THEN outbox ELSE [outbox EXCEPT ![current] = @ \cup claim]
  /\ IF blocked = NoConnection
     THEN UNCHANGED <<session, clients, blocked, tracked>>
     ELSE /\ session' = [session EXCEPT !.semantic = Restored(current)]
          /\ clients' = Released(blocked)
          /\ Forget
  /\ UNCHANGED <<current, prior, sockets, inbox, shown, acks>>

\* Cancelled, expired, superseded or given away: the wait ends as well.
Withdraw(a) ==
  /\ answers[a].state = "pending"
  /\ answers' = [answers EXCEPT ![a].state = "withdrawn"]
  /\ IF blocked = NoConnection
     THEN UNCHANGED <<session, clients, blocked, tracked>>
     ELSE /\ session' = [session EXCEPT !.semantic = Restored(current)]
          /\ clients' = Released(blocked)
          /\ Forget
  /\ UNCHANGED <<current, prior, sockets, inbox, shown, outbox, acks>>

\* get_answer by this owner, or a recovery by another while it is offline.
ReadAnswer(a) ==
  /\ Unread(a)
  /\ (\E k \in Connections : Alive(k)) \/ Presence(current, session) = "offline"
  /\ answers' = [answers EXCEPT ![a].state = "read"]
  /\ UNCHANGED <<current, session, blocked, tracked, prior, sockets, client, outbox, acks>>

-----------------------------------------------------------------------------
(* What goes wrong. *)

\* No heartbeat for staleAfterMs, then for offlineAfterMs.
Age ==
  /\ session.beat # "offline"
  /\ session' = [session EXCEPT !.beat = IF @ = "live" THEN "stale" ELSE "offline"]
  /\ UNCHANGED <<current, answers, blocked, tracked, prior, sockets, client, outbox, acks>>

\* The process dies or loses its network; the server does not know yet.
Vanish(k) ==
  /\ Alive(k)
  /\ sockets' = [sockets EXCEPT ![k] = "gone"]
  /\ acks' = [acks EXCEPT ![k] = {}]
  /\ UNCHANGED <<server, client, outbox>>

DisconnectConnection(k) ==
  IF current = k
  THEN current' = NoConnection /\ session' = [session EXCEPT !.down = TRUE]
  ELSE UNCHANGED <<current, session>>

\* The server's close handler: the waits of k are aborted, its claims released,
\* and the session goes offline if k was its connection.
Close(k) ==
  /\ Held(k)
  /\ sockets' = [sockets EXCEPT ![k] = "closed"]
  /\ IF blocked = k THEN Forget ELSE UNCHANGED <<blocked, tracked>>
  /\ answers' = [a \in Answers |-> IF answers[a].claim = k
                                   THEN [answers[a] EXCEPT !.claim = NoConnection] ELSE answers[a]]
  /\ DisconnectConnection(k)
  /\ outbox' = [outbox EXCEPT ![k] = {}]
  /\ acks' = [acks EXCEPT ![k] = {}]
  /\ UNCHANGED <<prior, client>>

\* The server is killed and comes back: only what is in SQLite survives.
ServerRestart ==
  /\ \E k \in Connections : Held(k)
  /\ sockets' = [k \in Connections |-> IF Held(k) THEN "closed" ELSE sockets[k]]
  /\ current' = NoConnection
  /\ blocked' = NoConnection /\ tracked' = NoConnection
  /\ outbox' = [k \in Connections |-> {}]
  /\ acks' = [k \in Connections |-> {}]
  /\ UNCHANGED <<session, answers, prior, client>>

-----------------------------------------------------------------------------

Init ==
  /\ current = NoConnection
  /\ session = Unregistered
  /\ sockets = [k \in Connections |-> "unused"]
  /\ answers = [a \in Answers |-> [state |-> "pending", delivered |-> FALSE, claim |-> NoConnection]]
  /\ blocked = NoConnection /\ tracked = NoConnection /\ prior = "idle"
  /\ clients = [k \in Connections |-> Fresh("idle")]
  /\ outbox = [k \in Connections |-> {}] /\ acks = [k \in Connections |-> {}]
  /\ inbox = [a \in Answers |-> "new"] /\ shown = {}

ConnectionStep(k) ==
  \/ \E agent \in {"working", "idle"} : Register(k, agent)
  \/ Heartbeat(k) \/ SessionUpdate(k) \/ AgentTurn(k) \/ SessionShutdown(k)
  \/ BeginWait(k) \/ PostboxWait(k) \/ CancelWait(k)
  \/ \E a \in Answers : Present(k, a) \/ Acknowledge(k, a) \/ InboxFails(k, a) \/ NotificationAck(k, a)
  \/ Vanish(k) \/ Close(k)

Next ==
  \/ \E k \in Connections : ConnectionStep(k)
  \/ \E a \in Answers : HumanAnswers(a) \/ Withdraw(a) \/ ReadAnswer(a)
  \/ Age
  \/ ServerRestart

Spec == Init /\ [][Next]_vars

\* The heartbeat interval of a client that runs, and messages that arrive.
FairSpec ==
  /\ Spec
  /\ \A k \in Connections :
       /\ WF_vars(Heartbeat(k)) /\ WF_vars(SessionUpdate(k))
       /\ \A a \in Answers : /\ WF_vars(Present(k, a))
                             /\ WF_vars(NotificationAck(k, a))

-----------------------------------------------------------------------------
(* Properties *)

\* An Answer is recorded as delivered only if its agent was really told of it.
NoSilentDelivery == \A a \in Answers : answers[a].delivered => a \in shown

\* An agent that sits in wait_for_postbox is not also notified: the result of
\* the wait is the only news it gets ("The server does not send proactive
\* Answer notifications while that owner is explicitly waiting").
Sitting(k) == blocked = k /\ clients[k].calls > 0 /\ ~clients[k].asking
QuietWhileWaiting ==
  [][\A k \in Connections : Sitting(k) => outbox'[k] \subseteq outbox[k]]_vars

\* When a connection is replaced, the wait it had is settled with it: no wait
\* of another connection stands in the way of the current one.
DisplacedWaitSettled ==
  (blocked # NoConnection /\ current # NoConnection) => blocked = current

\* One connection from some time on, its client running and its agent idle.
Attentive == \E k \in Connections : Alive(k) /\ clients[k].agent = "idle" /\ clients[k].calls = 0

\* An agent that stays connected and idle is told of every Answer it has not
\* read, whatever was claimed, lost or restarted before that.
NotificationArrives ==
  <>[]Attentive => \A a \in Answers : Unread(a) ~> (a \in shown \/ ~Unread(a))
=============================================================================
