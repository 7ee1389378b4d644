---------------------------- MODULE SessionProofs ----------------------------
(* Sessions: their presence on the server, the registration of a Pi process   *)
(* with it, the record by which the process finds the server, and its client. *)
EXTENDS SessionPresence, SessionRegistration, ProfileTarget, PostboxClient, RecursionLemmas, FiniteSetTheorems,
        TLAPS

-----------------------------------------------------------------------------
(* For any number of sessions, owners and connections: the map in memory and  *)
(* the sessions table agree about who is connected, takeover of an owner's    *)
(* Questions waits for real silence, and nothing a human needs is pruned.     *)

PresenceTypes ==
  /\ sessionRow \in [Sessions -> Row \cup {NoRow}]
  /\ activeConnections \in [Sessions -> Sockets \cup {NoSocket}]
  /\ socketSession \in [Sockets -> Sessions \cup {"unused"}]
  /\ openSockets \subseteq {k \in Sockets : socketSession[k] \in Sessions}
  /\ sourcing \in [Sessions -> QuestionRow \cup {NoRow}]

\* Connections are numbered as they register, so that each session's newest one
\* exists, or it has none.
Top(s, m) == m \in Served(s) \cup {NoSocket} /\ \A k \in Served(s) : k <= m
Ordered ==
  /\ \A k \in Sockets : \A j \in Sockets :
       j < k /\ socketSession[k] # "unused" => socketSession[j] # "unused"
  /\ \A s \in Sessions : \E m \in Sockets \cup {NoSocket} : Top(s, m)

\* A session with a row whose newest connection is open is served by it.
NewestServes == \A s \in Sessions : Exists(s) /\ Newest(s) \in openSockets => activeConnections[s] = Newest(s)

SourcesExist == \A s \in Sessions : Sourced(s) => Exists(s)

PresenceInv == PresenceTypes /\ Ordered /\ ConnectionsMatchRows /\ NewestServes /\ SourcesExist

LEMMA NewestIsTop ==
  ASSUME NEW s \in Sessions, NEW m \in Sockets \cup {NoSocket}, Top(s, m)
  PROVE  Newest(s) = m
<1> DEFINE all == Served(s) \cup {NoSocket}
<1>1. all \subseteq Nat /\ m \in all /\ \A k \in all : m >= k
  BY PresenceAssumption DEF Top, Served, Sockets, NoSocket
<1>2. \A x \in all : (\A y \in all : x >= y) => x = m
  BY <1>1
<1>3. QED
  BY <1>1, <1>2 DEF Newest, Max

\* When the connections of a session stay, so does its newest one.
LEMMA SameServed ==
  ASSUME NEW s \in Sessions, Served(s)' = Served(s)
  PROVE  Newest(s)' = Newest(s) /\ \A m : Top(s, m) => Top(s, m)'
BY DEF Newest, Top, NoSocket, Max

LEMMA NewestRange ==
  ASSUME Ordered, NEW s \in Sessions
  PROVE  Newest(s) \in Served(s) \cup {NoSocket}
BY NewestIsTop DEF Ordered, Top

LEMMA PresenceStarts == PresenceInit => PresenceInv
<1> SUFFICES ASSUME PresenceInit PROVE PresenceInv
  OBVIOUS
<1>1. PresenceTypes
  BY DEF PresenceInit, PresenceTypes
<1>2. \A s \in Sessions : Served(s) = {}
  BY PresenceAssumption DEF PresenceInit, Served
<1>3. Ordered
  BY <1>2 DEF Ordered, PresenceInit, Top
<1>4. QED
  BY <1>1, <1>3 DEF PresenceInv, PresenceInit, ConnectionsMatchRows, NewestServes, SourcesExist, Exists,
         Sourced

\* Rows are told from the absence of one.
LEMMA RowsExist == \A row \in Row : row # NoRow
BY NoRowAssumption

-----------------------------------------------------------------------------
(* A step that keeps the connections and their sessions.                     *)

LEMMA KeepsServed ==
  ASSUME PresenceInv, UNCHANGED socketSession
  PROVE  Ordered' /\ \A s \in Sessions : Newest(s)' = Newest(s) /\ Served(s)' = Served(s)
<1>1. \A s \in Sessions : Served(s)' = Served(s)
  BY DEF Served
<1>2. QED
  BY <1>1, SameServed DEF PresenceInv, Ordered

LEMMA RegisterKeeps ==
  ASSUME PresenceInv, NEW k \in Sockets, NEW s \in Sessions, Register(k, s)
  PROVE  PresenceInv'
<1> USE DEF PresenceInv
<1>1. PICK o \in SessionOwners, f \in Features :
        sessionRow' = [sessionRow EXCEPT ![s] =
          [owner |-> o, feature |-> f, beat |-> 0, gone |-> Never, shut |-> FALSE]]
  BY DEF Register
<1> DEFINE row == [owner |-> o, feature |-> f, beat |-> 0, gone |-> Never, shut |-> FALSE]
<1>2. row \in Row /\ row # NoRow /\ row.gone = Never /\ ~row.shut
  <2>1. 0 \in Ages
    BY PresenceAssumption DEF Ages, Oldest
  <2>2. row \in Row
    BY <2>1 DEF Row
  <2>3. QED
    BY <2>2, RowsExist
<1>3. /\ activeConnections' = [activeConnections EXCEPT ![s] = k]
      /\ socketSession' = [socketSession EXCEPT ![k] = s]
      /\ openSockets' = openSockets \cup {k} /\ UNCHANGED sourcing
  BY DEF Register
<1>4. PresenceTypes'
  BY <1>1, <1>2, <1>3 DEF PresenceTypes
<1>5. /\ socketSession[k] = "unused"
      /\ \A j \in Sockets : j < k => socketSession[j] # "unused"
      /\ \A j \in Sockets : k < j => socketSession[j] = "unused"
  BY DEF Register, Ordered
<1>6. \A t \in Sessions \ {s} : Served(t)' = Served(t)
  BY <1>3, <1>5, PresenceAssumption DEF Served, PresenceTypes
<1>7. Served(s)' = Served(s) \cup {k}
  BY <1>3 DEF Served, PresenceTypes
<1>8. \A j \in Served(s) : j <= k
  BY <1>5, PresenceAssumption DEF Served, Sockets
<1>9. Top(s, k)'
  BY <1>7, <1>8, PresenceAssumption DEF Top, Sockets
<1>10. Ordered'
  <2>1. \A i \in Sockets : \A j \in Sockets :
          j < i /\ socketSession'[i] # "unused" => socketSession'[j] # "unused"
    BY <1>3, <1>5, PresenceAssumption DEF Ordered, PresenceTypes, Sockets
  <2>2. \A t \in Sessions : \E m \in Sockets \cup {NoSocket} : Top(t, m)'
    BY <1>6, <1>9, SameServed DEF Ordered
  <2>3. QED
    BY <2>1, <2>2 DEF Ordered, NoSocket
<1>11. Newest(s)' = k
  <2>1. \A m \in Sockets \cup {NoSocket} : Top(s, m)' => Newest(s)' = m
    <3>1. ASSUME NEW m \in Sockets \cup {NoSocket}, Top(s, m)' PROVE Newest(s)' = m
      <4> DEFINE all == Served(s)' \cup {NoSocket}
      <4>1. all \subseteq Nat /\ m \in all /\ \A j \in all : m >= j
        BY <3>1, PresenceAssumption DEF Top, Served, Sockets, NoSocket
      <4>2. \A x \in all : (\A y \in all : x >= y) => x = m
        BY <4>1
      <4>3. QED
        BY <4>1, <4>2 DEF Newest, Max, NoSocket
    <3>2. QED
      BY <3>1
  <2>2. QED
    BY <1>9, <2>1
<1>12. ConnectionsMatchRows' /\ NewestServes'
  <2>1. ASSUME NEW t \in Sessions \ {s}
        PROVE  /\ Exists(t)' = Exists(t) /\ sessionRow'[t] = sessionRow[t]
               /\ activeConnections'[t] = activeConnections[t] /\ Newest(t)' = Newest(t)
               /\ Newest(t) # k /\ Served(t)' = Served(t)
    BY <1>1, <1>3, <1>5, <1>6, SameServed, NewestRange, PresenceAssumption
       DEF PresenceTypes, Exists, Served, Sockets, NoSocket
  <2>2. sessionRow'[s] = row /\ activeConnections'[s] = k /\ Exists(s)'
    BY <1>1, <1>2, <1>3 DEF PresenceTypes, Exists
  <2>3. QED
    BY <1>2, <1>3, <1>7, <1>11, <2>1, <2>2 DEF ConnectionsMatchRows, NewestServes, NoSocket
<1>13. SourcesExist'
  BY <1>1, <1>2, <1>3 DEF SourcesExist, Sourced, Exists, PresenceTypes
<1>14. QED
  BY <1>4, <1>10, <1>12, <1>13

-----------------------------------------------------------------------------
(* The other steps: the connections stay with their sessions.                *)

\* What the invariant says of one session.
Agree(s) ==
  /\ activeConnections[s] # NoSocket =>
       /\ Exists(s) /\ sessionRow[s].gone = Never /\ ~sessionRow[s].shut
       /\ activeConnections[s] \in openSockets \cap Served(s)
       /\ activeConnections[s] = Newest(s) \/ Newest(s) \notin openSockets
  /\ Exists(s) /\ Newest(s) \in openSockets => activeConnections[s] = Newest(s)
  /\ Sourced(s) => Exists(s)

LEMMA InvBySession ==
  /\ PresenceInv <=> PresenceTypes /\ Ordered /\ \A s \in Sessions : Agree(s)
  /\ PresenceInv' <=> PresenceTypes' /\ Ordered' /\ \A s \in Sessions : Agree(s)'
BY DEF PresenceInv, Agree, ConnectionsMatchRows, NewestServes, SourcesExist

\* A session that a step does not touch still agrees, unless its connection closes.
LEMMA UntouchedAgrees ==
  ASSUME PresenceInv, UNCHANGED socketSession, openSockets' \subseteq openSockets,
         NEW s \in Sessions, UNCHANGED <<activeConnections[s], sourcing[s]>>,
         Exists(s)' = Exists(s),
         Exists(s) => UNCHANGED sessionRow[s].gone /\ UNCHANGED sessionRow[s].shut,
         activeConnections[s] # NoSocket => activeConnections[s] \in openSockets'
  PROVE  Agree(s)'
<1>1. Agree(s) /\ Newest(s)' = Newest(s) /\ Served(s)' = Served(s)
  BY InvBySession, KeepsServed
<1>2. QED
  BY <1>1 DEF Agree, Sourced, NoSocket

LEMMA RowWithFields ==
  ASSUME NEW row \in Row
  PROVE  /\ [row EXCEPT !.beat = 0, !.gone = Never, !.shut = FALSE] \in Row
         /\ [row EXCEPT !.shut = TRUE, !.gone = 0] \in Row
         /\ [row EXCEPT !.gone = 0] \in Row
         /\ \A f \in Features : [row EXCEPT !.feature = f] \in Row
<1>1. 0 \in Ages
  BY PresenceAssumption DEF Ages, Oldest
<1>2. QED
  BY <1>1 DEF Row

LEMMA HeartbeatKeeps ==
  ASSUME PresenceInv, NEW k \in Sockets, NEW s \in Sessions, Heartbeat(k, s)
  PROVE  PresenceInv'
<1>1. /\ UNCHANGED <<socketSession, openSockets, sourcing>>
      /\ k \in openSockets \cap Served(s) /\ activeConnections[s] \in {k, NoSocket}
      /\ activeConnections' = [activeConnections EXCEPT ![s] = IF Exists(s) THEN k ELSE NoSocket]
  BY DEF Heartbeat
<1>2. PresenceTypes /\ Ordered' /\ Agree(s)
  BY <1>1, InvBySession, KeepsServed
<1>3. CASE Exists(s)
  <2> DEFINE row == [sessionRow[s] EXCEPT !.beat = 0, !.gone = Never, !.shut = FALSE]
  <2>1. sessionRow' = [sessionRow EXCEPT ![s] = row]
    BY <1>3 DEF Heartbeat
  <2>2. sessionRow[s] \in Row
    BY <1>2, <1>3 DEF PresenceTypes, Exists
  <2>3. row \in Row /\ row # NoRow
    BY <2>2, RowWithFields, RowsExist
  <2>4. row.gone = Never /\ ~row.shut
    BY <2>2 DEF Row
  <2>5. PresenceTypes'
    BY <1>1, <1>2, <2>1, <2>3 DEF PresenceTypes
  <2>6. Agree(s)'
    <3>1. sessionRow'[s] = row /\ activeConnections'[s] = k
      BY <1>1, <1>2, <1>3, <2>1 DEF PresenceTypes
    <3>2. Newest(s)' = Newest(s) /\ Served(s)' = Served(s)
      BY <1>1, KeepsServed
    <3>3. k = Newest(s) \/ Newest(s) \notin openSockets
      BY <1>1, <1>2, <1>3, PresenceAssumption DEF Agree, PresenceTypes, NoSocket, Sockets
    <3>4. QED
      BY <1>1, <2>3, <2>4, <3>1, <3>2, <3>3 DEF Agree, Exists
  <2>7. ASSUME NEW t \in Sessions \ {s} PROVE Agree(t)'
    <3>1. sessionRow'[t] = sessionRow[t] /\ activeConnections'[t] = activeConnections[t]
      BY <1>1, <1>2, <2>1 DEF PresenceTypes
    <3>2. activeConnections[t] # NoSocket => activeConnections[t] \in openSockets'
      BY <1>1, InvBySession DEF Agree
    <3>3. QED
      BY <1>1, <3>1, <3>2, UntouchedAgrees DEF Exists
  <2>8. QED
    BY <1>2, <2>5, <2>6, <2>7, InvBySession
<1>4. CASE ~Exists(s)
  <2>1. sessionRow' = sessionRow /\ activeConnections' = [activeConnections EXCEPT ![s] = NoSocket]
    BY <1>1, <1>4 DEF Heartbeat
  <2>2. activeConnections' = activeConnections
    BY <1>2, <1>4, <2>1 DEF Agree, PresenceTypes
  <2>3. \A t \in Sessions : Agree(t)'
    <3>1. ASSUME NEW t \in Sessions PROVE Agree(t)'
      <4>1. activeConnections[t] # NoSocket => activeConnections[t] \in openSockets'
        BY <1>1, InvBySession DEF Agree
      <4>2. QED
        BY <1>1, <2>1, <2>2, <4>1, UntouchedAgrees DEF Exists
    <3>2. QED
      BY <3>1
  <2>4. PresenceTypes'
    BY <1>1, <1>2, <2>1, <2>2 DEF PresenceTypes
  <2>5. QED
    BY <1>2, <2>3, <2>4, InvBySession
<1>5. QED
  BY <1>3, <1>4

LEMMA SelectFeatureKeeps ==
  ASSUME PresenceInv, NEW k \in Sockets, NEW s \in Sessions, SelectFeature(k, s)
  PROVE  PresenceInv'
<1>1. PICK f \in Features : sessionRow' = [sessionRow EXCEPT ![s].feature = f]
  BY DEF SelectFeature
<1>2. Exists(s) /\ UNCHANGED <<activeConnections, socketSession, openSockets, sourcing>>
  BY DEF SelectFeature
<1>3. PresenceTypes /\ Ordered' /\ \A t \in Sessions : Agree(t)
  BY <1>2, InvBySession, KeepsServed
<1> DEFINE row == [sessionRow[s] EXCEPT !.feature = f]
<1>4. sessionRow[s] \in Row
  BY <1>2, <1>3 DEF PresenceTypes, Exists
<1>5. row \in Row /\ row # NoRow /\ row.gone = sessionRow[s].gone /\ row.shut = sessionRow[s].shut
  <2>1. row \in Row
    BY <1>4, RowWithFields
  <2>2. row.gone = sessionRow[s].gone /\ row.shut = sessionRow[s].shut
    BY <1>4 DEF Row
  <2>3. QED
    BY <2>1, <2>2, RowsExist
<1>6. sessionRow' = [sessionRow EXCEPT ![s] = row]
  BY <1>1
<1>7. PresenceTypes'
  BY <1>1, <1>2, <1>3, <1>5, <1>6 DEF PresenceTypes
<1>8. ASSUME NEW t \in Sessions PROVE Agree(t)'
  <2>1. Exists(t)' = Exists(t)
    BY <1>2, <1>3, <1>5, <1>6 DEF Exists, PresenceTypes
  <2>2. sessionRow'[t].gone = sessionRow[t].gone /\ sessionRow'[t].shut = sessionRow[t].shut
    BY <1>3, <1>5, <1>6 DEF PresenceTypes
  <2>3. activeConnections[t] # NoSocket => activeConnections[t] \in openSockets'
    BY <1>2, <1>3 DEF Agree
  <2>4. QED
    BY <1>2, <2>1, <2>2, <2>3, UntouchedAgrees
<1>9. QED
  BY <1>3, <1>7, <1>8, InvBySession

\* A step of the Questions alone: one of an existing session is put in place.
LEMMA QuestionKeeps ==
  ASSUME PresenceInv, NEW s \in Sessions, Exists(s), NEW row \in QuestionRow,
         sourcing' = [sourcing EXCEPT ![s] = row],
         UNCHANGED <<sessionRow, activeConnections, socketSession, openSockets>>
  PROVE  PresenceInv'
<1>1. PresenceTypes /\ Ordered' /\ \A t \in Sessions : Agree(t) /\ Newest(t)' = Newest(t) /\ Served(t)' = Served(t)
  BY InvBySession, KeepsServed
<1>2. PresenceTypes'
  BY <1>1 DEF PresenceTypes
<1>3. \A t \in Sessions : Agree(t)'
  BY <1>1 DEF Agree, Exists, Sourced, PresenceTypes, NoSocket
<1>4. QED
  BY <1>1, <1>2, <1>3, InvBySession

\* What a step of the Questions puts in place.
LEMMA QuestionSteps ==
  ASSUME sourcing \in [Sessions -> QuestionRow \cup {NoRow}],
         \A t \in Sessions : Exists(t) => sessionRow[t] \in Row,
         SourcesExist, NEW s \in Sessions,
         \/ \E k \in Sockets : SourceQuestion(k, s)
         \/ QuestionMoves(s)
         \/ \E k \in Sockets, c \in Sessions : GiveQuestion(k, c, s)
  PROVE  /\ Exists(s) /\ UNCHANGED <<sessionRow, activeConnections, socketSession, openSockets>>
         /\ \E row \in QuestionRow : sourcing' = [sourcing EXCEPT ![s] = row]
<1>r. Sourced(s) => sourcing[s] \in QuestionRow /\ Exists(s)
  BY DEF Sourced, SourcesExist
<1>1. CASE \E k \in Sockets : SourceQuestion(k, s)
  <2> DEFINE row == [state |-> "pending", owner |-> sessionRow[s].owner, feature |-> sessionRow[s].feature]
  <2>1. /\ Exists(s) /\ UNCHANGED <<sessionRow, activeConnections, socketSession, openSockets>>
        /\ sourcing' = [sourcing EXCEPT ![s] = row]
    BY <1>1 DEF SourceQuestion
  <2>2. row \in QuestionRow
    BY <2>1 DEF Row, QuestionRow
  <2>3. QED
    BY <2>1, <2>2
<1>2. CASE QuestionMoves(s)
  <2>1. PICK next \in {"unread", "closed"} : sourcing' = [sourcing EXCEPT ![s].state = next]
    BY <1>2 DEF QuestionMoves
  <2> DEFINE row == [sourcing[s] EXCEPT !.state = next]
  <2>2. Sourced(s) /\ UNCHANGED <<sessionRow, activeConnections, socketSession, openSockets>>
    BY <1>2 DEF QuestionMoves, Asking
  <2>3. row \in QuestionRow
    BY <1>r, <2>2 DEF QuestionRow
  <2>4. sourcing' = [sourcing EXCEPT ![s] = row]
    BY <2>1
  <2>5. QED
    BY <1>r, <2>2, <2>3, <2>4
<1>3. CASE \E k \in Sockets, c \in Sessions : GiveQuestion(k, c, s)
  <2>1. PICK o \in SessionOwners : sourcing' = [sourcing EXCEPT ![s].owner = o]
    BY <1>3 DEF GiveQuestion
  <2> DEFINE row == [sourcing[s] EXCEPT !.owner = o]
  <2>2. Sourced(s) /\ UNCHANGED <<sessionRow, activeConnections, socketSession, openSockets>>
    BY <1>3 DEF GiveQuestion, Asking
  <2>3. row \in QuestionRow
    BY <1>r, <2>2 DEF QuestionRow
  <2>4. sourcing' = [sourcing EXCEPT ![s] = row]
    BY <2>1
  <2>5. QED
    BY <1>r, <2>2, <2>3, <2>4
<1>4. QED
  BY <1>1, <1>2, <1>3

LEMMA QuestionStepsKeep ==
  ASSUME PresenceInv, NEW s \in Sessions,
         \/ \E k \in Sockets : SourceQuestion(k, s)
         \/ QuestionMoves(s)
         \/ \E k \in Sockets, c \in Sessions : GiveQuestion(k, c, s)
  PROVE  PresenceInv'
<1>1. /\ sourcing \in [Sessions -> QuestionRow \cup {NoRow}] /\ SourcesExist
      /\ \A t \in Sessions : Exists(t) => sessionRow[t] \in Row
  BY DEF PresenceInv, PresenceTypes, Exists
<1>2. QED
  BY <1>1, QuestionSteps, QuestionKeeps

\* A session that loses its connection k, its newest one if it had an open one.
LEMMA DepartureKeeps ==
  ASSUME PresenceInv, NEW k \in openSockets, NEW s \in Sessions,
         socketSession[k] = s, k = Newest(s) \/ Newest(s) \notin openSockets,
         UNCHANGED <<socketSession, sourcing>>,
         openSockets' = openSockets \ {k},
         activeConnections' = [activeConnections EXCEPT ![s] = NoSocket],
         sessionRow' \in [Sessions -> Row \cup {NoRow}],
         \A t \in Sessions : Exists(t)' = Exists(t),
         \A t \in Sessions \ {s} : sessionRow'[t] = sessionRow[t]
  PROVE  PresenceInv'
<1>1. PresenceTypes /\ Ordered' /\ \A t \in Sessions : Agree(t) /\ Newest(t)' = Newest(t) /\ Served(t)' = Served(t)
  BY InvBySession, KeepsServed
<1>2. PresenceTypes'
  BY <1>1 DEF PresenceTypes
<1>3. Agree(s)'
  BY <1>1 DEF Agree, Sourced, NoSocket, PresenceTypes
<1>4. ASSUME NEW t \in Sessions \ {s} PROVE Agree(t)'
  <2>1. activeConnections'[t] = activeConnections[t]
    BY <1>1 DEF PresenceTypes
  <2>2. activeConnections[t] # NoSocket => activeConnections[t] \in openSockets'
    BY <1>1 DEF Agree, Served
  <2>3. QED
    BY <2>1, <2>2, UntouchedAgrees
<1>5. QED
  BY <1>1, <1>2, <1>3, <1>4, InvBySession

LEMMA ShutdownKeeps ==
  ASSUME PresenceInv, ~LateShutdown, NEW k \in Sockets, NEW s \in Sessions, ShutdownSession(k, s)
  PROVE  PresenceInv'
<1>1. /\ k \in openSockets /\ socketSession[k] = s /\ k = Newest(s)
      /\ activeConnections' = [activeConnections EXCEPT ![s] = NoSocket]
      /\ openSockets' = openSockets \ {k}
      /\ UNCHANGED <<socketSession, sourcing>>
  BY DEF ShutdownSession, Served
<1> DEFINE row == [sessionRow[s] EXCEPT !.shut = TRUE, !.gone = 0]
<1>2. \/ Exists(s) /\ sessionRow' = [sessionRow EXCEPT ![s] = row]
      \/ sessionRow' = sessionRow
  BY DEF ShutdownSession
<1>3. PresenceTypes
  BY InvBySession
<1>4. Exists(s) => row \in Row /\ row # NoRow
  BY <1>3, RowWithFields, RowsExist DEF PresenceTypes, Exists
<1>5. /\ sessionRow' \in [Sessions -> Row \cup {NoRow}]
      /\ \A t \in Sessions \ {s} : sessionRow'[t] = sessionRow[t]
      /\ \A t \in Sessions : Exists(t)' = Exists(t)
  BY <1>2, <1>3, <1>4 DEF PresenceTypes, Exists
<1>6. QED
  BY <1>1, <1>5, DepartureKeeps

LEMMA DisconnectKeeps ==
  ASSUME PresenceInv, NEW k \in Sockets, Disconnect(k)
  PROVE  PresenceInv'
<1> DEFINE s == socketSession[k]
           row == [sessionRow[s] EXCEPT !.gone = 0]
<1>1. /\ k \in openSockets /\ openSockets' = openSockets \ {k}
      /\ UNCHANGED <<socketSession, sourcing>>
  BY DEF Disconnect
<1>2. /\ PresenceTypes /\ s \in Sessions /\ Ordered'
      /\ \A t \in Sessions : Agree(t) /\ Newest(t)' = Newest(t) /\ Served(t)' = Served(t)
  BY <1>1, InvBySession, KeepsServed DEF PresenceTypes
<1>3. CASE activeConnections[s] = k
  <2>1. /\ activeConnections' = [activeConnections EXCEPT ![s] = NoSocket]
        /\ \/ Exists(s) /\ sessionRow' = [sessionRow EXCEPT ![s] = row]
           \/ sessionRow' = sessionRow
    BY <1>3 DEF Disconnect
  <2>2. Exists(s) => row \in Row /\ row # NoRow
    BY <1>2, RowWithFields, RowsExist DEF PresenceTypes, Exists
  <2>3. /\ sessionRow' \in [Sessions -> Row \cup {NoRow}]
        /\ \A t \in Sessions \ {s} : sessionRow'[t] = sessionRow[t]
        /\ \A t \in Sessions : Exists(t)' = Exists(t)
    BY <1>2, <2>1, <2>2 DEF PresenceTypes, Exists
  <2>4. k = Newest(s) \/ Newest(s) \notin openSockets
    BY <1>2, <1>3, PresenceAssumption DEF Agree, NoSocket, Sockets
  <2>5. QED
    BY <1>1, <1>2, <2>1, <2>3, <2>4, DepartureKeeps
<1>4. CASE activeConnections[s] # k
  <2>1. UNCHANGED <<activeConnections, sessionRow>>
    BY <1>4 DEF Disconnect
  <2>2. PresenceTypes'
    BY <1>1, <1>2, <2>1 DEF PresenceTypes
  <2>3. ASSUME NEW t \in Sessions PROVE Agree(t)'
    <3>1. activeConnections[t] # NoSocket => activeConnections[t] \in openSockets'
      BY <1>1, <1>2, <1>4 DEF Agree, Served
    <3>2. QED
      BY <1>1, <2>1, <3>1, UntouchedAgrees DEF Exists
  <2>4. QED
    BY <1>2, <2>2, <2>3, InvBySession
<1>5. QED
  BY <1>3, <1>4

LEMMA PruneKeeps ==
  ASSUME PresenceInv, PruneOfflineSessions
  PROVE  PresenceInv'
<1>1. /\ sessionRow' = [s \in Sessions |-> IF Prunable(s) THEN NoRow ELSE sessionRow[s]]
      /\ activeConnections' = [s \in Sessions |-> IF Prunable(s) THEN NoSocket ELSE activeConnections[s]]
      /\ UNCHANGED <<socketSession, openSockets, sourcing>>
  BY DEF PruneOfflineSessions
<1>2. PresenceTypes /\ Ordered' /\ \A t \in Sessions : Agree(t) /\ Newest(t)' = Newest(t) /\ Served(t)' = Served(t)
  BY <1>1, InvBySession, KeepsServed
<1>3. PresenceTypes'
  BY <1>1, <1>2 DEF PresenceTypes
<1>4. ASSUME NEW t \in Sessions PROVE Agree(t)'
  <2>1. CASE Prunable(t)
    BY <1>1, <2>1 DEF Agree, Exists, Sourced, NoSocket, Prunable
  <2>2. CASE ~Prunable(t)
    <3>1. sessionRow'[t] = sessionRow[t] /\ activeConnections'[t] = activeConnections[t]
      BY <1>1, <2>2
    <3>2. activeConnections[t] # NoSocket => activeConnections[t] \in openSockets'
      BY <1>1, <1>2 DEF Agree
    <3>3. QED
      BY <1>1, <3>1, <3>2, UntouchedAgrees DEF Exists
  <2>3. QED
    BY <2>1, <2>2
<1>5. QED
  BY <1>2, <1>3, <1>4, InvBySession

LEMMA OlderAges ==
  /\ \A span \in Ages : Older(span) \in Ages
  /\ Older(Never) = Never
  /\ \A span \in Ages : Older(span) # Never
<1>1. Never \notin Nat /\ RetainFor \in Nat
  BY PresenceAssumption
<1>2. ASSUME NEW span \in Ages PROVE Older(span) \in Ages
  <2> DEFINE both == {span + 1, Oldest}
  <2>1. span \in Nat /\ span # Never
    BY <1>1 DEF Ages, Oldest
  <2>2. \E x \in both : \A y \in both : x <= y
    BY <1>1, <2>1 DEF Oldest
  <2>3. Min(both) \in both /\ \A y \in both : Min(both) <= y
    BY <2>2 DEF Min
  <2>4. QED
    BY <1>1, <2>1, <2>3 DEF Older, Ages, Oldest
<1>3. QED
  BY <1>1, <1>2 DEF Older, Ages, Oldest

LEMMA TimePassesKeeps ==
  ASSUME PresenceInv, TimePasses
  PROVE  PresenceInv'
<1> DEFINE old(s) == [sessionRow[s] EXCEPT !.beat = Older(@), !.gone = Older(@)]
<1>1. /\ sessionRow' = [s \in Sessions |-> IF Exists(s) THEN old(s) ELSE NoRow]
      /\ UNCHANGED <<activeConnections, socketSession, openSockets, sourcing>>
  BY DEF TimePasses
<1>2. PresenceTypes /\ Ordered' /\ \A t \in Sessions : Agree(t) /\ Newest(t)' = Newest(t) /\ Served(t)' = Served(t)
  BY <1>1, InvBySession, KeepsServed
<1>3. ASSUME NEW s \in Sessions, Exists(s)
      PROVE  /\ old(s) \in Row /\ old(s) # NoRow /\ old(s).shut = sessionRow[s].shut
             /\ sessionRow[s].gone = Never => old(s).gone = Never
  <2>1. sessionRow[s] \in Row
    BY <1>2, <1>3 DEF PresenceTypes, Exists
  <2>2. Older(sessionRow[s].beat) \in Ages /\ Older(sessionRow[s].gone) \in Ages \cup {Never}
    BY <2>1, OlderAges DEF Row
  <2>3. old(s) \in Row /\ old(s).shut = sessionRow[s].shut /\ old(s).gone = Older(sessionRow[s].gone)
    BY <2>1, <2>2 DEF Row
  <2>4. QED
    BY <2>3, OlderAges, RowsExist
<1>4. \A s \in Sessions : sessionRow'[s] = IF Exists(s) THEN old(s) ELSE NoRow
  BY <1>1
<1>5. PresenceTypes'
  <2>1. sessionRow' \in [Sessions -> Row \cup {NoRow}]
    BY <1>1, <1>3
  <2>2. QED
    BY <1>1, <1>2, <2>1 DEF PresenceTypes
<1>6. ASSUME NEW t \in Sessions PROVE Agree(t)'
  <2>1. Exists(t)' = Exists(t)
    BY <1>3, <1>4 DEF Exists
  <2>2. Agree(t) /\ UNCHANGED <<activeConnections[t], sourcing[t], openSockets, Newest(t), Served(t)>>
    BY <1>1, <1>2
  <2>3. Exists(t) /\ sessionRow[t].gone = Never /\ ~sessionRow[t].shut
          => sessionRow'[t].gone = Never /\ ~sessionRow'[t].shut
    BY <1>3, <1>4
  <2>4. QED
    BY <2>1, <2>2, <2>3 DEF Agree, Sourced, NoSocket
<1>7. QED
  BY <1>2, <1>5, <1>6, InvBySession

LEMMA RestartKeeps ==
  ASSUME PresenceInv, RestartServer
  PROVE  PresenceInv'
<1>1. /\ openSockets' = {} /\ activeConnections' = [s \in Sessions |-> NoSocket]
      /\ UNCHANGED <<sessionRow, socketSession, sourcing>>
  BY DEF RestartServer
<1>2. PresenceTypes /\ Ordered' /\ \A t \in Sessions : Agree(t)
  BY <1>1, InvBySession, KeepsServed
<1>3. PresenceTypes'
  BY <1>1, <1>2 DEF PresenceTypes
<1>4. \A t \in Sessions : Agree(t)'
  BY <1>1, <1>2 DEF Agree, Exists, Sourced, NoSocket
<1>5. QED
  BY <1>2, <1>3, <1>4, InvBySession

-----------------------------------------------------------------------------

LEMMA PresenceStep == PresenceInv /\ ~LateShutdown /\ [PresenceNext]_presenceVars => PresenceInv'
<1> SUFFICES ASSUME PresenceInv, ~LateShutdown, [PresenceNext]_presenceVars
             PROVE  PresenceInv'
  OBVIOUS
<1>1. ASSUME NEW k \in Sockets, NEW s \in Sessions,
             \/ Register(k, s) \/ Heartbeat(k, s) \/ SelectFeature(k, s)
             \/ ShutdownSession(k, s)
      PROVE  PresenceInv'
  BY <1>1, RegisterKeeps, HeartbeatKeeps, SelectFeatureKeeps, ShutdownKeeps
<1>2. ASSUME NEW k \in Sockets, Disconnect(k) PROVE PresenceInv'
  BY <1>2, DisconnectKeeps
<1>3. ASSUME NEW s \in Sessions,
             \/ \E k \in Sockets : SourceQuestion(k, s)
             \/ QuestionMoves(s)
             \/ \E k \in Sockets, c \in Sessions : GiveQuestion(k, c, s)
      PROVE  PresenceInv'
  BY <1>3, QuestionStepsKeep
<1>4. CASE PruneOfflineSessions
  BY <1>4, PruneKeeps
<1>5. CASE TimePasses
  BY <1>5, TimePassesKeeps
<1>6. CASE RestartServer
  BY <1>6, RestartKeeps
<1>7. CASE UNCHANGED presenceVars
  <2>1. UNCHANGED <<sessionRow, activeConnections, socketSession, openSockets, sourcing>>
    BY <1>7 DEF presenceVars
  <2>2. /\ PresenceTypes /\ Ordered'
        /\ \A t \in Sessions : Agree(t) /\ Newest(t)' = Newest(t) /\ Served(t)' = Served(t)
    BY <2>1, InvBySession, KeepsServed
  <2>3. PresenceTypes' /\ \A t \in Sessions : Agree(t)'
    BY <2>1, <2>2 DEF PresenceTypes, Agree, Exists, Sourced, NoSocket
  <2>4. QED
    BY <2>2, <2>3, InvBySession
<1>8. QED
  BY <1>1, <1>2, <1>3, <1>4, <1>5, <1>6, <1>7 DEF PresenceNext

\* The lease is about the table alone, and the table knows who is connected.
LEMMA LeaseFollows == PresenceInv => LeaseIsHonest
<1> SUFFICES ASSUME PresenceInv, NEW o \in SessionOwners, OfflineLease(o),
                    NEW s \in SessionsOf(o), Newest(s) \in openSockets
             PROVE  sessionRow[s].beat >= OfflineAfter
  BY DEF LeaseIsHonest
<1>1. s \in Sessions /\ Exists(s) /\ PresenceTypes /\ Agree(s)
  BY InvBySession DEF SessionsOf
<1>2. activeConnections[s] # NoSocket
  BY <1>1, PresenceAssumption DEF Agree, PresenceTypes, Sockets, NoSocket
<1>3. sessionRow[s].gone = Never /\ ~sessionRow[s].shut
  BY <1>1, <1>2 DEF Agree
<1>4. QED
  BY <1>3 DEF OfflineLease

\* A session is reachable exactly through its newest open connection, and the
\* Questions of an owner are not taken over while one of its sessions is heard
\* of, however connections, closes, prunings, restarts and the clock interleave
\* (SessionStore.register, heartbeat, disconnectConnection, hasOfflineLease). It
\* needs that a shutdown does not arrive from a connection that was replaced.
THEOREM PresenceIsReal == ~LateShutdown => (PresenceSpec => []PresenceIsTrue)
<1> SUFFICES ASSUME ~LateShutdown PROVE PresenceSpec => []PresenceIsTrue
  OBVIOUS
<1>1. PresenceInv /\ [PresenceNext]_presenceVars => PresenceInv'
  BY PresenceStep
<1>2. PresenceInv => PresenceIsTrue
  BY LeaseFollows DEF PresenceInv, PresenceIsTrue
<1>3. QED
  BY PresenceStarts, <1>1, <1>2, PTL DEF PresenceSpec

-----------------------------------------------------------------------------
(* That rows with Questions stay does not depend on who is connected.        *)

SourcesKept ==
  /\ sessionRow \in [Sessions -> Row \cup {NoRow}]
  /\ sourcing \in [Sessions -> QuestionRow \cup {NoRow}]
  /\ SourcesExist

LEMMA SourcedStarts == PresenceInit => SourcesKept
BY DEF PresenceInit, SourcesKept, SourcesExist, Sourced

\* A step that puts rows in the place of rows and opens no Question.
LEMMA RowsReplaced ==
  ASSUME SourcesKept, UNCHANGED sourcing, NEW s \in Sessions, NEW row \in Row,
         sessionRow' = [sessionRow EXCEPT ![s] = row]
  PROVE  SourcesKept'
BY RowsExist DEF SourcesKept, SourcesExist, Sourced, Exists

LEMMA RowsUnchanged ==
  ASSUME SourcesKept, UNCHANGED <<sessionRow, sourcing>>
  PROVE  SourcesKept'
BY DEF SourcesKept, SourcesExist, Sourced, Exists

LEMMA SourcedStep == SourcesKept /\ [PresenceNext]_presenceVars => SourcesKept'
<1> SUFFICES ASSUME SourcesKept, [PresenceNext]_presenceVars
             PROVE  SourcesKept'
  OBVIOUS
<1>r. \A s \in Sessions : Exists(s) => sessionRow[s] \in Row
  BY DEF SourcesKept, Exists
<1>1. ASSUME NEW k \in Sockets, NEW s \in Sessions, Register(k, s) PROVE SourcesKept'
  <2>1. PICK o \in SessionOwners, f \in Features : sessionRow' = [sessionRow EXCEPT ![s] =
          [owner |-> o, feature |-> f, beat |-> 0, gone |-> Never, shut |-> FALSE]]
    BY <1>1 DEF Register
  <2>2. [owner |-> o, feature |-> f, beat |-> 0, gone |-> Never, shut |-> FALSE] \in Row
    BY PresenceAssumption DEF Row, Ages, Oldest
  <2>3. QED
    BY <1>1, <2>1, <2>2, RowsReplaced DEF Register
<1>2. ASSUME NEW k \in Sockets, NEW s \in Sessions, Heartbeat(k, s) \/ ShutdownSession(k, s)
      PROVE  SourcesKept'
  <2> DEFINE beaten == [sessionRow[s] EXCEPT !.beat = 0, !.gone = Never, !.shut = FALSE]
             left == [sessionRow[s] EXCEPT !.shut = TRUE, !.gone = 0]
  <2>1. Exists(s) => beaten \in Row /\ left \in Row
    BY <1>r, RowWithFields
  <2>2. /\ UNCHANGED sourcing
        /\ \/ sessionRow' = sessionRow
           \/ Exists(s) /\ sessionRow' = [sessionRow EXCEPT ![s] = beaten]
           \/ Exists(s) /\ sessionRow' = [sessionRow EXCEPT ![s] = left]
    BY <1>2 DEF Heartbeat, ShutdownSession
  <2>3. QED
    BY <2>1, <2>2, RowsReplaced, RowsUnchanged
<1>3. ASSUME NEW k \in Sockets, NEW s \in Sessions, SelectFeature(k, s) PROVE SourcesKept'
  <2>1. PICK f \in Features : sessionRow' = [sessionRow EXCEPT ![s].feature = f]
    BY <1>3 DEF SelectFeature
  <2>2. sessionRow' = [sessionRow EXCEPT ![s] = [sessionRow[s] EXCEPT !.feature = f]]
    BY <2>1
  <2>3. [sessionRow[s] EXCEPT !.feature = f] \in Row
    BY <1>3, <1>r, RowWithFields DEF SelectFeature
  <2>4. QED
    BY <1>3, <2>2, <2>3, RowsReplaced DEF SelectFeature
<1>4. ASSUME NEW s \in Sessions,
             \/ \E k \in Sockets : SourceQuestion(k, s)
             \/ QuestionMoves(s)
             \/ \E k \in Sockets, c \in Sessions : GiveQuestion(k, c, s)
      PROVE  SourcesKept'
  <2>1. Exists(s) /\ UNCHANGED sessionRow /\ \E row \in QuestionRow : sourcing' = [sourcing EXCEPT ![s] = row]
    BY <1>4, <1>r, QuestionSteps DEF SourcesKept
  <2>2. QED
    BY <2>1 DEF SourcesKept, SourcesExist, Sourced, Exists
<1>5. ASSUME NEW k \in Sockets, Disconnect(k) PROVE SourcesKept'
  <2> DEFINE s == socketSession[k]
             row == [sessionRow[s] EXCEPT !.gone = 0]
  <2>1. /\ UNCHANGED sourcing
        /\ \/ sessionRow' = sessionRow
           \/ Exists(s) /\ sessionRow' = [sessionRow EXCEPT ![s] = row]
    BY <1>5 DEF Disconnect
  <2>2. CASE s \in Sessions
    BY <1>r, <2>1, <2>2, RowWithFields, RowsReplaced, RowsUnchanged
  <2>3. CASE s \notin Sessions
    BY <2>1, <2>3, RowsUnchanged DEF SourcesKept
  <2>4. QED
    BY <2>2, <2>3
<1>6. CASE PruneOfflineSessions
  BY <1>6 DEF PruneOfflineSessions, Prunable, SourcesKept, SourcesExist, Sourced, Exists
<1>7. CASE TimePasses
  <2> DEFINE old(s) == [sessionRow[s] EXCEPT !.beat = Older(@), !.gone = Older(@)]
  <2>1. ASSUME NEW s \in Sessions, Exists(s) PROVE old(s) \in Row /\ old(s) # NoRow
    <3>1. Older(sessionRow[s].beat) \in Ages /\ Older(sessionRow[s].gone) \in Ages \cup {Never}
      BY <1>r, <2>1, OlderAges DEF Row
    <3>2. QED
      BY <1>r, <2>1, <3>1, RowsExist DEF Row
  <2>2. UNCHANGED sourcing /\ sessionRow' = [s \in Sessions |-> IF Exists(s) THEN old(s) ELSE NoRow]
    BY <1>7 DEF TimePasses
  <2>3. sessionRow' \in [Sessions -> Row \cup {NoRow}]
    BY <2>1, <2>2
  <2>4. \A s \in Sessions : Exists(s)' = Exists(s)
    BY <2>1, <2>2 DEF Exists
  <2>5. QED
    BY <2>2, <2>3, <2>4 DEF SourcesKept, SourcesExist, Sourced
<1>8. CASE RestartServer
  BY <1>8, RowsUnchanged DEF RestartServer
<1>9. CASE UNCHANGED presenceVars
  BY <1>9, RowsUnchanged DEF presenceVars
<1>10. ASSUME NEW k \in Sockets, NEW s \in Sessions,
              \/ Register(k, s) \/ Heartbeat(k, s) \/ SelectFeature(k, s)
              \/ ShutdownSession(k, s)
       PROVE  SourcesKept'
  BY <1>1, <1>2, <1>3, <1>10
<1>11. QED
  BY <1>4, <1>5, <1>6, <1>7, <1>8, <1>9, <1>10 DEF PresenceNext

\* Within its own feature, the asking owner has a session and a Question.
LEMMA AskerIsListed ==
  ASSUME NEW s \in Sessions, Exists(s), Asking(s), NEW within,
         sourcing[s].owner = sessionRow[s].owner,
         {sourcing[s].feature, sessionRow[s].feature} \subseteq within
  PROVE  Listed(sourcing[s].owner, within)
<1>1. s \in ListedSessions(sourcing[s].owner, within)
  BY DEF ListedSessions, SessionsOf
<1>2. Sourced(s) /\ sourcing[s].state \in {"pending", "unread"} /\ sourcing[s].feature \in within
  BY DEF Asking
<1>3. QED
  BY <1>1, <1>2 DEF Listed

\* An owner without an offline lease has a session, and the page of the whole
\* worktree shows it with its Question.
LEMMA HolderIsListed ==
  ASSUME SourcesKept, NEW s \in Sessions, Asking(s), ~OfflineLease(sourcing[s].owner)
  PROVE  Listed(sourcing[s].owner, Features)
<1>1. PICK t \in SessionsOf(sourcing[s].owner) : TRUE
  BY DEF OfflineLease
<1>2. t \in Sessions /\ sessionRow[t] \in Row
  BY <1>1 DEF SessionsOf, Exists, SourcesKept
<1>3. t \in ListedSessions(sourcing[s].owner, Features)
  BY <1>1, <1>2 DEF ListedSessions, Row
<1>4. Sourced(s) /\ sourcing[s] \in QuestionRow /\ sourcing[s].state \in {"pending", "unread"}
  BY DEF Asking, Sourced, SourcesKept
<1>5. sourcing[s].feature \in Features
  BY <1>4 DEF QuestionRow
<1>6. QED
  BY <1>3, <1>4, <1>5 DEF Listed

LEMMA ActionableFollows == SourcesKept => ActionableStaysVisible
<1> SUFFICES ASSUME SourcesKept, NEW s \in Sessions, Sourced(s)
             PROVE  /\ Exists(s)
                    /\ Asking(s) =>
                         /\ Visible(s)
                         /\ sourcing[s].owner = sessionRow[s].owner =>
                              \A c \in Sessions, wide \in BOOLEAN :
                                Exists(c) /\ {sourcing[s].feature, sessionRow[s].feature} \subseteq Scope(c, wide) =>
                                  Listed(sourcing[s].owner, Scope(c, wide))
                         /\ OfflineLease(sourcing[s].owner) \/ Listed(sourcing[s].owner, Features)
  BY DEF ActionableStaysVisible
<1>1. Exists(s)
  BY DEF SourcesKept, SourcesExist
<1>2. Asking(s) => Visible(s)
  BY <1>1 DEF Visible
<1>3. QED
  BY <1>1, <1>2, AskerIsListed, HolderIsListed

\* A session a Question refers to is never pruned; while the Question is pending
\* its session is in the snapshot, and its owner is on the owners' page of every
\* scope in which it asked and still works; whoever else the Question is given to
\* is on the worktree's page, or its Questions may be taken over
\* (SessionStore.snapshot, pruneOfflineSessions, listPostboxOwnersPage).
THEOREM ActionableIsSeen == PresenceSpec => []ActionableStaysVisible
BY SourcedStarts, SourcedStep, ActionableFollows, PTL DEF PresenceSpec

-----------------------------------------------------------------------------
(* However many sessions a Pi process goes through, and however many calls,  *)
(* supervisor ticks and registrations overlap at their awaits, there is one  *)
(* client, it is the active session's, and that session gets one.            *)

\* Tasks and the supervisor belong to sessions, the supervisor to the active
\* one; only an agent's call asks whether a client is connected.
WellFormed(t) ==
  /\ t.session # NoSession /\ t.target \in BOOLEAN
  /\ t.stage = "probe" => t.kind \in {"retry", "poll"}
Owned ==
  /\ \A t \in tasks : WellFormed(t)
  /\ started \in Nat
  /\ supervisor # NoSupervisor => supervisor.session = scope /\ scope # NoSession

\* Clients are numbered in the order they are made.
Numbered == made \in Nat /\ installed \in 0..made

\* Once the active session has a way to a client, one remains that does not
\* depend on the outcome of an agent's call: the client, the supervisor, the
\* start's own registration, or one that has found its target.
Settles(t) == t.kind \in {"start", "tick"} \/ t.stage = "collect"
Provided ==
  scope \notin skipped \cup dismissed \cup {NoSession} =>
    \/ installed # NoClient \/ supervisor # NoSupervisor
    \/ \E t \in tasks : t.session = scope /\ Settles(t)

RegistrationInv == Owned /\ Numbered /\ OneClient /\ Provided

LEMMA RegistrationStarts == RegistrationInit => RegistrationInv
BY DEF RegistrationInit, RegistrationInv, Owned, Numbered, OneClient, Provided,
       NoSession, NoClient, NoSupervisor

LEMMA SupervisorFields ==
  ASSUME NEW s
  PROVE  SupervisorOf(s).session = s /\ SupervisorOf(s) # NoSupervisor
BY DEF SupervisorOf, NoSupervisor

\* Taking a client away, or keeping it, for an agent's call.
LEMMA RetryKeeps ==
  ASSUME RegistrationInv, NEW t \in tasks, NEW target \in BOOLEAN, RetryWith(t, target),
         t.kind \in {"retry", "poll"}, t.stage # "collect",
         UNCHANGED <<scope, started, skipped>>
  PROVE  RegistrationInv'
<1>1. CASE KeepsClient(t)
  <2>1. tasks' = tasks \ {t} /\ UNCHANGED <<fleet, supervisor, dismissed>>
    BY <1>1 DEF RetryWith
  <2>2. QED
    BY <1>1, <2>1 DEF RegistrationInv, Owned, Numbered, OneClient, Provided, fleet, KeepsClient
<1>2. CASE ~KeepsClient(t)
  <2> DEFINE new == Task(t.kind, t.session, "collect", TRUE, NoClient)
  <2>1. /\ installed' = NoClient /\ UNCHANGED made /\ running' = running \ {installed}
        /\ dismissed' = IF (installed # NoClient /\ ~target) \/ t.session # scope
                        THEN dismissed \cup {scope} ELSE dismissed
    BY <1>2 DEF RetryWith, Stop
  <2>2. OneClient' /\ Numbered'
    BY <2>1 DEF RegistrationInv, OneClient, Numbered, NoClient
  <2>3. CASE target
    <3>1. supervisor' = NoSupervisor /\ tasks' = (tasks \ {t}) \cup {new}
      BY <1>2, <2>3 DEF RetryWith
    <3>2. new.session = t.session /\ new.stage = "collect" /\ new.target \in BOOLEAN
      BY DEF Task
    <3>3. Owned'
      BY <3>1, <3>2 DEF RegistrationInv, Owned, WellFormed
    <3>4. Provided'
      BY <2>1, <3>1, <3>2 DEF Provided, Settles
    <3>5. QED
      BY <2>2, <3>3, <3>4 DEF RegistrationInv
  <2>4. CASE ~target
    <3>1. UNCHANGED supervisor /\ tasks' = tasks \ {t}
      BY <1>2, <2>4 DEF RetryWith, Unregistered
    <3>2. ~Settles(t)
      BY DEF Settles
    <3>3. Owned' /\ Provided'
      BY <2>1, <2>4, <3>1, <3>2 DEF RegistrationInv, Owned, Provided, Settles
    <3>4. QED
      BY <2>2, <3>3 DEF RegistrationInv
  <2>5. QED
    BY <2>3, <2>4
<1>3. QED
  BY <1>1, <1>2

LEMMA RegistrationInductive ==
  ASSUME RegistrationInv, [RegistrationNext]_registrationVars
  PROVE  RegistrationInv'
<1> USE DEF RegistrationInv
<1>1. CASE SessionStart
  <2> DEFINE new == Task("start", started + 1, "resolve", FALSE, NoClient)
  <2>1. new.session = started + 1 /\ WellFormed(new) /\ Settles(new)
    BY DEF Task, Settles, WellFormed, Owned, NoSession
  <2>2. tasks' = tasks \cup {new} /\ scope' = started + 1 /\ supervisor' = NoSupervisor
    BY <1>1 DEF SessionStart
  <2>3. Owned'
    <3>1. started' \in Nat
      BY <1>1 DEF SessionStart, Owned
    <3>2. \A t \in tasks' : WellFormed(t)
      BY <2>1, <2>2 DEF Owned
    <3>3. QED
      BY <2>2, <3>1, <3>2 DEF Owned, NoSupervisor
  <2>4. Provided'
    BY <2>1, <2>2 DEF Provided
  <2>5. Numbered' /\ OneClient'
    BY <1>1, <2>2 DEF SessionStart, Owned, Numbered, OneClient, fleet, NoSession, NoClient
  <2>6. QED
    BY <2>3, <2>4, <2>5
<1>2. CASE SessionShutdown
  BY <1>2 DEF SessionShutdown, Stop, Owned, Numbered, OneClient, Provided, NoSession, NoClient
<1>3. CASE SupervisorTick
  <2>1. supervisor' # NoSupervisor => supervisor'.session = supervisor.session
    BY <1>3 DEF SupervisorTick
  <2>2. QED
    BY <1>3, <2>1 DEF SupervisorTick, Owned, Numbered, OneClient, Provided, fleet, NoSupervisor
<1>4. CASE SupervisorResolved
  <2> DEFINE new == Task("tick", supervisor.session, "collect", TRUE, NoClient)
  <2>1. new.session = supervisor.session /\ WellFormed(new) /\ Settles(new)
    BY <1>4 DEF Task, SupervisorResolved, Owned, Settles, WellFormed, NoSupervisor
  <2>2. supervisor # NoSupervisor
    BY <1>4 DEF SupervisorResolved, NoSupervisor
  <2>3. CASE installed # NoClient
    BY <1>4, <2>3 DEF SupervisorResolved, Owned, Numbered, OneClient, Provided, fleet
  <2>4. CASE installed = NoClient /\ ~Available
    BY <1>4, <2>2, <2>4, SupervisorFields
       DEF SupervisorResolved, Owned, Numbered, OneClient, Provided, fleet
  <2>5. CASE installed = NoClient /\ Available
    <3>1. supervisor' = NoSupervisor /\ tasks' = tasks \cup {new}
      BY <1>4, <2>5 DEF SupervisorResolved
    <3>2. Owned'
      BY <1>4, <2>1, <3>1 DEF SupervisorResolved, Owned
    <3>3. Provided'
      BY <1>4, <2>1, <2>2, <3>1 DEF SupervisorResolved, Owned, Provided
    <3>4. QED
      BY <1>4, <3>2, <3>3 DEF SupervisorResolved, Numbered, OneClient, fleet
  <2>6. QED
    BY <2>3, <2>4, <2>5
<1>5. ASSUME NEW t \in tasks, StartResolved(t) PROVE RegistrationInv'
  <2> DEFINE new == Task("start", scope, "collect", TRUE, installed)
  <2>1. CASE t.session # scope
    BY <1>5, <2>1 DEF StartResolved, Owned, Numbered, OneClient, Provided, fleet
  <2>2. CASE t.session = scope /\ ~Available
    <3>1. supervisor' = Supervise /\ tasks' = tasks \ {t} /\ scope # NoSession
      BY <1>5, <2>2 DEF StartResolved, Owned, WellFormed
    <3>2. QED
      BY <1>5, <3>1, SupervisorFields
         DEF StartResolved, Owned, Numbered, OneClient, Provided, fleet, Supervise
  <2>3. CASE t.session = scope /\ Available
    <3>1. tasks' = (tasks \ {t}) \cup {new} /\ UNCHANGED supervisor
      BY <1>5, <2>3 DEF StartResolved
    <3>2. new.session = scope /\ WellFormed(new) /\ Settles(new)
      BY <1>5, <2>3 DEF Task, Settles, WellFormed, Owned
    <3>3. QED
      BY <1>5, <3>1, <3>2 DEF StartResolved, Owned, Numbered, OneClient, Provided, fleet
  <2>4. QED
    BY <1>5, <2>1, <2>2, <2>3 DEF StartResolved
<1>6. ASSUME NEW t \in tasks, RegisterTarget(t) PROVE RegistrationInv'
  <2>1. Owned'
    BY <1>6 DEF RegisterTarget, Owned
  <2>2. CASE Outdated(t) \/ (~Outdated(t) /\ skipped' = skipped \cup {scope} /\ UNCHANGED fleet)
    BY <1>6, <2>1, <2>2 DEF RegisterTarget, Outdated, Numbered, OneClient, Provided, fleet
  <2>3. CASE ~Outdated(t) /\ installed' = made + 1
    <3>1. made' = made + 1 /\ running' = (running \ {installed}) \cup {made + 1}
      BY <1>6, <2>3 DEF RegisterTarget, fleet, Numbered
    <3>2. scope # NoSession /\ made + 1 # NoClient
      BY <1>6, <2>3 DEF Outdated, Owned, WellFormed, Numbered, NoClient
    <3>3. Numbered' /\ OneClient'
      BY <1>6, <2>3, <3>1, <3>2 DEF RegisterTarget, Numbered, OneClient, NoClient
    <3>4. QED
      BY <1>6, <2>1, <2>3, <3>2, <3>3 DEF RegisterTarget, Provided
  <2>4. QED
    BY <1>6, <2>2, <2>3 DEF RegisterTarget
<1>7. ASSUME NEW t \in tasks, RetryResolved(t) PROVE RegistrationInv'
  <2>1. CASE t.session # scope
    BY <1>7, <2>1 DEF RetryResolved, Unregistered, Owned, Numbered, OneClient, Provided, fleet
  <2>2. CASE t.session = scope /\ installed # NoClient
    <3> DEFINE new == Task(t.kind, t.session, "probe", Available, installed)
    <3>1. tasks' = (tasks \ {t}) \cup {new} /\ UNCHANGED <<fleet, supervisor, dismissed>>
      BY <1>7, <2>2 DEF RetryResolved
    <3>2. WellFormed(new)
      BY <1>7 DEF Task, RetryResolved, WellFormed, Owned, Available
    <3>3. QED
      BY <1>7, <2>2, <3>1, <3>2 DEF RetryResolved, Owned, Numbered, OneClient, Provided, fleet
  <2>3. CASE t.session = scope /\ installed = NoClient
    BY <1>7, <2>3, RetryKeeps DEF RetryResolved, Available
  <2>4. QED
    BY <2>1, <2>2, <2>3
<1>8. ASSUME NEW t \in tasks, RetryProbed(t) PROVE RegistrationInv'
  <2>1. CASE tasks' = tasks \ {t} /\ UNCHANGED <<fleet, supervisor, dismissed>> /\ t.seen \in linked
    BY <1>8, <2>1 DEF RetryProbed, Owned, Numbered, OneClient, Provided, fleet, Settles, WellFormed
  <2>2. CASE RetryWith(t, t.target)
    BY <1>8, <2>2, RetryKeeps DEF RetryProbed, Owned, WellFormed
  <2>3. QED
    BY <1>8, <2>1, <2>2 DEF RetryProbed
<1>9. CASE Call
  <2>1. WellFormed(Task("retry", scope, "resolve", FALSE, NoClient))
    BY <1>9 DEF Task, Call, WellFormed
  <2>2. QED
    BY <1>9, <2>1 DEF Call, Owned, Numbered, OneClient, Provided, fleet
<1>10. CASE PollForRegistration
  <2>1. WellFormed(Task("poll", scope, "resolve", FALSE, NoClient))
    BY <1>10 DEF Task, PollForRegistration, WellFormed
  <2>2. QED
    BY <1>10, <2>1 DEF PollForRegistration, Owned, Numbered, OneClient, Provided, fleet
<1>11. CASE PollTimesOut
  BY <1>11 DEF PollTimesOut, Owned, Numbered, OneClient, Provided, fleet
<1>12. CASE ServerChanges
  BY <1>12 DEF ServerChanges, Owned, Numbered, OneClient, Provided
<1>13. ASSUME NEW c \in running, Link(c) \/ Ask(c) PROVE RegistrationInv'
  BY <1>13 DEF Link, Ask, Owned, Numbered, OneClient, Provided
<1>14. CASE UNCHANGED registrationVars
  BY <1>14 DEF registrationVars, Owned, Numbered, OneClient, Provided
<1>15. QED
  BY <1>1, <1>2, <1>3, <1>4, <1>5, <1>6, <1>7, <1>8, <1>9, <1>10, <1>11, <1>12, <1>13, <1>14
     DEF RegistrationNext

\* However registrations overlap, a process has one client, the active
\* session's, and unless the human was told otherwise or a call dismissed it,
\* the active session has one or is going to.
THEOREM OneClientServed == RegistrationSpec => []RegistrationSound
<1>1. RegistrationInv => RegistrationSound
  BY DEF RegistrationInv, RegistrationSound, Provided, SessionIsServed, WillConnect
<1>2. QED
  BY <1>1, RegistrationStarts, RegistrationInductive, PTL DEF RegistrationSpec

-----------------------------------------------------------------------------
(* The server of a profile.  The lock of the record makes a refresh or a      *)
(* cleanup safe to write what it has read, even if a process ends while it    *)
(* holds the lock: then nobody else writes.                                   *)

TargetTypes ==
  /\ process \in [Servers -> {"idle", "starting", "listening", "closing", "gone"}]
  /\ jobs \subseteq [server : Servers, kind : {"publish", "refresh", "cleanup"},
                    stage : {"lock", "read", "write"}]
  /\ record \in Servers \cup {Nothing} /\ targetLock \in Servers \cup {Nothing}
  /\ published \subseteq Servers

\* Only a live server has jobs, one of all the jobs is past the lock, and the
\* lock is that of its server.
JobsLocked ==
  /\ \A j \in jobs :
       /\ process[j.server] \in {"listening", "closing"}
       /\ j.kind = "cleanup" => process[j.server] = "closing"
       /\ j.stage # "lock" => targetLock = j.server
       /\ j.stage = "write" /\ j.kind # "publish" => record = j.server
       /\ j.stage = "read" => j.kind # "publish"
  /\ \A j, k \in jobs : j.stage # "lock" /\ k.stage # "lock" => j = k
  /\ \A i \in published : process[i] \in {"listening", "closing"}

\* A server that listens is about to be published, is, was published over, or
\* met a failure.
Announced ==
  \A i \in Servers :
    process[i] = "listening" =>
      \/ i \in published \cup overtaken \cup unannounced
      \/ \E j \in jobs : j.server = i /\ j.kind = "publish"

TargetInv == TargetTypes /\ JobsLocked /\ PublishedIsFound /\ Announced

LEMMA TargetStarts == TargetInit => TargetInv
BY DEF TargetInit, TargetInv, TargetTypes, JobsLocked, PublishedIsFound, Announced

\* The readers, the age of the record and a new process concern nothing of this.
LEMMA TargetUndisturbed ==
  ASSUME TargetInv, UNCHANGED <<published, record, targetLock, jobs, overtaken, unannounced>>,
         \/ UNCHANGED process
         \/ \E i \in Servers : \E to \in {"starting", "gone"} :
              process[i] \in {"idle", "starting"} /\ process' = [process EXCEPT ![i] = to]
  PROVE  TargetInv'
<1>1. /\ process' \in [Servers -> {"idle", "starting", "listening", "closing", "gone"}]
      /\ \A i \in Servers :
           \/ process'[i] = process[i]
           \/ process[i] \in {"idle", "starting"} /\ process'[i] \in {"starting", "gone"}
  BY DEF TargetInv, TargetTypes
<1>2. TargetTypes'
  BY <1>1 DEF TargetInv, TargetTypes
<1>3. JobsLocked'
  BY <1>1 DEF TargetInv, TargetTypes, JobsLocked
<1>4. PublishedIsFound' /\ Announced'
  BY <1>1 DEF TargetInv, TargetTypes, PublishedIsFound, Announced
<1>5. QED
  BY <1>2, <1>3, <1>4 DEF TargetInv

\* A server is given a job, and listens or closes.
LEMMA JobGiven ==
  ASSUME TargetInv, NEW i \in Servers, NEW kind \in {"publish", "refresh", "cleanup"},
         jobs' = jobs \cup {NewJob(i, kind)}, UNCHANGED <<published, record, targetLock, overtaken, unannounced>>,
         \/ kind = "publish" /\ process[i] = "starting" /\ process' = [process EXCEPT ![i] = "listening"]
         \/ kind = "refresh" /\ process[i] = "listening" /\ UNCHANGED process
         \/ kind = "cleanup" /\ process[i] = "listening" /\ process' = [process EXCEPT ![i] = "closing"]
  PROVE  TargetInv'
<1> DEFINE job == NewJob(i, kind)
<1>1. job.server = i /\ job.kind = kind /\ job.stage = "lock"
      /\ job \in [server : Servers, kind : {"publish", "refresh", "cleanup"}, stage : {"lock", "read", "write"}]
  BY DEF NewJob
<1> HIDE DEF job
<1>2. /\ process' \in [Servers -> {"idle", "starting", "listening", "closing", "gone"}]
      /\ process'[i] \in {"listening", "closing"}
      /\ process'[i] = "listening" => kind = "publish" \/ process[i] = "listening"
      /\ kind = "cleanup" => process'[i] = "closing"
      /\ kind = "publish" => process[i] = "starting"
      /\ process[i] = "closing" => FALSE
      /\ \A k \in Servers : k # i => process'[k] = process[k]
  BY DEF TargetInv, TargetTypes
<1>3. jobs' = jobs \cup {job}
  BY DEF job
<1>4. TargetTypes'
  BY <1>1, <1>2, <1>3 DEF TargetInv, TargetTypes
<1>5. JobsLocked'
  <2>1. ASSUME NEW j \in jobs'
        PROVE  /\ process'[j.server] \in {"listening", "closing"}
               /\ j.kind = "cleanup" => process'[j.server] = "closing"
               /\ j.stage # "lock" => targetLock' = j.server
               /\ j.stage = "write" /\ j.kind # "publish" => record' = j.server
               /\ j.stage = "read" => j.kind # "publish"
    <3>1. CASE j = job
      BY <1>1, <1>2, <3>1
    <3>2. CASE j \in jobs
      BY <1>2, <3>2 DEF TargetInv, TargetTypes, JobsLocked
    <3>3. QED
      BY <1>3, <2>1, <3>1, <3>2
  <2>2. \A j, k \in jobs' : j.stage # "lock" /\ k.stage # "lock" => j = k
    BY <1>1, <1>3 DEF TargetInv, JobsLocked
  <2>3. \A k \in published' : process'[k] \in {"listening", "closing"}
    BY <1>2 DEF TargetInv, TargetTypes, JobsLocked
  <2>4. QED
    BY <2>1, <2>2, <2>3 DEF JobsLocked
<1>6. PublishedIsFound'
  BY <1>2 DEF TargetInv, TargetTypes, JobsLocked, PublishedIsFound
<1>7. Announced'
  BY <1>1, <1>2, <1>3 DEF TargetInv, Announced
<1>8. QED
  BY <1>4, <1>5, <1>6, <1>7 DEF TargetInv

\* A server stops serving, or its process ends.
LEMMA ServerStops ==
  ASSUME TargetInv, NEW i \in Servers, NEW to \in {"closing", "gone"},
         process[i] \in {"listening", "closing"}, process' = [process EXCEPT ![i] = to],
         jobs' \subseteq jobs, \A j \in jobs \ jobs' : j.server = i,
         to = "gone" => published' = published \ {i} /\ \A j \in jobs' : j.server # i,
         to = "closing" => published' = published,
         UNCHANGED <<record, targetLock, overtaken, unannounced>>
  PROVE  TargetInv'
<1>1. /\ process' \in [Servers -> {"idle", "starting", "listening", "closing", "gone"}]
      /\ process'[i] = to /\ \A k \in Servers : k # i => process'[k] = process[k]
  BY DEF TargetInv, TargetTypes
<1>2. \A k \in Servers : process'[k] = "listening" => k # i /\ process[k] = "listening"
  BY <1>1
<1>3. published' \subseteq published /\ \A k \in published : k # i => k \in published'
  OBVIOUS
<1>4. TargetTypes'
  BY <1>1, <1>3 DEF TargetInv, TargetTypes
<1>5. JobsLocked'
  <2>1. ASSUME NEW j \in jobs'
        PROVE  /\ process'[j.server] \in {"listening", "closing"}
               /\ j.kind = "cleanup" => process'[j.server] = "closing"
               /\ j.stage # "lock" => targetLock' = j.server
               /\ j.stage = "write" /\ j.kind # "publish" => record' = j.server
               /\ j.stage = "read" => j.kind # "publish"
    BY <1>1, <2>1 DEF TargetInv, TargetTypes, JobsLocked
  <2>2. \A k \in published' : process'[k] \in {"listening", "closing"}
    BY <1>1, <1>3 DEF TargetInv, TargetTypes, JobsLocked
  <2>3. QED
    BY <2>1, <2>2 DEF TargetInv, JobsLocked
<1>6. PublishedIsFound'
  BY <1>2, <1>3 DEF TargetInv, TargetTypes, PublishedIsFound
<1>7. Announced'
  BY <1>2, <1>3 DEF TargetInv, Announced
<1>8. QED
  BY <1>4, <1>5, <1>6, <1>7 DEF TargetInv

\* A job takes the lock, or finds the record to be its server's.
LEMMA JobProceeds ==
  ASSUME TargetInv, NEW j \in jobs, NEW stage \in {"read", "write"}, Proceed(j, stage),
         UNCHANGED <<process, published, record, overtaken, unannounced>>,
         \/ j.stage = "lock" /\ targetLock = Nothing /\ targetLock' = j.server
            /\ (stage = "write" <=> j.kind = "publish")
         \/ j.stage = "read" /\ stage = "write" /\ record = j.server /\ UNCHANGED targetLock
  PROVE  TargetInv'
<1> DEFINE job == [j EXCEPT !.stage = stage]
<1>1. /\ job.server = j.server /\ job.kind = j.kind /\ job.stage = stage
      /\ job \in [server : Servers, kind : {"publish", "refresh", "cleanup"}, stage : {"lock", "read", "write"}]
      /\ j.server \in Servers
  BY DEF TargetInv, TargetTypes
<1>2. jobs' = (jobs \ {j}) \cup {job}
  BY DEF Proceed
<1> HIDE DEF job
<1>3. targetLock' = j.server /\ \A k \in jobs \ {j} : k.stage = "lock"
  BY <1>1, TargetAssumption DEF TargetInv, TargetTypes, JobsLocked
<1>4. TargetTypes'
  BY <1>1, <1>2, <1>3 DEF TargetInv, TargetTypes
<1>5. JobsLocked'
  <2>1. ASSUME NEW k \in jobs'
        PROVE  /\ process'[k.server] \in {"listening", "closing"}
               /\ k.kind = "cleanup" => process'[k.server] = "closing"
               /\ k.stage # "lock" => targetLock' = k.server
               /\ k.stage = "write" /\ k.kind # "publish" => record' = k.server
               /\ k.stage = "read" => k.kind # "publish"
    <3>1. CASE k = job
      BY <1>1, <1>3, <3>1 DEF TargetInv, JobsLocked
    <3>2. CASE k \in jobs \ {j}
      BY <1>3, <3>2 DEF TargetInv, JobsLocked
    <3>3. QED
      BY <1>2, <2>1, <3>1, <3>2
  <2>2. \A k, l \in jobs' : k.stage # "lock" /\ l.stage # "lock" => k = l
    BY <1>2, <1>3
  <2>3. QED
    BY <2>1, <2>2 DEF TargetInv, JobsLocked
<1>6. PublishedIsFound'
  BY DEF TargetInv, PublishedIsFound
<1>7. Announced'
  BY <1>1, <1>2 DEF TargetInv, Announced
<1>8. QED
  BY <1>4, <1>5, <1>6, <1>7 DEF TargetInv

\* A job ends in order: a refresh or cleanup that read another server's name, or
\* one that has written.
LEMMA JobEnds ==
  ASSUME TargetInv, NEW j \in jobs, j.stage # "lock",
         jobs' = jobs \ {j}, targetLock' \in {Nothing, targetLock}, UNCHANGED <<process, unannounced>>,
         \/ /\ record # j.server /\ UNCHANGED <<record, overtaken>> /\ j.kind # "publish"
            /\ published' = IF j.kind = "refresh" THEN published \ {j.server} ELSE published
         \/ /\ j.stage = "write" /\ record' = IF j.kind = "cleanup" THEN Nothing ELSE j.server
            /\ published' = IF j.kind = "publish" THEN published \cup {j.server} ELSE published
            /\ overtaken' = IF j.kind = "publish" THEN overtaken \cup ({record} \ {Nothing}) ELSE overtaken
  PROVE  TargetInv'
<1>1. /\ j.server \in Servers /\ j.kind \in {"publish", "refresh", "cleanup"}
      /\ process[j.server] \in {"listening", "closing"}
      /\ j.kind = "cleanup" => process[j.server] = "closing"
      /\ \A k \in jobs \ {j} : k.stage = "lock"
  BY DEF TargetInv, TargetTypes, JobsLocked
<1>2. TargetTypes'
  BY <1>1 DEF TargetInv, TargetTypes
<1>3. JobsLocked'
  BY <1>1 DEF TargetInv, JobsLocked
<1>4. PublishedIsFound'
  <2>1. SUFFICES ASSUME NEW i \in published' \ overtaken', process'[i] = "listening"
                 PROVE  record' = i
    BY DEF PublishedIsFound
  <2>2. CASE i \in published /\ i \notin overtaken
    <3>1. record = i
      BY <2>1, <2>2 DEF TargetInv, PublishedIsFound
    <3>2. i # Nothing
      BY <2>2, TargetAssumption DEF TargetInv, TargetTypes
    <3>3. j.stage = "write" /\ j.kind # "publish" => record = j.server
      BY DEF TargetInv, JobsLocked
    <3>4. QED
      BY <1>1, <2>1, <3>1, <3>2, <3>3
  <2>3. CASE ~(i \in published /\ i \notin overtaken)
    BY <1>1, <2>1, <2>3
  <2>4. QED
    BY <2>2, <2>3
<1>5. Announced'
  <2>1. SUFFICES ASSUME NEW i \in Servers, process[i] = "listening"
                 PROVE  \/ i \in published' \cup overtaken' \cup unannounced'
                        \/ \E k \in jobs' : k.server = i /\ k.kind = "publish"
    BY DEF Announced
  <2>2. \/ i \in published \cup overtaken \cup unannounced
        \/ \E k \in jobs : k.server = i /\ k.kind = "publish"
    BY <2>1 DEF TargetInv, Announced
  <2>3. CASE \E k \in jobs : k.server = i /\ k.kind = "publish"
    BY <2>3
  <2>4. CASE i \in published \cup overtaken \cup unannounced
    <3>1. i \in published \ overtaken => record = i
      BY <2>1 DEF TargetInv, PublishedIsFound
    <3>2. QED
      BY <2>4, <3>1
  <2>5. QED
    BY <2>2, <2>3, <2>4
<1>6. QED
  BY <1>2, <1>3, <1>4, <1>5 DEF TargetInv

\* A job fails: the record stays, and only the job's own server may take itself
\* for unpublished.
LEMMA JobFails ==
  ASSUME TargetInv, NEW j \in jobs, jobs' = jobs \ {j}, UNCHANGED <<process, record, overtaken>>,
         \/ j.stage = "lock" /\ UNCHANGED targetLock
         \/ j.stage # "lock" /\ targetLock' \in {Nothing, targetLock},
         published' \in {published, published \ {j.server}},
         unannounced' \in {unannounced, unannounced \cup {j.server}},
         j.kind = "publish" \/ published' # published => j.server \in unannounced'
  PROVE  TargetInv'
<1>1. /\ published' \subseteq published /\ unannounced \subseteq unannounced'
      /\ targetLock' \in {Nothing, targetLock}
      /\ j.stage # "lock" => \A k \in jobs' : k.stage = "lock"
  BY DEF TargetInv, JobsLocked
<1>2. TargetTypes'
  BY <1>1 DEF TargetInv, TargetTypes
<1>3. JobsLocked'
  <2>1. \A k \in jobs' : k.stage # "lock" => targetLock' = targetLock
    BY <1>1
  <2>2. QED
    BY <1>1, <2>1 DEF TargetInv, JobsLocked
<1>4. PublishedIsFound'
  BY <1>1 DEF TargetInv, PublishedIsFound
<1>5. Announced'
  <2>1. SUFFICES ASSUME NEW i \in Servers, process[i] = "listening"
                 PROVE  \/ i \in published' \cup overtaken \cup unannounced'
                        \/ \E k \in jobs' : k.server = i /\ k.kind = "publish"
    BY DEF Announced
  <2>2. \/ i \in published \cup overtaken \cup unannounced
        \/ \E k \in jobs : k.server = i /\ k.kind = "publish"
    BY <2>1 DEF TargetInv, Announced
  <2>3. QED
    BY <1>1, <2>2
<1>6. QED
  BY <1>2, <1>3, <1>4, <1>5 DEF TargetInv

LEMMA TargetStep == TargetInv /\ [TargetNext]_targetVars => TargetInv'
<1> SUFFICES ASSUME TargetInv, [TargetNext]_targetVars PROVE TargetInv'
  OBVIOUS
<1> USE DEF processState, recordState, readerState
<1>1. ASSUME NEW i \in Servers, StartByHand(i) PROVE TargetInv'
  BY <1>1, TargetUndisturbed DEF StartByHand
<1>2. ASSUME NEW i \in Servers, RefreshDue(i) PROVE TargetInv'
  BY <1>2, JobGiven DEF RefreshDue
<1>3. ASSUME NEW i \in Servers, NEW p \in Ports, Listen(i, p) PROVE TargetInv'
  BY <1>3, JobGiven, TargetUndisturbed DEF Listen
<1>4. ASSUME NEW i \in Servers, Shutdown(i) PROVE TargetInv'
  BY <1>4, JobGiven, ServerStops DEF Shutdown
<1>5. ASSUME NEW i \in Servers, Exit(i) \/ Crash(i) PROVE TargetInv'
  <2>1. /\ process[i] \in {"listening", "closing"}
        /\ process' = [process EXCEPT ![i] = "gone"] /\ published' = published \ {i}
        /\ jobs' = jobs \ JobsOf(i) /\ UNCHANGED <<record, targetLock, overtaken, unannounced>>
    BY <1>5 DEF Exit, Crash, End
  <2>2. jobs' \subseteq jobs /\ (\A j \in jobs \ jobs' : j.server = i) /\ \A j \in jobs' : j.server # i
    BY <2>1 DEF JobsOf
  <2>3. QED
    BY <2>1, <2>2, ServerStops
<1>6. ASSUME NEW j \in jobs, Lock(j) PROVE TargetInv'
  BY <1>6, JobProceeds DEF Lock
<1>7. ASSUME NEW j \in jobs, LockFails(j) \/ ReadFails(j) \/ WriteFails(j) PROVE TargetInv'
  <2>1. j.stage = "read" => j.kind # "publish"
    BY DEF TargetInv, JobsLocked
  <2>2. CASE LockFails(j) \/ WriteFails(j)
    <3>1. /\ jobs' = jobs \ {j} /\ UNCHANGED <<process, record, overtaken, published>>
          /\ unannounced' = IF j.kind = "publish" THEN unannounced \cup {j.server} ELSE unannounced
          /\ \/ j.stage = "lock" /\ UNCHANGED targetLock
             \/ j.stage # "lock" /\ targetLock' \in {Nothing, targetLock}
      BY <2>2 DEF LockFails, WriteFails, Finish, Unannounce, LetGo
    <3>2. QED
      BY <3>1, JobFails
  <2>3. CASE ReadFails(j)
    <3>1. /\ jobs' = jobs \ {j} /\ UNCHANGED <<process, record, overtaken>> /\ j.stage = "read"
          /\ targetLock' \in {Nothing, targetLock}
          /\ published' = IF j.kind = "refresh" THEN published \ {j.server} ELSE published
          /\ unannounced' = IF j.kind = "refresh" THEN unannounced \cup {j.server} ELSE unannounced
      BY <2>3 DEF ReadFails, Finish, Unannounce, LetGo
    <3>2. QED
      BY <2>1, <3>1, JobFails
  <2>4. QED
    BY <1>7, <2>2, <2>3
<1>8. ASSUME NEW j \in jobs, ReadCurrent(j) PROVE TargetInv'
  <2>1. j.stage = "read" /\ UNCHANGED <<process, record, overtaken, unannounced>>
    BY <1>8 DEF ReadCurrent
  <2>2. CASE SameOwner(j.server) /\ Proceed(j, "write") /\ UNCHANGED <<published, targetLock>>
    BY <2>1, <2>2, JobProceeds DEF SameOwner
  <2>3. CASE /\ ~SameOwner(j.server) /\ Finish(j) /\ LetGo
             /\ published' = IF j.kind = "refresh" THEN published \ {j.server} ELSE published
    <3>1. j.kind # "publish"
      BY <2>1 DEF TargetInv, JobsLocked
    <3>2. QED
      BY <2>1, <2>3, <3>1, JobEnds DEF SameOwner, Finish, LetGo
  <2>4. QED
    BY <1>8, <2>2, <2>3 DEF ReadCurrent
<1>9. ASSUME NEW j \in jobs, Write(j) PROVE TargetInv'
  BY <1>9, JobEnds DEF Write, Finish, LetGo
<1>10. CASE RecordAges
  BY <1>10, TargetUndisturbed DEF RecordAges
<1>11. ASSUME NEW r \in Readers, Probe(r) \/ Again(r) \/ \E status \in BOOLEAN : ReadRecord(r, status)
       PROVE  TargetInv'
  BY <1>11, TargetUndisturbed DEF Probe, Again, ReadRecord
<1>12. ASSUME NEW r \in Readers, NEW i \in Servers, Autostart(r, i) PROVE TargetInv'
  BY <1>12, TargetUndisturbed DEF Autostart
<1>13. CASE UNCHANGED targetVars
  BY <1>13, TargetUndisturbed DEF targetVars
<1>14. QED
  BY <1>1, <1>2, <1>3, <1>4, <1>5, <1>6, <1>7, <1>8, <1>9, <1>10, <1>11, <1>12, <1>13 DEF TargetNext

\* Whatever jobs fail and wherever processes end, a server that published itself
\* last is what sessions find, and none serves unannounced unless its own
\* publication, or its own reading of the record, failed.
THEOREM ServersArePublished == TargetSpec => []PublishedAndFound
<1>1. TargetInv /\ [TargetNext]_targetVars => TargetInv'
  BY TargetStep
<1>2. TargetInv => PublishedAndFound
  BY DEF TargetInv, Announced, PublishedAndFound, ListeningIsPublished, JobsOf
<1>3. QED
  BY <1>1, <1>2, TargetStarts, PTL DEF TargetSpec

-----------------------------------------------------------------------------
(* The extension's client.  For any number of asks, servers and sockets:      *)
(* what an agent is told of its ask is what the one server the ask was sent   *)
(* to holds, what is settled here reaches that server, and nobody who called  *)
(* the client is left without an answer to come.                              *)
(*                                                                            *)
(* Every method of the client maps a state s of it to another one, so the     *)
(* invariant is an operator on such states, of which the lemmas say that the  *)
(* methods keep it.  E is the table of asks it speaks of, which is s.ask      *)
(* except in the middle of a method, and row what the servers hold.           *)

AskStates == {"new", "waiting", "answered here", "cancelled here", "aborted", "stopped", "answered",
              "cancelled", "error", "unavailable", "expired", "undeliverable"}
Entries == [state : AskStates, sent : BOOLEAN, created : Targets \cup {None}, origin : Targets \cup {None},
            unavailable : BOOLEAN, affinity : BOOLEAN, receipt : {"none", "awaited", "ok", "rejected"}]
Locals == [kind : {"none", "answer", "cancel"}, origin : Targets \cup {None}, affinity : BOOLEAN]
UpMessages == [type : {"register"}] \cup [type : {"create"}, ask : Asks, flush : BOOLEAN]
              \cup [type : {"answer", "cancel"}, ask : Asks]
DownMessages == [type : {"created", "error"}, ask : Asks]
                \cup [type : {"resolved"}, ask : Asks, outcome : {"answered", "cancelled"}]
ClientSockets == [url : Targets, state : {"connecting", "open", "closing", "closed"}, cut : BOOLEAN,
                  lost : BOOLEAN, suppress : BOOLEAN, up : Seq(UpMessages), down : Seq(DownMessages)]
Checks == [kind : {"reconnect", "poll"}, target : Targets \cup {None}]
AskTables == [Asks -> Entries]
Clients == [url : Targets, socks : Seq(ClientSockets), cur : Nat, heartbeat : BOOLEAN, timer : BOOLEAN,
            deferred : Targets \cup {None}, stopped : BOOLEAN, ask : AskTables, local : [Asks -> Locals],
            givenUp : SUBSET Asks, queries : SUBSET Nat, checks : SUBSET Checks]
Rows == [Targets -> [Asks -> {"none", "pending", "answered", "cancelled"}]]
ServerStates == [Targets -> [ask : [Asks -> {"none", "pending", "answered", "cancelled"}], holder : Nat]]

\* The sockets.  The last one is the current one; a closed one is replaced.
SocketsFit(s) ==
  /\ s.cur = Len(s.socks) /\ s.cur >= 1
  /\ \A k \in DOMAIN s.socks :
       /\ s.socks[k].lost => s.socks[k].cut
       /\ s.socks[k].cut => s.socks[k].up = <<>> /\ s.socks[k].down = <<>>
  /\ Current(s).state \in {"open", "connecting"} => Current(s).url = s.url
  /\ \A k \in s.queries : k \in DOMAIN s.socks /\ s.socks[k].state # "closed"
ReconnectDue(s) ==
  /\ ~Current(s).suppress
  /\ Current(s).state = "closed" /\ ~s.stopped => s.timer \/ \E c \in s.checks : c.kind = "reconnect"

\* What the server of an ask can know of it: a Question of its home alone.
LocallyEnded == {"answered here", "cancelled here", "aborted"}
Touched(e) == e.origin # None \/ e.state \in {"answered here", "cancelled here"}
Home(e) == IF e.origin = None THEN e.created ELSE e.origin
Belongs(e, t) == Touched(e) /\ t = Home(e)
EntriesFit(s, E) ==
  \A a \in Asks :
    /\ E[a].sent <=> E[a].origin # None
    /\ E[a].state = "new" => E[a] = NewAsk
    /\ E[a].state # "waiting" => ~E[a].unavailable /\ ~E[a].affinity /\ E[a].receipt # "awaited"
    /\ E[a].state = "waiting" => ~s.stopped /\ E[a].origin \in {None, s.url}
    /\ E[a].state = "unavailable" => E[a].origin = None
    /\ s.local[a].kind # "none" => Belongs(E[a], s.local[a].origin) /\ E[a].state \in LocallyEnded
Resolution(m, a) == m.type \in {"answer", "cancel"} /\ m.ask = a
Creation(m, a) == m.type = "create" /\ m.ask = a
UpFits(s, E) ==
  \A k \in DOMAIN s.socks : \A i \in DOMAIN s.socks[k].up : \A a \in Asks :
    LET m == s.socks[k].up[i] IN
    /\ Creation(m, a) \/ Resolution(m, a) => Belongs(E[a], s.socks[k].url)
    /\ Creation(m, a) /\ ~m.flush => E[a].origin # None
    /\ Resolution(m, a) => E[a].state \in LocallyEnded /\ s.local[a].kind = "none"
\* A Question is created before it is resolved.
CreatedFirst(s) ==
  \A k, j \in DOMAIN s.socks : \A i \in DOMAIN s.socks[k].up : \A n \in DOMAIN s.socks[j].up : \A a \in Asks :
    Resolution(s.socks[k].up[i], a) /\ Creation(s.socks[j].up[n], a) => j < k \/ (j = k /\ n < i)
RepliesFit(s, E, row) ==
  \A k \in DOMAIN s.socks : \A i \in DOMAIN s.socks[k].down :
    LET m == s.socks[k].down[i]
        t == s.socks[k].url IN
    m.type # "error" =>
      /\ E[m.ask].origin = t /\ row[t][m.ask] # "none"
      /\ m.type = "resolved" => row[t][m.ask] = m.outcome
RowsFit(E, row) ==
  \A a \in Asks :
    /\ \A t \in Targets : row[t][a] # "none" => Belongs(E[a], t)
    /\ E[a].receipt = "ok" => E[a].origin # None /\ row[E[a].origin][a] # "none"
    /\ E[a].state \in {"answered", "cancelled"} => E[a].origin # None /\ row[E[a].origin][a] = E[a].state
\* The resolution of an ask is kept, on its way, lost with its socket, or done.
Delivered(s, E, row, a) ==
  \/ s.local[a].kind # "none"
  \/ \E k \in DOMAIN s.socks :
       /\ s.socks[k].url = Home(E[a])
       /\ s.socks[k].lost \/ \E i \in DOMAIN s.socks[k].up : Resolution(s.socks[k].up[i], a)
  \/ /\ \A t \in Targets : row[t][a] # "pending"
     /\ \A k \in DOMAIN s.socks : \A i \in DOMAIN s.socks[k].up : ~Creation(s.socks[k].up[i], a)
Deliveries(s, E, row) ==
  \A a \in Asks : E[a].state \in LocallyEnded /\ ~s.stopped /\ a \notin s.givenUp => Delivered(s, E, row, a)
\* A receipt that is awaited comes over the current socket, unless it is one of
\* those still to be sent again, Y.
Mentions(q, a) == \E i \in DOMAIN q : q[i].ask = a
AnswerDue(s, a) ==
  \/ \E i \in DOMAIN Current(s).up : Creation(Current(s).up[i], a) /\ ~Current(s).up[i].flush
  \/ Mentions(Current(s).down, a)
Receipts(s, E, Y) ==
  \A a \in Asks \ Y : E[a].receipt = "awaited" /\ Current(s).state = "open" /\ ~Current(s).cut => AnswerDue(s, a)

Fits(s, E, row) ==
  /\ s \in Clients /\ E \in AskTables /\ row \in Rows
  /\ SocketsFit(s) /\ EntriesFit(s, E) /\ UpFits(s, E) /\ CreatedFirst(s)
  /\ RepliesFit(s, E, row) /\ RowsFit(E, row) /\ Deliveries(s, E, row)
Sound(s, E, row, Y) == Fits(s, E, row) /\ ReconnectDue(s) /\ Receipts(s, E, Y)
ServerRows == [t \in Targets |-> server[t].ask]
ClientInv ==
  /\ server \in ServerStates /\ foundTarget \in Targets \cup {None}
  /\ Sound(client, client.ask, ServerRows, {})

\* The fields of a client that Fits is about.
SameWork(s, r) ==
  /\ r.socks = s.socks /\ r.cur = s.cur /\ r.url = s.url /\ r.local = s.local
  /\ r.stopped = s.stopped /\ r.givenUp = s.givenUp /\ r.queries = s.queries
SameSockets(s, r) == r.socks = s.socks /\ r.cur = s.cur /\ r.url = s.url /\ r.queries = s.queries
\* What becomes of an entry of the table of asks.
Evolves(e, f) ==
  /\ Touched(e) => Touched(f) /\ Home(f) = Home(e)
  /\ e.origin # None => f.origin = e.origin
  /\ e.state \in LocallyEnded => f.state \in LocallyEnded
\* The client's table is not behind E on what waits.
UpToDate(s, E) == \A a \in Asks : E[a].state = "waiting" => s.ask[a] = E[a]
EndsFit(E, row) ==
  \A a \in Asks :
    /\ E[a].receipt = "ok" => E[a].origin # None /\ row[E[a].origin][a] # "none"
    /\ E[a].state \in {"answered", "cancelled"} => E[a].origin # None /\ row[E[a].origin][a] = E[a].state

LEMMA CurrentFacts ==
  ASSUME NEW s \in Clients, SocketsFit(s)
  PROVE  /\ s.cur \in DOMAIN s.socks /\ s.cur \in Nat /\ Current(s) = s.socks[s.cur]
         /\ s.cur # 0 /\ Current(s) \in ClientSockets /\ DOMAIN s.socks = 1..s.cur
         /\ IsConnected(s) <=> Current(s).state = "open"
<1>1. s.socks \in Seq(ClientSockets) /\ s.cur = Len(s.socks) /\ s.cur >= 1 /\ s.cur \in Nat
  BY DEF Clients, SocketsFit
<1>2. QED
  BY <1>1 DEF Current, IsConnected

LEMMA SameFits ==
  ASSUME NEW s, NEW r \in Clients, NEW E, NEW row, Fits(s, E, row), SameWork(s, r)
  PROVE  Fits(r, E, row)
BY DEF Fits, SameWork, SocketsFit, Current, EntriesFit, UpFits, CreatedFirst, RepliesFit, Deliveries, Delivered

LEMMA SameSocketsSame == \A s, r : SameWork(s, r) => SameSockets(s, r)
BY DEF SameWork, SameSockets

LEMMA SameReceipts ==
  ASSUME NEW s, NEW r, NEW E, NEW Y, Receipts(s, E, Y), SameWork(s, r)
  PROVE  Receipts(r, E, Y)
BY DEF SameWork, Receipts, Current, AnswerDue

\* The table changes, and nothing else.
LEMMA EvolvedFits ==
  ASSUME NEW s, NEW E, NEW row, Fits(s, E, row), NEW r \in Clients, SameSockets(s, r), NEW F \in AskTables,
         \A a \in Asks : s.local[a].kind = "none" => r.local[a].kind = "none",
         \A a \in Asks : Evolves(E[a], F[a]), EntriesFit(r, F), EndsFit(F, row), Deliveries(r, F, row)
  PROVE  Fits(r, F, row)
<1>1. SocketsFit(r) /\ CreatedFirst(r) /\ row \in Rows
  BY DEF Fits, SocketsFit, CreatedFirst, Current, SameSockets
<1>2. \A a \in Asks, t \in Targets : Belongs(E[a], t) => Belongs(F[a], t)
  BY DEF Evolves, Belongs
<1>3. DOMAIN s.socks = DOMAIN r.socks /\ \A k \in DOMAIN s.socks : s.socks[k] \in ClientSockets
  BY DEF Fits, Clients, SameSockets
<1>4. \A k \in DOMAIN s.socks : s.socks[k].url \in Targets
  BY <1>3 DEF ClientSockets
<1>5. UpFits(r, F)
  <2> SUFFICES ASSUME NEW k \in DOMAIN s.socks, NEW i \in DOMAIN s.socks[k].up, NEW a \in Asks
               PROVE  LET m == s.socks[k].up[i] IN
                      /\ Creation(m, a) \/ Resolution(m, a) => Belongs(F[a], s.socks[k].url)
                      /\ Creation(m, a) /\ ~m.flush => F[a].origin # None
                      /\ Resolution(m, a) => F[a].state \in LocallyEnded /\ s.local[a].kind = "none"
    BY DEF UpFits, SameSockets
  <2>1. LET m == s.socks[k].up[i] IN
        /\ Creation(m, a) \/ Resolution(m, a) => Belongs(E[a], s.socks[k].url)
        /\ Creation(m, a) /\ ~m.flush => E[a].origin # None
        /\ Resolution(m, a) => E[a].state \in LocallyEnded /\ s.local[a].kind = "none"
    BY DEF Fits, UpFits
  <2>2. Evolves(E[a], F[a])
    OBVIOUS
  <2>3. QED
    BY <1>2, <1>4, <2>1, <2>2 DEF Evolves
<1>6. RepliesFit(r, F, row)
  <2> SUFFICES ASSUME NEW k \in DOMAIN s.socks, NEW i \in DOMAIN s.socks[k].down,
                      s.socks[k].down[i].type # "error"
               PROVE  LET m == s.socks[k].down[i] IN
                      /\ F[m.ask].origin = s.socks[k].url /\ row[s.socks[k].url][m.ask] # "none"
                      /\ m.type = "resolved" => row[s.socks[k].url][m.ask] = m.outcome
    BY DEF RepliesFit, SameSockets
  <2> DEFINE m == s.socks[k].down[i]
  <2>1. /\ E[m.ask].origin = s.socks[k].url /\ row[s.socks[k].url][m.ask] # "none"
        /\ m.type = "resolved" => row[s.socks[k].url][m.ask] = m.outcome
    BY DEF Fits, RepliesFit
  <2>2. m.ask \in Asks /\ s.socks[k].url # None
    BY <1>3, <1>4, ClientAssumption DEF ClientSockets, DownMessages
  <2>3. F[m.ask].origin = E[m.ask].origin
    BY <2>1, <2>2 DEF Evolves
  <2>4. QED
    BY <2>1, <2>3
<1>7. RowsFit(F, row)
  BY <1>2 DEF Fits, RowsFit, EndsFit
<1>8. QED
  BY <1>1, <1>5, <1>6, <1>7 DEF Fits

LEMMA EvolvedReceipts ==
  ASSUME NEW s, NEW E, NEW F, NEW Y, Receipts(s, E, Y),
         \A a \in Asks \ Y : F[a].receipt = "awaited" => E[a].receipt = "awaited"
  PROVE  Receipts(s, F, Y)
BY DEF Receipts

-----------------------------------------------------------------------------
(* A new connection, to the same server or to another one.                   *)

LEMMA ConnectFits ==
  ASSUME NEW s, NEW E, NEW row, Fits(s, E, row), NEW Y
  PROVE  LET r == Connect(s)
         IN Fits(r, E, row) /\ ReconnectDue(r) /\ Receipts(r, E, Y) /\ r.ask = s.ask /\ ~IsConnected(r)
            /\ r.url = s.url /\ r.stopped = s.stopped /\ r.local = s.local
<1> DEFINE r == Connect(s)
           n == Len(s.socks) + 1
<1>1. /\ s \in Clients /\ s.socks \in Seq(ClientSockets) /\ s.url \in Targets
      /\ Len(s.socks) \in Nat
  BY DEF Fits, Clients
<1>2. /\ NewSocket(s.url) \in ClientSockets /\ NewSocket(s.url).state = "connecting"
      /\ NewSocket(s.url).url = s.url /\ NewSocket(s.url).up = <<>> /\ NewSocket(s.url).down = <<>>
      /\ ~NewSocket(s.url).suppress /\ ~NewSocket(s.url).lost /\ ~NewSocket(s.url).cut
  BY <1>1 DEF NewSocket, ClientSockets
<1> HIDE DEF n
<1>3. n \in Nat /\ n = Len(s.socks) + 1
  BY <1>1 DEF n
<1>4. /\ r \in Clients /\ r.socks = Append(s.socks, NewSocket(s.url)) /\ r.cur = n
      /\ r.url = s.url /\ r.ask = s.ask /\ r.local = s.local /\ r.stopped = s.stopped
      /\ r.givenUp = s.givenUp /\ r.queries = s.queries
  <2>1. Append(s.socks, NewSocket(s.url)) \in Seq(ClientSockets)
    BY <1>1, <1>2
  <2>2. r = [s EXCEPT !.socks = Append(s.socks, NewSocket(s.url)), !.cur = n]
    BY DEF Connect, n
  <2>3. QED
    BY <1>1, <1>3, <2>1, <2>2 DEF Clients
<1> HIDE DEF r
<1>5. /\ DOMAIN r.socks = DOMAIN s.socks \cup {n} /\ r.socks[n] = NewSocket(s.url) /\ n \notin DOMAIN s.socks
      /\ \A k \in DOMAIN s.socks : r.socks[k] = s.socks[k]
      /\ \A k \in DOMAIN s.socks : k < n
  BY <1>1, <1>3, <1>4
<1>6. Current(r) = NewSocket(s.url)
  BY <1>4, <1>5 DEF Current
<1>7. SocketsFit(r)
  <2>1. r.cur = Len(r.socks) /\ r.cur >= 1
    BY <1>1, <1>3, <1>4
  <2>2. \A k \in DOMAIN r.socks :
          /\ r.socks[k].lost => r.socks[k].cut
          /\ r.socks[k].cut => r.socks[k].up = <<>> /\ r.socks[k].down = <<>>
    BY <1>2, <1>5 DEF Fits, SocketsFit
  <2>3. \A k \in r.queries : k \in DOMAIN r.socks /\ r.socks[k].state # "closed"
    BY <1>4, <1>5 DEF Fits, SocketsFit
  <2>4. QED
    BY <1>2, <1>4, <1>6, <2>1, <2>2, <2>3 DEF SocketsFit
<1>8. EntriesFit(r, E) /\ RowsFit(E, row) /\ E \in AskTables /\ row \in Rows
  BY <1>4 DEF Fits, EntriesFit
<1>9. \A i \in DOMAIN NewSocket(s.url).up : FALSE
  BY <1>2
<1>10. \A i \in DOMAIN NewSocket(s.url).down : FALSE
  BY <1>2
<1>11. UpFits(r, E)
  BY <1>4, <1>5, <1>9 DEF Fits, UpFits
<1>12. CreatedFirst(r)
  BY <1>5, <1>9 DEF Fits, CreatedFirst
<1>13. RepliesFit(r, E, row)
  BY <1>5, <1>10 DEF Fits, RepliesFit
<1>14. Deliveries(r, E, row)
  <2> SUFFICES ASSUME NEW a \in Asks, E[a].state \in LocallyEnded, ~s.stopped, a \notin s.givenUp
               PROVE  Delivered(r, E, row, a)
    BY <1>4 DEF Deliveries
  <2>1. Delivered(s, E, row, a)
    BY DEF Fits, Deliveries
  <2>2. QED
    BY <1>4, <1>5, <1>9, <2>1 DEF Delivered
<1>15. ReconnectDue(r) /\ Receipts(r, E, Y) /\ ~IsConnected(r)
  BY <1>2, <1>6 DEF ReconnectDue, Receipts, IsConnected
<1>16. QED
  BY <1>4, <1>7, <1>8, <1>11, <1>12, <1>13, <1>14, <1>15 DEF Fits, r

\* The old socket of a switch is left to close in its own time.
LEMMA RetargetFits ==
  ASSUME NEW s, NEW E, NEW row, Fits(s, E, row), UpToDate(s, E), NEW t \in Targets, ~Blocking(s, t),
         NEW c \in BOOLEAN, NEW Y
  PROVE  LET r == RetargetNow(s, t, c)
         IN /\ Fits(r, E, row) /\ Receipts(r, E, Y) /\ r.ask = s.ask /\ ~IsConnected(r)
            /\ c => ReconnectDue(r)
<1> DEFINE busy == s.cur # 0 /\ Current(s).state \in {"open", "connecting"}
           moved == [s EXCEPT !.url = t, !.timer = FALSE, !.heartbeat = FALSE]
           left == IF busy THEN [moved EXCEPT !.socks[s.cur].state = "closing", !.socks[s.cur].suppress = TRUE] ELSE moved
           n == s.cur
<1>1. s \in Clients /\ SocketsFit(s) /\ s.socks \in Seq(ClientSockets) /\ s.cur = Len(s.socks)
  BY DEF Fits, Clients, SocketsFit
<1>2. /\ n \in DOMAIN s.socks /\ n \in Nat /\ Current(s) = s.socks[n] /\ n # 0
      /\ s.socks[n] \in ClientSockets /\ DOMAIN s.socks = 1..n
  BY <1>1, CurrentFacts
<1>3. /\ moved \in Clients /\ moved.url = t /\ moved.socks = s.socks /\ moved.cur = n /\ moved.local = s.local
      /\ moved.ask = s.ask /\ moved.stopped = s.stopped /\ moved.givenUp = s.givenUp /\ moved.queries = s.queries
  BY <1>1 DEF Clients
<1> HIDE DEF moved
<1> DEFINE old == [s.socks[n] EXCEPT !.state = "closing", !.suppress = TRUE]
<1>4. /\ old \in ClientSockets /\ old.state = "closing" /\ old.url = s.socks[n].url /\ old.up = s.socks[n].up
      /\ old.down = s.socks[n].down /\ old.cut = s.socks[n].cut /\ old.lost = s.socks[n].lost
  BY <1>2 DEF ClientSockets
<1> HIDE DEF old
<1>5. /\ left \in Clients /\ left.url = t /\ left.cur = n /\ left.local = s.local /\ left.ask = s.ask
      /\ left.stopped = s.stopped /\ left.givenUp = s.givenUp /\ left.queries = s.queries
      /\ Len(left.socks) = n /\ DOMAIN left.socks = DOMAIN s.socks
      /\ \A k \in DOMAIN s.socks : k # n => left.socks[k] = s.socks[k]
      /\ left.socks[n] = IF busy THEN old ELSE s.socks[n]
  <2>1. CASE busy
    <3>1. left = [moved EXCEPT !.socks = [s.socks EXCEPT ![n] = old]]
      BY <1>2, <1>3, <2>1 DEF old
    <3>2. [s.socks EXCEPT ![n] = old] \in Seq(ClientSockets)
      BY <1>1, <1>2, <1>4
    <3>3. left.socks = [s.socks EXCEPT ![n] = old] /\ left \in Clients
      BY <1>3, <3>1, <3>2 DEF Clients
    <3>4. Len(left.socks) = n /\ DOMAIN left.socks = DOMAIN s.socks
      BY <1>1, <1>2, <3>3
    <3>5. /\ left.url = t /\ left.cur = n /\ left.local = s.local /\ left.ask = s.ask
          /\ left.stopped = s.stopped /\ left.givenUp = s.givenUp /\ left.queries = s.queries
      BY <1>3, <3>1 DEF Clients
    <3>6. QED
      BY <1>2, <2>1, <3>3, <3>4, <3>5
  <2>2. CASE ~busy
    BY <1>1, <1>2, <1>3, <2>2
  <2>3. QED
    BY <2>1, <2>2
<1>6. /\ left.socks[n].state \notin {"open", "connecting"} /\ (left.socks[n].state = "closed" => s.socks[n].state = "closed")
      /\ left.socks[n].url = s.socks[n].url /\ left.socks[n].up = s.socks[n].up
      /\ left.socks[n].down = s.socks[n].down /\ left.socks[n].cut = s.socks[n].cut /\ left.socks[n].lost = s.socks[n].lost
  BY <1>2, <1>4, <1>5
<1>7. RetargetNow(s, t, c) = IF busy \/ c THEN Connect(left) ELSE left
  BY <1>2 DEF RetargetNow, moved
<1> HIDE DEF left, busy
<1>8. SocketsFit(left)
  <2>1. \A k \in DOMAIN s.socks :
          /\ s.socks[k].lost => s.socks[k].cut
          /\ s.socks[k].cut => s.socks[k].up = <<>> /\ s.socks[k].down = <<>>
    BY <1>1 DEF SocketsFit
  <2>2. \A k \in DOMAIN left.socks :
          /\ left.socks[k].lost => left.socks[k].cut
          /\ left.socks[k].cut => left.socks[k].up = <<>> /\ left.socks[k].down = <<>>
    BY <1>5, <1>6, <2>1
  <2>3. \A k \in left.queries : k \in DOMAIN left.socks /\ left.socks[k].state # "closed"
    BY <1>1, <1>5, <1>6 DEF SocketsFit
  <2>4. Current(left) = left.socks[n]
    BY <1>5 DEF Current
  <2>5. QED
    BY <1>1, <1>2, <1>5, <1>6, <2>2, <2>3, <2>4 DEF SocketsFit
<1>9. \A k \in DOMAIN s.socks : /\ left.socks[k].url = s.socks[k].url /\ left.socks[k].up = s.socks[k].up
                                /\ left.socks[k].down = s.socks[k].down /\ left.socks[k].lost = s.socks[k].lost
  BY <1>5, <1>6
<1>10. EntriesFit(left, E)
  <2> SUFFICES ASSUME NEW a \in Asks, E[a].state = "waiting" PROVE E[a].origin \in {None, t}
    BY <1>5 DEF Fits, EntriesFit
  <2>1. s.ask[a] = E[a] /\ (E[a].sent <=> E[a].origin # None)
    BY DEF UpToDate, Fits, EntriesFit
  <2>2. QED
    BY <2>1 DEF Blocking, Waiting
<1>11. UpFits(left, E) /\ CreatedFirst(left) /\ RepliesFit(left, E, row)
  BY <1>5, <1>9 DEF Fits, UpFits, CreatedFirst, RepliesFit
<1>12. Deliveries(left, E, row)
  BY <1>5, <1>9 DEF Fits, Deliveries, Delivered
<1>13. Fits(left, E, row)
  BY <1>5, <1>8, <1>10, <1>11, <1>12 DEF Fits
<1>14. CASE busy \/ c
  BY <1>5, <1>7, <1>13, <1>14, ConnectFits
<1>15. CASE ~busy /\ ~c
  <2>1. Receipts(left, E, Y) /\ ~IsConnected(left)
    BY <1>5, <1>6 DEF Receipts, IsConnected, Current
  <2>2. QED
    BY <1>5, <1>7, <1>13, <1>15, <2>1
<1>16. QED
  BY <1>14, <1>15

\* Every way an ask or a resolution is done with ends in this.
LEMMA TryApplyFits ==
  ASSUME NEW s, NEW E, NEW row, NEW Y, Sound(s, E, row, Y), UpToDate(s, E)
  PROVE  LET r == TryApplyDeferredTarget(s)
         IN Sound(r, E, row, Y) /\ r.ask = s.ask /\ (IsConnected(r) => IsConnected(s))
<1> DEFINE t == s.deferred
           free == [s EXCEPT !.deferred = None]
<1>1. s \in Clients
  BY DEF Sound, Fits
<1>2. free \in Clients /\ SameWork(s, free) /\ free.ask = s.ask /\ free.timer = s.timer /\ free.checks = s.checks
  BY <1>1 DEF Clients, SameWork
<1>3. Fits(free, E, row) /\ Receipts(free, E, Y) /\ ReconnectDue(free) /\ (IsConnected(free) <=> IsConnected(s))
  <2>1. Fits(free, E, row)
    BY <1>2, SameFits DEF Sound
  <2>2. Receipts(free, E, Y)
    BY <1>2, SameReceipts DEF Sound
  <2>3. ReconnectDue(free) /\ (IsConnected(free) <=> IsConnected(s))
    BY <1>2 DEF Sound, ReconnectDue, SameWork, Current, IsConnected
  <2>4. QED
    BY <2>1, <2>2, <2>3
<1>4. TryApplyDeferredTarget(s) =
        IF s.stopped \/ t = None \/ Blocking(s, t) THEN s
        ELSE IF t = s.url THEN free ELSE RetargetNow(free, t, TRUE)
  BY DEF TryApplyDeferredTarget
<1>5. t \in Targets \cup {None}
  BY <1>1 DEF Clients
<1>6. Blocking(free, t) <=> Blocking(s, t)
  BY <1>2 DEF Blocking, Waiting, SameWork
<1>7. UpToDate(free, E)
  BY <1>2 DEF UpToDate
<1> HIDE DEF free, t
<1>8. CASE t # None /\ ~Blocking(s, t) /\ TryApplyDeferredTarget(s) = RetargetNow(free, t, TRUE)
  <2>1. t \in Targets /\ ~Blocking(free, t)
    BY <1>5, <1>6, <1>8
  <2>2. /\ Fits(RetargetNow(free, t, TRUE), E, row) /\ Receipts(RetargetNow(free, t, TRUE), E, Y)
        /\ RetargetNow(free, t, TRUE).ask = free.ask /\ ~IsConnected(RetargetNow(free, t, TRUE))
        /\ ReconnectDue(RetargetNow(free, t, TRUE))
    BY <1>3, <1>7, <2>1, RetargetFits
  <2>3. QED
    BY <1>2, <1>8, <2>2 DEF Sound
<1>9. CASE TryApplyDeferredTarget(s) \in {s, free}
  BY <1>2, <1>3, <1>9 DEF Sound
<1>10. QED
  BY <1>4, <1>8, <1>9

LEMMA UpToDateWithItself == \A s : UpToDate(s, s.ask)
BY DEF UpToDate

-----------------------------------------------------------------------------
(* The end of an ask.                                                        *)

Ended(s, a, outcome) ==
  [s EXCEPT !.ask[a].state = outcome, !.ask[a].unavailable = FALSE, !.ask[a].affinity = FALSE,
            !.ask[a].receipt = IF @ = "awaited" THEN "rejected" ELSE @]

LEMMA EndAskIsTryApply ==
  \A s, a, outcome : EndAsk(s, a, outcome) = TryApplyDeferredTarget(Ended(s, a, outcome))
BY DEF EndAsk, Ended

EndsIn(s, r, a, outcome) ==
  /\ r \in Clients /\ SameWork(s, r) /\ r.timer = s.timer /\ r.checks = s.checks
  /\ r.deferred = s.deferred
  /\ r.ask \in AskTables /\ \A b \in Asks : b # a => r.ask[b] = s.ask[b]
  /\ r.ask[a].state = outcome /\ ~r.ask[a].unavailable /\ ~r.ask[a].affinity
  /\ r.ask[a].receipt # "awaited" /\ (r.ask[a].receipt = "ok" <=> s.ask[a].receipt = "ok")
  /\ r.ask[a].origin = s.ask[a].origin /\ r.ask[a].sent = s.ask[a].sent
  /\ r.ask[a].created = s.ask[a].created

LEMMA EndedFacts ==
  ASSUME NEW s \in Clients, NEW a \in Asks, NEW outcome \in AskStates
  PROVE  EndsIn(s, Ended(s, a, outcome), a, outcome)
<1> DEFINE e == s.ask[a]
           f == [e EXCEPT !.state = outcome, !.unavailable = FALSE, !.affinity = FALSE,
                          !.receipt = IF @ = "awaited" THEN "rejected" ELSE @]
           r == Ended(s, a, outcome)
<1>1. s.ask \in AskTables /\ e \in Entries
  BY DEF Clients, AskTables
<1>2. /\ f \in Entries /\ f.state = outcome /\ ~f.unavailable /\ ~f.affinity
      /\ f.receipt # "awaited" /\ (f.receipt = "ok" <=> e.receipt = "ok")
      /\ f.origin = e.origin /\ f.sent = e.sent /\ f.created = e.created
  BY <1>1 DEF Entries
<1>3. r = [s EXCEPT !.ask = [s.ask EXCEPT ![a] = f]]
  BY <1>1 DEF Ended, Clients, AskTables
<1> HIDE DEF f
<1>4. [s.ask EXCEPT ![a] = f] \in AskTables
  BY <1>1, <1>2 DEF AskTables
<1>5. /\ r \in Clients /\ SameWork(s, r) /\ r.timer = s.timer /\ r.checks = s.checks /\ r.deferred = s.deferred
      /\ r.ask = [s.ask EXCEPT ![a] = f]
  BY <1>3, <1>4 DEF Clients, SameWork
<1>6. r.ask[a] = f /\ \A b \in Asks : b # a => r.ask[b] = s.ask[b]
  BY <1>1, <1>5 DEF AskTables
<1> HIDE DEF r
<1>7. QED
  BY <1>2, <1>4, <1>5, <1>6 DEF r, EndsIn

LEMMA QueueFacts ==
  ASSUME NEW s \in Clients, NEW k \in DOMAIN s.socks
  PROVE  /\ s.socks[k] \in ClientSockets /\ s.socks[k].url \in Targets /\ s.socks[k].url # None
         /\ s.socks[k].up \in Seq(UpMessages) /\ s.socks[k].down \in Seq(DownMessages)
         /\ \A i \in DOMAIN s.socks[k].up : s.socks[k].up[i] \in UpMessages
         /\ \A i \in DOMAIN s.socks[k].down : s.socks[k].down[i] \in DownMessages /\ s.socks[k].down[i].ask \in Asks
<1>1. s.socks \in Seq(ClientSockets)
  BY DEF Clients
<1>2. s.socks[k] \in ClientSockets
  BY <1>1
<1>3. s.socks[k].up \in Seq(UpMessages) /\ s.socks[k].down \in Seq(DownMessages) /\ s.socks[k].url \in Targets
  BY <1>2 DEF ClientSockets
<1>4. /\ \A i \in DOMAIN s.socks[k].up : s.socks[k].up[i] \in UpMessages
      /\ \A i \in DOMAIN s.socks[k].down : s.socks[k].down[i] \in DownMessages
  BY <1>3
<1>5. \A m \in DownMessages : m.ask \in Asks
  BY DEF DownMessages
<1>6. QED
  BY <1>2, <1>3, <1>4, <1>5, ClientAssumption

\* A waiting ask ends: its entry is that of F, and its resolution is in r.local
\* if it was made here.
EndsAt(s, E, row, a, r, F) ==
  /\ E[a].state = "waiting"
  /\ r \in Clients /\ r.socks = s.socks /\ r.cur = s.cur /\ r.url = s.url /\ r.stopped = s.stopped
  /\ r.givenUp = s.givenUp /\ r.queries = s.queries /\ r.timer = s.timer /\ r.checks = s.checks
  /\ F \in AskTables
  /\ \A b \in Asks : b # a => F[b] = E[b] /\ r.local[b] = s.local[b]
  /\ F[a].state \notin {"new", "waiting"} /\ ~F[a].unavailable /\ ~F[a].affinity /\ F[a].receipt # "awaited"
  /\ F[a].receipt = "ok" => E[a].receipt = "ok"
  /\ F[a].origin = E[a].origin /\ F[a].sent = E[a].sent /\ F[a].created = E[a].created
  /\ F[a].state \in {"answered", "cancelled"} => F[a].origin # None /\ row[F[a].origin][a] = F[a].state
  /\ F[a].state = "unavailable" => F[a].origin = None
  /\ \/ /\ F[a].state \notin {"answered here", "cancelled here"} /\ r.local[a] = s.local[a]
        /\ F[a].state = "aborted" => F[a].origin = None
     \/ /\ F[a].state \in LocallyEnded /\ r.local[a].kind # "none" /\ r.local[a].origin = Home(F[a])
        /\ Touched(F[a])

LEMMA EndedSound ==
  ASSUME NEW s, NEW E, NEW row, NEW Y, Sound(s, E, row, Y), NEW a \in Asks, NEW r, NEW F, EndsAt(s, E, row, a, r, F)
  PROVE  Sound(r, F, row, Y)
<1>0. /\ E[a].state = "waiting" /\ F[a].state \notin {"new", "waiting"} /\ F[a].origin = E[a].origin
      /\ F[a].created = E[a].created /\ \A b \in Asks : b # a => F[b] = E[b] /\ r.local[b] = s.local[b]
  BY DEF EndsAt
<1>s. /\ r \in Clients /\ F \in AskTables /\ r.socks = s.socks /\ r.cur = s.cur /\ r.url = s.url
      /\ r.stopped = s.stopped /\ r.givenUp = s.givenUp /\ r.queries = s.queries
      /\ r.timer = s.timer /\ r.checks = s.checks
  BY DEF EndsAt
<1>e. /\ ~F[a].unavailable /\ ~F[a].affinity /\ F[a].receipt # "awaited" /\ F[a].sent = E[a].sent
      /\ F[a].receipt = "ok" => E[a].receipt = "ok"
      /\ F[a].state \in {"answered", "cancelled"} => F[a].origin # None /\ row[F[a].origin][a] = F[a].state
      /\ F[a].state = "unavailable" => F[a].origin = None
  BY DEF EndsAt
<1>l. \/ /\ F[a].state \notin {"answered here", "cancelled here"} /\ r.local[a] = s.local[a]
         /\ F[a].state = "aborted" => F[a].origin = None
      \/ /\ F[a].state \in LocallyEnded /\ r.local[a].kind # "none" /\ r.local[a].origin = Home(F[a])
         /\ Touched(F[a])
  BY DEF EndsAt
<1>1. Fits(s, E, row) /\ ReconnectDue(s) /\ Receipts(s, E, Y)
  BY DEF Sound
<1>2. s \in Clients /\ E \in AskTables /\ row \in Rows /\ EntriesFit(s, E) /\ RowsFit(E, row)
  BY <1>1 DEF Fits
<1>3. s.local[a].kind = "none"
  BY <1>0, <1>2 DEF EntriesFit, LocallyEnded
<1>4. \A b \in Asks : Evolves(E[b], F[b])
  <2> TAKE b \in Asks
  <2>1. CASE b # a
    BY <1>0, <2>1 DEF Evolves
  <2>2. CASE b = a
    BY <1>0, <2>2 DEF Evolves, Touched, Home, LocallyEnded
  <2>3. QED
    BY <2>1, <2>2
<1>5. \A k \in DOMAIN s.socks : \A i \in DOMAIN s.socks[k].up :
        Creation(s.socks[k].up[i], a) \/ Resolution(s.socks[k].up[i], a) => E[a].origin # None
  BY <1>0, <1>1 DEF Fits, UpFits, Belongs, Touched
<1>6. \A k \in DOMAIN s.socks : \A i \in DOMAIN s.socks[k].up : ~Resolution(s.socks[k].up[i], a)
  BY <1>0, <1>1 DEF Fits, UpFits, LocallyEnded
<1>7. EntriesFit(r, F)
  <2> SUFFICES ASSUME NEW b \in Asks
               PROVE  /\ F[b].sent <=> F[b].origin # None
                      /\ F[b].state = "new" => F[b] = NewAsk
                      /\ F[b].state # "waiting" => ~F[b].unavailable /\ ~F[b].affinity /\ F[b].receipt # "awaited"
                      /\ F[b].state = "waiting" => ~r.stopped /\ F[b].origin \in {None, r.url}
                      /\ F[b].state = "unavailable" => F[b].origin = None
                      /\ r.local[b].kind # "none" => Belongs(F[b], r.local[b].origin) /\ F[b].state \in LocallyEnded
    BY DEF EntriesFit
  <2>1. CASE b # a
    BY <1>0, <1>s, <1>2, <2>1 DEF EntriesFit
  <2>2. CASE b = a
    BY <1>0, <1>e, <1>l, <1>2, <1>3, <2>2 DEF EntriesFit, Belongs
  <2>3. QED
    BY <2>1, <2>2
<1>8. EndsFit(F, row)
  <2> SUFFICES ASSUME NEW b \in Asks
               PROVE  /\ F[b].receipt = "ok" => F[b].origin # None /\ row[F[b].origin][b] # "none"
                      /\ F[b].state \in {"answered", "cancelled"} => F[b].origin # None /\ row[F[b].origin][b] = F[b].state
    BY DEF EndsFit
  <2>1. CASE b # a
    BY <1>0, <1>2, <2>1 DEF RowsFit
  <2>2. CASE b = a
    BY <1>0, <1>e, <1>2, <2>2 DEF RowsFit
  <2>3. QED
    BY <2>1, <2>2
<1>9. SocketsFit(r) /\ CreatedFirst(r) /\ ReconnectDue(r)
  BY <1>1, <1>s DEF Fits, SocketsFit, CreatedFirst, Current, ReconnectDue
<1>10. UpFits(r, F)
  <2> SUFFICES ASSUME NEW k \in DOMAIN s.socks, NEW i \in DOMAIN s.socks[k].up, NEW b \in Asks
               PROVE  LET m == s.socks[k].up[i] IN
                      /\ Creation(m, b) \/ Resolution(m, b) => Belongs(F[b], s.socks[k].url)
                      /\ Creation(m, b) /\ ~m.flush => F[b].origin # None
                      /\ Resolution(m, b) => F[b].state \in LocallyEnded /\ r.local[b].kind = "none"
    BY <1>s DEF UpFits
  <2> DEFINE m == s.socks[k].up[i]
  <2>1. /\ Creation(m, b) \/ Resolution(m, b) => Belongs(E[b], s.socks[k].url)
        /\ Creation(m, b) /\ ~m.flush => E[b].origin # None
        /\ Resolution(m, b) => E[b].state \in LocallyEnded /\ s.local[b].kind = "none"
    BY <1>1 DEF Fits, UpFits
  <2>2. Evolves(E[b], F[b])
    BY <1>4
  <2>3. Resolution(m, b) => b # a
    BY <1>6
  <2>4. QED
    BY <1>0, <2>1, <2>2, <2>3 DEF Evolves, Belongs
<1>11. RepliesFit(r, F, row) /\ RowsFit(F, row)
  <2>1. \A k \in DOMAIN s.socks : \A i \in DOMAIN s.socks[k].down : s.socks[k].down[i].ask \in Asks
    BY <1>2, QueueFacts
  <2>2. \A b \in Asks : F[b].origin = E[b].origin
    BY <1>0
  <2>3. RepliesFit(r, F, row)
    BY <1>1, <1>s, <2>1, <2>2 DEF Fits, RepliesFit
  <2>4. \A b \in Asks, t \in Targets : Belongs(E[b], t) => Belongs(F[b], t)
    BY <1>4 DEF Evolves, Belongs
  <2>5. QED
    BY <1>2, <1>8, <2>3, <2>4 DEF RowsFit, EndsFit
<1>12. Deliveries(r, F, row)
  <2> SUFFICES ASSUME NEW b \in Asks, F[b].state \in LocallyEnded, ~s.stopped, b \notin s.givenUp
               PROVE  Delivered(r, F, row, b)
    BY <1>s DEF Deliveries
  <2>1. CASE b # a
    <3>1. Delivered(s, E, row, b) /\ F[b] = E[b] /\ r.local[b] = s.local[b]
      BY <1>0, <1>1, <2>1 DEF Fits, Deliveries
    <3>2. QED
      BY <1>s, <3>1 DEF Delivered
  <2>2. CASE b = a /\ r.local[a].kind # "none"
    BY <2>2 DEF Delivered
  <2>3. CASE b = a /\ r.local[a].kind = "none"
    <3>1. E[a].origin = None
      BY <1>0, <1>l, <2>3 DEF LocallyEnded
    <3>2. \A t \in Targets : row[t][a] # "pending"
      BY <1>0, <1>2, <3>1 DEF RowsFit, Belongs, Touched
    <3>3. \A k \in DOMAIN s.socks : \A i \in DOMAIN s.socks[k].up : ~Creation(s.socks[k].up[i], a)
      BY <1>5, <3>1
    <3>4. QED
      BY <1>s, <2>3, <3>2, <3>3 DEF Delivered
  <2>4. QED
    BY <2>1, <2>2, <2>3
<1>13. Receipts(r, F, Y)
  BY <1>0, <1>e, <1>1, <1>s DEF Receipts, Current, AnswerDue
<1>14. QED
  BY <1>2, <1>s, <1>7, <1>9, <1>10, <1>11, <1>12, <1>13 DEF Sound, Fits

\* An ask ends by what the server said, or by nobody hearing of it.
LEMMA EndAskSound ==
  ASSUME NEW s, NEW row, NEW Y, Sound(s, s.ask, row, Y), NEW a \in Asks, s.ask[a].state = "waiting",
         NEW outcome \in AskStates \ {"new", "waiting", "answered here", "cancelled here"},
         outcome \in {"answered", "cancelled"} => s.ask[a].origin # None /\ row[s.ask[a].origin][a] = outcome,
         outcome \in {"unavailable", "aborted"} => s.ask[a].origin = None
  PROVE  LET r == EndAsk(s, a, outcome)
         IN Sound(r, r.ask, row, Y \ {a}) /\ (IsConnected(r) => IsConnected(s))
<1> DEFINE b == Ended(s, a, outcome)
           r == EndAsk(s, a, outcome)
<1>1. s \in Clients /\ outcome \in AskStates
  BY DEF Sound, Fits
<1>2. EndsIn(s, b, a, outcome)
  BY <1>1, EndedFacts
<1> HIDE DEF b
<1>e. EndsAt(s, s.ask, row, a, b, b.ask)
  BY <1>2 DEF EndsIn, EndsAt, SameWork
<1>3. Sound(b, b.ask, row, Y \ {a})
  <2>1. Sound(b, b.ask, row, Y)
    BY <1>e, EndedSound
  <2>2. QED
    BY <1>2, <2>1 DEF EndsIn, Sound, Receipts
<1>4. r = TryApplyDeferredTarget(b)
  BY EndAskIsTryApply DEF b
<1>5. IsConnected(b) <=> IsConnected(s)
  BY <1>2 DEF EndsIn, SameWork, IsConnected, Current
<1>6. Sound(r, b.ask, row, Y \ {a}) /\ r.ask = b.ask /\ (IsConnected(r) => IsConnected(b))
  <2> DEFINE Z == Y \ {a}
  <2>1. Sound(b, b.ask, row, Z) /\ UpToDate(b, b.ask)
    BY <1>3, UpToDateWithItself
  <2> HIDE DEF Z
  <2>2. Sound(TryApplyDeferredTarget(b), b.ask, row, Z) /\ TryApplyDeferredTarget(b).ask = b.ask
        /\ (IsConnected(TryApplyDeferredTarget(b)) => IsConnected(b))
    BY <2>1, TryApplyFits
  <2> HIDE DEF r
  <2>3. QED
    BY <1>4, <2>2 DEF Z
<1>7. QED
  BY <1>5, <1>6

-----------------------------------------------------------------------------
(* Sending over the current socket.                                          *)

SentSockets(s, q) ==
  IF Current(s).cut THEN [s.socks EXCEPT ![s.cur].lost = TRUE] ELSE [s.socks EXCEPT ![s.cur].up = @ \o q]
\* r is s after it sent the messages q over its open socket, with L for the
\* resolutions it has left and whatever became of its table of asks.
SentBy(s, r, q, L) ==
  /\ r \in Clients /\ r.cur = s.cur /\ r.url = s.url /\ r.stopped = s.stopped /\ r.local = L
  /\ r.givenUp = s.givenUp /\ r.queries = s.queries /\ r.timer = s.timer /\ r.checks = s.checks
  /\ r.socks = SentSockets(s, q)
\* What may be sent.
Sendable(s, E, q, L) ==
  /\ q \in Seq(UpMessages)
  /\ \A i \in DOMAIN q, a \in Asks :
       /\ Creation(q[i], a) \/ Resolution(q[i], a) => Belongs(E[a], s.url)
       /\ Creation(q[i], a) /\ ~q[i].flush => E[a].origin # None
       /\ Creation(q[i], a) => E[a].state = "waiting"
                               \/ (s.local[a].kind # "none" /\ (L[a].kind = "none" => \E n \in DOMAIN q : Resolution(q[n], a)))
       /\ Resolution(q[i], a) => E[a].state \in LocallyEnded /\ L[a].kind = "none"
       /\ \A n \in DOMAIN q : Resolution(q[i], a) /\ Creation(q[n], a) => n < i
  /\ \A a \in Asks : \/ L[a] = s.local[a]
                     \/ /\ L[a].kind = "none" /\ s.local[a].kind # "none"
                        /\ \E i \in DOMAIN q : Resolution(q[i], a)

SocketsSent(s, r, q) ==
  /\ Len(r.socks) = Len(s.socks) /\ DOMAIN r.socks = DOMAIN s.socks
  /\ \A k \in DOMAIN s.socks : k # s.cur => r.socks[k] = s.socks[k]
  /\ r.socks[s.cur].url = s.socks[s.cur].url /\ r.socks[s.cur].state = s.socks[s.cur].state
  /\ r.socks[s.cur].cut = s.socks[s.cur].cut /\ r.socks[s.cur].suppress = s.socks[s.cur].suppress
  /\ r.socks[s.cur].down = s.socks[s.cur].down
  /\ s.socks[s.cur].cut => r.socks[s.cur].lost /\ r.socks[s.cur].up = s.socks[s.cur].up
  /\ ~s.socks[s.cur].cut => /\ r.socks[s.cur].lost = s.socks[s.cur].lost
                            /\ r.socks[s.cur].up = s.socks[s.cur].up \o q

LEMMA SentFacts ==
  ASSUME NEW s \in Clients, SocketsFit(s), NEW r, NEW q \in Seq(UpMessages), NEW L, SentBy(s, r, q, L)
  PROVE  SocketsSent(s, r, q)
<1> DEFINE n == s.cur
           o == s.socks[n]
           lost == [o EXCEPT !.lost = TRUE]
           more == [o EXCEPT !.up = @ \o q]
<1>1. n \in DOMAIN s.socks /\ o \in ClientSockets /\ Current(s) = o /\ s.socks \in Seq(ClientSockets)
  BY CurrentFacts DEF Clients
<1>2. /\ lost.url = o.url /\ lost.state = o.state /\ lost.cut = o.cut /\ lost.suppress = o.suppress
      /\ lost.down = o.down /\ lost.lost = TRUE /\ lost.up = o.up
  BY <1>1 DEF ClientSockets
<1>3. /\ more.url = o.url /\ more.state = o.state /\ more.cut = o.cut /\ more.suppress = o.suppress
      /\ more.down = o.down /\ more.lost = o.lost /\ more.up = o.up \o q
  BY <1>1 DEF ClientSockets
<1>4. r.socks = IF o.cut THEN [s.socks EXCEPT ![n] = lost] ELSE [s.socks EXCEPT ![n] = more]
  BY <1>1 DEF SentBy, SentSockets
<1> HIDE DEF lost, more
<1>5. Len(r.socks) = Len(s.socks) /\ DOMAIN r.socks = DOMAIN s.socks
  BY <1>1, <1>4
<1>6. r.socks[n] = IF o.cut THEN lost ELSE more
  BY <1>1, <1>4
<1>7. \A k \in DOMAIN s.socks : k # n => r.socks[k] = s.socks[k]
  BY <1>1, <1>4
<1>8. QED
  BY <1>2, <1>3, <1>5, <1>6, <1>7 DEF SocketsSent

\* The messages of a queue that has been appended to.
Extends(p, u, q) ==
  /\ \A i \in DOMAIN u : i \in DOMAIN p \/ \E n \in DOMAIN q : i = Len(p) + n
  /\ \A i \in DOMAIN p : i \in DOMAIN u /\ u[i] = p[i] /\ i <= Len(p)
  /\ \A n \in DOMAIN q : Len(p) + n \in DOMAIN u /\ u[Len(p) + n] = q[n]

LEMMA Appended ==
  ASSUME NEW M, NEW p \in Seq(M), NEW q \in Seq(M)
  PROVE  Extends(p, p \o q, q)
<1>1. /\ Len(p) \in Nat /\ Len(q) \in Nat /\ DOMAIN p = 1..Len(p) /\ DOMAIN q = 1..Len(q)
      /\ DOMAIN (p \o q) = 1..(Len(p) + Len(q))
  OBVIOUS
<1>2. \A i \in DOMAIN p : i \in DOMAIN (p \o q) /\ (p \o q)[i] = p[i] /\ i <= Len(p)
  BY <1>1
<1>3. \A n \in DOMAIN q : Len(p) + n \in DOMAIN (p \o q) /\ (p \o q)[Len(p) + n] = q[n]
  BY <1>1
<1>4. ASSUME NEW i \in DOMAIN (p \o q), i \notin DOMAIN p
      PROVE  \E n \in DOMAIN q : i = Len(p) + n
  <2>1. i - Len(p) \in DOMAIN q /\ i = Len(p) + (i - Len(p))
    BY <1>1, <1>4
  <2>2. QED
    BY <2>1
<1>5. QED
  BY <1>2, <1>3, <1>4 DEF Extends

LEMMA SendFacts ==
  ASSUME NEW s \in Clients, SocketsFit(s), IsConnected(s), NEW q \in Seq(UpMessages)
  PROVE  SentSockets(s, q) \in Seq(ClientSockets) /\ Send(s, q) = [s EXCEPT !.socks = SentSockets(s, q)]
<1> DEFINE n == s.cur
           o == s.socks[n]
           lost == [o EXCEPT !.lost = TRUE]
           more == [o EXCEPT !.up = @ \o q]
<1>1. /\ Current(s) = o /\ n # 0 /\ s.socks \in Seq(ClientSockets) /\ n \in DOMAIN s.socks /\ o \in ClientSockets
  BY CurrentFacts DEF Clients
<1>2. o.up \in Seq(UpMessages)
  BY <1>1 DEF ClientSockets
<1>3. o.up \o q \in Seq(UpMessages)
  BY <1>2
<1>4. lost \in ClientSockets
  BY <1>1 DEF ClientSockets
<1>5. more \in ClientSockets
  <2> DEFINE u == o.up \o q
  <2>1. u \in Seq(UpMessages)
    BY <1>3
  <2>2. more = [o EXCEPT !.up = u]
    OBVIOUS
  <2> HIDE DEF u
  <2>3. QED
    BY <1>1, <2>1, <2>2 DEF ClientSockets
<1>6. SentSockets(s, q) = IF o.cut THEN [s.socks EXCEPT ![n] = lost] ELSE [s.socks EXCEPT ![n] = more]
  BY <1>1 DEF SentSockets
<1> HIDE DEF lost, more
<1>7. [s.socks EXCEPT ![n] = lost] \in Seq(ClientSockets) /\ [s.socks EXCEPT ![n] = more] \in Seq(ClientSockets)
  BY <1>1, <1>4, <1>5
<1>8. SentSockets(s, q) \in Seq(ClientSockets)
  BY <1>6, <1>7
<1>9. Send(s, q) = [s EXCEPT !.socks = SentSockets(s, q)]
  BY <1>1 DEF Send, SentSockets, Clients
<1>10. QED
  BY <1>8, <1>9

LEMMA SentSound ==
  ASSUME NEW s, NEW E, NEW row, NEW Y, Sound(s, E, row, Y), NEW r, NEW q, NEW L, NEW Z,
         SentBy(s, r, q, L), Sendable(s, E, q, L), IsConnected(s),
         \A a \in Y \ Z : \E i \in DOMAIN q : Creation(q[i], a) /\ ~q[i].flush
  PROVE  Sound(r, E, row, Z) /\ IsConnected(r)
<1> DEFINE n == s.cur
           o == s.socks[n]
<1>1. /\ Fits(s, E, row) /\ ReconnectDue(s) /\ Receipts(s, E, Y) /\ s \in Clients /\ SocketsFit(s)
      /\ r \in Clients /\ q \in Seq(UpMessages)
  BY DEF Sound, Fits, SentBy, Sendable
<1>2. /\ n \in DOMAIN s.socks /\ Current(s) = o /\ o.state = "open" /\ o.url = s.url /\ n = Len(s.socks)
      /\ n \in Nat /\ DOMAIN s.socks = 1..n /\ o.up \in Seq(UpMessages) /\ n # 0
  <2>1. n \in DOMAIN s.socks /\ Current(s) = o /\ o.state = "open" /\ n \in Nat /\ DOMAIN s.socks = 1..n /\ n # 0
    BY <1>1, CurrentFacts
  <2>2. o.url = s.url /\ n = Len(s.socks)
    BY <1>1, <2>1 DEF SocketsFit
  <2>3. o.up \in Seq(UpMessages)
    BY <1>1, <2>1, QueueFacts
  <2>4. QED
    BY <2>1, <2>2, <2>3
<1>3. /\ r.cur = n /\ r.url = s.url /\ r.stopped = s.stopped /\ r.local = L /\ r.givenUp = s.givenUp
      /\ r.queries = s.queries /\ r.timer = s.timer /\ r.checks = s.checks
  BY DEF SentBy
<1>4. /\ Len(r.socks) = n /\ DOMAIN r.socks = DOMAIN s.socks
      /\ \A k \in DOMAIN s.socks : k # n => r.socks[k] = s.socks[k]
      /\ r.socks[n].url = o.url /\ r.socks[n].state = o.state /\ r.socks[n].cut = o.cut
      /\ r.socks[n].suppress = o.suppress /\ r.socks[n].down = o.down
      /\ o.cut => r.socks[n].lost /\ r.socks[n].up = o.up
      /\ ~o.cut => r.socks[n].lost = o.lost /\ r.socks[n].up = o.up \o q
  <2>1. SocketsSent(s, r, q)
    BY <1>1, SentFacts
  <2>2. QED
    BY <1>2, <2>1 DEF SocketsSent
<1>5. Current(r) = r.socks[n] /\ IsConnected(r)
  BY <1>2, <1>3, <1>4 DEF Current, IsConnected
<1>6. \A k \in DOMAIN s.socks : /\ r.socks[k].url = s.socks[k].url /\ r.socks[k].down = s.socks[k].down
                                /\ r.socks[k].state = s.socks[k].state /\ r.socks[k].cut = s.socks[k].cut
                                /\ s.socks[k].lost => r.socks[k].lost
  BY <1>4
<1>q. ~o.cut => Extends(o.up, r.socks[n].up, q)
  BY <1>1, <1>2, <1>4, Appended
<1>7. \A k \in DOMAIN s.socks : \A i \in DOMAIN r.socks[k].up :
        \/ i \in DOMAIN s.socks[k].up /\ r.socks[k].up[i] = s.socks[k].up[i]
        \/ k = n /\ ~o.cut /\ \E x \in DOMAIN q : i = Len(o.up) + x /\ r.socks[k].up[i] = q[x]
  <2> TAKE k \in DOMAIN s.socks
  <2>1. CASE k # n \/ o.cut
    BY <1>4, <2>1
  <2>2. CASE k = n /\ ~o.cut
    BY <1>q, <2>2 DEF Extends
  <2>3. QED
    BY <2>1, <2>2
<1>8. \A k \in DOMAIN s.socks : \A i \in DOMAIN s.socks[k].up :
        i \in DOMAIN r.socks[k].up /\ r.socks[k].up[i] = s.socks[k].up[i]
  <2> TAKE k \in DOMAIN s.socks
  <2>1. CASE k # n \/ o.cut
    BY <1>4, <2>1
  <2>2. CASE k = n /\ ~o.cut
    BY <1>q, <2>2 DEF Extends
  <2>3. QED
    BY <2>1, <2>2
<1>9. ~o.cut => \A x \in DOMAIN q : Len(o.up) + x \in DOMAIN r.socks[n].up /\ r.socks[n].up[Len(o.up) + x] = q[x]
  BY <1>q DEF Extends
<1>10. /\ \A k \in DOMAIN s.socks : \A i \in DOMAIN s.socks[k].up : \A a \in Asks :
            LET m == s.socks[k].up[i] IN
            /\ Creation(m, a) \/ Resolution(m, a) => Belongs(E[a], s.socks[k].url)
            /\ Creation(m, a) /\ ~m.flush => E[a].origin # None
            /\ Resolution(m, a) => E[a].state \in LocallyEnded /\ s.local[a].kind = "none"
       /\ EntriesFit(s, E)
  BY <1>1 DEF Fits, UpFits
<1>11. /\ \A i \in DOMAIN q, a \in Asks :
            /\ Creation(q[i], a) \/ Resolution(q[i], a) => Belongs(E[a], s.url)
            /\ Creation(q[i], a) /\ ~q[i].flush => E[a].origin # None
            /\ Creation(q[i], a) => E[a].state = "waiting"
                                    \/ (s.local[a].kind # "none" /\ (L[a].kind = "none" => \E x \in DOMAIN q : Resolution(q[x], a)))
            /\ Resolution(q[i], a) => E[a].state \in LocallyEnded /\ L[a].kind = "none"
            /\ \A x \in DOMAIN q : Resolution(q[i], a) /\ Creation(q[x], a) => x < i
       /\ \A a \in Asks : \/ L[a] = s.local[a]
                          \/ /\ L[a].kind = "none" /\ s.local[a].kind # "none"
                             /\ \E i \in DOMAIN q : Resolution(q[i], a)
  BY DEF Sendable
<1>12. SocketsFit(r)
  <2>1. \A k \in DOMAIN s.socks : /\ s.socks[k].lost => s.socks[k].cut
                                  /\ s.socks[k].cut => s.socks[k].up = <<>> /\ s.socks[k].down = <<>>
    BY <1>1 DEF SocketsFit
  <2>2. \A k \in DOMAIN r.socks : /\ r.socks[k].lost => r.socks[k].cut
                                  /\ r.socks[k].cut => r.socks[k].up = <<>> /\ r.socks[k].down = <<>>
    BY <1>2, <1>4, <2>1
  <2>3. \A k \in r.queries : k \in DOMAIN r.socks /\ r.socks[k].state # "closed"
    BY <1>1, <1>3, <1>4, <1>6 DEF SocketsFit
  <2>4. QED
    BY <1>2, <1>3, <1>4, <1>5, <2>2, <2>3 DEF SocketsFit
<1>13. EntriesFit(r, E)
  BY <1>3, <1>10, <1>11 DEF EntriesFit
<1>14. UpFits(r, E)
  <2> SUFFICES ASSUME NEW k \in DOMAIN s.socks, NEW i \in DOMAIN r.socks[k].up, NEW a \in Asks
               PROVE  LET m == r.socks[k].up[i] IN
                      /\ Creation(m, a) \/ Resolution(m, a) => Belongs(E[a], s.socks[k].url)
                      /\ Creation(m, a) /\ ~m.flush => E[a].origin # None
                      /\ Resolution(m, a) => E[a].state \in LocallyEnded /\ L[a].kind = "none"
    BY <1>3, <1>4, <1>6 DEF UpFits
  <2>1. CASE i \in DOMAIN s.socks[k].up /\ r.socks[k].up[i] = s.socks[k].up[i]
    BY <1>10, <1>11, <2>1
  <2>2. CASE k = n /\ \E x \in DOMAIN q : r.socks[k].up[i] = q[x]
    BY <1>2, <1>11, <2>2
  <2>3. QED
    BY <1>7, <2>1, <2>2
<1>15. CreatedFirst(r)
  <2> SUFFICES ASSUME NEW k \in DOMAIN s.socks, NEW j \in DOMAIN s.socks,
                      NEW i \in DOMAIN r.socks[k].up, NEW m \in DOMAIN r.socks[j].up, NEW a \in Asks,
                      Resolution(r.socks[k].up[i], a), Creation(r.socks[j].up[m], a)
               PROVE  j < k \/ (j = k /\ m < i)
    BY <1>4 DEF CreatedFirst
  <2>1. CASE i \in DOMAIN s.socks[k].up /\ r.socks[k].up[i] = s.socks[k].up[i]
    <3>1. Resolution(s.socks[k].up[i], a) /\ E[a].state \in LocallyEnded /\ s.local[a].kind = "none"
      BY <1>10, <2>1
    <3>2. \A x \in DOMAIN q : ~Creation(q[x], a)
      BY <1>11, <3>1 DEF LocallyEnded
    <3>3. m \in DOMAIN s.socks[j].up /\ r.socks[j].up[m] = s.socks[j].up[m]
      BY <1>7, <3>2
    <3>4. QED
      BY <1>1, <2>1, <3>3 DEF Fits, CreatedFirst
  <2>2. CASE k = n /\ ~o.cut /\ \E x \in DOMAIN q : i = Len(o.up) + x /\ r.socks[k].up[i] = q[x]
    <3>1. PICK x \in DOMAIN q : i = Len(o.up) + x /\ r.socks[k].up[i] = q[x]
      BY <2>2
    <3>2. x \in Nat /\ x >= 1 /\ Len(o.up) \in Nat
      BY <1>1, <1>2
    <3>3. CASE j # n
      BY <1>2, <2>2, <3>3
    <3>4. CASE j = n /\ m \in DOMAIN o.up
      BY <1>2, <1>q, <2>2, <3>1, <3>2, <3>4 DEF Extends
    <3>5. CASE j = n /\ \E y \in DOMAIN q : m = Len(o.up) + y /\ r.socks[j].up[m] = q[y]
      <4>1. PICK y \in DOMAIN q : m = Len(o.up) + y /\ r.socks[j].up[m] = q[y]
        BY <3>5
      <4>2. y < x
        BY <1>11, <3>1, <4>1
      <4>3. y \in Nat
        BY <1>1
      <4>4. QED
        BY <2>2, <3>1, <3>2, <3>5, <4>1, <4>2, <4>3
    <3>6. QED
      BY <1>7, <3>3, <3>4, <3>5
  <2>3. QED
    BY <1>7, <2>1, <2>2
<1>16. RepliesFit(r, E, row)
  BY <1>1, <1>4, <1>6 DEF Fits, RepliesFit
<1>17. Deliveries(r, E, row)
  <2> SUFFICES ASSUME NEW a \in Asks, E[a].state \in LocallyEnded, ~s.stopped, a \notin s.givenUp
               PROVE  Delivered(r, E, row, a)
    BY <1>3 DEF Deliveries
  <2>1. Delivered(s, E, row, a)
    BY <1>1 DEF Fits, Deliveries
  <2>2. ASSUME NEW x \in DOMAIN q, Resolution(q[x], a) PROVE Delivered(r, E, row, a)
    <3>1. r.socks[n].url = Home(E[a])
      BY <1>2, <1>4, <1>11, <2>2 DEF Belongs
    <3>2. r.socks[n].lost \/ \E i \in DOMAIN r.socks[n].up : Resolution(r.socks[n].up[i], a)
      BY <1>4, <1>9, <2>2
    <3>3. QED
      BY <1>2, <1>4, <3>1, <3>2 DEF Delivered
  <2>3. ASSUME \A x \in DOMAIN q : ~Resolution(q[x], a) PROVE Delivered(r, E, row, a)
    <3>1. L[a] = s.local[a]
      BY <1>11, <2>3
    <3>2. CASE s.local[a].kind # "none"
      BY <1>3, <3>1, <3>2 DEF Delivered
    <3>3. CASE s.local[a].kind = "none"
      <4>1. \A x \in DOMAIN q : ~Creation(q[x], a)
        BY <1>11, <3>3 DEF LocallyEnded
      <4>2. CASE \E k \in DOMAIN s.socks :
                   /\ s.socks[k].url = Home(E[a])
                   /\ s.socks[k].lost \/ \E i \in DOMAIN s.socks[k].up : Resolution(s.socks[k].up[i], a)
        BY <1>4, <1>6, <1>8, <4>2 DEF Delivered
      <4>3. CASE /\ \A t \in Targets : row[t][a] # "pending"
                 /\ \A k \in DOMAIN s.socks : \A i \in DOMAIN s.socks[k].up : ~Creation(s.socks[k].up[i], a)
        <5>1. \A k \in DOMAIN r.socks : \A i \in DOMAIN r.socks[k].up : ~Creation(r.socks[k].up[i], a)
          BY <1>4, <1>7, <4>1, <4>3
        <5>2. QED
          BY <4>3, <5>1 DEF Delivered
      <4>4. QED
        BY <2>1, <3>3, <4>2, <4>3 DEF Delivered
    <3>4. QED
      BY <3>2, <3>3
  <2>4. QED
    BY <2>2, <2>3
<1>18. ReconnectDue(r)
  BY <1>1, <1>2, <1>3, <1>4, <1>5 DEF ReconnectDue
<1>19. Receipts(r, E, Z)
  <2> SUFFICES ASSUME NEW a \in Asks \ Z, E[a].receipt = "awaited", ~o.cut
               PROVE  AnswerDue(r, a)
    BY <1>4, <1>5 DEF Receipts
  <2>1. CASE a \in Y
    BY <1>5, <1>9, <2>1 DEF AnswerDue
  <2>2. CASE a \notin Y
    <3>1. AnswerDue(s, a)
      BY <1>1, <1>2, <2>2 DEF Receipts
    <3>2. QED
      BY <1>2, <1>4, <1>5, <1>8, <3>1 DEF AnswerDue
  <2>3. QED
    BY <2>1, <2>2
<1>20. QED
  BY <1>1, <1>5, <1>12, <1>13, <1>14, <1>15, <1>16, <1>17, <1>18, <1>19 DEF Sound, Fits

\* sendPendingAsk answers for the receipt of the ask it sends.
LEMMA SendPendingAskSound ==
  ASSUME NEW s, NEW row, NEW Y, Sound(s, s.ask, row, Y), NEW a \in Asks, s.ask[a].state = "waiting"
  PROVE  Sound(SendPendingAsk(a, s), SendPendingAsk(a, s).ask, row, Y \ {a})
<1> DEFINE e == s.ask[a]
           f == [e EXCEPT !.sent = TRUE, !.unavailable = FALSE, !.origin = s.url]
           F == [s.ask EXCEPT ![a] = f]
           q == <<[type |-> "create", ask |-> a, flush |-> FALSE]>>
           r == SendPendingAsk(a, s)
<1>1. /\ Fits(s, s.ask, row) /\ ReconnectDue(s) /\ Receipts(s, s.ask, Y) /\ s \in Clients /\ SocketsFit(s)
      /\ EntriesFit(s, s.ask) /\ RowsFit(s.ask, row) /\ s.ask \in AskTables /\ e \in Entries /\ s.url \in Targets
  BY DEF Sound, Fits, Clients, AskTables
<1>2. e.origin \in {None, s.url} /\ ~s.stopped /\ s.local[a].kind = "none"
  BY <1>1 DEF EntriesFit, LocallyEnded
<1>3. CASE ~IsConnected(s)
  <2>1. Receipts(s, s.ask, Y \ {a})
    BY <1>1, <1>3, CurrentFacts DEF Receipts
  <2>2. Sound(s, s.ask, row, Y \ {a})
    BY <1>1, <2>1 DEF Sound
  <2>3. CASE e.receipt # "none"
    <3>1. r = EndAsk(s, a, "error")
      BY <1>2, <1>3, <2>3 DEF SendPendingAsk
    <3>2. "error" \in AskStates \ {"new", "waiting", "answered here", "cancelled here"}
      BY DEF AskStates
    <3>3. Sound(EndAsk(s, a, "error"), EndAsk(s, a, "error").ask, row, Y \ {a})
      BY <3>2, EndAskSound
    <3> HIDE DEF r
    <3>4. QED
      BY <3>1, <3>3 DEF r
  <2>4. CASE e.receipt = "none"
    BY <1>2, <1>3, <2>2, <2>4 DEF SendPendingAsk
  <2>5. QED
    BY <2>3, <2>4
<1>4. CASE IsConnected(s)
  <2>1. /\ f \in Entries /\ f.origin = s.url /\ f.sent = TRUE /\ f.unavailable = FALSE /\ f.state = e.state
        /\ f.receipt = e.receipt /\ f.created = e.created /\ f.affinity = e.affinity
    BY <1>1 DEF Entries
  <2> HIDE DEF f
  <2>2. F \in AskTables /\ F[a] = f /\ \A b \in Asks : b # a => F[b] = s.ask[b]
    BY <1>1, <2>1 DEF AskTables
  <2>3. r = [Send(s, q) EXCEPT !.ask = [Send(s, q).ask EXCEPT ![a] = [@ EXCEPT !.sent = TRUE, !.unavailable = FALSE, !.origin = s.url]]]
    BY <1>2, <1>4 DEF SendPendingAsk
  <2>4. s.url # None
    BY <1>1, ClientAssumption
  <2> HIDE DEF F
  <2>5. \A b \in Asks : Evolves(s.ask[b], F[b])
    <3> TAKE b \in Asks
    <3>1. CASE b # a
      BY <2>2, <3>1 DEF Evolves
    <3>2. CASE b = a
      BY <1>2, <2>1, <2>2, <2>4, <3>2 DEF Evolves, Touched, Home, LocallyEnded
    <3>3. QED
      BY <3>1, <3>2
  <2>6. EntriesFit(s, F)
    <3> SUFFICES ASSUME NEW b \in Asks
                 PROVE  /\ F[b].sent <=> F[b].origin # None
                        /\ F[b].state = "new" => F[b] = NewAsk
                        /\ F[b].state # "waiting" => ~F[b].unavailable /\ ~F[b].affinity /\ F[b].receipt # "awaited"
                        /\ F[b].state = "waiting" => ~s.stopped /\ F[b].origin \in {None, s.url}
                        /\ F[b].state = "unavailable" => F[b].origin = None
                        /\ s.local[b].kind # "none" => Belongs(F[b], s.local[b].origin) /\ F[b].state \in LocallyEnded
      BY DEF EntriesFit
    <3>1. CASE b # a
      BY <1>1, <2>2, <3>1 DEF EntriesFit
    <3>2. CASE b = a
      BY <1>2, <2>1, <2>2, <2>4, <3>2
    <3>3. QED
      BY <3>1, <3>2
  <2>7. EndsFit(F, row)
    <3> SUFFICES ASSUME NEW b \in Asks
                 PROVE  /\ F[b].receipt = "ok" => F[b].origin # None /\ row[F[b].origin][b] # "none"
                        /\ F[b].state \in {"answered", "cancelled"} => F[b].origin # None /\ row[F[b].origin][b] = F[b].state
      BY DEF EndsFit
    <3>1. CASE b # a
      BY <1>1, <2>2, <3>1 DEF RowsFit
    <3>2. CASE b = a
      BY <1>1, <1>2, <2>1, <2>2, <2>4, <3>2 DEF RowsFit
    <3>3. QED
      BY <3>1, <3>2
  <2>8. Deliveries(s, F, row)
    <3> SUFFICES ASSUME NEW b \in Asks, F[b].state \in LocallyEnded, ~s.stopped, b \notin s.givenUp
                 PROVE  Delivered(s, F, row, b)
      BY DEF Deliveries
    <3>1. b # a
      BY <2>1, <2>2 DEF LocallyEnded
    <3>2. Delivered(s, s.ask, row, b) /\ F[b] = s.ask[b]
      BY <1>1, <2>2, <3>1 DEF Fits, Deliveries
    <3>3. QED
      BY <3>2 DEF Delivered
  <2>9. Fits(s, F, row)
    <3>1. SameSockets(s, s)
      BY DEF SameSockets
    <3>2. QED
      BY <1>1, <2>2, <2>5, <2>6, <2>7, <2>8, <3>1, EvolvedFits
  <2>10. Receipts(s, F, Y)
    <3>1. \A b \in Asks \ Y : F[b].receipt = "awaited" => s.ask[b].receipt = "awaited"
      BY <2>1, <2>2
    <3>2. QED
      BY <1>1, <3>1, EvolvedReceipts
  <2>11. Sound(s, F, row, Y)
    BY <1>1, <2>9, <2>10 DEF Sound
  <2>12. q \in Seq(UpMessages) /\ q[1] = [type |-> "create", ask |-> a, flush |-> FALSE] /\ DOMAIN q = {1}
    <3>1. [type |-> "create", ask |-> a, flush |-> FALSE] \in UpMessages
      BY DEF UpMessages
    <3>2. QED
      BY <3>1
  <2>13. \A i \in DOMAIN q, b \in Asks : (Creation(q[i], b) => b = a) /\ ~Resolution(q[i], b)
    BY <2>12 DEF Creation, Resolution
  <2>14. Creation(q[1], a) /\ ~q[1].flush
    BY <2>12 DEF Creation
  <2> HIDE DEF q
  <2>15. Belongs(F[a], s.url) /\ F[a].origin # None /\ F[a].state = "waiting"
    BY <2>1, <2>2, <2>4 DEF Belongs, Touched, Home
  <2>16. Sendable(s, F, q, s.local)
    BY <2>12, <2>13, <2>15 DEF Sendable
  <2>17. SentBy(s, r, q, s.local) /\ r.ask = F
    <3> DEFINE S == SentSockets(s, q)
    <3>2. Send(s, q) = [s EXCEPT !.socks = S]
      BY <1>1, <1>4, <2>12, SendFacts
    <3>3. S \in Seq(ClientSockets)
      BY <1>1, <1>4, <2>12, SendFacts
    <3> HIDE DEF S
    <3>4. r = [s EXCEPT !.socks = S, !.ask = F]
      BY <1>1, <2>3, <3>2 DEF F, f, Clients
    <3>5. r \in Clients
      BY <1>1, <2>2, <3>3, <3>4 DEF Clients
    <3>6. /\ r.cur = s.cur /\ r.url = s.url /\ r.stopped = s.stopped /\ r.local = s.local
          /\ r.givenUp = s.givenUp /\ r.queries = s.queries /\ r.timer = s.timer /\ r.checks = s.checks
          /\ r.socks = S /\ r.ask = F
      BY <1>1, <3>4 DEF Clients
    <3>7. QED
      BY <3>5, <3>6 DEF SentBy, S
  <2>18. \A b \in Y \ (Y \ {a}) : \E i \in DOMAIN q : Creation(q[i], b) /\ ~q[i].flush
    BY <2>12, <2>14
  <2>19. Sound(r, F, row, Y \ {a})
    BY <1>4, <2>11, <2>16, <2>17, <2>18, SentSound
  <2>20. QED
    BY <2>17, <2>19
<1>5. QED
  BY <1>3, <1>4

LEMMA ReplayAskSound ==
  ASSUME NEW s, NEW row, NEW Y, Sound(s, s.ask, row, Y), NEW a \in Asks
  PROVE  Sound(ReplayAsk(a, s), ReplayAsk(a, s).ask, row, Y \ {a})
<1>1. CASE s.ask[a].state = "waiting"
  BY <1>1, SendPendingAskSound DEF ReplayAsk, Waiting
<1>2. CASE s.ask[a].state # "waiting"
  <2>1. s.ask[a].receipt # "awaited"
    BY <1>2 DEF Sound, Fits, EntriesFit
  <2>2. Receipts(s, s.ask, Y \ {a})
    BY <2>1 DEF Sound, Receipts
  <2>3. QED
    BY <1>2, <2>2 DEF Sound, ReplayAsk, Waiting
<1>3. QED
  BY <1>1, <1>2

LEMMA AskOrderFacts ==
  /\ Cardinality(Asks) \in Nat /\ AskOrder \in [1..Cardinality(Asks) -> Asks]
  /\ \A a \in Asks : \E n \in 1..Cardinality(Asks) : AskOrder[n] = a
<1>1. Cardinality(Asks) \in Nat /\ ExistsBijection(1..Cardinality(Asks), Asks)
  BY ClientAssumption, FS_CardinalityType
<1>2. \E order \in [1..Cardinality(Asks) -> Asks] : \A a \in Asks : \E n \in DOMAIN order : order[n] = a
  BY <1>1 DEF ExistsBijection, Bijection, Surjection
<1>3. AskOrder \in [1..Cardinality(Asks) -> Asks] /\ \A a \in Asks : \E n \in DOMAIN AskOrder : AskOrder[n] = a
  BY <1>2 DEF AskOrder
<1>4. QED
  BY <1>1, <1>3

\* Every waiting ask has been sent again after replayPendingAsks.
LEMMA ReplayPendingAsksSound ==
  ASSUME NEW start, NEW row, Sound(start, start.ask, row, Asks)
  PROVE  Sound(ReplayPendingAsks(start), ReplayPendingAsks(start).ask, row, {})
<1> DEFINE C == Cardinality(Asks)
           S == {s \in Clients : Sound(s, s.ask, row, Asks)}
           Replayed(s, n) == ReplayAsk(AskOrder[n], s)
           step == [ns \in (1..C) \X S |-> Replayed(ns[2], ns[1])]
           Eq(h) == h = [n \in 0..C |-> IF n = 0 THEN start ELSE Replayed(h[n - 1], n)]
           c == CHOOSE h : Eq(h)
<1>1. C \in Nat /\ start \in S /\ AskOrder \in [1..C -> Asks] /\ \A a \in Asks : \E n \in 1..C : AskOrder[n] = a
  BY AskOrderFacts DEF Sound, Fits
<1>2. ASSUME NEW s, NEW Y, Sound(s, s.ask, row, Y), NEW n \in 1..C
      PROVE  Sound(Replayed(s, n), Replayed(s, n).ask, row, Y \ {AskOrder[n]})
  BY <1>1, <1>2, ReplayAskSound
<1> HIDE DEF Replayed
<1>3. ASSUME NEW s \in S, NEW n \in 1..C PROVE Replayed(s, n) \in S
  <2>1. Sound(Replayed(s, n), Replayed(s, n).ask, row, Asks \ {AskOrder[n]})
    BY <1>2
  <2>2. Sound(Replayed(s, n), Replayed(s, n).ask, row, Asks) /\ Replayed(s, n) \in Clients
    BY <2>1 DEF Sound, Fits, Receipts
  <2>3. QED
    BY <2>2
<1>4. \A ns \in (1..C) \X S : ns[1] \in 1..C /\ ns[2] \in S
  OBVIOUS
<1>5. step \in [(1..C) \X S -> S]
  BY <1>3, <1>4
<1>6. PICK g : Iteration(g, C, S, start, step)
  <2> HIDE DEF step, C, S
  <2>1. QED
    BY <1>1, <1>5, Iterates
<1>7. \A n \in 1..C : g[n] = Replayed(g[n - 1], n)
  <2> TAKE n \in 1..C
  <2>1. n - 1 \in 0..C
    BY <1>1
  <2>2. g[n - 1] \in S /\ g[n] = step[<<n, g[n - 1]>>] /\ <<n, g[n - 1]>> \in (1..C) \X S
    BY <1>6, <2>1 DEF Iteration
  <2>3. QED
    BY <2>2
<1>8. Eq(g)
  <2> DEFINE r == [n \in 0..C |-> IF n = 0 THEN start ELSE Replayed(g[n - 1], n)]
  <2>1. \A n \in 0..C : n # 0 => n \in 1..C
    BY <1>1
  <2>2. \A n \in 0..C : r[n] = g[n]
    BY <1>6, <1>7, <2>1 DEF Iteration
  <2>3. g = [n \in 0..C |-> g[n]]
    BY <1>6 DEF Iteration
  <2>4. r = [n \in 0..C |-> r[n]]
    OBVIOUS
  <2> HIDE DEF r
  <2>5. g = r
    BY <2>2, <2>3, <2>4
  <2>6. QED
    BY <2>5 DEF r
<1>9. Eq(c)
  BY <1>8
<1>10. ReplayPendingAsks(start) = c[C]
  BY DEF ReplayPendingAsks, Replayed
<1>11. c[0] = start /\ \A n \in 1..C : c[n] = Replayed(c[n - 1], n)
  <2> HIDE DEF c
  <2>1. \A n \in 1..C : n \in 0..C /\ n # 0
    BY <1>1
  <2>2. 0 \in 0..C
    BY <1>1
  <2>3. QED
    BY <1>9, <2>1, <2>2
<1> HIDE DEF c, C
<1> DEFINE Left(n) == Asks \ {AskOrder[i] : i \in 1..n}
           T == {n \in 0..C : Sound(c[n], c[n].ask, row, Left(n))}
<1>12. 0 \in T
  <2>1. Left(0) = Asks /\ 0 \in 0..C
    BY <1>1
  <2> HIDE DEF Left
  <2>2. QED
    BY <1>11, <2>1
<1>13. \A n \in 1..C : n - 1 \in T => n \in T
  <2> SUFFICES ASSUME NEW n \in 1..C, n - 1 \in T PROVE n \in T
    OBVIOUS
  <2>1. n \in 0..C /\ 1..n = (1..(n - 1)) \cup {n}
    BY <1>1
  <2>2. Left(n) = Left(n - 1) \ {AskOrder[n]}
    BY <2>1
  <2> HIDE DEF Left
  <2>3. Sound(c[n - 1], c[n - 1].ask, row, Left(n - 1))
    OBVIOUS
  <2>4. Sound(c[n], c[n].ask, row, Left(n))
    <3> DEFINE s == c[n - 1]
    <3>1. Sound(s, s.ask, row, Left(n - 1))
      BY <2>3
    <3> HIDE DEF s
    <3>2. Sound(Replayed(s, n), Replayed(s, n).ask, row, Left(n - 1) \ {AskOrder[n]})
      BY <1>2, <3>1
    <3>3. c[n] = Replayed(s, n)
      BY <1>11 DEF s
    <3>4. QED
      BY <2>2, <3>2, <3>3
  <2>5. QED
    BY <2>1, <2>4
<1>14. C \in T
  <2> HIDE DEF T
  <2>1. \A n \in 0..C : n \in T
    BY <1>1, <1>12, <1>13, StepByStep
  <2>2. QED
    BY <1>1, <2>1
<1>15. Left(C) = {}
  BY <1>1
<1> HIDE DEF Left
<1>16. QED
  BY <1>10, <1>14, <1>15

\* A resolution is deleted once it is sent to the server it is for.
LEMMA FlushLocalResolutionSound ==
  ASSUME NEW s, NEW E, NEW row, NEW Y, Sound(s, E, row, Y), IsConnected(s), NEW a \in Asks
  PROVE  LET r == FlushLocalResolution(a, s)
         IN Sound(r, E, row, Y) /\ IsConnected(r) /\ r.ask = s.ask
<1> DEFINE q == <<[type |-> "create", ask |-> a, flush |-> TRUE], [type |-> s.local[a].kind, ask |-> a]>>
           L == [s.local EXCEPT ![a] = NoLocal]
           r == FlushLocalResolution(a, s)
<1>1. /\ s \in Clients /\ SocketsFit(s) /\ EntriesFit(s, E) /\ E \in AskTables /\ s.local \in [Asks -> Locals]
  BY DEF Sound, Fits, Clients
<1>2. CASE s.local[a].kind = "none" \/ s.local[a].origin # s.url
  BY <1>2 DEF FlushLocalResolution
<1>3. CASE s.local[a].kind # "none" /\ s.local[a].origin = s.url
  <2>1. /\ s.local[a].kind \in {"answer", "cancel"} /\ Belongs(E[a], s.url) /\ E[a].state \in LocallyEnded
    BY <1>1, <1>3 DEF Locals, EntriesFit
  <2>2. NoLocal \in Locals /\ NoLocal.kind = "none"
    BY DEF NoLocal, Locals
  <2>3. L \in [Asks -> Locals] /\ L[a].kind = "none" /\ \A b \in Asks : b # a => L[b] = s.local[b]
    BY <1>1, <2>2
  <2> DEFINE m1 == [type |-> "create", ask |-> a, flush |-> TRUE]
             m2 == [type |-> s.local[a].kind, ask |-> a]
  <2>4. m1 \in UpMessages /\ m2 \in UpMessages /\ m1.flush = TRUE
    BY <2>1 DEF UpMessages
  <2>5. /\ \A b \in Asks : (Creation(m1, b) => b = a) /\ ~Resolution(m1, b)
        /\ \A b \in Asks : (Resolution(m2, b) => b = a) /\ ~Creation(m2, b)
        /\ Resolution(m2, a)
    BY <2>1 DEF Creation, Resolution
  <2>6. q = <<m1, m2>>
    OBVIOUS
  <2> HIDE DEF q, m1, m2
  <2>7. q \in Seq(UpMessages) /\ DOMAIN q = {1, 2} /\ q[1] = m1 /\ q[2] = m2
    BY <2>4, <2>6
  <2>8. /\ \A i \in DOMAIN q, b \in Asks :
             /\ (Creation(q[i], b) => b = a /\ q[i].flush /\ i = 1) /\ (Resolution(q[i], b) => b = a /\ i = 2)
        /\ Resolution(q[2], a)
    BY <2>4, <2>5, <2>7
  <2> HIDE DEF L
  <2>9. Sendable(s, E, q, L)
    <3>1. ASSUME NEW i \in DOMAIN q, NEW b \in Asks
          PROVE  /\ Creation(q[i], b) \/ Resolution(q[i], b) => Belongs(E[b], s.url)
                 /\ Creation(q[i], b) /\ ~q[i].flush => E[b].origin # None
                 /\ Creation(q[i], b) => E[b].state = "waiting"
                                         \/ (s.local[b].kind # "none" /\ (L[b].kind = "none" => \E n \in DOMAIN q : Resolution(q[n], b)))
                 /\ Resolution(q[i], b) => E[b].state \in LocallyEnded /\ L[b].kind = "none"
                 /\ \A n \in DOMAIN q : Resolution(q[i], b) /\ Creation(q[n], b) => n < i
      BY <1>3, <2>1, <2>3, <2>7, <2>8
    <3>2. \A b \in Asks : \/ L[b] = s.local[b]
                          \/ /\ L[b].kind = "none" /\ s.local[b].kind # "none"
                             /\ \E i \in DOMAIN q : Resolution(q[i], b)
      BY <1>3, <2>3, <2>7, <2>8
    <3>3. QED
      BY <2>7, <3>1, <3>2 DEF Sendable
  <2>10. r = [Send(s, q) EXCEPT !.local = [Send(s, q).local EXCEPT ![a] = NoLocal]]
    BY <1>3 DEF FlushLocalResolution, q
  <2>11. SentBy(s, r, q, L) /\ r.ask = s.ask
    <3> DEFINE S == SentSockets(s, q)
    <3>1. S \in Seq(ClientSockets) /\ Send(s, q) = [s EXCEPT !.socks = S]
      BY <1>1, <2>7, SendFacts
    <3> HIDE DEF S
    <3>2. r = [s EXCEPT !.socks = S, !.local = L]
      BY <1>1, <2>10, <3>1 DEF L, Clients
    <3>3. r \in Clients
      BY <1>1, <2>3, <3>1, <3>2 DEF Clients
    <3>4. /\ r.cur = s.cur /\ r.url = s.url /\ r.stopped = s.stopped /\ r.local = L
          /\ r.givenUp = s.givenUp /\ r.queries = s.queries /\ r.timer = s.timer /\ r.checks = s.checks
          /\ r.socks = S /\ r.ask = s.ask
      BY <1>1, <3>2 DEF Clients
    <3>5. QED
      BY <3>3, <3>4 DEF SentBy, S
  <2>12. Sound(r, E, row, Y) /\ IsConnected(r)
    BY <2>9, <2>11, SentSound
  <2>13. QED
    BY <2>11, <2>12
<1>4. QED
  BY <1>2, <1>3

LEMMA FlushLocalResolutionsSound ==
  ASSUME NEW start, NEW E, NEW row, NEW Y, Sound(start, E, row, Y), UpToDate(start, E)
  PROVE  LET r == FlushLocalResolutions(start)
         IN Sound(r, E, row, Y) /\ r.ask = start.ask
<1> DEFINE C == Cardinality(Asks)
           S == {s \in Clients : Sound(s, E, row, Y) /\ IsConnected(s) /\ s.ask = start.ask}
           Flushed(s, n) == FlushLocalResolution(AskOrder[n], s)
           step == [ns \in (1..C) \X S |-> Flushed(ns[2], ns[1])]
           Eq(h) == h = [n \in 0..C |-> IF n = 0 THEN start ELSE Flushed(h[n - 1], n)]
           c == CHOOSE h : Eq(h)
<1> SUFFICES ASSUME IsConnected(start)
             PROVE  LET r == FlushLocalResolutions(start)
                    IN Sound(r, E, row, Y) /\ r.ask = start.ask
  BY DEF FlushLocalResolutions
<1>1. C \in Nat /\ start \in S /\ AskOrder \in [1..C -> Asks]
  BY AskOrderFacts DEF Sound, Fits
<1>2. ASSUME NEW s \in S, NEW n \in 1..C PROVE Flushed(s, n) \in S
  <2>1. AskOrder[n] \in Asks /\ Sound(s, E, row, Y) /\ IsConnected(s) /\ s.ask = start.ask
    BY <1>1
  <2>2. Sound(Flushed(s, n), E, row, Y) /\ IsConnected(Flushed(s, n)) /\ Flushed(s, n).ask = s.ask
    BY <2>1, FlushLocalResolutionSound
  <2> HIDE DEF Flushed
  <2>3. Flushed(s, n) \in Clients
    BY <2>2 DEF Sound, Fits
  <2>4. QED
    BY <2>1, <2>2, <2>3
<1> HIDE DEF Flushed
<1>4. \A ns \in (1..C) \X S : ns[1] \in 1..C /\ ns[2] \in S
  OBVIOUS
<1>5. step \in [(1..C) \X S -> S]
  BY <1>2, <1>4
<1>6. PICK g : Iteration(g, C, S, start, step)
  <2> HIDE DEF step, C, S
  <2>1. QED
    BY <1>1, <1>5, Iterates
<1>7. \A n \in 1..C : g[n] = Flushed(g[n - 1], n)
  <2> TAKE n \in 1..C
  <2>1. n - 1 \in 0..C
    BY <1>1
  <2>2. g[n - 1] \in S /\ g[n] = step[<<n, g[n - 1]>>] /\ <<n, g[n - 1]>> \in (1..C) \X S
    BY <1>6, <2>1 DEF Iteration
  <2>3. QED
    BY <2>2
<1>8. Eq(g)
  <2> DEFINE r == [n \in 0..C |-> IF n = 0 THEN start ELSE Flushed(g[n - 1], n)]
  <2>1. \A n \in 0..C : n # 0 => n \in 1..C
    BY <1>1
  <2>2. \A n \in 0..C : r[n] = g[n]
    BY <1>6, <1>7, <2>1 DEF Iteration
  <2>3. g = [n \in 0..C |-> g[n]]
    BY <1>6 DEF Iteration
  <2>4. r = [n \in 0..C |-> r[n]]
    OBVIOUS
  <2> HIDE DEF r
  <2>5. g = r
    BY <2>2, <2>3, <2>4
  <2>6. QED
    BY <2>5 DEF r
<1>9. Eq(c)
  BY <1>8
<1>10. FlushLocalResolutions(start) = TryApplyDeferredTarget(c[C])
  BY DEF FlushLocalResolutions, Flushed
<1>11. c[0] = start /\ \A n \in 1..C : c[n] = Flushed(c[n - 1], n)
  <2> HIDE DEF c
  <2>1. \A n \in 1..C : n \in 0..C /\ n # 0
    BY <1>1
  <2>2. 0 \in 0..C
    BY <1>1
  <2>3. QED
    BY <1>9, <2>1, <2>2
<1> HIDE DEF c, C
<1> DEFINE T == {n \in 0..C : c[n] \in S}
<1>12. 0 \in T
  BY <1>1, <1>11
<1>13. \A n \in 1..C : n - 1 \in T => n \in T
  <2> HIDE DEF S
  <2>1. \A n \in 1..C : n \in 0..C
    BY <1>1
  <2>2. QED
    BY <1>2, <1>11, <2>1
<1>14. C \in T
  <2> HIDE DEF T
  <2>1. \A n \in 0..C : n \in T
    BY <1>1, <1>12, <1>13, StepByStep
  <2>2. QED
    BY <1>1, <2>1
<1>15. Sound(c[C], E, row, Y) /\ UpToDate(c[C], E) /\ c[C].ask = start.ask
  BY <1>14 DEF UpToDate
<1>16. QED
  BY <1>10, <1>15, TryApplyFits

-----------------------------------------------------------------------------
(* What a step changes besides.                                              *)

LEMMA BesidesSound ==
  ASSUME NEW s, NEW E, NEW row, NEW Y, Sound(s, E, row, Y), NEW r \in Clients,
         r.socks = s.socks, r.cur = s.cur, r.url = s.url, r.local = s.local, r.stopped = s.stopped,
         r.givenUp = s.givenUp, ReconnectDue(r),
         \A k \in r.queries : k \in DOMAIN s.socks /\ s.socks[k].state # "closed"
  PROVE  Sound(r, E, row, Y)
<1>1. Fits(s, E, row) /\ Receipts(s, E, Y)
  BY DEF Sound
<1>2. SocketsFit(r) /\ EntriesFit(r, E) /\ UpFits(r, E) /\ CreatedFirst(r) /\ RepliesFit(r, E, row)
  BY <1>1 DEF Fits, SocketsFit, Current, EntriesFit, UpFits, CreatedFirst, RepliesFit
<1>3. Deliveries(r, E, row)
  BY <1>1 DEF Fits, Deliveries, Delivered
<1>4. Receipts(r, E, Y)
  BY <1>1 DEF Receipts, Current, AnswerDue
<1>5. QED
  BY <1>1, <1>2, <1>3, <1>4 DEF Sound, Fits

\* The queues of the sockets lose their first messages, D of them.
Fewer(s, r, D) ==
  /\ DOMAIN r.socks = DOMAIN s.socks /\ Len(r.socks) = Len(s.socks)
  /\ \A k \in DOMAIN s.socks :
       /\ r.socks[k].url = s.socks[k].url
       /\ \A i \in DOMAIN r.socks[k].up :
            /\ i + D[k] \in DOMAIN s.socks[k].up
            /\ r.socks[k].up[i] = s.socks[k].up[i + D[k]]

LEMMA FewerFits ==
  ASSUME NEW s, NEW E, NEW row, Fits(s, E, row), NEW r \in Clients,
         r.cur = s.cur, r.url = s.url, r.local = s.local, r.stopped = s.stopped, r.givenUp = s.givenUp,
         NEW D \in [DOMAIN s.socks -> Nat], Fewer(s, r, D), SocketsFit(r), NEW after, after \in Rows,
         RepliesFit(r, E, after), RowsFit(E, after), Deliveries(r, E, after)
  PROVE  Fits(r, E, after)
<1>1. EntriesFit(r, E) /\ E \in AskTables
  BY DEF Fits, EntriesFit
<1>2. UpFits(r, E)
  <2> SUFFICES ASSUME NEW k \in DOMAIN s.socks, NEW i \in DOMAIN r.socks[k].up, NEW a \in Asks
               PROVE  LET m == r.socks[k].up[i] IN
                      /\ Creation(m, a) \/ Resolution(m, a) => Belongs(E[a], r.socks[k].url)
                      /\ Creation(m, a) /\ ~m.flush => E[a].origin # None
                      /\ Resolution(m, a) => E[a].state \in LocallyEnded /\ r.local[a].kind = "none"
    BY DEF UpFits, Fewer
  <2> DEFINE n == i + D[k]
  <2>1. n \in DOMAIN s.socks[k].up /\ r.socks[k].up[i] = s.socks[k].up[n] /\ r.socks[k].url = s.socks[k].url
    BY DEF Fewer
  <2> HIDE DEF n
  <2>2. LET m == s.socks[k].up[n] IN
        /\ Creation(m, a) \/ Resolution(m, a) => Belongs(E[a], s.socks[k].url)
        /\ Creation(m, a) /\ ~m.flush => E[a].origin # None
        /\ Resolution(m, a) => E[a].state \in LocallyEnded /\ s.local[a].kind = "none"
    BY <2>1 DEF Fits, UpFits
  <2>3. QED
    BY <2>1, <2>2
<1>3. CreatedFirst(r)
  <2> SUFFICES ASSUME NEW k \in DOMAIN s.socks, NEW j \in DOMAIN s.socks,
                      NEW i \in DOMAIN r.socks[k].up, NEW m \in DOMAIN r.socks[j].up, NEW a \in Asks,
                      Resolution(r.socks[k].up[i], a), Creation(r.socks[j].up[m], a)
               PROVE  j < k \/ (j = k /\ m < i)
    BY DEF CreatedFirst, Fewer
  <2> DEFINE x == i + D[k]
             y == m + D[j]
  <2>1. /\ x \in DOMAIN s.socks[k].up /\ r.socks[k].up[i] = s.socks[k].up[x]
        /\ y \in DOMAIN s.socks[j].up /\ r.socks[j].up[m] = s.socks[j].up[y]
    BY DEF Fewer
  <2>2. i \in Nat /\ m \in Nat /\ D[k] \in Nat /\ D[j] \in Nat
    <3>1. \A l \in DOMAIN s.socks : r.socks[l].up \in Seq(UpMessages)
      BY QueueFacts DEF Fewer
    <3>2. QED
      BY <3>1
  <2>3. j < k \/ (j = k /\ y < x)
    <3> HIDE DEF x, y
    <3>1. QED
      BY <2>1 DEF Fits, CreatedFirst
  <2>4. QED
    BY <2>2, <2>3
<1>4. QED
  BY <1>1, <1>2, <1>3 DEF Fits

LEMMA OnlySound ==
  ASSUME ClientInv, NEW s, Only(s), Sound(s, s.ask, ServerRows, {})
  PROVE  ClientInv'
<1>1. ServerRows' = ServerRows
  BY DEF Only, ServerRows
<1>2. client' = s /\ server' = server /\ foundTarget' = foundTarget
  BY DEF Only
<1>3. Sound(client, client.ask, ServerRows, {})'
  BY <1>1, <1>2
<1>4. QED
  BY <1>2, <1>3 DEF ClientInv

-----------------------------------------------------------------------------
(* The calls of the agent.                                                   *)

LEMMA EnsureSound ==
  ASSUME NEW s, NEW E, NEW row, NEW Y, Sound(s, E, row, Y)
  PROVE  Sound(EnsureConnection(s), E, row, Y) /\ EnsureConnection(s).ask = s.ask
<1>1. CASE EnsureConnection(s) = s
  BY <1>1
<1>2. CASE EnsureConnection(s) = Connect(s)
  BY <1>2, ConnectFits DEF Sound
<1>3. QED
  BY <1>1, <1>2 DEF EnsureConnection

LEMMA AskPostboxSound ==
  ASSUME ClientInv, NEW a \in Asks, NEW wantsReceipt \in BOOLEAN, AskPostbox(a, wantsReceipt)
  PROVE  ClientInv'
<1> DEFINE new == [NewAsk EXCEPT !.state = "waiting", !.created = client.url,
                                 !.unavailable = ~IsConnected(client),
                                 !.receipt = IF wantsReceipt THEN "awaited" ELSE "none"]
           s == [client EXCEPT !.ask[a] = new]
           E == client.ask
           row == ServerRows
<1>1. /\ Sound(client, E, row, {}) /\ Fits(client, E, row) /\ ReconnectDue(client) /\ Receipts(client, E, {})
      /\ client \in Clients /\ E \in AskTables /\ EntriesFit(client, E) /\ RowsFit(E, row) /\ client.url \in Targets
  BY DEF ClientInv, Sound, Fits, Clients
<1>2. E[a].state = "new" /\ ~client.stopped /\ Only(SendPendingAsk(a, EnsureConnection(s)))
  BY DEF AskPostbox
<1>3. E[a] = NewAsk /\ client.local[a].kind = "none" /\ E[a].state = "new" /\ E[a].origin = None
  <2>1. E[a] = NewAsk /\ client.local[a].kind = "none"
    BY <1>1, <1>2 DEF EntriesFit, LocallyEnded
  <2>2. NewAsk.origin = None
    BY DEF NewAsk
  <2>3. QED
    BY <1>2, <2>1, <2>2
<1>4. /\ new \in Entries /\ new.state = "waiting" /\ new.sent = FALSE /\ new.origin = None
      /\ new.receipt \in {"awaited", "none"}
  BY <1>1 DEF NewAsk, Entries, AskStates, IsConnected
<1> HIDE DEF new
<1>5. /\ s \in Clients /\ s.ask \in AskTables /\ s.ask[a] = new /\ \A b \in Asks : b # a => s.ask[b] = E[b]
      /\ SameWork(client, s) /\ s.timer = client.timer /\ s.checks = client.checks
  BY <1>1, <1>4 DEF Clients, AskTables, SameWork
<1> HIDE DEF s
<1>6. \A b \in Asks : Evolves(E[b], s.ask[b])
  <2> TAKE b \in Asks
  <2>1. CASE b # a
    BY <1>5, <2>1 DEF Evolves
  <2>2. CASE b = a
    BY <1>3, <2>2 DEF Evolves, Touched, LocallyEnded
  <2>3. QED
    BY <2>1, <2>2
<1>7. EntriesFit(s, s.ask)
  <2> SUFFICES ASSUME NEW b \in Asks
               PROVE  /\ s.ask[b].sent <=> s.ask[b].origin # None
                      /\ s.ask[b].state = "new" => s.ask[b] = NewAsk
                      /\ s.ask[b].state # "waiting" => ~s.ask[b].unavailable /\ ~s.ask[b].affinity /\ s.ask[b].receipt # "awaited"
                      /\ s.ask[b].state = "waiting" => ~s.stopped /\ s.ask[b].origin \in {None, s.url}
                      /\ s.ask[b].state = "unavailable" => s.ask[b].origin = None
                      /\ s.local[b].kind # "none" => Belongs(s.ask[b], s.local[b].origin) /\ s.ask[b].state \in LocallyEnded
    BY DEF EntriesFit
  <2>1. s.stopped = client.stopped /\ s.url = client.url /\ s.local = client.local
    BY <1>5 DEF SameWork
  <2>2. CASE b # a
    BY <1>1, <1>5, <2>1, <2>2 DEF EntriesFit
  <2>3. CASE b = a
    BY <1>2, <1>3, <1>4, <1>5, <2>1, <2>3
  <2>4. QED
    BY <2>2, <2>3
<1>8. EndsFit(s.ask, row)
  BY <1>1, <1>4, <1>5 DEF EndsFit, RowsFit
<1>9. Deliveries(s, s.ask, row)
  <2> SUFFICES ASSUME NEW b \in Asks, s.ask[b].state \in LocallyEnded, ~s.stopped, b \notin s.givenUp
               PROVE  Delivered(s, s.ask, row, b)
    BY DEF Deliveries
  <2>1. b # a
    BY <1>4, <1>5 DEF LocallyEnded
  <2>2. Delivered(client, E, row, b) /\ s.ask[b] = E[b]
    BY <1>1, <1>5, <2>1 DEF Fits, Deliveries, SameWork
  <2>3. QED
    BY <1>5, <2>2 DEF Delivered, SameWork
<1>10. Fits(s, s.ask, row)
  <2>1. SameSockets(client, s) /\ s.local = client.local
    BY <1>5 DEF SameWork, SameSockets
  <2>2. QED
    BY <1>1, <1>5, <1>6, <1>7, <1>8, <1>9, <2>1, EvolvedFits
<1>11. Sound(s, s.ask, row, {a})
  <2>1. ReconnectDue(s)
    BY <1>1, <1>5 DEF ReconnectDue, SameWork, Current
  <2>2. Receipts(s, s.ask, {a})
    BY <1>1, <1>5 DEF Receipts, SameWork, Current, AnswerDue
  <2>3. QED
    BY <1>10, <2>1, <2>2 DEF Sound
<1> DEFINE u == EnsureConnection(s)
<1>12. Sound(u, u.ask, row, {a}) /\ u.ask[a].state = "waiting"
  BY <1>4, <1>5, <1>11, EnsureSound
<1> HIDE DEF u
<1>13. Sound(SendPendingAsk(a, u), SendPendingAsk(a, u).ask, row, {a} \ {a})
  BY <1>12, SendPendingAskSound
<1>14. {a} \ {a} = {}
  OBVIOUS
<1>15. QED
  BY <1>2, <1>13, <1>14, OnlySound DEF u

\* What it sends to the server it was sent to, or would have been sent to.
Enqueued(s, r, a, kind) ==
  /\ r \in Clients /\ SameSockets(s, r) /\ r.ask = s.ask /\ r.timer = s.timer /\ r.checks = s.checks
  /\ r.stopped = s.stopped /\ r.givenUp = s.givenUp /\ r.deferred = s.deferred
  /\ \A b \in Asks : b # a => r.local[b] = s.local[b]
  /\ r.local[a].kind = kind /\ r.local[a].origin = Home(s.ask[a])

LEMMA EnqueueFacts ==
  ASSUME NEW s \in Clients, NEW a \in Asks, NEW kind \in {"answer", "cancel"}
  PROVE  Enqueued(s, EnqueueLocalResolution(s, a, kind), a, kind)
<1> DEFINE r == EnqueueLocalResolution(s, a, kind)
           l == [kind |-> kind, affinity |-> ~IsConnected(s), origin |-> Home(s.ask[a])]
<1>1. s.ask[a] \in Entries /\ s.local \in [Asks -> Locals]
  BY DEF Clients, AskTables
<1>2. l \in Locals
  BY <1>1 DEF Locals, Entries, Home, IsConnected
<1>3. r = [s EXCEPT !.local = [s.local EXCEPT ![a] = l]]
  BY DEF EnqueueLocalResolution, Home
<1>4. l.kind = kind /\ l.origin = Home(s.ask[a])
  OBVIOUS
<1> HIDE DEF l
<1> DEFINE K == [s.local EXCEPT ![a] = l]
<1>5. K \in [Asks -> Locals] /\ K[a] = l /\ \A b \in Asks : b # a => K[b] = s.local[b]
  BY <1>1, <1>2
<1> HIDE DEF K
<1>6. /\ r \in Clients /\ r.local = K /\ SameSockets(s, r) /\ r.ask = s.ask /\ r.timer = s.timer
      /\ r.checks = s.checks /\ r.stopped = s.stopped /\ r.givenUp = s.givenUp /\ r.deferred = s.deferred
  BY <1>3, <1>5 DEF K, Clients, SameSockets
<1> HIDE DEF r
<1>7. QED
  BY <1>4, <1>5, <1>6 DEF r, Enqueued

LEMMA AbortSound ==
  ASSUME ClientInv, NEW a \in Asks, Abort(a)
  PROVE  ClientInv'
<1> DEFINE row == ServerRows
           queued == EnqueueLocalResolution(client, a, "cancel")
           F == Ended(client, a, "aborted").ask
           sent == FlushLocalResolutions(queued)
           b == Ended(sent, a, "aborted")
<1>1. /\ Sound(client, client.ask, row, {}) /\ client \in Clients /\ EntriesFit(client, client.ask)
      /\ client.ask[a].state = "waiting" /\ "aborted" \in AskStates
      /\ Only(EndAsk(IF client.ask[a].sent THEN sent ELSE client, a, "aborted"))
  BY DEF ClientInv, Sound, Fits, Abort, Waiting, AskStates
<1>2. CASE ~client.ask[a].sent
  <2>1. client.ask[a].origin = None
    BY <1>1, <1>2 DEF EntriesFit
  <2>2. "aborted" \in AskStates \ {"new", "waiting", "answered here", "cancelled here"}
    BY DEF AskStates
  <2>3. Sound(EndAsk(client, a, "aborted"), EndAsk(client, a, "aborted").ask, row, {} \ {a})
    BY <1>1, <2>1, <2>2, EndAskSound
  <2>4. {} \ {a} = {}
    OBVIOUS
  <2>5. QED
    BY <1>1, <1>2, <2>3, <2>4, OnlySound
<1>3. CASE client.ask[a].sent
  <2>1. EndsIn(client, Ended(client, a, "aborted"), a, "aborted")
    BY <1>1, EndedFacts
  <2>2. /\ F \in AskTables /\ \A c \in Asks : c # a => F[c] = client.ask[c]
        /\ F[a].state = "aborted" /\ ~F[a].unavailable /\ ~F[a].affinity
        /\ F[a].receipt # "awaited" /\ (F[a].receipt = "ok" <=> client.ask[a].receipt = "ok")
        /\ F[a].origin = client.ask[a].origin /\ F[a].sent = client.ask[a].sent
        /\ F[a].created = client.ask[a].created
    BY <2>1 DEF EndsIn
  <2> HIDE DEF F
  <2>3. /\ queued \in Clients /\ SameSockets(client, queued) /\ queued.ask = client.ask
        /\ queued.timer = client.timer /\ queued.checks = client.checks
        /\ queued.stopped = client.stopped /\ queued.givenUp = client.givenUp
        /\ \A c \in Asks : c # a => queued.local[c] = client.local[c]
        /\ queued.local[a].kind = "cancel" /\ queued.local[a].origin = Home(client.ask[a])
    <3>1. Enqueued(client, queued, a, "cancel")
      BY <1>1, EnqueueFacts
    <3> HIDE DEF queued
    <3>2. QED
      BY <3>1 DEF Enqueued
  <2> HIDE DEF queued
  <2>4. Home(F[a]) = Home(client.ask[a]) /\ Touched(F[a])
    BY <1>1, <1>3, <2>2 DEF Home, Touched, EntriesFit
  <2>5. EndsAt(client, client.ask, row, a, queued, F)
    BY <1>1, <2>2, <2>3, <2>4 DEF EndsAt, SameSockets, LocallyEnded
  <2>6. Sound(queued, F, row, {})
    BY <1>1, <2>5, EndedSound
  <2>7. UpToDate(queued, F)
    BY <2>2, <2>3 DEF UpToDate
  <2>8. Sound(sent, F, row, {}) /\ sent.ask = client.ask
    BY <2>3, <2>6, <2>7, FlushLocalResolutionsSound
  <2>9. sent \in Clients
    BY <2>8 DEF Sound, Fits
  <2> HIDE DEF sent
  <2>10. EndsIn(sent, b, a, "aborted")
    BY <1>1, <2>9, EndedFacts
  <2>11. b.ask = F
    <3>1. b.ask = [sent EXCEPT !.ask[a].state = "aborted", !.ask[a].unavailable = FALSE, !.ask[a].affinity = FALSE,
                               !.ask[a].receipt = IF @ = "awaited" THEN "rejected" ELSE @].ask
      BY DEF Ended
    <3>2. F = [client EXCEPT !.ask[a].state = "aborted", !.ask[a].unavailable = FALSE, !.ask[a].affinity = FALSE,
                             !.ask[a].receipt = IF @ = "awaited" THEN "rejected" ELSE @].ask
      BY DEF F, Ended
    <3>3. QED
      BY <1>1, <2>8, <2>9, <3>1, <3>2 DEF Clients
  <2> HIDE DEF b
  <2>12. Sound(b, F, row, {})
    <3>1. Fits(b, F, row)
      BY <2>8, <2>10, SameFits DEF Sound, EndsIn
    <3>2. Receipts(b, F, {})
      BY <2>8, <2>10, SameReceipts DEF Sound, EndsIn
    <3>3. ReconnectDue(b)
      BY <2>8, <2>10 DEF Sound, EndsIn, SameWork, ReconnectDue, Current
    <3>4. QED
      BY <3>1, <3>2, <3>3 DEF Sound
  <2>13. EndAsk(sent, a, "aborted") = TryApplyDeferredTarget(b)
    BY EndAskIsTryApply DEF b
  <2>14. Sound(TryApplyDeferredTarget(b), F, row, {}) /\ TryApplyDeferredTarget(b).ask = F
    BY <2>11, <2>12, UpToDateWithItself, TryApplyFits
  <2>15. QED
    BY <1>1, <1>3, <2>13, <2>14, OnlySound
<1>4. client.ask[a].sent \in BOOLEAN
  BY <1>1 DEF Clients, AskTables, Entries
<1>5. QED
  BY <1>2, <1>3, <1>4

LEMMA ResolveLocallySound ==
  ASSUME ClientInv, NEW a \in Asks, NEW kind \in {"answer", "cancel"}, ResolveLocally(a, kind)
  PROVE  ClientInv'
<1> DEFINE row == ServerRows
           outcome == IF kind = "answer" THEN "answered here" ELSE "cancelled here"
           queued == EnqueueLocalResolution(client, a, kind)
           b == Ended(queued, a, outcome)
           ended == EndAsk(queued, a, outcome)
<1>1. /\ Sound(client, client.ask, row, {}) /\ client \in Clients /\ EntriesFit(client, client.ask)
      /\ client.ask[a].state = "waiting" /\ outcome \in AskStates
      /\ Only(FlushLocalResolutions(ended))
  BY DEF ClientInv, Sound, Fits, ResolveLocally, Waiting, AskStates
<1>2. outcome \in {"answered here", "cancelled here"}
  OBVIOUS
<1> HIDE DEF outcome
<1>3. /\ queued \in Clients /\ SameSockets(client, queued) /\ queued.ask = client.ask
      /\ queued.timer = client.timer /\ queued.checks = client.checks
      /\ queued.stopped = client.stopped /\ queued.givenUp = client.givenUp
      /\ \A c \in Asks : c # a => queued.local[c] = client.local[c]
      /\ queued.local[a].kind = kind /\ queued.local[a].origin = Home(client.ask[a])
  <2>1. Enqueued(client, queued, a, kind)
    BY <1>1, EnqueueFacts
  <2> HIDE DEF queued
  <2>2. QED
    BY <2>1 DEF Enqueued
<1> HIDE DEF queued
<1>4. EndsIn(queued, b, a, outcome)
  BY <1>1, <1>3, EndedFacts
<1>5. ended = TryApplyDeferredTarget(b)
  BY EndAskIsTryApply
<1> HIDE DEF b, ended
<1>6. Home(b.ask[a]) = Home(client.ask[a]) /\ Touched(b.ask[a])
  BY <1>2, <1>3, <1>4 DEF EndsIn, Home, Touched
<1>7. EndsAt(client, client.ask, row, a, b, b.ask)
  BY <1>1, <1>2, <1>3, <1>4, <1>6 DEF EndsIn, EndsAt, SameWork, SameSockets, LocallyEnded
<1>8. Sound(b, b.ask, row, {})
  BY <1>1, <1>7, EndedSound
<1>9. Sound(ended, b.ask, row, {}) /\ ended.ask = b.ask
  BY <1>5, <1>8, UpToDateWithItself, TryApplyFits
<1> DEFINE r == FlushLocalResolutions(ended)
<1>10. Sound(r, b.ask, row, {}) /\ r.ask = ended.ask
  BY <1>9, UpToDateWithItself, FlushLocalResolutionsSound
<1> HIDE DEF r
<1>11. QED
  BY <1>1, <1>9, <1>10, OnlySound DEF r

LEMMA QuerySound ==
  ASSUME ClientInv, Query
  PROVE  ClientInv'
<1> DEFINE s == [client EXCEPT !.queries = @ \cup {client.cur}]
<1>1. /\ Sound(client, client.ask, ServerRows, {}) /\ client \in Clients /\ SocketsFit(client) /\ ReconnectDue(client)
      /\ server \in ServerStates /\ foundTarget \in Targets \cup {None}
  BY DEF ClientInv, Sound, Fits
<1>2. client' = s /\ IsConnected(client) /\ UNCHANGED <<server, foundTarget>>
  BY DEF Query
<1>3. /\ s \in Clients /\ s.socks = client.socks /\ s.cur = client.cur /\ s.url = client.url /\ s.local = client.local
      /\ s.stopped = client.stopped /\ s.givenUp = client.givenUp /\ s.timer = client.timer
      /\ s.checks = client.checks /\ s.ask = client.ask /\ s.queries = client.queries \cup {client.cur}
  BY <1>1 DEF Clients
<1>4. \A k \in s.queries : k \in DOMAIN client.socks /\ client.socks[k].state # "closed"
  BY <1>1, <1>2, <1>3, CurrentFacts DEF SocketsFit
<1> HIDE DEF s
<1>5. ReconnectDue(s)
  BY <1>1, <1>3 DEF ReconnectDue, Current
<1>6. Sound(s, s.ask, ServerRows, {})
  BY <1>1, <1>3, <1>4, <1>5, BesidesSound
<1>7. ServerRows' = ServerRows
  BY <1>2 DEF ServerRows
<1>8. Sound(client, client.ask, ServerRows, {})'
  BY <1>2, <1>6, <1>7
<1>9. QED
  BY <1>1, <1>2, <1>8 DEF ClientInv

LEMMA QueryResultSound ==
  ASSUME ClientInv, NEW k, QueryResult(k)
  PROVE  ClientInv'
<1> DEFINE s == [client EXCEPT !.queries = @ \ {k}]
<1>1. /\ Sound(client, client.ask, ServerRows, {}) /\ client \in Clients /\ SocketsFit(client) /\ ReconnectDue(client)
      /\ Only(s)
  BY DEF ClientInv, Sound, Fits, QueryResult
<1>3. /\ s \in Clients /\ s.socks = client.socks /\ s.cur = client.cur /\ s.url = client.url /\ s.local = client.local
      /\ s.stopped = client.stopped /\ s.givenUp = client.givenUp /\ s.timer = client.timer
      /\ s.checks = client.checks /\ s.ask = client.ask /\ s.queries = client.queries \ {k}
  BY <1>1 DEF Clients
<1>4. \A i \in s.queries : i \in DOMAIN client.socks /\ client.socks[i].state # "closed"
  BY <1>1, <1>3 DEF SocketsFit
<1> HIDE DEF s
<1>5. ReconnectDue(s)
  BY <1>1, <1>3 DEF ReconnectDue, Current
<1>6. Sound(s, s.ask, ServerRows, {})
  BY <1>1, <1>3, <1>4, <1>5, BesidesSound
<1>7. QED
  BY <1>1, <1>6, OnlySound

-----------------------------------------------------------------------------
(* The timers.                                                               *)

\* The entries of waiting asks change in their flags, or get a receipt for a
\* Question that is stored.
LEMMA FlagsFit ==
  ASSUME NEW s, NEW E, NEW row, Fits(s, E, row), NEW r \in Clients, SameSockets(s, r), NEW F \in AskTables,
         r.stopped = s.stopped, r.givenUp = s.givenUp,
         \A a \in Asks : r.local[a].kind = s.local[a].kind /\ r.local[a].origin = s.local[a].origin,
         \A a \in Asks : /\ F[a].state = E[a].state /\ F[a].origin = E[a].origin /\ F[a].sent = E[a].sent
                         /\ F[a].created = E[a].created /\ (E[a].state # "waiting" => F[a] = E[a])
                         /\ F[a].receipt = "ok" => \/ E[a].receipt = "ok"
                                                   \/ E[a].origin # None /\ row[E[a].origin][a] # "none"
  PROVE  Fits(r, F, row)
<1>1. EntriesFit(s, E) /\ RowsFit(E, row) /\ Deliveries(s, E, row)
  BY DEF Fits
<1>2. \A a \in Asks : Evolves(E[a], F[a])
  BY DEF Evolves, Touched, Home
<1>3. EntriesFit(r, F)
  <2> SUFFICES ASSUME NEW b \in Asks
               PROVE  /\ F[b].sent <=> F[b].origin # None
                      /\ F[b].state = "new" => F[b] = NewAsk
                      /\ F[b].state # "waiting" => ~F[b].unavailable /\ ~F[b].affinity /\ F[b].receipt # "awaited"
                      /\ F[b].state = "waiting" => ~r.stopped /\ F[b].origin \in {None, r.url}
                      /\ F[b].state = "unavailable" => F[b].origin = None
                      /\ r.local[b].kind # "none" => Belongs(F[b], r.local[b].origin) /\ F[b].state \in LocallyEnded
    BY DEF EntriesFit
  <2>1. CASE E[b].state = "waiting"
    BY <1>1, <2>1 DEF EntriesFit, LocallyEnded, SameSockets
  <2>2. CASE E[b].state # "waiting"
    <3>1. F[b] = E[b] /\ r.local[b].kind = s.local[b].kind /\ r.local[b].origin = s.local[b].origin
      BY <2>2
    <3>2. QED
      BY <1>1, <2>2, <3>1 DEF EntriesFit
  <2>3. QED
    BY <2>1, <2>2
<1>4. EndsFit(F, row)
  BY <1>1 DEF EndsFit, RowsFit
<1>5. Deliveries(r, F, row)
  <2> SUFFICES ASSUME NEW b \in Asks, F[b].state \in LocallyEnded, ~r.stopped, b \notin r.givenUp
               PROVE  Delivered(r, F, row, b)
    BY DEF Deliveries
  <2>1. F[b] = E[b] /\ Delivered(s, E, row, b)
    BY <1>1 DEF Deliveries, LocallyEnded
  <2>2. r.local[b].kind = s.local[b].kind /\ r.socks = s.socks
    BY DEF SameSockets
  <2>3. QED
    BY <2>1, <2>2 DEF Delivered
<1>6. QED
  BY <1>2, <1>3, <1>4, <1>5, EvolvedFits

LEMMA AffinityTimersFit ==
  ASSUME NEW s, NEW row, Fits(s, s.ask, row), NEW Y, Receipts(s, s.ask, Y), NEW ts
  PROVE  LET r == StartTargetAffinityTimers(s, ts)
         IN /\ Fits(r, r.ask, row) /\ Receipts(r, r.ask, Y) /\ SameSockets(s, r)
            /\ r.timer = s.timer /\ r.checks = s.checks /\ r.stopped = s.stopped
<1> DEFINE f(a) == [s.ask[a] EXCEPT !.affinity = @ \/ (a \in Waiting(s) /\ s.ask[a].sent /\ s.ask[a].origin \in ts)]
           l(a) == [s.local[a] EXCEPT !.affinity = @ \/ s.local[a].origin \in ts]
           r == StartTargetAffinityTimers(s, ts)
<1>1. s \in Clients /\ s.ask \in AskTables /\ s.local \in [Asks -> Locals]
  BY DEF Fits, Clients
<1>2. ASSUME NEW a \in Asks
      PROVE  /\ f(a) \in Entries /\ f(a).state = s.ask[a].state /\ f(a).origin = s.ask[a].origin
             /\ f(a).sent = s.ask[a].sent /\ f(a).created = s.ask[a].created /\ f(a).receipt = s.ask[a].receipt
             /\ (s.ask[a].state # "waiting" => f(a) = s.ask[a])
  <2>1. s.ask[a] \in Entries
    BY <1>1 DEF AskTables
  <2> DEFINE x == s.ask[a].affinity \/ (a \in Waiting(s) /\ s.ask[a].sent /\ s.ask[a].origin \in ts)
  <2>2. f(a) = [s.ask[a] EXCEPT !.affinity = x]
    OBVIOUS
  <2>3. x \in BOOLEAN
    OBVIOUS
  <2>4. s.ask[a].state # "waiting" => x = s.ask[a].affinity
    BY <2>1 DEF Waiting, Entries
  <2> HIDE DEF x, f
  <2>5. QED
    BY <2>1, <2>2, <2>3, <2>4 DEF Entries
<1>3. ASSUME NEW a \in Asks
      PROVE  l(a) \in Locals /\ l(a).kind = s.local[a].kind /\ l(a).origin = s.local[a].origin
  <2>1. s.local[a] \in Locals
    BY <1>1
  <2> DEFINE x == s.local[a].affinity \/ s.local[a].origin \in ts
  <2>2. l(a) = [s.local[a] EXCEPT !.affinity = x]
    OBVIOUS
  <2>3. x \in BOOLEAN
    OBVIOUS
  <2> HIDE DEF x, l
  <2>5. QED
    BY <2>1, <2>2, <2>3 DEF Locals
<1> DEFINE F == [a \in Asks |-> f(a)]
           K == [a \in Asks |-> l(a)]
<1>4. r = [s EXCEPT !.ask = F, !.local = K]
  BY DEF StartTargetAffinityTimers
<1> HIDE DEF f, l
<1>5. F \in AskTables /\ K \in [Asks -> Locals] /\ \A a \in Asks : F[a] = f(a) /\ K[a] = l(a)
  BY <1>2, <1>3 DEF AskTables
<1> HIDE DEF F, K, r
<1>6. /\ r \in Clients /\ r.ask = F /\ r.local = K /\ SameSockets(s, r) /\ r.stopped = s.stopped
      /\ r.givenUp = s.givenUp /\ r.timer = s.timer /\ r.checks = s.checks
  BY <1>1, <1>4, <1>5 DEF Clients, SameSockets
<1>7. \A a \in Asks : r.local[a].kind = s.local[a].kind /\ r.local[a].origin = s.local[a].origin
  BY <1>3, <1>5, <1>6
<1>8. \A a \in Asks : /\ F[a].state = s.ask[a].state /\ F[a].origin = s.ask[a].origin /\ F[a].sent = s.ask[a].sent
                      /\ F[a].created = s.ask[a].created /\ (s.ask[a].state # "waiting" => F[a] = s.ask[a])
                      /\ F[a].receipt = s.ask[a].receipt
  BY <1>2, <1>5
<1>9. Fits(r, F, row)
  BY <1>5, <1>6, <1>7, <1>8, FlagsFit
<1>10. Receipts(r, F, Y)
  BY <1>6, <1>8 DEF Receipts, SameSockets, Current, AnswerDue
<1>11. QED
  BY <1>6, <1>9, <1>10 DEF r

\* The resolver has found another server, or this one again.
LEMMA CheckFits ==
  ASSUME NEW s, NEW row, Fits(s, s.ask, row), NEW Y, Receipts(s, s.ask, Y),
         NEW t \in Targets \cup {None}, NEW c \in BOOLEAN
  PROVE  LET r == CheckForTargetChange(s, t, c)
         IN Fits(r, r.ask, row) /\ Receipts(r, r.ask, Y) /\ (c /\ ReconnectDue(s) => ReconnectDue(r))
<1> DEFINE r == CheckForTargetChange(s, t, c)
           free == [s EXCEPT !.deferred = None]
           later == [s EXCEPT !.deferred = t]
<1>1. s \in Clients
  BY DEF Fits
<1>2. ASSUME NEW x \in {free, later}
      PROVE  /\ SameWork(s, x) /\ x \in Clients /\ x.ask = s.ask /\ x.timer = s.timer /\ x.checks = s.checks
             /\ Fits(x, x.ask, row) /\ Receipts(x, x.ask, Y) /\ (ReconnectDue(s) => ReconnectDue(x))
             /\ UpToDate(x, x.ask)
  <2>1. /\ SameWork(s, x) /\ x \in Clients /\ x.ask = s.ask /\ x.timer = s.timer /\ x.checks = s.checks
    BY <1>1 DEF Clients, SameWork
  <2> HIDE DEF free, later
  <2>2. Fits(x, x.ask, row)
    BY <2>1, SameFits
  <2>3. Receipts(x, x.ask, Y)
    BY <2>1, SameReceipts
  <2>4. ReconnectDue(s) => ReconnectDue(x)
    BY <2>1 DEF ReconnectDue, SameWork, Current
  <2>5. QED
    BY <2>1, <2>2, <2>3, <2>4, UpToDateWithItself
<1>3. r = IF t = None \/ (t = s.url /\ s.deferred = None) THEN s
          ELSE IF Blocking(s, t) THEN StartTargetAffinityTimers(later, Targets)
          ELSE IF t = s.url THEN free ELSE RetargetNow(free, t, c)
  BY DEF CheckForTargetChange, DeferTargetSwitch
<1> HIDE DEF free, later
<1>4. CASE r = s
  BY <1>4
<1>5. CASE r = free
  BY <1>2, <1>5
<1>6. CASE r = StartTargetAffinityTimers(later, Targets)
  <2>1. Fits(later, later.ask, row) /\ Receipts(later, later.ask, Y) /\ (ReconnectDue(s) => ReconnectDue(later))
    BY <1>2
  <2> DEFINE u == StartTargetAffinityTimers(later, Targets)
  <2>2. /\ Fits(u, u.ask, row) /\ Receipts(u, u.ask, Y) /\ SameSockets(later, u)
        /\ u.timer = later.timer /\ u.checks = later.checks /\ u.stopped = later.stopped
    BY <2>1, AffinityTimersFit
  <2> HIDE DEF u
  <2>3. ReconnectDue(later) => ReconnectDue(u)
    BY <2>2 DEF ReconnectDue, SameSockets, Current
  <2>4. r = u
    BY <1>6 DEF u
  <2> HIDE DEF r
  <2>5. QED
    BY <2>1, <2>2, <2>3, <2>4 DEF r
<1>7. CASE t # None /\ ~Blocking(s, t) /\ r = RetargetNow(free, t, c)
  <2>1. t \in Targets /\ ~Blocking(free, t)
    BY <1>2, <1>7 DEF Blocking, Waiting, SameWork
  <2>2. Fits(free, free.ask, row) /\ UpToDate(free, free.ask)
    BY <1>2
  <2> DEFINE u == RetargetNow(free, t, c)
  <2>3. Fits(u, free.ask, row) /\ Receipts(u, free.ask, Y) /\ u.ask = free.ask /\ (c => ReconnectDue(u))
    BY <2>1, <2>2, RetargetFits
  <2>4. r = u
    BY <1>7
  <2> HIDE DEF u, r
  <2>5. QED
    BY <2>3, <2>4 DEF r
<1>8. QED
  BY <1>3, <1>4, <1>5, <1>6, <1>7

LEMMA ReconnectFiresSound ==
  ASSUME ClientInv, ReconnectFires
  PROVE  ClientInv'
<1> DEFINE d == [kind |-> "reconnect", target |-> foundTarget]
           s == [client EXCEPT !.timer = FALSE, !.checks = @ \cup {d}]
<1>1. /\ Sound(client, client.ask, ServerRows, {}) /\ client \in Clients /\ SocketsFit(client) /\ ReconnectDue(client)
      /\ Only(s) /\ d \in Checks /\ d.kind = "reconnect"
  BY DEF ClientInv, Sound, Fits, ReconnectFires, Checks
<1> HIDE DEF d
<1>2. /\ s \in Clients /\ s.socks = client.socks /\ s.cur = client.cur /\ s.url = client.url /\ s.local = client.local
      /\ s.stopped = client.stopped /\ s.givenUp = client.givenUp /\ s.queries = client.queries
      /\ s.checks = client.checks \cup {d} /\ s.ask = client.ask
  BY <1>1 DEF Clients
<1> HIDE DEF s
<1>3. ReconnectDue(s)
  BY <1>1, <1>2 DEF ReconnectDue, Current
<1>4. \A k \in s.queries : k \in DOMAIN client.socks /\ client.socks[k].state # "closed"
  BY <1>1, <1>2 DEF SocketsFit
<1>5. Sound(s, s.ask, ServerRows, {})
  BY <1>1, <1>2, <1>3, <1>4, BesidesSound
<1>6. QED
  BY <1>1, <1>5, OnlySound

LEMMA PollFiresSound ==
  ASSUME ClientInv, PollFires
  PROVE  ClientInv'
<1> DEFINE d == [kind |-> "poll", target |-> foundTarget]
           s == [client EXCEPT !.checks = @ \cup {d}]
<1>1. /\ Sound(client, client.ask, ServerRows, {}) /\ client \in Clients /\ SocketsFit(client) /\ ReconnectDue(client)
      /\ Only(s) /\ d \in Checks
  BY DEF ClientInv, Sound, Fits, PollFires, Checks
<1> HIDE DEF d
<1>2. /\ s \in Clients /\ s.socks = client.socks /\ s.cur = client.cur /\ s.url = client.url /\ s.local = client.local
      /\ s.stopped = client.stopped /\ s.givenUp = client.givenUp /\ s.queries = client.queries
      /\ s.checks = client.checks \cup {d} /\ s.ask = client.ask /\ s.timer = client.timer
  BY <1>1 DEF Clients
<1> HIDE DEF s
<1>3. ReconnectDue(s)
  BY <1>1, <1>2 DEF ReconnectDue, Current
<1>4. \A k \in s.queries : k \in DOMAIN client.socks /\ client.socks[k].state # "closed"
  BY <1>1, <1>2 DEF SocketsFit
<1>5. Sound(s, s.ask, ServerRows, {})
  BY <1>1, <1>2, <1>3, <1>4, BesidesSound
<1>6. QED
  BY <1>1, <1>5, OnlySound

LEMMA TargetResolvedSound ==
  ASSUME ClientInv, NEW c, TargetResolved(c)
  PROVE  ClientInv'
<1> DEFINE s == [client EXCEPT !.checks = @ \ {c}]
           checked == CheckForTargetChange(s, c.target, c.kind = "poll")
           row == ServerRows
<1>1. /\ Sound(client, client.ask, row, {}) /\ client \in Clients /\ SocketsFit(client) /\ ReconnectDue(client)
      /\ c \in client.checks
      /\ Only(IF s.stopped THEN s ELSE IF c.kind = "reconnect" THEN Connect(checked) ELSE checked)
  BY DEF ClientInv, Sound, Fits, TargetResolved
<1>2. c.target \in Targets \cup {None} /\ c.kind \in {"reconnect", "poll"}
  BY <1>1 DEF Clients, Checks
<1>3. /\ s \in Clients /\ SameWork(client, s) /\ s.timer = client.timer
      /\ s.checks = client.checks \ {c} /\ s.ask = client.ask
  BY <1>1 DEF Clients, SameWork
<1> HIDE DEF s
<1>4. Fits(s, s.ask, row) /\ Receipts(s, s.ask, {})
  BY <1>1, <1>3, SameFits, SameReceipts DEF Sound
<1>5. s.stopped \/ c.kind = "poll" => ReconnectDue(s)
  BY <1>1, <1>3 DEF ReconnectDue, SameWork, Current
<1>6. /\ Fits(checked, checked.ask, row) /\ Receipts(checked, checked.ask, {})
      /\ (c.kind = "poll") /\ ReconnectDue(s) => ReconnectDue(checked)
  <2>1. (c.kind = "poll") \in BOOLEAN
    OBVIOUS
  <2>2. QED
    BY <1>2, <1>4, <2>1, CheckFits
<1> HIDE DEF checked
<1>7. CASE s.stopped
  BY <1>1, <1>4, <1>5, <1>7, OnlySound DEF Sound
<1>8. CASE ~s.stopped /\ c.kind = "reconnect"
  <2> DEFINE u == Connect(checked)
  <2>1. Fits(u, checked.ask, row) /\ ReconnectDue(u) /\ Receipts(u, checked.ask, {}) /\ u.ask = checked.ask
    BY <1>6, ConnectFits
  <2>2. Only(u)
    BY <1>1, <1>8
  <2> HIDE DEF u
  <2>3. QED
    BY <2>1, <2>2, OnlySound DEF Sound
<1>9. CASE ~s.stopped /\ c.kind = "poll"
  <2>1. Only(checked)
    BY <1>1, <1>9
  <2>2. QED
    BY <1>5, <1>6, <1>9, <2>1, OnlySound DEF Sound
<1>10. QED
  BY <1>2, <1>7, <1>8, <1>9

\* An ask ends with nothing more to say of it.
LEMMA TimedOutSound ==
  ASSUME ClientInv, NEW a \in Asks, client.ask[a].state = "waiting",
         NEW outcome \in {"unavailable", "expired", "undeliverable"},
         outcome = "unavailable" => client.ask[a].origin = None, Only(EndAsk(client, a, outcome))
  PROVE  ClientInv'
<1>1. Sound(client, client.ask, ServerRows, {})
  BY DEF ClientInv
<1>2. /\ outcome \in AskStates \ {"new", "waiting", "answered here", "cancelled here"}
      /\ outcome \notin {"answered", "cancelled"}
      /\ outcome \in {"unavailable", "aborted"} => client.ask[a].origin = None
  BY DEF AskStates
<1> DEFINE r == EndAsk(client, a, outcome)
<1>3. Sound(r, r.ask, ServerRows, {} \ {a})
  BY <1>1, <1>2, EndAskSound
<1>4. {} \ {a} = {}
  OBVIOUS
<1> HIDE DEF r
<1>5. QED
  BY <1>3, <1>4, OnlySound DEF r

LEMMA ExpiryTimerSound == ASSUME ClientInv, NEW a \in Asks, ExpiryTimer(a) PROVE ClientInv'
BY TimedOutSound DEF ExpiryTimer, Waiting

LEMMA FlaggedWaits ==
  ASSUME ClientInv, NEW a \in Asks, client.ask[a].unavailable \/ client.ask[a].affinity
  PROVE  client.ask[a].state = "waiting"
BY DEF ClientInv, Sound, Fits, EntriesFit

LEMMA TargetAffinityTimerSound == ASSUME ClientInv, NEW a \in Asks, TargetAffinityTimer(a) PROVE ClientInv'
BY TimedOutSound, FlaggedWaits DEF TargetAffinityTimer

LEMMA UnavailableTimerSound == ASSUME ClientInv, NEW a \in Asks, UnavailableTimer(a) PROVE ClientInv'
<1> DEFINE s == [client EXCEPT !.ask[a].unavailable = FALSE]
           E == client.ask
           row == ServerRows
<1>1. /\ Sound(client, E, row, {}) /\ client \in Clients /\ EntriesFit(client, E) /\ E \in AskTables
      /\ Fits(client, E, row) /\ Receipts(client, E, {}) /\ ReconnectDue(client) /\ E[a] \in Entries
      /\ E[a].state = "waiting" /\ Only(IF E[a].sent THEN s ELSE EndAsk(client, a, "unavailable"))
  BY FlaggedWaits DEF ClientInv, Sound, Fits, UnavailableTimer, AskTables
<1>2. CASE ~E[a].sent
  <2>1. E[a].origin = None /\ Only(EndAsk(client, a, "unavailable"))
    BY <1>1, <1>2 DEF EntriesFit
  <2>2. QED
    BY <1>1, <2>1, TimedOutSound
<1>3. CASE E[a].sent
  <2> DEFINE f == [E[a] EXCEPT !.unavailable = FALSE]
  <2>1. /\ f \in Entries /\ f.state = E[a].state /\ f.origin = E[a].origin /\ f.sent = E[a].sent
        /\ f.created = E[a].created /\ f.receipt = E[a].receipt
    BY <1>1 DEF Entries
  <2> HIDE DEF f
  <2> DEFINE F == [E EXCEPT ![a] = f]
  <2>2. F \in AskTables /\ F[a] = f /\ \A b \in Asks : b # a => F[b] = E[b]
    BY <1>1, <2>1 DEF AskTables
  <2>3. s = [client EXCEPT !.ask = F]
    BY DEF f
  <2> HIDE DEF F
  <2>4. s \in Clients /\ SameWork(client, s) /\ s.ask = F /\ s.timer = client.timer /\ s.checks = client.checks
    BY <1>1, <2>2, <2>3 DEF Clients, SameWork
  <2> HIDE DEF s
  <2>5. \A b \in Asks : /\ F[b].state = E[b].state /\ F[b].origin = E[b].origin /\ F[b].sent = E[b].sent
                        /\ F[b].created = E[b].created /\ (E[b].state # "waiting" => F[b] = E[b])
                        /\ F[b].receipt = E[b].receipt
    BY <1>1, <2>1, <2>2
  <2>6. Fits(s, F, row)
    BY <1>1, <2>2, <2>4, <2>5, FlagsFit DEF SameWork, SameSockets
  <2>7. Receipts(s, F, {}) /\ ReconnectDue(s)
    BY <1>1, <2>4, <2>5 DEF Receipts, ReconnectDue, SameWork, Current, AnswerDue
  <2>8. QED
    BY <1>1, <1>3, <2>4, <2>6, <2>7, OnlySound DEF Sound
<1>4. QED
  BY <1>2, <1>3

LEMMA LocalAffinityTimerSound == ASSUME ClientInv, NEW a \in Asks, LocalAffinityTimer(a) PROVE ClientInv'
<1> DEFINE s == [client EXCEPT !.local[a] = NoLocal, !.givenUp = @ \cup {a}]
           E == client.ask
           row == ServerRows
           L == [client.local EXCEPT ![a] = NoLocal]
<1>1. /\ client \in Clients /\ EntriesFit(client, E) /\ E \in AskTables /\ RowsFit(E, row)
      /\ Fits(client, E, row) /\ Receipts(client, E, {}) /\ ReconnectDue(client)
      /\ client.local \in [Asks -> Locals] /\ client.givenUp \in SUBSET Asks /\ Deliveries(client, E, row)
      /\ Only(TryApplyDeferredTarget(s))
  BY DEF ClientInv, Sound, Fits, LocalAffinityTimer, Clients
<1>2. NoLocal \in Locals /\ NoLocal.kind = "none"
  BY DEF NoLocal, Locals
<1>3. L \in [Asks -> Locals] /\ L[a].kind = "none" /\ \A b \in Asks : b # a => L[b] = client.local[b]
  BY <1>1, <1>2
<1>4. s = [client EXCEPT !.local = L, !.givenUp = client.givenUp \cup {a}]
  OBVIOUS
<1> HIDE DEF L
<1>5. /\ s \in Clients /\ SameSockets(client, s) /\ s.ask = E /\ s.timer = client.timer /\ s.checks = client.checks
      /\ s.local = L /\ s.stopped = client.stopped /\ s.givenUp = client.givenUp \cup {a}
  BY <1>1, <1>3, <1>4 DEF Clients, SameSockets
<1> HIDE DEF s
<1>6. \A b \in Asks : L[b].kind = "none" \/ L[b] = client.local[b]
  BY <1>3
<1>7. EntriesFit(s, E)
  BY <1>1, <1>5, <1>6 DEF EntriesFit, SameSockets
<1>8. Deliveries(s, E, row)
  <2> SUFFICES ASSUME NEW b \in Asks, E[b].state \in LocallyEnded, ~s.stopped, b \notin s.givenUp
               PROVE  Delivered(s, E, row, b)
    BY DEF Deliveries
  <2>1. Delivered(client, E, row, b) /\ s.local[b] = client.local[b]
    BY <1>1, <1>3, <1>5 DEF Deliveries
  <2>2. QED
    BY <1>5, <2>1 DEF Delivered, SameSockets
<1>9. \A b \in Asks : Evolves(E[b], E[b])
  BY DEF Evolves
<1>10. EndsFit(E, row)
  BY <1>1 DEF EndsFit, RowsFit
<1>11. \A b \in Asks : client.local[b].kind = "none" => s.local[b].kind = "none"
  BY <1>5, <1>6
<1>12. Fits(s, E, row)
  BY <1>1, <1>5, <1>7, <1>8, <1>9, <1>10, <1>11, EvolvedFits
<1>13. Receipts(s, E, {}) /\ ReconnectDue(s)
  BY <1>1, <1>5 DEF Receipts, ReconnectDue, SameSockets, Current, AnswerDue
<1>14. UpToDate(s, E) /\ Sound(s, E, row, {})
  BY <1>5, <1>12, <1>13 DEF UpToDate, Sound
<1> DEFINE r == TryApplyDeferredTarget(s)
<1>15. Sound(r, E, row, {}) /\ r.ask = s.ask
  BY <1>14, TryApplyFits
<1> HIDE DEF r
<1>16. QED
  BY <1>1, <1>5, <1>15, OnlySound DEF r

LEMMA ListOf ==
  ASSUME NEW M, NEW n \in Nat, NEW f \in [1..n -> M]
  PROVE  f \in Seq(M) /\ Len(f) = n
OBVIOUS

LEMMA StopClientSound == ASSUME ClientInv, StopClient PROVE ClientInv'
<1> DEFINE E == client.ask
           row == ServerRows
           gone(a) == [E[a] EXCEPT !.state = "stopped", !.unavailable = FALSE, !.affinity = FALSE,
                                   !.receipt = IF @ = "awaited" THEN "rejected" ELSE @]
           F == [a \in Asks |-> IF a \in Waiting(client) THEN gone(a) ELSE E[a]]
           K == [a \in Asks |-> NoLocal]
           shut(k) == [client.socks[k] EXCEPT !.state = "closing"]
           S == [k \in DOMAIN client.socks |-> IF k = client.cur /\ client.socks[k].state # "closed"
                                               THEN shut(k) ELSE client.socks[k]]
           s == [client EXCEPT !.stopped = TRUE, !.timer = FALSE, !.heartbeat = FALSE, !.queries = {},
                               !.ask = F, !.local = K, !.socks = S]
<1>1. /\ client \in Clients /\ EntriesFit(client, E) /\ E \in AskTables /\ RowsFit(E, row) /\ SocketsFit(client)
      /\ Fits(client, E, row) /\ ReconnectDue(client) /\ client.socks \in Seq(ClientSockets) /\ row \in Rows
  BY DEF ClientInv, Sound, Fits, Clients
<1>2. Only(s)
  BY DEF StopClient
<1>3. \A a \in Asks : /\ gone(a) \in Entries /\ gone(a).state = "stopped" /\ ~gone(a).unavailable /\ ~gone(a).affinity
                      /\ gone(a).receipt # "awaited" /\ (gone(a).receipt = "ok" => E[a].receipt = "ok")
                      /\ gone(a).origin = E[a].origin /\ gone(a).sent = E[a].sent /\ gone(a).created = E[a].created
  <2> TAKE a \in Asks
  <2>1. E[a] \in Entries
    BY <1>1 DEF AskTables
  <2>2. QED
    BY <2>1 DEF Entries, AskStates
<1> HIDE DEF gone
<1>4. /\ F \in AskTables
      /\ \A a \in Asks : /\ F[a].state # "waiting" /\ ~F[a].unavailable /\ ~F[a].affinity /\ F[a].receipt # "awaited"
                         /\ (E[a].state # "waiting" => F[a] = E[a]) /\ (E[a].state = "waiting" => F[a].state = "stopped")
                         /\ (F[a].receipt = "ok" => E[a].receipt = "ok")
                         /\ F[a].origin = E[a].origin /\ F[a].sent = E[a].sent /\ F[a].created = E[a].created
  <2>1. F \in AskTables
    BY <1>1, <1>3 DEF AskTables
  <2>2. ASSUME NEW a \in Asks
        PROVE  /\ F[a].state # "waiting" /\ ~F[a].unavailable /\ ~F[a].affinity /\ F[a].receipt # "awaited"
               /\ (E[a].state # "waiting" => F[a] = E[a]) /\ (E[a].state = "waiting" => F[a].state = "stopped")
               /\ (F[a].receipt = "ok" => E[a].receipt = "ok")
               /\ F[a].origin = E[a].origin /\ F[a].sent = E[a].sent /\ F[a].created = E[a].created
    BY <1>1, <1>3 DEF EntriesFit, Waiting
  <2>3. QED
    BY <2>1, <2>2
<1> HIDE DEF F
<1>5. K \in [Asks -> Locals] /\ \A a \in Asks : K[a].kind = "none"
  BY DEF NoLocal, Locals
<1> HIDE DEF K
<1>6. \A k \in DOMAIN client.socks : /\ shut(k) \in ClientSockets /\ shut(k).state = "closing"
                                     /\ shut(k).url = client.socks[k].url /\ shut(k).up = client.socks[k].up
                                     /\ shut(k).down = client.socks[k].down /\ shut(k).cut = client.socks[k].cut
                                     /\ shut(k).lost = client.socks[k].lost
                                     /\ shut(k).suppress = client.socks[k].suppress
  <2> TAKE k \in DOMAIN client.socks
  <2>1. client.socks[k] \in ClientSockets
    BY <1>1
  <2>2. QED
    BY <2>1 DEF ClientSockets
<1> HIDE DEF shut
<1>7. /\ S \in Seq(ClientSockets) /\ Len(S) = Len(client.socks) /\ DOMAIN S = DOMAIN client.socks
      /\ \A k \in DOMAIN client.socks :
           /\ S[k].url = client.socks[k].url /\ S[k].up = client.socks[k].up /\ S[k].down = client.socks[k].down
           /\ S[k].cut = client.socks[k].cut /\ S[k].lost = client.socks[k].lost
           /\ S[k].suppress = client.socks[k].suppress
      /\ S[client.cur].state \notin {"open", "connecting"}
  <2>1. \A k \in DOMAIN client.socks : S[k] \in ClientSockets
    BY <1>1, <1>6
  <2>2. DOMAIN client.socks = 1..Len(client.socks) /\ Len(client.socks) \in Nat
    BY <1>1
  <2>3. S \in Seq(ClientSockets) /\ Len(S) = Len(client.socks) /\ DOMAIN S = DOMAIN client.socks
    <3> DEFINE n == Len(client.socks)
    <3>1. S \in [1..n -> ClientSockets]
      BY <2>1, <2>2
    <3> HIDE DEF S, n
    <3>2. n \in Nat /\ n = Len(client.socks)
      BY <2>2 DEF n
    <3>3. S \in Seq(ClientSockets) /\ Len(S) = n
      BY <3>1, <3>2, ListOf
    <3>4. QED
      BY <2>2, <3>1, <3>2, <3>3
  <2>4. \A k \in DOMAIN client.socks :
           /\ S[k].url = client.socks[k].url /\ S[k].up = client.socks[k].up /\ S[k].down = client.socks[k].down
           /\ S[k].cut = client.socks[k].cut /\ S[k].lost = client.socks[k].lost
           /\ S[k].suppress = client.socks[k].suppress
    BY <1>6
  <2>5. S[client.cur].state \notin {"open", "connecting"}
    BY <1>1, <1>6, CurrentFacts
  <2>6. QED
    BY <2>3, <2>4, <2>5
<1> HIDE DEF S
<1>8. /\ s \in Clients /\ s.socks = S /\ s.cur = client.cur /\ s.url = client.url /\ s.local = K /\ s.ask = F
      /\ s.stopped = TRUE /\ s.queries = {}
  BY <1>1, <1>4, <1>5, <1>7 DEF Clients
<1> HIDE DEF s
<1>9. Current(s) = S[client.cur] /\ client.cur \in DOMAIN client.socks
  BY <1>1, <1>8, CurrentFacts DEF Current
<1>10. SocketsFit(s)
  BY <1>1, <1>7, <1>8, <1>9 DEF SocketsFit
<1>11. EntriesFit(s, F)
  BY <1>1, <1>4, <1>5, <1>8 DEF EntriesFit
<1>12. \A t : \A a \in Asks : Belongs(E[a], t) => Belongs(F[a], t)
  BY <1>4 DEF Belongs, Touched, Home
<1>13. UpFits(s, F)
  <2> SUFFICES ASSUME NEW k \in DOMAIN client.socks, NEW i \in DOMAIN client.socks[k].up, NEW a \in Asks
               PROVE  LET m == client.socks[k].up[i] IN
                      /\ Creation(m, a) \/ Resolution(m, a) => Belongs(F[a], client.socks[k].url)
                      /\ Creation(m, a) /\ ~m.flush => F[a].origin # None
                      /\ Resolution(m, a) => F[a].state \in LocallyEnded /\ s.local[a].kind = "none"
    BY <1>7, <1>8 DEF UpFits
  <2>1. LET m == client.socks[k].up[i] IN
        /\ Creation(m, a) \/ Resolution(m, a) => Belongs(E[a], client.socks[k].url)
        /\ Creation(m, a) /\ ~m.flush => E[a].origin # None
        /\ Resolution(m, a) => E[a].state \in LocallyEnded /\ client.local[a].kind = "none"
    BY <1>1 DEF Fits, UpFits
  <2>2. E[a].state \in LocallyEnded => F[a].state \in LocallyEnded
    BY <1>4 DEF LocallyEnded
  <2>3. QED
    BY <1>4, <1>5, <1>8, <1>12, <2>1, <2>2
<1>14. CreatedFirst(s)
  BY <1>1, <1>7, <1>8 DEF Fits, CreatedFirst
<1>15. RepliesFit(s, F, row)
  <2>1. \A k \in DOMAIN client.socks : \A i \in DOMAIN client.socks[k].down : client.socks[k].down[i].ask \in Asks
    BY <1>1, QueueFacts
  <2>2. \A a \in Asks : F[a].origin = E[a].origin
    BY <1>4
  <2>3. QED
    BY <1>1, <1>7, <1>8, <2>1, <2>2 DEF Fits, RepliesFit
<1>16. RowsFit(F, row)
  <2> SUFFICES ASSUME NEW a \in Asks
               PROVE  /\ \A t \in Targets : row[t][a] # "none" => Belongs(F[a], t)
                      /\ F[a].receipt = "ok" => F[a].origin # None /\ row[F[a].origin][a] # "none"
                      /\ F[a].state \in {"answered", "cancelled"} => F[a].origin # None /\ row[F[a].origin][a] = F[a].state
    BY DEF RowsFit
  <2>1. CASE E[a].state = "waiting"
    BY <1>1, <1>4, <1>12, <2>1 DEF RowsFit
  <2>2. CASE E[a].state # "waiting"
    BY <1>1, <1>4, <2>2 DEF RowsFit
  <2>3. QED
    BY <2>1, <2>2
<1>17. Deliveries(s, F, row) /\ Receipts(s, F, {})
  BY <1>4, <1>8 DEF Deliveries, Receipts
<1>18. ReconnectDue(s)
  BY <1>1, <1>7, <1>8, <1>9 DEF ReconnectDue, Current
<1>19. Sound(s, F, row, {})
  BY <1>1, <1>4, <1>8, <1>10, <1>11, <1>13, <1>14, <1>15, <1>16, <1>17, <1>18 DEF Sound, Fits
<1>20. QED
  BY <1>2, <1>8, <1>19, OnlySound

-----------------------------------------------------------------------------
(* One of the sockets changes.                                               *)

OneChanged(s, r, k, o) ==
  /\ r \in Clients /\ r.cur = s.cur /\ r.url = s.url /\ r.local = s.local /\ r.stopped = s.stopped
  /\ r.givenUp = s.givenUp /\ DOMAIN r.socks = DOMAIN s.socks /\ Len(r.socks) = Len(s.socks)
  /\ r.socks[k] = o /\ \A j \in DOMAIN s.socks : j # k => r.socks[j] = s.socks[j]
  /\ o.url = s.socks[k].url
\* The queue u is p without its first d messages.
Shorter(p, u, d) == \A i \in DOMAIN u : i + d \in DOMAIN p /\ u[i] = p[i + d]

LEMMA OneSocket ==
  ASSUME NEW s \in Clients, NEW k \in DOMAIN s.socks, NEW o \in ClientSockets
  PROVE  LET S == [s.socks EXCEPT ![k] = o]
         IN /\ S \in Seq(ClientSockets) /\ DOMAIN S = DOMAIN s.socks /\ Len(S) = Len(s.socks) /\ S[k] = o
            /\ \A j \in DOMAIN s.socks : j # k => S[j] = s.socks[j]
<1> DEFINE S == [s.socks EXCEPT ![k] = o]
<1>1. s.socks \in Seq(ClientSockets)
  BY DEF Clients
<1>2. S \in Seq(ClientSockets) /\ DOMAIN S = DOMAIN s.socks /\ Len(S) = Len(s.socks)
  BY <1>1
<1>3. S[k] = o /\ \A j \in DOMAIN s.socks : j # k => S[j] = s.socks[j]
  BY <1>1
<1>4. QED
  BY <1>2, <1>3

LEMMA OneFits ==
  ASSUME NEW s, NEW E, NEW row, Fits(s, E, row), NEW k \in DOMAIN s.socks, NEW r, NEW o, OneChanged(s, r, k, o),
         NEW d \in Nat, Shorter(s.socks[k].up, o.up, d), NEW after, after \in Rows, SocketsFit(r),
         RepliesFit(r, E, after), RowsFit(E, after), Deliveries(r, E, after)
  PROVE  Fits(r, E, after)
<1> DEFINE D == [j \in DOMAIN s.socks |-> IF j = k THEN d ELSE 0]
<1>1. D \in [DOMAIN s.socks -> Nat] /\ D[k] = d /\ \A j \in DOMAIN s.socks : j # k => D[j] = 0
  OBVIOUS
<1> HIDE DEF D
<1>2. s \in Clients
  BY DEF Fits
<1>3. Fewer(s, r, D)
  <2> SUFFICES ASSUME NEW j \in DOMAIN s.socks
               PROVE  /\ r.socks[j].url = s.socks[j].url
                      /\ \A i \in DOMAIN r.socks[j].up : /\ i + D[j] \in DOMAIN s.socks[j].up
                                                         /\ r.socks[j].up[i] = s.socks[j].up[i + D[j]]
    BY DEF Fewer, OneChanged
  <2>1. CASE j = k
    BY <1>1, <2>1 DEF OneChanged, Shorter
  <2>2. CASE j # k
    <3>1. r.socks[j] = s.socks[j] /\ D[j] = 0 /\ s.socks[j].up \in Seq(UpMessages)
      BY <1>1, <1>2, <2>2, QueueFacts DEF OneChanged
    <3>2. \A i \in DOMAIN s.socks[j].up : i + 0 = i
      BY <3>1
    <3>3. QED
      BY <3>1, <3>2
  <2>3. QED
    BY <2>1, <2>2
<1>4. QED
  BY <1>1, <1>3, FewerFits DEF OneChanged

LEMMA OneSocketsFit ==
  ASSUME NEW s \in Clients, SocketsFit(s), NEW k \in DOMAIN s.socks, NEW r, NEW o, OneChanged(s, r, k, o),
         o.lost => o.cut, o.cut => o.up = <<>> /\ o.down = <<>>,
         o.state \in {"open", "connecting"} => s.socks[k].state \in {"open", "connecting"},
         \A q \in r.queries : q \in DOMAIN r.socks /\ r.socks[q].state # "closed"
  PROVE  SocketsFit(r)
<1>1. s.cur \in DOMAIN s.socks /\ Current(s) = s.socks[s.cur]
  BY CurrentFacts
<1>2. Current(r) = r.socks[s.cur]
  BY DEF Current, OneChanged
<1>3. r.cur = Len(r.socks) /\ r.cur >= 1
  BY DEF OneChanged, SocketsFit
<1>4. \A j \in DOMAIN r.socks : /\ r.socks[j].lost => r.socks[j].cut
                                /\ r.socks[j].cut => r.socks[j].up = <<>> /\ r.socks[j].down = <<>>
  BY DEF OneChanged, SocketsFit
<1>5. Current(r).state \in {"open", "connecting"} => Current(r).url = r.url
  BY <1>1, <1>2 DEF OneChanged, SocketsFit
<1>6. QED
  BY <1>3, <1>4, <1>5 DEF SocketsFit

LEMMA FewerReplies ==
  ASSUME NEW s, NEW E, NEW row, RepliesFit(s, E, row), NEW k \in DOMAIN s.socks, NEW r, NEW o, OneChanged(s, r, k, o),
         \A i \in DOMAIN o.down : \E n \in DOMAIN s.socks[k].down : o.down[i] = s.socks[k].down[n]
  PROVE  RepliesFit(r, E, row)
<1> SUFFICES ASSUME NEW j \in DOMAIN s.socks, NEW i \in DOMAIN r.socks[j].down, r.socks[j].down[i].type # "error"
             PROVE  LET m == r.socks[j].down[i]
                        t == r.socks[j].url IN
                      /\ E[m.ask].origin = t /\ row[t][m.ask] # "none"
                      /\ m.type = "resolved" => row[t][m.ask] = m.outcome
  BY DEF RepliesFit, OneChanged
<1>1. \E n \in DOMAIN s.socks[j].down : r.socks[j].down[i] = s.socks[j].down[n]
  BY DEF OneChanged
<1>2. r.socks[j].url = s.socks[j].url
  BY DEF OneChanged
<1>3. QED
  BY <1>1, <1>2 DEF RepliesFit

LEMMA TailFacts ==
  ASSUME NEW M, NEW p \in Seq(M), p # <<>>
  PROVE  /\ Tail(p) \in Seq(M) /\ Shorter(p, Tail(p), 1) /\ Head(p) = p[1] /\ 1 \in DOMAIN p /\ Head(p) \in M
         /\ \A i \in DOMAIN p : i # 1 => i - 1 \in DOMAIN Tail(p) /\ Tail(p)[i - 1] = p[i]
         /\ \A i \in DOMAIN Tail(p) : \E n \in DOMAIN p : Tail(p)[i] = p[n]
<1>1. Len(p) \in Nat /\ Len(p) >= 1 /\ DOMAIN p = 1..Len(p) /\ 1 \in DOMAIN p /\ Head(p) = p[1] /\ Tail(p) \in Seq(M)
  OBVIOUS
<1>2. DOMAIN Tail(p) = 1..(Len(p) - 1) /\ \A i \in 1..(Len(p) - 1) : Tail(p)[i] = p[i + 1]
  BY <1>1
<1>3. Shorter(p, Tail(p), 1)
  BY <1>1, <1>2 DEF Shorter
<1>4. \A i \in DOMAIN p : i # 1 => i - 1 \in DOMAIN Tail(p) /\ Tail(p)[i - 1] = p[i]
  BY <1>1, <1>2
<1>5. QED
  BY <1>1, <1>3, <1>4 DEF Shorter

\* What is kept of the queues keeps what is on its way.
LEMMA SameQueuesDeliver ==
  ASSUME NEW s, NEW E, NEW row, Deliveries(s, E, row), NEW k \in DOMAIN s.socks, NEW r, NEW o, OneChanged(s, r, k, o),
         o.up = s.socks[k].up, s.socks[k].lost => o.lost
  PROVE  Deliveries(r, E, row)
<1>1. \A j \in DOMAIN s.socks : /\ r.socks[j].up = s.socks[j].up /\ r.socks[j].url = s.socks[j].url
                                /\ s.socks[j].lost => r.socks[j].lost
  BY DEF OneChanged
<1> SUFFICES ASSUME NEW a \in Asks, E[a].state \in LocallyEnded, ~s.stopped, a \notin s.givenUp
             PROVE  Delivered(r, E, row, a)
  BY DEF Deliveries, OneChanged
<1>2. Delivered(s, E, row, a)
  BY DEF Deliveries
<1>3. CASE s.local[a].kind # "none"
  BY <1>3 DEF Delivered, OneChanged
<1>4. CASE \E j \in DOMAIN s.socks :
             /\ s.socks[j].url = Home(E[a])
             /\ s.socks[j].lost \/ \E i \in DOMAIN s.socks[j].up : Resolution(s.socks[j].up[i], a)
  BY <1>1, <1>4 DEF Delivered, OneChanged
<1>5. CASE /\ \A t \in Targets : row[t][a] # "pending"
           /\ \A j \in DOMAIN s.socks : \A i \in DOMAIN s.socks[j].up : ~Creation(s.socks[j].up[i], a)
  BY <1>1, <1>5 DEF Delivered, OneChanged
<1>6. QED
  BY <1>2, <1>3, <1>4, <1>5 DEF Delivered

LEMMA ShorterItself ==
  ASSUME NEW M, NEW p \in Seq(M)
  PROVE  Shorter(p, p, 0) /\ Shorter(p, <<>>, 0)
BY DEF Shorter

LEMMA OnOpenSound == ASSUME ClientInv, NEW k \in DOMAIN client.socks, OnOpen(k) PROVE ClientInv'
<1> DEFINE E == client.ask
           row == ServerRows
           o == [client.socks[k] EXCEPT !.state = "open"]
           s == [client EXCEPT !.socks[k].state = "open", !.heartbeat = TRUE]
           q == <<[type |-> "register"]>>
           u == Send(s, q)
           v == ReplayPendingAsks(u)
           w == FlushLocalResolutions(v)
<1>1. /\ client \in Clients /\ SocketsFit(client) /\ Fits(client, E, row) /\ ReconnectDue(client)
      /\ RepliesFit(client, E, row) /\ RowsFit(E, row) /\ Deliveries(client, E, row) /\ row \in Rows
      /\ client.socks[k] \in ClientSockets /\ client.socks[k].state = "connecting" /\ Only(w)
  BY QueueFacts DEF ClientInv, Sound, Fits, OnOpen
<1>2. /\ o \in ClientSockets /\ o.state = "open" /\ o.url = client.socks[k].url /\ o.up = client.socks[k].up
      /\ o.down = client.socks[k].down /\ o.cut = client.socks[k].cut /\ o.lost = client.socks[k].lost
      /\ o.suppress = client.socks[k].suppress
  BY <1>1 DEF ClientSockets
<1> DEFINE S == [client.socks EXCEPT ![k] = o]
<1>3. s = [client EXCEPT !.socks = S, !.heartbeat = TRUE]
  OBVIOUS
<1> HIDE DEF o
<1>4. /\ S \in Seq(ClientSockets) /\ DOMAIN S = DOMAIN client.socks /\ Len(S) = Len(client.socks) /\ S[k] = o
      /\ \A j \in DOMAIN client.socks : j # k => S[j] = client.socks[j]
  BY <1>1, <1>2, OneSocket
<1> HIDE DEF S
<1>5. /\ OneChanged(client, s, k, o) /\ s.ask = E /\ s.timer = client.timer /\ s.checks = client.checks
      /\ s.queries = client.queries
  BY <1>1, <1>2, <1>3, <1>4 DEF Clients, OneChanged
<1> HIDE DEF s
<1>6. SocketsFit(s)
  <2>1. \A x \in s.queries : x \in DOMAIN s.socks /\ s.socks[x].state # "closed"
    BY <1>1, <1>2, <1>5 DEF SocketsFit, OneChanged
  <2>2. (o.lost => o.cut) /\ (o.cut => o.up = <<>> /\ o.down = <<>>)
    BY <1>1, <1>2 DEF SocketsFit
  <2>3. QED
    BY <1>1, <1>2, <1>5, <2>1, <2>2, OneSocketsFit
<1>7. RepliesFit(s, E, row)
  BY <1>1, <1>2, <1>5, FewerReplies
<1>8. Deliveries(s, E, row)
  BY <1>1, <1>2, <1>5, SameQueuesDeliver
<1>9. Shorter(client.socks[k].up, o.up, 0)
  BY <1>1, <1>2, QueueFacts, ShorterItself
<1>10. Fits(s, E, row)
  BY <1>1, <1>5, <1>6, <1>7, <1>8, <1>9, OneFits
<1>11. ReconnectDue(s)
  BY <1>1, <1>2, <1>5, CurrentFacts DEF ReconnectDue, Current, OneChanged
<1>12. Sound(s, s.ask, row, Asks) /\ s \in Clients
  BY <1>5, <1>10, <1>11 DEF Sound, Receipts, OneChanged
<1>13. Sound(u, u.ask, row, Asks)
  <2>1. CASE ~IsConnected(s)
    BY <1>12, <2>1 DEF Send
  <2>2. CASE IsConnected(s)
    <3>1. q \in Seq(UpMessages) /\ DOMAIN q = {1} /\ q[1] = [type |-> "register"]
      <4>1. [type |-> "register"] \in UpMessages
        BY DEF UpMessages
      <4>2. QED
        BY <4>1
    <3>2. \A i \in DOMAIN q, a \in Asks : ~Creation(q[i], a) /\ ~Resolution(q[i], a)
      BY <3>1 DEF Creation, Resolution
    <3> HIDE DEF q
    <3>3. Sendable(s, s.ask, q, s.local)
      BY <3>1, <3>2 DEF Sendable
    <3> DEFINE Z == SentSockets(s, q)
    <3>4. Z \in Seq(ClientSockets) /\ u = [s EXCEPT !.socks = Z]
      BY <1>6, <1>12, <2>2, <3>1, SendFacts
    <3> HIDE DEF Z, u
    <3>5. SentBy(s, u, q, s.local) /\ u.ask = s.ask
      <4>1. /\ u \in Clients /\ u.cur = s.cur /\ u.url = s.url /\ u.stopped = s.stopped /\ u.local = s.local
            /\ u.givenUp = s.givenUp /\ u.queries = s.queries /\ u.timer = s.timer /\ u.checks = s.checks
            /\ u.socks = Z /\ u.ask = s.ask
        BY <1>12, <3>4 DEF Clients
      <4>2. QED
        BY <4>1 DEF SentBy, Z
    <3>6. \A a \in Asks \ Asks : \E i \in DOMAIN q : Creation(q[i], a) /\ ~q[i].flush
      OBVIOUS
    <3>7. QED
      BY <1>12, <2>2, <3>3, <3>5, <3>6, SentSound
  <2>3. QED
    BY <2>1, <2>2
<1> HIDE DEF u
<1>14. Sound(v, v.ask, row, {})
  BY <1>13, ReplayPendingAsksSound
<1> HIDE DEF v
<1>15. Sound(w, v.ask, row, {}) /\ w.ask = v.ask
  BY <1>14, UpToDateWithItself, FlushLocalResolutionsSound
<1> HIDE DEF w
<1>16. QED
  BY <1>1, <1>15, OnlySound

LEMMA OnCloseSound == ASSUME ClientInv, NEW k \in DOMAIN client.socks, OnClose(k) PROVE ClientInv'
<1> DEFINE E == client.ask
           row == ServerRows
           o == [client.socks[k] EXCEPT !.state = "closed", !.up = <<>>, !.down = <<>>]
           s == OnClosed([client EXCEPT !.socks[k].state = "closed", !.socks[k].up = <<>>, !.socks[k].down = <<>>], k)
           u == StartTargetAffinityTimers(s, {client.url})
           v == [u EXCEPT !.timer = TRUE]
<1>1. /\ client \in Clients /\ SocketsFit(client) /\ Fits(client, E, row) /\ ReconnectDue(client) /\ Receipts(client, E, {})
      /\ RepliesFit(client, E, row) /\ RowsFit(E, row) /\ Deliveries(client, E, row) /\ row \in Rows
      /\ client.socks[k] \in ClientSockets
      /\ client.socks[k].cut \/ client.socks[k].up = <<>>
      /\ Only(IF client.stopped \/ client.socks[k].suppress THEN s ELSE v)
  BY QueueFacts DEF ClientInv, Sound, Fits, OnClose
<1>2. client.socks[k].up = <<>>
  BY <1>1 DEF SocketsFit
<1>3. /\ o \in ClientSockets /\ o.state = "closed" /\ o.url = client.socks[k].url /\ o.up = client.socks[k].up
      /\ o.down = <<>> /\ o.cut = client.socks[k].cut /\ o.lost = client.socks[k].lost
      /\ o.suppress = client.socks[k].suppress
  <2> DEFINE e == <<>>
  <2>1. e \in Seq(UpMessages) /\ e \in Seq(DownMessages) /\ client.socks[k].up = e
    BY <1>2
  <2>2. o = [client.socks[k] EXCEPT !.state = "closed", !.up = e, !.down = e]
    OBVIOUS
  <2> HIDE DEF e, o
  <2>3. /\ o \in ClientSockets /\ o.state = "closed" /\ o.url = client.socks[k].url /\ o.up = e
        /\ o.down = e /\ o.cut = client.socks[k].cut /\ o.lost = client.socks[k].lost
        /\ o.suppress = client.socks[k].suppress
    BY <1>1, <2>1, <2>2 DEF ClientSockets
  <2>4. QED
    BY <2>1, <2>3 DEF e
<1> DEFINE S == [client.socks EXCEPT ![k] = o]
<1>4. s = [client EXCEPT !.socks = S, !.heartbeat = FALSE, !.queries = {}]
  BY <1>1 DEF OnClosed, Clients
<1> HIDE DEF o
<1>5. /\ S \in Seq(ClientSockets) /\ DOMAIN S = DOMAIN client.socks /\ Len(S) = Len(client.socks) /\ S[k] = o
      /\ \A j \in DOMAIN client.socks : j # k => S[j] = client.socks[j]
  BY <1>1, <1>3, OneSocket
<1> HIDE DEF S, s
<1>6. /\ OneChanged(client, s, k, o) /\ s.ask = E /\ s.timer = client.timer /\ s.checks = client.checks
      /\ s.queries = {}
  BY <1>1, <1>3, <1>4, <1>5 DEF Clients, OneChanged
<1>7. SocketsFit(s)
  <2>1. (o.lost => o.cut) /\ (o.cut => o.up = <<>> /\ o.down = <<>>)
    BY <1>1, <1>3 DEF SocketsFit
  <2>2. QED
    BY <1>1, <1>3, <1>6, <2>1, OneSocketsFit
<1>8. RepliesFit(s, E, row)
  BY <1>1, <1>3, <1>6, FewerReplies
<1>9. Deliveries(s, E, row)
  BY <1>1, <1>3, <1>6, SameQueuesDeliver
<1>10. Shorter(client.socks[k].up, o.up, 0)
  BY <1>1, <1>3, QueueFacts, ShorterItself
<1>11. Fits(s, E, row) /\ s \in Clients
  BY <1>1, <1>6, <1>7, <1>8, <1>9, <1>10, OneFits DEF OneChanged
<1>12. Receipts(s, E, {})
  BY <1>1, <1>3, <1>6, CurrentFacts DEF Receipts, Current, OneChanged, AnswerDue
<1>13. ~Current(s).suppress /\ (s.stopped \/ client.socks[k].suppress => ReconnectDue(s))
  BY <1>1, <1>3, <1>6, CurrentFacts DEF ReconnectDue, Current, OneChanged
<1>14. CASE client.stopped \/ client.socks[k].suppress
  <2>1. ReconnectDue(s)
    BY <1>6, <1>13, <1>14 DEF OneChanged
  <2>2. QED
    BY <1>1, <1>6, <1>11, <1>12, <1>14, <2>1, OnlySound DEF Sound
<1>15. CASE ~(client.stopped \/ client.socks[k].suppress)
  <2>1. /\ Fits(u, u.ask, row) /\ Receipts(u, u.ask, {}) /\ SameSockets(s, u) /\ u.stopped = s.stopped
    BY <1>6, <1>11, <1>12, AffinityTimersFit
  <2> HIDE DEF u
  <2>2. u \in Clients
    BY <2>1 DEF Fits
  <2>3. v \in Clients /\ SameWork(u, v) /\ v.ask = u.ask /\ v.timer
    BY <2>2 DEF Clients, SameWork
  <2>4. Only(v)
    BY <1>1, <1>15
  <2> HIDE DEF v
  <2>5. Fits(v, v.ask, row) /\ Receipts(v, v.ask, {})
    BY <2>1, <2>3, SameFits, SameReceipts
  <2>6. ReconnectDue(v)
    BY <1>13, <2>1, <2>3 DEF ReconnectDue, Current, SameSockets, SameWork
  <2>7. QED
    BY <2>4, <2>5, <2>6, OnlySound DEF Sound
<1>16. QED
  BY <1>14, <1>15

\* A receipt for a Question that is stored.
LEMMA AckedSound ==
  ASSUME NEW s, NEW row, NEW a \in Asks, Sound(s, s.ask, row, {a}), s.ask[a].state = "waiting",
         s.ask[a].origin # None, row[s.ask[a].origin][a] # "none"
  PROVE  LET r == ResolveCreateReceipt(s, a)
         IN /\ Sound(r, r.ask, row, {}) /\ r.ask[a].state = "waiting" /\ r.ask[a].origin = s.ask[a].origin
<1> DEFINE E == s.ask
           f == [E[a] EXCEPT !.receipt = IF @ = "awaited" THEN "ok" ELSE @]
           F == [E EXCEPT ![a] = f]
           r == ResolveCreateReceipt(s, a)
<1>1. /\ s \in Clients /\ Fits(s, E, row) /\ Receipts(s, E, {a}) /\ ReconnectDue(s) /\ E \in AskTables /\ E[a] \in Entries
  BY DEF Sound, Fits, AskTables
<1>2. /\ f \in Entries /\ f.state = E[a].state /\ f.origin = E[a].origin /\ f.sent = E[a].sent
      /\ f.created = E[a].created /\ f.receipt # "awaited"
  BY <1>1 DEF Entries
<1>3. r = [s EXCEPT !.ask = F]
  BY DEF ResolveCreateReceipt
<1> HIDE DEF f
<1>4. F \in AskTables /\ F[a] = f /\ \A b \in Asks : b # a => F[b] = E[b]
  BY <1>1, <1>2 DEF AskTables
<1> HIDE DEF F, r
<1>5. r \in Clients /\ SameWork(s, r) /\ r.ask = F /\ r.timer = s.timer /\ r.checks = s.checks
  BY <1>1, <1>3, <1>4 DEF Clients, SameWork
<1>6. \A b \in Asks : /\ F[b].state = E[b].state /\ F[b].origin = E[b].origin /\ F[b].sent = E[b].sent
                      /\ F[b].created = E[b].created /\ (E[b].state # "waiting" => F[b] = E[b])
                      /\ F[b].receipt = "ok" => \/ E[b].receipt = "ok"
                                                \/ E[b].origin # None /\ row[E[b].origin][b] # "none"
  BY <1>2, <1>4
<1>7. Fits(r, F, row)
  BY <1>1, <1>4, <1>5, <1>6, FlagsFit DEF SameWork, SameSockets
<1>8. Receipts(r, F, {}) /\ ReconnectDue(r)
  <2>1. ReconnectDue(r)
    BY <1>1, <1>5 DEF ReconnectDue, SameWork, Current
  <2>2. Receipts(s, F, {})
    BY <1>1, <1>2, <1>4 DEF Receipts
  <2>3. QED
    BY <1>5, <2>1, <2>2, SameReceipts
<1>9. QED
  BY <1>2, <1>4, <1>5, <1>7, <1>8 DEF Sound, r

LEMMA OnMessageSound == ASSUME ClientInv, NEW k \in DOMAIN client.socks, OnMessage(k) PROVE ClientInv'
<1> DEFINE E == client.ask
           row == ServerRows
           p == client.socks[k].down
           m == Head(p)
           o == [client.socks[k] EXCEPT !.down = Tail(@)]
           s == [client EXCEPT !.socks[k].down = Tail(@)]
           acked == ResolveCreateReceipt(s, m.ask)
           a == m.ask
<1>1. /\ client \in Clients /\ SocketsFit(client) /\ Fits(client, E, row) /\ ReconnectDue(client) /\ Receipts(client, E, {})
      /\ RepliesFit(client, E, row) /\ RowsFit(E, row) /\ Deliveries(client, E, row) /\ row \in Rows
      /\ client.socks[k] \in ClientSockets /\ p \in Seq(DownMessages) /\ p # <<>> /\ EntriesFit(client, E)
      /\ client.socks[k].url \in Targets /\ client.socks[k].url # None
      /\ Only(CASE m.type = "created" -> (IF a \in Waiting(s) THEN acked ELSE s)
                [] m.type = "resolved" -> (IF a \in Waiting(s) THEN EndAsk(acked, a, m.outcome) ELSE s)
                [] m.type = "error" -> (IF a \in Waiting(s) THEN EndAsk(s, a, "error") ELSE s))
  BY QueueFacts DEF ClientInv, Sound, Fits, OnMessage
<1>2. /\ Tail(p) \in Seq(DownMessages) /\ m = p[1] /\ 1 \in DOMAIN p /\ m \in DownMessages
      /\ \A i \in DOMAIN p : i # 1 => i - 1 \in DOMAIN Tail(p) /\ Tail(p)[i - 1] = p[i]
      /\ \A i \in DOMAIN Tail(p) : \E n \in DOMAIN p : Tail(p)[i] = p[n]
  BY <1>1, TailFacts
<1>3. /\ m.ask \in Asks /\ m.type \in {"created", "resolved", "error"}
      /\ m.type = "resolved" => m.outcome \in {"answered", "cancelled"}
  BY <1>2 DEF DownMessages
<1>4. m.type # "error" => /\ E[m.ask].origin = client.socks[k].url /\ row[client.socks[k].url][m.ask] # "none"
                          /\ m.type = "resolved" => row[client.socks[k].url][m.ask] = m.outcome
  <2> HIDE DEF m
  <2>1. LET x == client.socks[k].down[1]
            t == client.socks[k].url
        IN x.type # "error" => /\ E[x.ask].origin = t /\ row[t][x.ask] # "none"
                               /\ x.type = "resolved" => row[t][x.ask] = x.outcome
    BY <1>1, <1>2 DEF RepliesFit
  <2>2. m = client.socks[k].down[1]
    BY <1>2
  <2>3. QED
    BY <2>1, <2>2
<1> DEFINE rest == Tail(p)
<1>5. o = [client.socks[k] EXCEPT !.down = rest]
  OBVIOUS
<1> HIDE DEF rest, m
<1>6. /\ o \in ClientSockets /\ o.state = client.socks[k].state /\ o.url = client.socks[k].url
      /\ o.up = client.socks[k].up /\ o.down = rest /\ o.cut = client.socks[k].cut
      /\ o.lost = client.socks[k].lost /\ o.suppress = client.socks[k].suppress
  <2>1. rest \in Seq(DownMessages)
    BY <1>2 DEF rest
  <2> HIDE DEF o
  <2>2. QED
    BY <1>1, <1>5, <2>1 DEF ClientSockets
<1> DEFINE S == [client.socks EXCEPT ![k] = o]
<1>7. s = [client EXCEPT !.socks = S]
  OBVIOUS
<1> HIDE DEF o
<1>8. /\ S \in Seq(ClientSockets) /\ DOMAIN S = DOMAIN client.socks /\ Len(S) = Len(client.socks) /\ S[k] = o
      /\ \A j \in DOMAIN client.socks : j # k => S[j] = client.socks[j]
  BY <1>1, <1>6, OneSocket
<1> HIDE DEF S, s
<1>9. /\ OneChanged(client, s, k, o) /\ s.ask = E /\ s.timer = client.timer /\ s.checks = client.checks
      /\ s.queries = client.queries
  BY <1>1, <1>6, <1>7, <1>8 DEF Clients, OneChanged
<1>10. SocketsFit(s)
  <2>1. \A x \in s.queries : x \in DOMAIN s.socks /\ s.socks[x].state # "closed"
    BY <1>1, <1>6, <1>9 DEF SocketsFit, OneChanged
  <2>2. (o.lost => o.cut) /\ (o.cut => o.up = <<>> /\ o.down = <<>>)
    BY <1>1, <1>6 DEF SocketsFit
  <2>3. QED
    BY <1>1, <1>6, <1>9, <2>1, <2>2, OneSocketsFit
<1>11. RepliesFit(s, E, row)
  <2>1. \A i \in DOMAIN o.down : \E n \in DOMAIN client.socks[k].down : o.down[i] = client.socks[k].down[n]
    BY <1>2, <1>6 DEF rest
  <2>2. QED
    BY <1>1, <1>9, <2>1, FewerReplies
<1>12. Deliveries(s, E, row)
  BY <1>1, <1>6, <1>9, SameQueuesDeliver
<1>13. Shorter(client.socks[k].up, o.up, 0)
  BY <1>1, <1>6, QueueFacts, ShorterItself
<1>14. Fits(s, E, row) /\ s \in Clients
  BY <1>1, <1>9, <1>10, <1>11, <1>12, <1>13, OneFits DEF OneChanged
<1>15. ReconnectDue(s)
  BY <1>1, <1>6, <1>9, CurrentFacts DEF ReconnectDue, Current, OneChanged
<1>16. Receipts(s, E, {a})
  <2> SUFFICES ASSUME NEW b \in Asks \ {a}, E[b].receipt = "awaited", Current(s).state = "open", ~Current(s).cut
               PROVE  AnswerDue(s, b)
    BY DEF Receipts
  <2>1. /\ client.cur \in DOMAIN client.socks /\ Current(client) = client.socks[client.cur]
        /\ Current(s) = s.socks[client.cur]
    BY <1>1, <1>9, CurrentFacts DEF Current, OneChanged
  <2>2. AnswerDue(client, b)
    BY <1>1, <1>6, <1>9, <2>1 DEF Receipts, OneChanged
  <2>3. CASE k # client.cur
    BY <1>9, <2>1, <2>2, <2>3 DEF AnswerDue, OneChanged
  <2>4. CASE k = client.cur
    <3>1. Mentions(p, b) => Mentions(rest, b)
      <4> SUFFICES ASSUME NEW i \in DOMAIN p, p[i].ask = b PROVE \E n \in DOMAIN rest : rest[n].ask = b
        BY DEF Mentions
      <4>1. i # 1
        BY <1>2 DEF m
      <4>2. QED
        BY <1>2, <4>1 DEF rest
    <3>2. QED
      BY <1>6, <1>9, <2>1, <2>2, <2>4, <3>1 DEF AnswerDue, OneChanged
  <2>5. QED
    BY <2>3, <2>4
<1>17. Sound(s, s.ask, row, {a})
  BY <1>9, <1>14, <1>15, <1>16 DEF Sound
<1>18. CASE a \notin Waiting(s)
  <2>1. Only(s)
    BY <1>1, <1>3, <1>18
  <2>2. E[a].receipt # "awaited"
    BY <1>1, <1>3, <1>9, <1>18 DEF Waiting, EntriesFit
  <2>3. Receipts(s, E, {})
    BY <1>16, <2>2 DEF Receipts
  <2>4. QED
    BY <1>9, <1>17, <2>1, <2>3, OnlySound DEF Sound
<1> DEFINE no == {a} \ {a}
<1>19. no = {}
  OBVIOUS
<1>20. CASE a \in Waiting(s) /\ m.type = "error"
  <2>1. s.ask[a].state = "waiting" /\ Only(EndAsk(s, a, "error"))
    BY <1>1, <1>20 DEF Waiting
  <2>2. "error" \in AskStates \ {"new", "waiting", "answered here", "cancelled here"}
    BY DEF AskStates
  <2>3. Sound(EndAsk(s, a, "error"), EndAsk(s, a, "error").ask, row, no)
    BY <1>3, <1>17, <2>1, <2>2, EndAskSound
  <2>4. QED
    BY <1>19, <2>1, <2>3, OnlySound
<1>21. CASE a \in Waiting(s) /\ m.type # "error"
  <2>1. s.ask[a].state = "waiting" /\ s.ask[a].origin # None /\ row[s.ask[a].origin][a] # "none"
    BY <1>1, <1>4, <1>9, <1>21 DEF Waiting
  <2>2. Sound(acked, acked.ask, row, {}) /\ acked.ask[a].state = "waiting" /\ acked.ask[a].origin = s.ask[a].origin
    BY <1>3, <1>17, <2>1, AckedSound
  <2> HIDE DEF acked
  <2>3. CASE m.type = "created"
    <3>1. Only(acked)
      BY <1>1, <1>21, <2>3
    <3>2. QED
      BY <2>2, <3>1, OnlySound
  <2>4. CASE m.type = "resolved"
    <3> DEFINE outcome == m.outcome
               r == EndAsk(acked, a, outcome)
    <3>1. Only(r)
      BY <1>1, <1>21, <2>4
    <3>2. outcome \in AskStates \ {"new", "waiting", "answered here", "cancelled here"} /\ outcome \notin {"unavailable", "aborted"}
      BY <1>3, <2>4 DEF AskStates
    <3>3. acked.ask[a].origin # None /\ row[acked.ask[a].origin][a] = outcome
      BY <1>4, <1>9, <2>1, <2>2, <2>4
    <3> HIDE DEF outcome
    <3>4. Sound(r, r.ask, row, {} \ {a})
      BY <1>3, <2>2, <3>2, <3>3, EndAskSound
    <3>5. {} \ {a} = {}
      OBVIOUS
    <3> HIDE DEF r
    <3>6. QED
      BY <3>1, <3>4, <3>5, OnlySound
  <2>5. QED
    BY <1>3, <1>21, <2>3, <2>4
<1>22. QED
  BY <1>18, <1>20, <1>21

LEMMA CutSound == ASSUME ClientInv, NEW k \in DOMAIN client.socks, Cut(k) PROVE ClientInv'
<1> DEFINE E == client.ask
           row == ServerRows
           lost == client.socks[k].up # <<>>
           e == <<>>
           o == [client.socks[k] EXCEPT !.cut = TRUE, !.lost = lost, !.up = e, !.down = e]
           S == [client.socks EXCEPT ![k] = o]
           s == [client EXCEPT !.socks = S]
<1>1. /\ client \in Clients /\ SocketsFit(client) /\ Fits(client, E, row) /\ ReconnectDue(client) /\ Receipts(client, E, {})
      /\ RepliesFit(client, E, row) /\ RowsFit(E, row) /\ Deliveries(client, E, row) /\ row \in Rows
      /\ client.socks[k] \in ClientSockets /\ ~client.socks[k].cut
      /\ server \in ServerStates /\ foundTarget \in Targets \cup {None}
  BY QueueFacts DEF ClientInv, Sound, Fits, Cut
<1>2. client' = s /\ UNCHANGED <<server, foundTarget>>
  BY DEF Cut
<1>3. e \in Seq(UpMessages) /\ e \in Seq(DownMessages) /\ lost \in BOOLEAN /\ (lost <=> client.socks[k].up # e) /\ e = <<>>
  OBVIOUS
<1>4. \A i \in DOMAIN e : FALSE
  OBVIOUS
<1> HIDE DEF lost, e
<1>5. /\ o \in ClientSockets /\ o.state = client.socks[k].state /\ o.url = client.socks[k].url /\ o.up = e
      /\ o.down = e /\ o.cut = TRUE /\ o.lost = lost /\ o.suppress = client.socks[k].suppress
  BY <1>1, <1>3 DEF ClientSockets
<1> HIDE DEF o
<1>6. /\ S \in Seq(ClientSockets) /\ DOMAIN S = DOMAIN client.socks /\ Len(S) = Len(client.socks) /\ S[k] = o
      /\ \A j \in DOMAIN client.socks : j # k => S[j] = client.socks[j]
  BY <1>1, <1>5, OneSocket
<1> HIDE DEF S
<1>7. /\ OneChanged(client, s, k, o) /\ s.ask = E /\ s.timer = client.timer /\ s.checks = client.checks
      /\ s.queries = client.queries
  BY <1>1, <1>5, <1>6 DEF Clients, OneChanged
<1> HIDE DEF s
<1>8. SocketsFit(s)
  <2>1. \A x \in s.queries : x \in DOMAIN s.socks /\ s.socks[x].state # "closed"
    BY <1>1, <1>5, <1>7 DEF SocketsFit, OneChanged
  <2>2. (o.lost => o.cut) /\ (o.cut => o.up = <<>> /\ o.down = <<>>)
    BY <1>3, <1>5
  <2>3. QED
    BY <1>1, <1>5, <1>7, <2>1, <2>2, OneSocketsFit
<1>9. RepliesFit(s, E, row)
  BY <1>1, <1>4, <1>5, <1>7, FewerReplies
<1>10. Deliveries(s, E, row)
  <2>1. \A j \in DOMAIN client.socks :
          /\ s.socks[j].url = client.socks[j].url
          /\ client.socks[j].lost => s.socks[j].lost
          /\ \A i \in DOMAIN client.socks[j].up :
               s.socks[j].lost \/ (i \in DOMAIN s.socks[j].up /\ s.socks[j].up[i] = client.socks[j].up[i])
    <3> TAKE j \in DOMAIN client.socks
    <3>1. CASE j # k
      BY <1>7, <3>1 DEF OneChanged
    <3>2. CASE j = k
      <4>1. client.socks[k].lost => FALSE
        BY <1>1 DEF SocketsFit
      <4>2. ASSUME NEW i \in DOMAIN client.socks[k].up PROVE lost
        BY <1>3, <1>4
      <4>3. QED
        BY <1>5, <1>7, <3>2, <4>1, <4>2 DEF OneChanged
    <3>3. QED
      BY <3>1, <3>2
  <2>2. \A j \in DOMAIN client.socks : \A i \in DOMAIN s.socks[j].up :
          i \in DOMAIN client.socks[j].up /\ s.socks[j].up[i] = client.socks[j].up[i]
    BY <1>4, <1>5, <1>7 DEF OneChanged
  <2> SUFFICES ASSUME NEW a \in Asks, E[a].state \in LocallyEnded, ~client.stopped, a \notin client.givenUp
               PROVE  Delivered(s, E, row, a)
    BY <1>7 DEF Deliveries, OneChanged
  <2>3. Delivered(client, E, row, a)
    BY <1>1 DEF Deliveries
  <2>4. CASE client.local[a].kind # "none"
    BY <1>7, <2>4 DEF Delivered, OneChanged
  <2>5. CASE \E j \in DOMAIN client.socks :
               /\ client.socks[j].url = Home(E[a])
               /\ client.socks[j].lost \/ \E i \in DOMAIN client.socks[j].up : Resolution(client.socks[j].up[i], a)
    BY <1>7, <2>1, <2>5 DEF Delivered, OneChanged
  <2>6. CASE /\ \A t \in Targets : row[t][a] # "pending"
             /\ \A j \in DOMAIN client.socks : \A i \in DOMAIN client.socks[j].up : ~Creation(client.socks[j].up[i], a)
    BY <1>7, <2>2, <2>6 DEF Delivered, OneChanged
  <2>7. QED
    BY <2>3, <2>4, <2>5, <2>6 DEF Delivered
<1>11. Shorter(client.socks[k].up, o.up, 0)
  BY <1>4, <1>5 DEF Shorter
<1>12. Fits(s, E, row)
  BY <1>1, <1>7, <1>8, <1>9, <1>10, <1>11, OneFits
<1>13. Receipts(s, E, {})
  BY <1>1, <1>5, <1>7, CurrentFacts DEF Receipts, Current, OneChanged, AnswerDue
<1>14. ReconnectDue(s)
  BY <1>1, <1>5, <1>7, CurrentFacts DEF ReconnectDue, Current, OneChanged
<1>15. ServerRows' = ServerRows
  BY <1>2 DEF ServerRows
<1>16. Sound(client, client.ask, ServerRows, {})'
  BY <1>2, <1>7, <1>12, <1>13, <1>14, <1>15 DEF Sound
<1>17. QED
  BY <1>1, <1>2, <1>16 DEF ClientInv

-----------------------------------------------------------------------------
(* The servers.                                                              *)

\* A Question is not forgotten, and its outcome is for good.
Advance(row, after) ==
  \A t \in Targets, a \in Asks : /\ row[t][a] # "none" => after[t][a] # "none"
                                 /\ row[t][a] \in {"answered", "cancelled"} => after[t][a] = row[t][a]

LEMMA AdvancedReplies ==
  ASSUME NEW s \in Clients, NEW E, NEW row, RepliesFit(s, E, row), NEW after, Advance(row, after)
  PROVE  RepliesFit(s, E, after)
<1> SUFFICES ASSUME NEW j \in DOMAIN s.socks, NEW i \in DOMAIN s.socks[j].down, s.socks[j].down[i].type # "error"
             PROVE  LET m == s.socks[j].down[i]
                        t == s.socks[j].url IN
                      /\ E[m.ask].origin = t /\ after[t][m.ask] # "none"
                      /\ m.type = "resolved" => after[t][m.ask] = m.outcome
  BY DEF RepliesFit
<1> DEFINE m == s.socks[j].down[i]
           t == s.socks[j].url
<1>1. t \in Targets /\ m \in DownMessages /\ m.ask \in Asks
  BY QueueFacts
<1>2. /\ E[m.ask].origin = t /\ row[t][m.ask] # "none"
      /\ m.type = "resolved" => row[t][m.ask] = m.outcome
  BY DEF RepliesFit
<1>3. m.type = "resolved" => m.outcome \in {"answered", "cancelled"}
  BY <1>1 DEF DownMessages
<1>4. QED
  BY <1>1, <1>2, <1>3 DEF Advance

LEMMA ResolveSound ==
  ASSUME ClientInv, NEW t \in Targets, NEW a \in Asks, NEW outcome \in {"answered", "cancelled"}, Resolve(t, a, outcome)
  PROVE  ClientInv'
<1> DEFINE E == client.ask
           row == ServerRows
           after == [row EXCEPT ![t][a] = outcome]
<1>1. /\ client \in Clients /\ SocketsFit(client) /\ Fits(client, E, row) /\ ReconnectDue(client) /\ Receipts(client, E, {})
      /\ RepliesFit(client, E, row) /\ RowsFit(E, row) /\ Deliveries(client, E, row) /\ row \in Rows
      /\ server \in ServerStates /\ foundTarget \in Targets \cup {None}
      /\ EntriesFit(client, E) /\ UpFits(client, E) /\ CreatedFirst(client) /\ E \in AskTables
  BY DEF ClientInv, Sound, Fits
<1>2. /\ server[t].ask[a] = "pending" /\ server' = [server EXCEPT ![t].ask[a] = outcome]
      /\ UNCHANGED <<client, foundTarget>>
  BY DEF Resolve
<1>3. server' \in ServerStates /\ ServerRows' = after /\ row[t][a] = "pending"
  <2>1. row[t] = server[t].ask
    BY DEF ServerRows
  <2>2. server[t] \in [ask : [Asks -> {"none", "pending", "answered", "cancelled"}], holder : Nat]
    BY <1>1 DEF ServerStates
  <2> DEFINE x == [server[t].ask EXCEPT ![a] = outcome]
             y == [server[t] EXCEPT !.ask = x]
  <2>3. x \in [Asks -> {"none", "pending", "answered", "cancelled"}]
    BY <2>2
  <2>4. server' = [server EXCEPT ![t] = y]
    BY <1>2
  <2> HIDE DEF x
  <2>5. y \in [ask : [Asks -> {"none", "pending", "answered", "cancelled"}], holder : Nat] /\ y.ask = x
    BY <2>2, <2>3
  <2> HIDE DEF y
  <2>6. server' \in ServerStates /\ server'[t] = y /\ \A u \in Targets : u # t => server'[u] = server[u]
    BY <1>1, <2>4, <2>5 DEF ServerStates
  <2>7. ServerRows' = [u \in Targets |-> server'[u].ask]
    BY DEF ServerRows
  <2>8. after = [u \in Targets |-> IF u = t THEN x ELSE server[u].ask]
    BY DEF ServerRows, x
  <2>9. QED
    BY <1>2, <2>1, <2>5, <2>6, <2>7, <2>8
<1>4. /\ after \in Rows /\ after[t][a] = outcome
      /\ \A u \in Targets, b \in Asks : u # t \/ b # a => after[u][b] = row[u][b]
  BY <1>1 DEF Rows
<1> HIDE DEF after
<1>5. Advance(row, after) /\ \A u \in Targets, b \in Asks : /\ after[u][b] = "pending" => row[u][b] = "pending"
                                                            /\ after[u][b] # "none" => row[u][b] # "none"
  BY <1>3, <1>4 DEF Advance
<1>6. RepliesFit(client, E, after)
  BY <1>1, <1>5, AdvancedReplies
<1>7. RowsFit(E, after)
  <2> SUFFICES ASSUME NEW b \in Asks
               PROVE  /\ \A u \in Targets : after[u][b] # "none" => Belongs(E[b], u)
                      /\ E[b].receipt = "ok" => E[b].origin # None /\ after[E[b].origin][b] # "none"
                      /\ E[b].state \in {"answered", "cancelled"} => E[b].origin # None /\ after[E[b].origin][b] = E[b].state
    BY DEF RowsFit
  <2>1. E[b].origin \in Targets \cup {None}
    BY <1>1 DEF AskTables, Entries
  <2>2. QED
    BY <1>1, <1>5, <2>1 DEF RowsFit, Advance
<1>8. Deliveries(client, E, after)
  BY <1>1, <1>5 DEF Deliveries, Delivered
<1>9. Sound(client, E, after, {})
  BY <1>1, <1>4, <1>6, <1>7, <1>8 DEF Sound, Fits
<1>10. Sound(client, client.ask, ServerRows, {})'
  BY <1>2, <1>3, <1>9
<1>11. QED
  BY <1>1, <1>2, <1>3, <1>10 DEF ClientInv

LEMMA SelectSound == ASSUME ClientInv, NEW t \in Targets \cup {None}, Select(t) PROVE ClientInv'
<1>1. client' = client /\ server' = server /\ foundTarget' = t
  BY DEF Select
<1>2. ServerRows' = ServerRows
  BY <1>1 DEF ServerRows
<1>3. Sound(client, client.ask, ServerRows, {})'
  BY <1>1, <1>2 DEF ClientInv
<1>4. QED
  BY <1>1, <1>3 DEF ClientInv

\* What the server of socket k does with the first message it has from it: its
\* rows become after, and it replies q.
Takes(k, q, after) ==
  LET m == Head(client.socks[k].up)
      t == client.socks[k].url
      row == ServerRows
      E == client.ask
  IN /\ client.socks[k].up # <<>> /\ q \in Seq(DownMessages) /\ after \in Rows /\ Advance(row, after)
     /\ \A u \in Targets, b \in Asks :
          /\ after[u][b] # "none" => row[u][b] # "none" \/ (u = t /\ Creation(m, b))
          /\ after[u][b] = "pending" => row[u][b] = "pending" \/ Creation(m, b)
     /\ \A b \in Asks : Resolution(m, b) => after[t][b] # "pending"
     /\ \A j \in DOMAIN client.socks : j < k /\ client.socks[j].url = t => client.socks[j].up = <<>>
     /\ \A i \in DOMAIN q : q[i].type # "error" =>
          /\ E[q[i].ask].origin = t /\ after[t][q[i].ask] # "none"
          /\ q[i].type = "resolved" => after[t][q[i].ask] = q[i].outcome
     /\ \A b \in Asks : Creation(m, b) /\ ~m.flush => Mentions(q, b)

LEMMA TakenSound ==
  ASSUME ClientInv, NEW k \in DOMAIN client.socks, NEW q, NEW after, Takes(k, q, after),
         client' = Reply(k, q), foundTarget' = foundTarget, server' \in ServerStates, ServerRows' = after
  PROVE  ClientInv'
<1> DEFINE E == client.ask
           row == ServerRows
           p == client.socks[k].up
           m == Head(p)
           t == client.socks[k].url
           rest == Tail(p)
           more == client.socks[k].down \o q
           o == [client.socks[k] EXCEPT !.up = rest, !.down = more]
           S == [client.socks EXCEPT ![k] = o]
           s == [client EXCEPT !.socks = S]
<1>1. /\ client \in Clients /\ SocketsFit(client) /\ Fits(client, E, row) /\ ReconnectDue(client) /\ Receipts(client, E, {})
      /\ RepliesFit(client, E, row) /\ RowsFit(E, row) /\ Deliveries(client, E, row) /\ row \in Rows
      /\ client.socks[k] \in ClientSockets /\ server \in ServerStates /\ foundTarget \in Targets \cup {None}
      /\ UpFits(client, E) /\ CreatedFirst(client) /\ E \in AskTables
      /\ p \in Seq(UpMessages) /\ client.socks[k].down \in Seq(DownMessages) /\ t \in Targets
  BY QueueFacts DEF ClientInv, Sound, Fits
<1>2. /\ p # <<>> /\ q \in Seq(DownMessages) /\ after \in Rows /\ Advance(row, after)
      /\ \A u \in Targets, b \in Asks :
           /\ after[u][b] # "none" => row[u][b] # "none" \/ (u = t /\ Creation(m, b))
           /\ after[u][b] = "pending" => row[u][b] = "pending" \/ Creation(m, b)
      /\ \A b \in Asks : Resolution(m, b) => after[t][b] # "pending"
      /\ \A j \in DOMAIN client.socks : j < k /\ client.socks[j].url = t => client.socks[j].up = <<>>
      /\ \A i \in DOMAIN q : q[i].type # "error" =>
           /\ E[q[i].ask].origin = t /\ after[t][q[i].ask] # "none"
           /\ q[i].type = "resolved" => after[t][q[i].ask] = q[i].outcome
      /\ \A b \in Asks : Creation(m, b) /\ ~m.flush => Mentions(q, b)
  BY DEF Takes
<1>3. /\ rest \in Seq(UpMessages) /\ Shorter(p, rest, 1) /\ m = p[1] /\ 1 \in DOMAIN p /\ m \in UpMessages
      /\ \A i \in DOMAIN p : i # 1 => i - 1 \in DOMAIN rest /\ rest[i - 1] = p[i]
  BY <1>1, <1>2, TailFacts
<1>4. more \in Seq(DownMessages) /\ Extends(client.socks[k].down, more, q)
  BY <1>1, <1>2, Appended
<1> HIDE DEF rest, more, m
<1>5. /\ o \in ClientSockets /\ o.state = client.socks[k].state /\ o.url = t /\ o.up = rest /\ o.down = more
      /\ o.cut = client.socks[k].cut /\ o.lost = client.socks[k].lost /\ o.suppress = client.socks[k].suppress
  BY <1>1, <1>3, <1>4 DEF ClientSockets
<1>6. client' = s
  BY DEF Reply, rest, more
<1> HIDE DEF o
<1>7. /\ S \in Seq(ClientSockets) /\ DOMAIN S = DOMAIN client.socks /\ Len(S) = Len(client.socks) /\ S[k] = o
      /\ \A j \in DOMAIN client.socks : j # k => S[j] = client.socks[j]
  BY <1>1, <1>5, OneSocket
<1> HIDE DEF S
<1>8. /\ OneChanged(client, s, k, o) /\ s.ask = E /\ s.timer = client.timer /\ s.checks = client.checks
      /\ s.queries = client.queries
  BY <1>1, <1>5, <1>7 DEF Clients, OneChanged
<1> HIDE DEF s
<1>9. SocketsFit(s)
  <2>1. \A x \in s.queries : x \in DOMAIN s.socks /\ s.socks[x].state # "closed"
    BY <1>1, <1>5, <1>8 DEF SocketsFit, OneChanged
  <2>2. (o.lost => o.cut) /\ (o.cut => o.up = <<>> /\ o.down = <<>>)
    BY <1>1, <1>2, <1>5 DEF SocketsFit
  <2>3. QED
    BY <1>1, <1>5, <1>8, <2>1, <2>2, OneSocketsFit
<1>10. RepliesFit(s, E, after)
  <2>1. RepliesFit(client, E, after)
    BY <1>1, <1>2, AdvancedReplies
  <2>2. \A j \in DOMAIN client.socks : \A i \in DOMAIN s.socks[j].down :
          \/ i \in DOMAIN client.socks[j].down /\ s.socks[j].down[i] = client.socks[j].down[i]
          \/ j = k /\ \E n \in DOMAIN q : s.socks[j].down[i] = q[n]
    <3> TAKE j \in DOMAIN client.socks
    <3>1. CASE j # k
      BY <1>8, <3>1 DEF OneChanged
    <3>2. CASE j = k
      BY <1>4, <1>5, <1>8, <3>2 DEF OneChanged, Extends
    <3>3. QED
      BY <3>1, <3>2
  <2> SUFFICES ASSUME NEW j \in DOMAIN client.socks, NEW i \in DOMAIN s.socks[j].down, s.socks[j].down[i].type # "error"
               PROVE  LET x == s.socks[j].down[i] IN
                      /\ E[x.ask].origin = client.socks[j].url /\ after[client.socks[j].url][x.ask] # "none"
                      /\ x.type = "resolved" => after[client.socks[j].url][x.ask] = x.outcome
    BY <1>8 DEF RepliesFit, OneChanged
  <2>3. CASE i \in DOMAIN client.socks[j].down /\ s.socks[j].down[i] = client.socks[j].down[i]
    BY <2>1, <2>3 DEF RepliesFit
  <2>4. CASE j = k /\ \E n \in DOMAIN q : s.socks[j].down[i] = q[n]
    BY <1>2, <2>4
  <2>5. QED
    BY <2>2, <2>3, <2>4
<1>11. \A b \in Asks : /\ Creation(m, b) \/ Resolution(m, b) => Belongs(E[b], t)
                       /\ Resolution(m, b) => ~Creation(m, b)
  <2>1. \A b \in Asks : Creation(p[1], b) \/ Resolution(p[1], b) => Belongs(E[b], t)
    BY <1>1, <1>3 DEF UpFits
  <2>2. QED
    BY <1>3, <2>1 DEF Creation, Resolution
<1>12. RowsFit(E, after)
  <2> SUFFICES ASSUME NEW b \in Asks
               PROVE  /\ \A u \in Targets : after[u][b] # "none" => Belongs(E[b], u)
                      /\ E[b].receipt = "ok" => E[b].origin # None /\ after[E[b].origin][b] # "none"
                      /\ E[b].state \in {"answered", "cancelled"} => E[b].origin # None /\ after[E[b].origin][b] = E[b].state
    BY DEF RowsFit
  <2>1. E[b].origin \in Targets \cup {None}
    BY <1>1 DEF AskTables, Entries
  <2>2. \A u \in Targets : after[u][b] # "none" => Belongs(E[b], u)
    BY <1>1, <1>2, <1>11 DEF RowsFit
  <2>3. QED
    BY <1>1, <1>2, <2>1, <2>2 DEF RowsFit, Advance
<1>13. \A j \in DOMAIN client.socks : \A i \in DOMAIN s.socks[j].up :
         \/ j # k /\ i \in DOMAIN client.socks[j].up /\ s.socks[j].up[i] = client.socks[j].up[i]
         \/ j = k /\ i + 1 \in DOMAIN p /\ s.socks[j].up[i] = p[i + 1]
  BY <1>3, <1>5, <1>8 DEF OneChanged, Shorter
<1>14. \A j \in DOMAIN client.socks : /\ s.socks[j].url = client.socks[j].url
                                      /\ client.socks[j].lost => s.socks[j].lost
  BY <1>5, <1>8 DEF OneChanged
<1>15. \A j \in DOMAIN client.socks : \A i \in DOMAIN client.socks[j].up :
         j # k \/ i # 1 => \E n \in DOMAIN s.socks[j].up : s.socks[j].up[n] = client.socks[j].up[i]
  <2> TAKE j \in DOMAIN client.socks
  <2>1. CASE j # k
    BY <1>8, <2>1 DEF OneChanged
  <2>2. CASE j = k
    BY <1>3, <1>5, <1>8, <2>2 DEF OneChanged
  <2>3. QED
    BY <2>1, <2>2
<1>16. Deliveries(s, E, after)
  <2> SUFFICES ASSUME NEW b \in Asks, E[b].state \in LocallyEnded, ~client.stopped, b \notin client.givenUp
               PROVE  Delivered(s, E, after, b)
    BY <1>8 DEF Deliveries, OneChanged
  <2>1. Delivered(client, E, row, b)
    BY <1>1 DEF Deliveries
  <2>2. CASE client.local[b].kind # "none"
    BY <1>8, <2>2 DEF Delivered, OneChanged
  <2>3. CASE Resolution(m, b)
    <3>1. \A u \in Targets : after[u][b] # "pending"
      <4> SUFFICES ASSUME NEW u \in Targets, after[u][b] = "pending" PROVE FALSE
        OBVIOUS
      <4>1. row[u][b] = "pending" /\ Belongs(E[b], t)
        BY <1>2, <1>11, <2>3
      <4>2. u = t
        BY <1>1, <4>1 DEF RowsFit, Belongs
      <4>3. QED
        BY <1>2, <2>3, <4>2
    <3>2. ASSUME NEW j \in DOMAIN client.socks, NEW i \in DOMAIN client.socks[j].up,
                 Creation(client.socks[j].up[i], b), j # k \/ i # 1
          PROVE  FALSE
      <4>1. Resolution(client.socks[k].up[1], b) /\ 1 \in DOMAIN client.socks[k].up
        BY <1>3, <2>3
      <4>2. j < k \/ (j = k /\ i < 1)
        BY <1>1, <3>2, <4>1 DEF CreatedFirst
      <4>3. ~(i < 1)
        <5>1. client.socks[j].up \in Seq(UpMessages)
          BY <1>1, QueueFacts
        <5>2. QED
          BY <5>1
      <4>4. client.socks[j].url = t
        BY <1>1, <1>11, <2>3, <3>2 DEF UpFits, Belongs
      <4>5. client.socks[j].up = <<>>
        BY <1>2, <4>2, <4>3, <4>4
      <4>6. QED
        BY <4>5
    <3>3. \A j \in DOMAIN s.socks : \A i \in DOMAIN s.socks[j].up : ~Creation(s.socks[j].up[i], b)
      <4> SUFFICES ASSUME NEW j \in DOMAIN client.socks, NEW i \in DOMAIN s.socks[j].up, Creation(s.socks[j].up[i], b)
                   PROVE FALSE
        BY <1>8 DEF OneChanged
      <4>1. CASE j # k
        BY <1>13, <3>2, <4>1
      <4>2. CASE j = k
        <5>1. i + 1 \in DOMAIN p /\ Creation(p[i + 1], b)
          BY <1>13, <4>2
        <5>2. i + 1 # 1
          BY <1>1, <1>3, <1>5, <1>8, <4>2 DEF OneChanged
        <5>3. QED
          BY <3>2, <4>2, <5>1, <5>2
      <4>3. QED
        BY <4>1, <4>2
    <3>4. QED
      BY <3>1, <3>3 DEF Delivered
  <2>4. CASE /\ ~Resolution(m, b)
             /\ \E j \in DOMAIN client.socks :
                  /\ client.socks[j].url = Home(E[b])
                  /\ client.socks[j].lost \/ \E i \in DOMAIN client.socks[j].up : Resolution(client.socks[j].up[i], b)
    <3>1. PICK j \in DOMAIN client.socks :
            /\ client.socks[j].url = Home(E[b])
            /\ client.socks[j].lost \/ \E i \in DOMAIN client.socks[j].up : Resolution(client.socks[j].up[i], b)
      BY <2>4
    <3>2. CASE client.socks[j].lost
      BY <1>8, <1>14, <3>1, <3>2 DEF Delivered, OneChanged
    <3>3. ASSUME NEW i \in DOMAIN client.socks[j].up, Resolution(client.socks[j].up[i], b)
          PROVE  \E n \in DOMAIN s.socks[j].up : Resolution(s.socks[j].up[n], b)
      <4>1. j # k \/ i # 1
        BY <1>3, <2>4, <3>3
      <4>2. QED
        BY <1>15, <3>3, <4>1
    <3>4. QED
      BY <1>8, <1>14, <3>1, <3>2, <3>3 DEF Delivered, OneChanged
  <2>5. CASE /\ \A u \in Targets : row[u][b] # "pending"
             /\ \A j \in DOMAIN client.socks : \A i \in DOMAIN client.socks[j].up : ~Creation(client.socks[j].up[i], b)
    <3>1. ~Creation(m, b)
      BY <1>3, <2>5
    <3>2. \A u \in Targets : after[u][b] # "pending"
      BY <1>2, <2>5, <3>1
    <3>3. \A j \in DOMAIN s.socks : \A i \in DOMAIN s.socks[j].up : ~Creation(s.socks[j].up[i], b)
      BY <1>8, <1>13, <2>5 DEF OneChanged
    <3>4. QED
      BY <3>2, <3>3 DEF Delivered
  <2>6. QED
    BY <2>1, <2>2, <2>3, <2>4, <2>5 DEF Delivered
<1>17. Fits(s, E, after)
  BY <1>1, <1>2, <1>3, <1>5, <1>8, <1>9, <1>10, <1>12, <1>16, OneFits
<1>18. Receipts(s, E, {})
  <2> SUFFICES ASSUME NEW b \in Asks, E[b].receipt = "awaited", Current(s).state = "open", ~Current(s).cut
               PROVE  AnswerDue(s, b)
    BY DEF Receipts
  <2>1. /\ client.cur \in DOMAIN client.socks /\ Current(client) = client.socks[client.cur]
        /\ Current(s) = s.socks[client.cur]
    BY <1>1, <1>8, CurrentFacts DEF Current, OneChanged
  <2>2. AnswerDue(client, b)
    BY <1>1, <1>5, <1>8, <2>1 DEF Receipts, OneChanged
  <2>3. CASE k # client.cur
    BY <1>8, <2>1, <2>2, <2>3 DEF AnswerDue, OneChanged
  <2>4. CASE k = client.cur
    <3>1. Current(s).up = rest /\ Current(s).down = more
      BY <1>5, <1>8, <2>1, <2>4 DEF OneChanged
    <3>2. Mentions(client.socks[k].down, b) => Mentions(more, b)
      BY <1>4 DEF Mentions, Extends
    <3>3. Mentions(q, b) => Mentions(more, b)
      BY <1>4 DEF Mentions, Extends
    <3>4. ASSUME NEW i \in DOMAIN p, Creation(p[i], b) /\ ~p[i].flush PROVE AnswerDue(s, b)
      <4>1. CASE i = 1
        BY <1>2, <1>3, <3>1, <3>3, <3>4, <4>1 DEF AnswerDue
      <4>2. CASE i # 1
        BY <1>3, <3>1, <3>4, <4>2 DEF AnswerDue
      <4>3. QED
        BY <4>1, <4>2
    <3>5. QED
      BY <2>1, <2>2, <2>4, <3>1, <3>2, <3>4 DEF AnswerDue
  <2>5. QED
    BY <2>3, <2>4
<1>19. ReconnectDue(s)
  BY <1>1, <1>5, <1>8, CurrentFacts DEF ReconnectDue, Current, OneChanged
<1>20. Sound(client, client.ask, ServerRows, {})'
  BY <1>6, <1>8, <1>17, <1>18, <1>19 DEF Sound
<1>21. QED
  BY <1>1, <1>20 DEF ClientInv

LEMMA UpdatedRow ==
  ASSUME server \in ServerStates, NEW t \in Targets, NEW a \in Asks,
         NEW value \in {"none", "pending", "answered", "cancelled"}, server' = [server EXCEPT ![t].ask[a] = value]
  PROVE  /\ server' \in ServerStates /\ ServerRows' \in Rows /\ ServerRows'[t][a] = value
         /\ \A u \in Targets, b \in Asks : u # t \/ b # a => ServerRows'[u][b] = ServerRows[u][b]
<1>2. server[t] \in [ask : [Asks -> {"none", "pending", "answered", "cancelled"}], holder : Nat]
  BY DEF ServerStates
<1> DEFINE x == [server[t].ask EXCEPT ![a] = value]
           y == [server[t] EXCEPT !.ask = x]
<1>3. x \in [Asks -> {"none", "pending", "answered", "cancelled"}] /\ x[a] = value /\ \A b \in Asks : b # a => x[b] = server[t].ask[b]
  BY <1>2
<1>4. server' = [server EXCEPT ![t] = y]
  OBVIOUS
<1> HIDE DEF x
<1>5. y \in [ask : [Asks -> {"none", "pending", "answered", "cancelled"}], holder : Nat] /\ y.ask = x
  BY <1>2, <1>3
<1> HIDE DEF y
<1>6. server' \in ServerStates /\ server'[t] = y /\ \A u \in Targets : u # t => server'[u] = server[u]
  BY <1>4, <1>5 DEF ServerStates
<1>7. ServerRows' = [u \in Targets |-> server'[u].ask] /\ ServerRows = [u \in Targets |-> server[u].ask]
  BY DEF ServerRows
<1>8. \A u \in Targets : server'[u].ask \in [Asks -> {"none", "pending", "answered", "cancelled"}]
  BY <1>6 DEF ServerStates
<1>9. ServerRows' \in Rows
  BY <1>7, <1>8 DEF Rows
<1>10. QED
  BY <1>3, <1>5, <1>6, <1>7, <1>9

\* What the server takes of an ask's creation: a Question, unless it has it.
LEMMA ServerTakesSound == ASSUME ClientInv, NEW k \in DOMAIN client.socks, ServerTakes(k) PROVE ClientInv'
<1> DEFINE E == client.ask
           row == ServerRows
           p == client.socks[k].up
           m == Head(p)
           t == client.socks[k].url
<1>1. /\ client \in Clients /\ SocketsFit(client) /\ RowsFit(E, row) /\ row \in Rows
      /\ client.socks[k] \in ClientSockets /\ server \in ServerStates /\ UpFits(client, E) /\ E \in AskTables
      /\ p \in Seq(UpMessages) /\ t \in Targets
  BY QueueFacts DEF ClientInv, Sound, Fits
<1>2. p # <<>> /\ foundTarget' = foundTarget
  BY DEF ServerTakes
<1>3. m = p[1] /\ 1 \in DOMAIN p /\ m \in UpMessages
  BY <1>1, <1>2, TailFacts
<1>4. \A j \in DOMAIN client.socks : j < k /\ client.socks[j].url = t => client.socks[j].up = <<>>
  <2>1. \A j \in 1..(k - 1) : client.socks[j].url = t => client.socks[j].up = <<>>
    BY DEF ServerTakes
  <2>2. client.socks \in Seq(ClientSockets)
    BY <1>1 DEF Clients
  <2>3. QED
    BY <2>1, <2>2
<1>5. row[t] = server[t].ask /\ server[t] \in [ask : [Asks -> {"none", "pending", "answered", "cancelled"}], holder : Nat]
  BY <1>1 DEF ServerRows, ServerStates
<1>6. CASE m.type = "register"
  <2>1. server' = [server EXCEPT ![t].holder = k] /\ client' = Reply(k, <<>>)
    BY <1>6 DEF ServerTakes
  <2>2. k \in Nat
    BY <1>1 DEF Clients
  <2>3. server' \in ServerStates /\ ServerRows' = row
    <3> DEFINE y == [server[t] EXCEPT !.holder = k]
    <3>1. y \in [ask : [Asks -> {"none", "pending", "answered", "cancelled"}], holder : Nat] /\ y.ask = server[t].ask
      BY <1>5, <2>2
    <3>2. server' = [server EXCEPT ![t] = y]
      BY <2>1
    <3> HIDE DEF y
    <3>3. server' \in ServerStates /\ \A u \in Targets : server'[u].ask = server[u].ask
      BY <1>1, <3>1, <3>2 DEF ServerStates
    <3>4. QED
      BY <3>3 DEF ServerRows
  <2>4. \A b \in Asks : ~Creation(m, b) /\ ~Resolution(m, b)
    BY <1>6 DEF Creation, Resolution
  <2>5. Takes(k, <<>>, row)
    BY <1>1, <1>2, <1>4, <2>4 DEF Takes, Advance
  <2>6. QED
    BY <1>2, <2>1, <2>3, <2>5, TakenSound
<1>7. ASSUME m.type = "create", server[t].holder # k PROVE ClientInv'
  <2> DEFINE q == IF m.flush THEN <<>> ELSE <<[type |-> "error", ask |-> m.ask]>>
  <2>1. UNCHANGED server /\ client' = Reply(k, q)
    BY <1>7 DEF ServerTakes
  <2>2. ServerRows' = row
    BY <2>1 DEF ServerRows
  <2>3. m.ask \in Asks /\ m.flush \in BOOLEAN
    BY <1>3, <1>7 DEF UpMessages
  <2>4. \A b \in Asks : ~Resolution(m, b) /\ (Creation(m, b) => b = m.ask)
    BY <1>7 DEF Creation, Resolution
  <2>5. q \in Seq(DownMessages) /\ (\A i \in DOMAIN q : q[i].type = "error") /\ (~m.flush => Mentions(q, m.ask))
    <3>1. [type |-> "error", ask |-> m.ask] \in DownMessages
      BY <2>3 DEF DownMessages
    <3>2. QED
      BY <2>3, <3>1 DEF Mentions
  <2> HIDE DEF q
  <2>6. Takes(k, q, row)
    BY <1>1, <1>2, <1>4, <2>4, <2>5 DEF Takes, Advance
  <2>7. QED
    BY <1>1, <1>2, <2>1, <2>2, <2>6, TakenSound
<1>8. ASSUME m.type = "create", server[t].holder = k PROVE ClientInv'
  <2> DEFINE now == IF row[t][m.ask] = "none" THEN "pending" ELSE row[t][m.ask]
             created == [type |-> "created", ask |-> m.ask]
             resolved == [type |-> "resolved", ask |-> m.ask, outcome |-> now]
             q == IF m.flush THEN <<>> ELSE IF now = "pending" THEN <<created>> ELSE <<created, resolved>>
  <2>1. server' = [server EXCEPT ![t].ask[m.ask] = now] /\ client' = Reply(k, q)
    BY <1>5, <1>8 DEF ServerTakes
  <2>2. m.ask \in Asks /\ m.flush \in BOOLEAN
    BY <1>3, <1>8 DEF UpMessages
  <2>3. now \in {"pending", "answered", "cancelled"}
    BY <1>1, <2>2 DEF Rows
  <2>4. /\ server' \in ServerStates /\ ServerRows' \in Rows /\ ServerRows'[t][m.ask] = now
        /\ \A u \in Targets, b \in Asks : u # t \/ b # m.ask => ServerRows'[u][b] = ServerRows[u][b]
    <3> HIDE DEF now
    <3>1. now \in {"none", "pending", "answered", "cancelled"}
      BY <2>3
    <3>2. QED
      BY <1>1, <2>1, <2>2, <3>1, UpdatedRow
  <2>5. Creation(m, m.ask) /\ \A b \in Asks : ~Resolution(m, b) /\ (Creation(m, b) => b = m.ask)
    BY <1>8 DEF Creation, Resolution
  <2>6. Belongs(E[m.ask], t) /\ (~m.flush => E[m.ask].origin # None)
    BY <1>1, <1>3, <2>2, <2>5 DEF UpFits
  <2>7. ~m.flush => E[m.ask].origin = t
    BY <2>6 DEF Belongs, Home
  <2>8. /\ q \in Seq(DownMessages)
        /\ \A i \in DOMAIN q : ~m.flush /\ (q[i] = created \/ (q[i] = resolved /\ now # "pending"))
        /\ ~m.flush => Mentions(q, m.ask)
    <3>1. created \in DownMessages /\ (now # "pending" => resolved \in DownMessages)
      BY <2>2, <2>3 DEF DownMessages
    <3>2. created.ask = m.ask
      OBVIOUS
    <3> HIDE DEF created, resolved, now
    <3>3. CASE m.flush
      BY <3>3
    <3>4. CASE ~m.flush /\ now = "pending"
      BY <3>1, <3>2, <3>4 DEF Mentions
    <3>5. CASE ~m.flush /\ now # "pending"
      BY <3>1, <3>2, <3>5 DEF Mentions
    <3>6. QED
      BY <2>2, <3>3, <3>4, <3>5
  <2>9. created.type = "created" /\ created.ask = m.ask /\ resolved.ask = m.ask /\ resolved.outcome = now /\ resolved.type = "resolved"
    OBVIOUS
  <2>10. row[t][m.ask] = "none" \/ now = row[t][m.ask]
    OBVIOUS
  <2> DEFINE after == ServerRows'
  <2>11. after = ServerRows'
    OBVIOUS
  <2>12. now = "pending" => row[t][m.ask] \in {"none", "pending"}
    OBVIOUS
  <2> HIDE DEF q, created, resolved, now, after
  <2>13. Advance(row, after)
    BY <2>2, <2>3, <2>4, <2>10, <2>11 DEF Advance
  <2>14. \A i \in DOMAIN q : q[i].type # "error" =>
           /\ E[q[i].ask].origin = t /\ after[t][q[i].ask] # "none"
           /\ q[i].type = "resolved" => after[t][q[i].ask] = q[i].outcome
    BY <2>3, <2>4, <2>7, <2>8, <2>9, <2>11
  <2>15. \A u \in Targets, b \in Asks :
           /\ after[u][b] # "none" => row[u][b] # "none" \/ (u = t /\ Creation(m, b))
           /\ after[u][b] = "pending" => row[u][b] = "pending" \/ Creation(m, b)
    BY <2>4, <2>5, <2>11
  <2>16. Takes(k, q, after)
    BY <1>2, <1>4, <2>4, <2>5, <2>8, <2>11, <2>13, <2>14, <2>15 DEF Takes
  <2>17. QED
    BY <1>2, <2>1, <2>4, <2>11, <2>16, TakenSound
<1>9. ASSUME m.type \in {"answer", "cancel"} PROVE ClientInv'
  <2> DEFINE value == IF row[t][m.ask] # "pending" THEN row[t][m.ask] ELSE IF m.type = "answer" THEN "answered" ELSE "cancelled"
             after == ServerRows'
  <2>1. server' = [server EXCEPT ![t].ask[m.ask] = value] /\ client' = Reply(k, <<>>)
    <3>1. /\ server' = [server EXCEPT ![t].ask[m.ask] =
                          IF @ # "pending" THEN @ ELSE IF m.type = "answer" THEN "answered" ELSE "cancelled"]
          /\ client' = Reply(k, <<>>)
      BY <1>9 DEF ServerTakes
    <3>2. QED
      BY <1>5, <3>1
  <2>2. m.ask \in Asks
    BY <1>3, <1>9 DEF UpMessages
  <2>3. value \in {"none", "answered", "cancelled"} /\ (row[t][m.ask] \in {"none", "answered", "cancelled"} => value = row[t][m.ask])
        /\ (value = "none" => row[t][m.ask] = "none")
    BY <1>1, <2>2 DEF Rows
  <2>4. /\ server' \in ServerStates /\ ServerRows' \in Rows /\ ServerRows'[t][m.ask] = value
        /\ \A u \in Targets, b \in Asks : u # t \/ b # m.ask => ServerRows'[u][b] = ServerRows[u][b]
    <3> HIDE DEF value
    <3>1. value \in {"none", "pending", "answered", "cancelled"}
      BY <2>3
    <3>2. QED
      BY <1>1, <2>1, <2>2, <3>1, UpdatedRow
  <2>5. \A b \in Asks : ~Creation(m, b) /\ (Resolution(m, b) => b = m.ask)
    BY <1>9 DEF Creation, Resolution
  <2>6. after = ServerRows'
    OBVIOUS
  <2>7. row[t][m.ask] = "none" => value = "none"
    OBVIOUS
  <2> HIDE DEF value, after
  <2>8. Advance(row, after)
    BY <2>2, <2>3, <2>4, <2>6 DEF Advance
  <2>9. \A u \in Targets, b \in Asks : /\ after[u][b] # "none" => row[u][b] # "none"
                                       /\ after[u][b] = "pending" => row[u][b] = "pending"
    BY <2>2, <2>3, <2>4, <2>6, <2>7
  <2>10. \A b \in Asks : Resolution(m, b) => after[t][b] # "pending"
    BY <2>3, <2>4, <2>5, <2>6
  <2>11. Takes(k, <<>>, after)
    BY <1>2, <1>4, <2>4, <2>5, <2>6, <2>8, <2>9, <2>10 DEF Takes
  <2>12. QED
    BY <1>2, <2>1, <2>4, <2>6, <2>11, TakenSound
<1>10. QED
  BY <1>3, <1>6, <1>7, <1>8, <1>9 DEF UpMessages

LEMMA ClientStarts == Init => ClientInv
<1> SUFFICES ASSUME Init PROVE ClientInv
  OBVIOUS
<1> DEFINE k == NewSocket(foundTarget)
           E == [a \in Asks |-> NewAsk]
           L == [a \in Asks |-> NoLocal]
<1>1. /\ foundTarget \in Targets
      /\ client = [url |-> foundTarget, socks |-> <<k>>, cur |-> 1, heartbeat |-> FALSE, timer |-> FALSE,
                   deferred |-> None, stopped |-> FALSE, ask |-> E, local |-> L, givenUp |-> {}, queries |-> {}, checks |-> {}]
      /\ server = [t \in Targets |-> [ask |-> [a \in Asks |-> "none"], holder |-> 0]]
  BY DEF Init
<1>2. /\ k \in ClientSockets /\ k.up = <<>> /\ k.down = <<>> /\ k.url = foundTarget /\ k.state = "connecting"
      /\ k.lost = FALSE /\ k.cut = FALSE /\ k.suppress = FALSE
  BY <1>1 DEF NewSocket, ClientSockets
<1> HIDE DEF k
<1>3. <<k>> \in Seq(ClientSockets) /\ DOMAIN <<k>> = {1} /\ Len(<<k>>) = 1 /\ <<k>>[1] = k
  BY <1>2
<1>4. NewAsk \in Entries /\ NoLocal \in Locals
  BY DEF NewAsk, NoLocal, Entries, Locals, AskStates
<1>5. E \in AskTables /\ L \in [Asks -> Locals] /\ (\A a \in Asks : E[a] = NewAsk) /\ \A a \in Asks : L[a].kind = "none"
  BY <1>4 DEF AskTables, NoLocal
<1> HIDE DEF E, L
<1>6. /\ client \in Clients /\ client.ask = E /\ client.local = L /\ client.socks = <<k>> /\ client.cur = 1
      /\ client.url = foundTarget /\ client.queries = {} /\ client.stopped = FALSE /\ Current(client) = k
  BY <1>1, <1>3, <1>5 DEF Clients, Current
<1>7. /\ server \in ServerStates /\ ServerRows \in Rows /\ \A t \in Targets, a \in Asks : ServerRows[t][a] = "none"
  BY <1>1 DEF ServerStates, ServerRows, Rows
<1>8. SocketsFit(client) /\ ReconnectDue(client) /\ Receipts(client, E, {})
  BY <1>2, <1>3, <1>6 DEF SocketsFit, ReconnectDue, Receipts
<1>9. EntriesFit(client, E) /\ RowsFit(E, ServerRows) /\ Deliveries(client, E, ServerRows)
  <2>1. /\ NewAsk.state = "new" /\ NewAsk.sent = FALSE /\ NewAsk.origin = None /\ NewAsk.unavailable = FALSE
        /\ NewAsk.affinity = FALSE /\ NewAsk.receipt = "none"
    BY DEF NewAsk
  <2>2. EntriesFit(client, E)
    BY <1>5, <1>6, <2>1 DEF EntriesFit
  <2>3. RowsFit(E, ServerRows)
    BY <1>5, <1>7, <2>1 DEF RowsFit
  <2>4. Deliveries(client, E, ServerRows)
    BY <1>5, <2>1 DEF Deliveries, LocallyEnded
  <2>5. QED
    BY <2>2, <2>3, <2>4
<1>10. UpFits(client, E) /\ CreatedFirst(client) /\ RepliesFit(client, E, ServerRows)
  BY <1>2, <1>3, <1>6 DEF UpFits, CreatedFirst, RepliesFit
<1>11. QED
  BY <1>1, <1>5, <1>6, <1>7, <1>8, <1>9, <1>10 DEF ClientInv, Sound, Fits

LEMMA ClientSteps == ClientInv /\ [Next]_vars => ClientInv'
<1> SUFFICES ASSUME ClientInv, [Next]_vars PROVE ClientInv'
  OBVIOUS
<1>1. CASE UNCHANGED vars
  BY <1>1 DEF vars, ClientInv, ServerRows
<1>2. ASSUME NEW a \in Asks, Calls(a) \/ AskTimers(a) \/ ExpiryTimer(a) PROVE ClientInv'
  BY <1>2, AskPostboxSound, AbortSound, ResolveLocallySound, UnavailableTimerSound, TargetAffinityTimerSound,
     LocalAffinityTimerSound, ExpiryTimerSound DEF Calls, AskTimers
<1>3. ASSUME NEW k \in DOMAIN client.socks, Socket(k) \/ ServerTakes(k) \/ Cut(k) PROVE ClientInv'
  BY <1>3, OnOpenSound, OnCloseSound, OnMessageSound, QueryResultSound, ServerTakesSound, CutSound DEF Socket
<1>4. CASE Switching \/ Query \/ StopClient
  BY <1>4, ReconnectFiresSound, PollFiresSound, TargetResolvedSound, QuerySound, StopClientSound DEF Switching
<1>5. ASSUME NEW t \in Targets, NEW a \in Asks, NEW outcome \in {"answered", "cancelled"}, Resolve(t, a, outcome)
      PROVE  ClientInv'
  BY <1>5, ResolveSound
<1>6. ASSUME NEW t \in Targets \cup {None}, Select(t) PROVE ClientInv'
  BY <1>6, SelectSound
<1>7. QED
  BY <1>1, <1>2, <1>3, <1>4, <1>5, <1>6 DEF Next

\* In every behaviour of the client, however its sockets are cut, closed and
\* replaced and its target changes: the current socket is the last one and a
\* closed one is about to be replaced, an ask is sent to its own server alone,
\* creations travel before resolutions, and an awaited receipt is on its way.
THEOREM ClientInvariant == Spec => []ClientInv
BY ClientStarts, ClientSteps, PTL DEF Spec

LEMMA ReportsAgree == ClientInv => ReportsMatchServer
<1> SUFFICES ASSUME ClientInv, NEW a \in Asks
             PROVE  LET ask == client.ask[a] IN
                    /\ Cardinality({t \in Targets : server[t].ask[a] # "none"}) <= 1
                    /\ ask.receipt = "ok" => server[ask.origin].ask[a] # "none"
                    /\ ask.state \in {"answered", "cancelled"} => server[ask.origin].ask[a] = ask.state
                    /\ ask.state = "unavailable" => \A t \in Targets : server[t].ask[a] = "none"
  BY DEF ReportsMatchServer
<1> DEFINE e == client.ask[a]
           homes == {t \in Targets : server[t].ask[a] # "none"}
<1>1. RowsFit(client.ask, ServerRows) /\ EntriesFit(client, client.ask) /\ e \in Entries
  BY DEF ClientInv, Sound, Fits, AskTables
<1>2. \A t \in Targets : ServerRows[t][a] = server[t].ask[a]
  BY DEF ServerRows
<1>3. \A t \in Targets : server[t].ask[a] # "none" => Belongs(e, t)
  BY <1>1, <1>2 DEF RowsFit
<1>4. Cardinality(homes) <= 1
  <2>1. homes \subseteq {Home(e)}
    BY <1>3 DEF Belongs
  <2>2. IsFiniteSet({Home(e)}) /\ Cardinality({Home(e)}) = 1
    BY FS_Singleton
  <2>3. Cardinality(homes) \in Nat /\ Cardinality(homes) <= Cardinality({Home(e)})
    BY <2>1, <2>2, FS_Subset, FS_CardinalityType
  <2>4. QED
    BY <2>2, <2>3
<1>5. e.origin # None => e.origin \in Targets
  BY <1>1 DEF Entries
<1>6. e.state = "unavailable" => \A t \in Targets : ~Belongs(e, t)
  BY <1>1 DEF EntriesFit, Belongs, Touched
<1>7. QED
  BY <1>1, <1>2, <1>3, <1>4, <1>5, <1>6 DEF RowsFit

LEMMA OutcomesArrive == ClientInv => LocalOutcomeReachesOrigin
<1> SUFFICES ASSUME ClientInv, NEW a \in Asks, NEW t \in Targets,
                    client.ask[a].state \in LocallyEnded, server[t].ask[a] = "pending",
                    a \notin client.givenUp, ~client.stopped
             PROVE  \/ client.local[a].kind # "none"
                    \/ \E k \in DOMAIN client.socks :
                         client.socks[k].url = t /\ (client.socks[k].lost \/ client.socks[k].up # <<>>)
  BY DEF LocalOutcomeReachesOrigin, LocallyEnded
<1>1. ServerRows[t][a] = "pending"
  BY DEF ServerRows
<1>2. Delivered(client, client.ask, ServerRows, a) /\ Belongs(client.ask[a], t)
  BY <1>1 DEF ClientInv, Sound, Fits, Deliveries, RowsFit
<1>3. t = Home(client.ask[a])
  BY <1>2 DEF Belongs
<1>4. ASSUME NEW k \in DOMAIN client.socks, NEW i \in DOMAIN client.socks[k].up PROVE client.socks[k].up # <<>>
  BY <1>4
<1>5. QED
  BY <1>1, <1>2, <1>3, <1>4 DEF Delivered

LEMMA CallersAnswered == ClientInv => CallersHearBack
<1> SUFFICES ASSUME ClientInv PROVE QuerySettles /\ ReceiptNotStranded
  BY DEF CallersHearBack
<1>1. /\ client \in Clients /\ SocketsFit(client) /\ EntriesFit(client, client.ask) /\ ReconnectDue(client)
      /\ Receipts(client, client.ask, {})
  BY DEF ClientInv, Sound, Fits
<1>2. QuerySettles
  BY <1>1 DEF SocketsFit, QuerySettles
<1> SUFFICES ASSUME NEW a \in Asks, client.ask[a].receipt = "awaited",
                    ~client.timer, client.checks = {}, ~Current(client).cut,
                    Current(client).state \notin {"connecting", "closing"}
             PROVE  \E k \in DOMAIN client.socks : \E i \in DOMAIN (client.socks[k].up \o client.socks[k].down) :
                      LET m == (client.socks[k].up \o client.socks[k].down)[i] IN m.type # "register" /\ m.ask = a
  BY <1>2 DEF ReceiptNotStranded
<1> DEFINE c == client.cur
           u == client.socks[c].up
           d == client.socks[c].down
<1>3. c \in DOMAIN client.socks /\ Current(client) = client.socks[c] /\ Current(client) \in ClientSockets
  BY <1>1, CurrentFacts
<1>4. u \in Seq(UpMessages) /\ d \in Seq(DownMessages) /\ \A i \in DOMAIN d : d[i] \in DownMessages
  BY <1>1, <1>3, QueueFacts
<1>5. ~client.stopped
  BY <1>1 DEF EntriesFit
<1>6. Current(client).state = "open"
  BY <1>1, <1>3, <1>5 DEF ReconnectDue, ClientSockets
<1>7. AnswerDue(client, a)
  BY <1>1, <1>6 DEF Receipts
<1>8. Extends(u, u \o d, d)
  <2>1. u \in Seq(UpMessages \cup DownMessages) /\ d \in Seq(UpMessages \cup DownMessages)
    BY <1>4
  <2>2. QED
    BY <2>1, Appended
<1>9. ASSUME NEW i \in DOMAIN u, Creation(u[i], a)
      PROVE  i \in DOMAIN (u \o d) /\ (u \o d)[i].type # "register" /\ (u \o d)[i].ask = a
  BY <1>8, <1>9 DEF Extends, Creation
<1>10. ASSUME NEW i \in DOMAIN d, d[i].ask = a
       PROVE  Len(u) + i \in DOMAIN (u \o d) /\ (u \o d)[Len(u) + i].type # "register" /\ (u \o d)[Len(u) + i].ask = a
  <2>1. d[i].type # "register"
    BY <1>4 DEF DownMessages
  <2>2. QED
    BY <1>8, <1>10, <2>1 DEF Extends
<1>11. QED
  BY <1>3, <1>7, <1>9, <1>10 DEF AnswerDue, Mentions

\* PostboxClient: an ask becomes a Question of one server at most, and what the
\* agent is told of it (a receipt, an outcome, that it was never sent) is true.
THEOREM ReportsAreTrue == Spec => []ReportsMatchServer
BY ClientInvariant, ReportsAgree, PTL

\* resolvePendingLocally, the tool's signal: a Question that its own side has
\* settled is not left pending, unless that was given up or lost with a socket.
THEOREM LocalOutcomesArrive == Spec => []LocalOutcomeReachesOrigin
BY ClientInvariant, OutcomesArrive, PTL

\* A query does not outlive the socket of its reply; who waits for a receipt has
\* a message about the ask on its way, or an event to come that sends it again.
THEOREM NobodyWaitsForNothing == Spec => []CallersHearBack
BY ClientInvariant, CallersAnswered, PTL
=============================================================================
