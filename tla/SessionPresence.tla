--------------------------- MODULE SessionPresence ---------------------------
(* SessionStore: the sessions table, which survives a restart of the server,  *)
(* and activeConnections, which does not; registration, heartbeats, shutdown, *)
(* disconnection, features and pruning; and what is derived from the two: the *)
(* presence a human sees, the lease that decides whether the Questions of an  *)
(* owner may be taken over, and the pages on which owners find each other.    *)
(* The sessions are those of one worktree of one repository.                  *)
(* Time is the age of what happened last, counted in units of the thresholds. *)
EXTENDS Naturals, FiniteSets, FiniteSetsExt

CONSTANTS
  Sessions, SessionOwners,
  MaxSockets,      \* connections, numbered in the order in which they register
  Features,        \* features of the worktree
  MaxAsking,       \* sessions that ask (model checking only)
  NoRow, Never,
  StaleAfter, OfflineAfter, HideAfter, RetainFor,
  LateShutdown     \* session.shutdown of a replaced connection may arrive late

ASSUME PresenceAssumption ==
  /\ StaleAfter \in Nat /\ OfflineAfter \in Nat /\ HideAfter \in Nat /\ RetainFor \in Nat
  /\ 0 < StaleAfter /\ StaleAfter < OfflineAfter
  /\ MaxSockets \in Nat /\ MaxAsking \in Nat /\ Never \notin Nat
  /\ "unused" \notin Sessions
  /\ LateShutdown \in BOOLEAN

VARIABLES
  sessionRow,        \* the sessions table
  activeConnections, \* the connection each session is served by
  socketSession,     \* the session each connection registered, or "unused"
  openSockets,       \* connections the server has not seen closed
  sourcing           \* the Question each session sourced, if any

presenceVars == <<sessionRow, activeConnections, socketSession, openSockets, sourcing>>

\* Definitions named Slip... are faulty variants of the one that follows, used
\* by no specification: a property has to notice each of them.

Sockets == 1..MaxSockets
NoSocket == 0
Oldest == RetainFor + 1        \* ages are not told apart beyond this
Ages == 0..Oldest
Row == [owner : SessionOwners, feature : Features,
        beat : Ages,                        \* since last_heartbeat_at
        gone : Ages \cup {Never},           \* since disconnected_at
        shut : BOOLEAN]                     \* shutdown_at is set
QuestionRow == [state : {"pending", "unread", "closed"}, owner : SessionOwners, feature : Features]
ASSUME NoRowAssumption == NoRow \notin Row /\ NoRow \notin QuestionRow
Exists(s) == sessionRow[s] # NoRow
Served(s) == {k \in Sockets : socketSession[k] = s}
Newest(s) == Max(Served(s) \cup {NoSocket})

PresenceInit ==
  /\ sessionRow = [s \in Sessions |-> NoRow]
  /\ activeConnections = [s \in Sessions |-> NoSocket]
  /\ socketSession = [k \in Sockets |-> "unused"] /\ openSockets = {}
  /\ sourcing = [s \in Sessions |-> NoRow]

-----------------------------------------------------------------------------
(* Reading.                                                                  *)

\* derivePresence
PresenceOf(s) ==
  LET r == sessionRow[s] IN
  CASE ~Exists(s) \/ r.shut \/ r.gone # Never \/ activeConnections[s] = NoSocket
       \/ r.beat > OfflineAfter -> "offline"
    [] OTHER -> IF r.beat > StaleAfter THEN "stale" ELSE "live"

SessionsOf(o) == {s \in Sessions : Exists(s) /\ sessionRow[s].owner = o}

Sourced(s) == sourcing[s] # NoRow
Asking(s) == Sourced(s) /\ sourcing[s].state = "pending"

\* hasOfflineLease, which takeoverQuestionOwner asks, looks at the table only.
OfflineLease(o) ==
  \A s \in SessionsOf(o) : \/ sessionRow[s].shut \/ sessionRow[s].gone # Never
                           \/ sessionRow[s].beat >= OfflineAfter

\* offlineSinceMs and OFFLINE_SINCE_SQL
OfflineFor(s) ==
  IF sessionRow[s].gone # Never THEN sessionRow[s].gone ELSE sessionRow[s].beat

\* snapshot: what the dashboard is shown.
Visible(s) ==
  /\ Exists(s)
  /\ PresenceOf(s) # "offline" \/ Asking(s) \/ OfflineFor(s) <= HideAfter

\* listPostboxOwnersPage: the scope of the caller is its feature, or all of the
\* worktree; an owner's sessions, its presence and its Questions count if they
\* are within that scope.
Scope(caller, wide) == IF wide THEN Features ELSE {sessionRow[caller].feature}
ListedSessions(o, scope) == {s \in SessionsOf(o) : sessionRow[s].feature \in scope}
Listed(o, scope) ==
  /\ ListedSessions(o, scope) # {}
  /\ \/ \E s \in ListedSessions(o, scope) : PresenceOf(s) # "offline"
     \/ \E s \in Sessions : /\ Sourced(s) /\ sourcing[s].state \in {"pending", "unread"}
                            /\ sourcing[s].owner = o /\ sourcing[s].feature \in scope

-----------------------------------------------------------------------------
(* Writing.                                                                  *)

\* register: the feature that was asked for, or else the one of the worktree.
Register(k, s) ==
  /\ socketSession[k] = "unused" /\ \A j \in Sockets : j < k => socketSession[j] # "unused"
  /\ \E o \in SessionOwners, f \in Features :
       /\ Exists(s) => sessionRow[s].owner = o           \* a session keeps its owner
       /\ sessionRow' = [sessionRow EXCEPT ![s] =
            [owner |-> o, feature |-> f, beat |-> 0, gone |-> Never, shut |-> FALSE]]
  /\ activeConnections' = [activeConnections EXCEPT ![s] = k]
  /\ socketSession' = [socketSession EXCEPT ![k] = s] /\ openSockets' = openSockets \cup {k}
  /\ UNCHANGED sourcing

\* heartbeat: of the connection that serves the session, or of any when none does.
Heartbeat(k, s) ==
  /\ k \in openSockets \cap Served(s)
  /\ activeConnections[s] \in {k, NoSocket}
  /\ activeConnections' = [activeConnections EXCEPT ![s] = IF Exists(s) THEN k ELSE NoSocket]
  /\ sessionRow' = IF Exists(s)
                   THEN [sessionRow EXCEPT ![s] = [@ EXCEPT !.beat = 0, !.gone = Never, !.shut = FALSE]]
                   ELSE sessionRow
  /\ UNCHANGED <<socketSession, openSockets, sourcing>>

\* feature.action, of the current connection: start, select or inherit.
SelectFeature(k, s) ==
  /\ k \in openSockets \cap Served(s) /\ activeConnections[s] = k /\ Exists(s)
  /\ \E f \in Features : sessionRow' = [sessionRow EXCEPT ![s].feature = f]
  /\ UNCHANGED <<activeConnections, socketSession, openSockets, sourcing>>

\* ask.create, on the session's current connection: the Question starts with
\* the owner and the feature of its session, and keeps the feature.
SourceQuestion(k, s) ==
  /\ k \in openSockets \cap Served(s) /\ activeConnections[s] = k
  /\ Exists(s) /\ ~Asking(s)
  /\ Cardinality({t \in Sessions \ {s} : Sourced(t)}) < MaxAsking
  /\ sourcing' = [sourcing EXCEPT ![s] =
       [state |-> "pending", owner |-> sessionRow[s].owner, feature |-> sessionRow[s].feature]]
  /\ UNCHANGED <<sessionRow, activeConnections, socketSession, openSockets>>

\* answered, read, or ended in another way
QuestionMoves(s) ==
  /\ \/ Asking(s) /\ \E next \in {"unread", "closed"} : sourcing' = [sourcing EXCEPT ![s].state = next]
     \/ Sourced(s) /\ sourcing[s].state = "unread" /\ sourcing' = [sourcing EXCEPT ![s].state = "closed"]
  /\ UNCHANGED <<sessionRow, activeConnections, socketSession, openSockets>>

\* question.update: transfer by the owner to another, whose row in the table of
\* owners outlives its sessions, or takeover by the caller from an owner that is
\* offline; the source session stays what it was.
GiveQuestion(k, caller, s) ==
  /\ k \in openSockets \cap Served(caller) /\ activeConnections[caller] = k /\ Exists(caller)
  /\ Asking(s)
  /\ \E o \in SessionOwners \ {sourcing[s].owner} :
       /\ \/ sessionRow[caller].owner = sourcing[s].owner
          \/ sessionRow[caller].owner = o /\ OfflineLease(sourcing[s].owner)
       /\ sourcing' = [sourcing EXCEPT ![s].owner = o]
  /\ UNCHANGED <<sessionRow, activeConnections, socketSession, openSockets>>

\* session.shutdown, whichever connection of the session it arrives on.
ShutdownSession(k, s) ==
  /\ k \in openSockets \cap Served(s) /\ (LateShutdown \/ k = Newest(s))
  /\ activeConnections' = [activeConnections EXCEPT ![s] = NoSocket]
  /\ sessionRow' = IF Exists(s)
                   THEN [sessionRow EXCEPT ![s] = [@ EXCEPT !.shut = TRUE, !.gone = 0]]
                   ELSE sessionRow
  /\ openSockets' = openSockets \ {k}                    \* stop follows
  /\ UNCHANGED <<socketSession, sourcing>>

\* disconnectConnection
SlipDisconnect(k) ==
  /\ k \in openSockets
  /\ LET s == socketSession[k] IN
     /\ activeConnections' = [activeConnections EXCEPT ![s] = NoSocket]
     /\ sessionRow' = IF Exists(s) THEN [sessionRow EXCEPT ![s].gone = 0] ELSE sessionRow
  /\ openSockets' = openSockets \ {k}
  /\ UNCHANGED <<socketSession, sourcing>>
Disconnect(k) ==
  /\ k \in openSockets
  /\ LET s == socketSession[k] IN
     IF activeConnections[s] = k
     THEN /\ activeConnections' = [activeConnections EXCEPT ![s] = NoSocket]
          /\ sessionRow' = IF Exists(s) THEN [sessionRow EXCEPT ![s].gone = 0] ELSE sessionRow
     ELSE UNCHANGED <<activeConnections, sessionRow>>
  /\ openSockets' = openSockets \ {k}
  /\ UNCHANGED <<socketSession, sourcing>>

\* pruneOfflineSessions, before every snapshot.
SlipPrunable(s) == Exists(s) /\ OfflineFor(s) > RetainFor /\ PresenceOf(s) = "offline"
Prunable(s) ==
  /\ Exists(s) /\ ~Sourced(s)
  /\ OfflineFor(s) > RetainFor /\ PresenceOf(s) = "offline"
PruneOfflineSessions ==
  /\ \E s \in Sessions : Prunable(s)
  /\ sessionRow' = [s \in Sessions |-> IF Prunable(s) THEN NoRow ELSE sessionRow[s]]
  /\ activeConnections' =
       [s \in Sessions |-> IF Prunable(s) THEN NoSocket ELSE activeConnections[s]]
  /\ UNCHANGED <<socketSession, openSockets, sourcing>>

Older(age) == IF age = Never THEN Never ELSE Min({age + 1, Oldest})
TimePasses ==
  /\ sessionRow' = [s \in Sessions |->
       IF Exists(s) THEN [sessionRow[s] EXCEPT !.beat = Older(@), !.gone = Older(@)] ELSE NoRow]
  /\ sessionRow' # sessionRow
  /\ UNCHANGED <<activeConnections, socketSession, openSockets, sourcing>>

RestartServer ==
  /\ openSockets # {} /\ openSockets' = {}
  /\ activeConnections' = [s \in Sessions |-> NoSocket]
  /\ UNCHANGED <<sessionRow, socketSession, sourcing>>

PresenceNext ==
  \/ \E k \in Sockets, s \in Sessions :
       \/ Register(k, s) \/ Heartbeat(k, s) \/ SelectFeature(k, s)
       \/ SourceQuestion(k, s) \/ ShutdownSession(k, s)
       \/ \E t \in Sessions : GiveQuestion(k, s, t)
  \/ \E k \in Sockets : Disconnect(k)
  \/ \E s \in Sessions : QuestionMoves(s)
  \/ PruneOfflineSessions \/ TimePasses \/ RestartServer

PresenceSpec == PresenceInit /\ [][PresenceNext]_presenceVars

-----------------------------------------------------------------------------

\* The map in memory and the table agree: a session that is served has a row
\* without a sign of departure, and the connection that serves it is open and
\* the session's newest unless the newest is closed (register, heartbeat,
\* disconnectConnection, shutdown, pruneOfflineSessions).
ConnectionsMatchRows ==
  \A s \in Sessions : activeConnections[s] # NoSocket =>
    /\ Exists(s) /\ sessionRow[s].gone = Never /\ ~sessionRow[s].shut
    /\ activeConnections[s] \in openSockets \cap Served(s)
    /\ activeConnections[s] = Newest(s) \/ Newest(s) \notin openSockets

\* The Questions of an owner may be taken over only when nothing was heard of it
\* for long: no session whose newest connection is open had a heartbeat that is
\* younger than the threshold, even if it lost others (hasOfflineLease, takeoverQuestionOwner).
LeaseIsHonest ==
  \A o \in SessionOwners : OfflineLease(o) =>
    \A s \in SessionsOf(o) : Newest(s) \in openSockets => sessionRow[s].beat >= OfflineAfter

\* The two together: what decides about reachability and takeover is true of the
\* sockets, however late a close is noticed.
PresenceIsTrue == ConnectionsMatchRows /\ LeaseIsHonest

\* What Questions refer to is never pruned: the session that asked stays on the
\* dashboard while its Question is pending, and the owner that asked stays on the
\* owners' page of the worktree, and of the feature it asked in while it works
\* there.  An owner the Question was given to may be pruned with its sessions;
\* then whoever is left may take the Question over (snapshot,
\* pruneOfflineSessions, listPostboxOwnersPage, hasOfflineLease).
ActionableStaysVisible ==
  \A s \in Sessions : Sourced(s) =>
    /\ Exists(s)
    /\ Asking(s) =>
         /\ Visible(s)
         /\ sourcing[s].owner = sessionRow[s].owner =>
              \A c \in Sessions, wide \in BOOLEAN :
                Exists(c) /\ {sourcing[s].feature, sessionRow[s].feature} \subseteq Scope(c, wide) =>
                  Listed(sourcing[s].owner, Scope(c, wide))
         /\ OfflineLease(sourcing[s].owner) \/ Listed(sourcing[s].owner, Features)
=============================================================================
