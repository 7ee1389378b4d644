---------------------------- MODULE PostboxClient ----------------------------
(***************************************************************************)
(* The extension's client: its WebSockets, the asks it keeps until they    *)
(* are resolved, the resolutions made locally, and its choice of a server. *)
(*                                                                         *)
(* A client may have several sockets at a time: the handlers of every one  *)
(* act on the client's only state, whichever socket is the current one.    *)
(* Sent work pins the server it was sent to, and a switch to another one   *)
(* is deferred until the work is done or given up by a timer.              *)
(***************************************************************************)
EXTENDS Naturals, Sequences, FiniteSets

CONSTANTS
  Targets,     \* server URLs
  Asks,        \* request ids
  None,        \* no target
  MaxCuts, MaxSwitches, MaxQueries  \* model checking only

ASSUME ClientAssumption ==
  /\ None \notin Targets
  /\ IsFiniteSet(Asks)
  /\ {MaxCuts, MaxSwitches, MaxQueries} \subseteq Nat

VARIABLES
  client,    \* the PostboxClient object
  server,    \* server[t]: its Questions and the connection of this session
  foundTarget, \* what the target resolver would find now
  seen       \* faults, switches and queries so far

vars == <<client, server, foundTarget, seen>>

NewSocket(t) == [url |-> t, state |-> "connecting", cut |-> FALSE, lost |-> FALSE, suppress |-> FALSE, up |-> <<>>, down |-> <<>>]
NewAsk == [state |-> "new", sent |-> FALSE, created |-> None, origin |-> None,
           unavailable |-> FALSE, affinity |-> FALSE, receipt |-> "none"]
NoLocal == [kind |-> "none", origin |-> None, affinity |-> FALSE]

-----------------------------------------------------------------------------
(* What the methods of the client do to its state s. *)

Current(s) == s.socks[s.cur]
IsConnected(s) == s.cur # 0 /\ Current(s).state = "open"
Waiting(s) == {a \in Asks : s.ask[a].state = "waiting"}

Send(s, messages) ==
  IF ~IsConnected(s) THEN s
  ELSE IF Current(s).cut THEN [s EXCEPT !.socks[s.cur].lost = TRUE]
  ELSE [s EXCEPT !.socks[s.cur].up = @ \o messages]

Connect(s) == [s EXCEPT !.socks = Append(@, NewSocket(s.url)), !.cur = Len(s.socks) + 1]

EnsureConnection(s) ==
  IF s.cur # 0 /\ Current(s).state \in {"open", "connecting"} THEN s ELSE Connect(s)

\* hasPinnedWorkBlocking.
Blocking(s, t) ==
  \E a \in Asks : \/ a \in Waiting(s) /\ s.ask[a].sent /\ s.ask[a].origin \notin {None, t}
                  \/ s.local[a].kind # "none" /\ s.local[a].origin # t

\* retargetNow: the old socket closes in its own time.
RetargetNow(s, t, connectWhenDisconnected) ==
  LET busy == s.cur # 0 /\ Current(s).state \in {"open", "connecting"}
      moved == [s EXCEPT !.url = t, !.timer = FALSE, !.heartbeat = FALSE]
      left == IF busy THEN [moved EXCEPT !.socks[s.cur].state = "closing", !.socks[s.cur].suppress = TRUE] ELSE moved
  IN IF busy \/ s.cur = 0 \/ connectWhenDisconnected THEN Connect(left) ELSE left

TryApplyDeferredTarget(s) ==
  LET t == s.deferred
      free == [s EXCEPT !.deferred = None]
  IN IF s.stopped \/ t = None \/ Blocking(s, t) THEN s
     ELSE IF t = s.url THEN free ELSE RetargetNow(free, t, TRUE)

\* startTargetAffinityTimers...: work sent to one of the servers ts.
StartTargetAffinityTimers(s, ts) ==
  [s EXCEPT !.ask = [a \in Asks |-> [s.ask[a] EXCEPT !.affinity = @ \/ (a \in Waiting(s) /\ s.ask[a].sent /\ s.ask[a].origin \in ts)]],
            !.local = [a \in Asks |-> [s.local[a] EXCEPT !.affinity = @ \/ s.local[a].origin \in ts]]]

DeferTargetSwitch(s, t) == StartTargetAffinityTimers([s EXCEPT !.deferred = t], Targets)

\* checkForProfileTargetChange, once the resolver found t.
CheckForTargetChange(s, t, connectWhenDisconnected) ==
  IF t = None \/ (t = s.url /\ s.deferred = None) THEN s
  ELSE IF Blocking(s, t) THEN DeferTargetSwitch(s, t)
  ELSE LET free == [s EXCEPT !.deferred = None]
       IN IF t = s.url THEN free ELSE RetargetNow(free, t, connectWhenDisconnected)

\* The ask is settled one way or another: cleanup, and its timers with it.
SlipEndAsk(s, a, outcome) ==
  TryApplyDeferredTarget(
    [s EXCEPT !.ask[a].state = outcome, !.ask[a].unavailable = FALSE, !.ask[a].affinity = FALSE,
              !.ask[a].receipt = IF @ = "awaited" THEN "ok" ELSE @])
EndAsk(s, a, outcome) ==
  TryApplyDeferredTarget(
    [s EXCEPT !.ask[a].state = outcome, !.ask[a].unavailable = FALSE, !.ask[a].affinity = FALSE,
              !.ask[a].receipt = IF @ = "awaited" THEN "rejected" ELSE @])

ResolveCreateReceipt(s, a) == [s EXCEPT !.ask[a].receipt = IF @ = "awaited" THEN "ok" ELSE @]

\* sendPendingAsk; an asynchronous create does not wait for a connection.
SendPendingAsk(a, s) ==
  IF s.ask[a].origin \notin {None, s.url} THEN s
  ELSE IF IsConnected(s)
  THEN [Send(s, <<[type |-> "create", ask |-> a, flush |-> FALSE]>>)
          EXCEPT !.ask[a].sent = TRUE, !.ask[a].unavailable = FALSE, !.ask[a].origin = s.url]
  ELSE IF s.ask[a].receipt # "none" THEN EndAsk(s, a, "error") ELSE s

ReplayAsk(a, s) == IF a \in Waiting(s) THEN SendPendingAsk(a, s) ELSE s

\* The maps of asks and of resolutions are gone through in the order of their
\* keys' insertion, which is any order.
AskOrder ==
  CHOOSE order \in [1..Cardinality(Asks) -> Asks] :
    \A a \in Asks : \E n \in DOMAIN order : order[n] = a

ReplayPendingAsks(s) ==
  LET run[n \in 0..Cardinality(Asks)] == IF n = 0 THEN s ELSE ReplayAsk(AskOrder[n], run[n - 1])
  IN run[Cardinality(Asks)]

\* flushLocalResolutions: deleted once sent.
SlipFlushLocalResolution(a, s) ==
  IF s.local[a].kind = "none" \/ s.local[a].origin # s.url THEN s
  ELSE [Send(s, <<[type |-> s.local[a].kind, ask |-> a], [type |-> "create", ask |-> a, flush |-> TRUE]>>)
          EXCEPT !.local[a] = NoLocal]
FlushLocalResolution(a, s) ==
  IF s.local[a].kind = "none" \/ s.local[a].origin # s.url THEN s
  ELSE [Send(s, <<[type |-> "create", ask |-> a, flush |-> TRUE], [type |-> s.local[a].kind, ask |-> a]>>)
          EXCEPT !.local[a] = NoLocal]
FlushLocalResolutions(s) ==
  LET run[n \in 0..Cardinality(Asks)] == IF n = 0 THEN s ELSE FlushLocalResolution(AskOrder[n], run[n - 1])
  IN IF IsConnected(s) THEN TryApplyDeferredTarget(run[Cardinality(Asks)]) ELSE s

EnqueueLocalResolution(s, a, kind) ==
  [s EXCEPT !.local[a] = [kind |-> kind, affinity |-> ~IsConnected(s),
                          origin |-> IF s.ask[a].origin = None THEN s.ask[a].created ELSE s.ask[a].origin]]

-----------------------------------------------------------------------------
(* Calls of the agent and of the local fallback commands. *)

Only(s) == client' = s /\ UNCHANGED <<server, foundTarget, seen>>

\* ask, and createAsk, which wants a receipt and refuses to start offline.
AskPostbox(a, wantsReceipt) ==
  LET new == [NewAsk EXCEPT !.state = "waiting", !.created = client.url,
                            !.unavailable = ~IsConnected(client),
                            !.receipt = IF wantsReceipt THEN "awaited" ELSE "none"]
  IN /\ client.ask[a].state = "new" /\ ~client.stopped
     /\ wantsReceipt => IsConnected(client)
     /\ Only(SendPendingAsk(a, EnsureConnection([client EXCEPT !.ask[a] = new])))

\* The tool's signal, which an acknowledged receipt has detached.
Abort(a) ==
  LET queued == EnqueueLocalResolution(client, a, "cancel")
  IN /\ a \in Waiting(client) /\ client.ask[a].receipt # "ok"
     /\ Only(EndAsk(IF client.ask[a].sent THEN FlushLocalResolutions(queued) ELSE client, a, "aborted"))

\* answerPendingAsk, cancelPendingAsk.
ResolveLocally(a, kind) ==
  /\ a \in Waiting(client)
  /\ Only(FlushLocalResolutions(EndAsk(EnqueueLocalResolution(client, a, kind), a,
            IF kind = "answer" THEN "answered here" ELSE "cancelled here")))

\* Every other correlated call: answer reads, queries, waits, batches and chat
\* proposals.  The server's reply comes over the same socket.
Query ==
  /\ IsConnected(client) /\ ~client.stopped /\ seen.queries < MaxQueries
  /\ client' = [client EXCEPT !.queries = @ \cup {client.cur}]
  /\ seen' = [seen EXCEPT !.queries = @ + 1]
  /\ UNCHANGED <<server, foundTarget>>

QueryResult(k) ==
  /\ k \in client.queries /\ ~client.socks[k].cut /\ client.socks[k].state = "open"
  /\ Only([client EXCEPT !.queries = @ \ {k}])

StopClient ==
  /\ ~client.stopped
  /\ Only([client EXCEPT !.stopped = TRUE, !.timer = FALSE, !.heartbeat = FALSE, !.queries = {},
             !.ask = [a \in Asks |-> IF a \in Waiting(client)
                                     THEN [client.ask[a] EXCEPT !.state = "stopped", !.unavailable = FALSE, !.affinity = FALSE,
                                             !.receipt = IF @ = "awaited" THEN "rejected" ELSE @]
                                     ELSE client.ask[a]],
             !.local = [a \in Asks |-> NoLocal],
             !.socks = [k \in DOMAIN @ |-> IF k = client.cur /\ @[k].state # "closed"
                                           THEN [@[k] EXCEPT !.state = "closing"] ELSE @[k]]])

-----------------------------------------------------------------------------
(* Events of socket k. *)

OnOpen(k) ==
  LET opened == [client EXCEPT !.socks[k].state = "open", !.heartbeat = TRUE]
  IN /\ client.socks[k].state = "connecting" /\ ~client.socks[k].cut
     /\ Only(FlushLocalResolutions(ReplayPendingAsks(Send(opened, <<[type |-> "register"]>>))))

\* What the close of socket k does to the calls that wait for a reply.
SlipOnClosed(s, k) ==
  IF s.socks[k].suppress THEN s ELSE [s EXCEPT !.heartbeat = FALSE, !.queries = {}]
OnClosed(s, k) == [s EXCEPT !.heartbeat = FALSE, !.queries = {}]

OnClose(k) ==
  LET closed == OnClosed([client EXCEPT !.socks[k].state = "closed", !.socks[k].up = <<>>, !.socks[k].down = <<>>], k)
  IN /\ client.socks[k].state # "closed"
     /\ client.socks[k].cut \/ (client.socks[k].state = "closing" /\ client.socks[k].up = <<>>)
     /\ Only(IF client.stopped \/ client.socks[k].suppress THEN closed
             ELSE [StartTargetAffinityTimers(closed, {client.url}) EXCEPT !.timer = TRUE])

\* Messages about asks; replies to a flush find nothing to settle.
OnMessage(k) ==
  LET m == Head(client.socks[k].down)
      s == [client EXCEPT !.socks[k].down = Tail(@)]
      acked == ResolveCreateReceipt(s, m.ask)
  IN /\ client.socks[k].down # <<>>
     /\ Only(CASE m.type = "created" -> (IF m.ask \in Waiting(s) THEN acked ELSE s)
               [] m.type = "resolved" -> (IF m.ask \in Waiting(s) THEN EndAsk(acked, m.ask, m.outcome) ELSE s)
               [] m.type = "error" -> (IF m.ask \in Waiting(s) THEN EndAsk(s, m.ask, "error") ELSE s))

-----------------------------------------------------------------------------
(* Timers. *)

ReconnectFires ==
  /\ client.timer
  /\ Only([client EXCEPT !.timer = FALSE, !.checks = @ \cup {[kind |-> "reconnect", target |-> foundTarget]}])

\* The interval of profile polling.
PollFires ==
  /\ ~client.stopped
  /\ \A c \in client.checks : c.kind # "poll"
  /\ foundTarget # client.url \/ client.deferred # None
  /\ Only([client EXCEPT !.checks = @ \cup {[kind |-> "poll", target |-> foundTarget]}])

\* The resolver has verified what it read when the timer fired.
TargetResolved(c) ==
  LET s == [client EXCEPT !.checks = @ \ {c}]
      checked == CheckForTargetChange(s, c.target, c.kind = "poll")
  IN /\ c \in client.checks
     /\ Only(IF s.stopped THEN s ELSE IF c.kind = "reconnect" THEN Connect(checked) ELSE checked)

UnavailableTimer(a) ==
  /\ client.ask[a].unavailable
  /\ Only(IF client.ask[a].sent THEN [client EXCEPT !.ask[a].unavailable = FALSE] ELSE EndAsk(client, a, "unavailable"))

\* The expiry of an ask by the client's clock.
ExpiryTimer(a) ==
  /\ a \in Waiting(client)
  /\ Only(EndAsk(client, a, "expired"))

TargetAffinityTimer(a) ==
  /\ client.ask[a].affinity
  /\ Only(EndAsk(client, a, "undeliverable"))

LocalAffinityTimer(a) ==
  /\ client.local[a].affinity
  /\ Only(TryApplyDeferredTarget([client EXCEPT !.local[a] = NoLocal, !.givenUp = @ \cup {a}]))

-----------------------------------------------------------------------------
(* The servers: ask.create is for the current connection of the session,  *)
(* ask.answer and ask.cancel are for anybody.  A profile's server is on this *)
(* machine: what was sent first, over any socket, is taken first. *)

Reply(k, messages) == [client EXCEPT !.socks[k].up = Tail(@), !.socks[k].down = @ \o messages]

ServerTakes(k) ==
  LET m == Head(client.socks[k].up)
      t == client.socks[k].url
      row == server[t].ask
  IN /\ client.socks[k].up # <<>>
     /\ \A j \in 1..(k - 1) : client.socks[j].url = t => client.socks[j].up = <<>>
     /\ CASE m.type = "register" ->
               server' = [server EXCEPT ![t].holder = k] /\ client' = Reply(k, <<>>)
          [] m.type = "create" /\ server[t].holder # k ->
               /\ client' = Reply(k, IF m.flush THEN <<>> ELSE <<[type |-> "error", ask |-> m.ask]>>)
               /\ UNCHANGED server
          [] m.type = "create" /\ server[t].holder = k ->
               LET now == IF row[m.ask] = "none" THEN "pending" ELSE row[m.ask]
               IN /\ server' = [server EXCEPT ![t].ask[m.ask] = now]
                  /\ client' = Reply(k, IF m.flush THEN <<>>
                                        ELSE IF now = "pending" THEN <<[type |-> "created", ask |-> m.ask]>>
                                        ELSE <<[type |-> "created", ask |-> m.ask],
                                               [type |-> "resolved", ask |-> m.ask, outcome |-> now]>>)
          [] OTHER ->
               /\ server' = [server EXCEPT ![t].ask[m.ask] =
                               IF @ # "pending" THEN @ ELSE IF m.type = "answer" THEN "answered" ELSE "cancelled"]
               /\ client' = Reply(k, <<>>)
     /\ UNCHANGED <<foundTarget, seen>>

\* Somebody resolves the Question on the dashboard: the client is not told.
Resolve(t, a, outcome) ==
  /\ server[t].ask[a] = "pending"
  /\ server' = [server EXCEPT ![t].ask[a] = outcome]
  /\ UNCHANGED <<client, foundTarget, seen>>

\* The connection is lost, or cannot be made; the client may notice later.
Cut(k) ==
  /\ seen.cuts < MaxCuts
  /\ client.socks[k].state # "closed" /\ ~client.socks[k].cut
  /\ client' = [client EXCEPT !.socks[k].cut = TRUE, !.socks[k].lost = client.socks[k].up # <<>>, !.socks[k].up = <<>>, !.socks[k].down = <<>>]
  /\ seen' = [seen EXCEPT !.cuts = @ + 1]
  /\ UNCHANGED <<server, foundTarget>>

Select(t) ==
  /\ seen.switches < MaxSwitches /\ t # foundTarget
  /\ foundTarget' = t
  /\ seen' = [seen EXCEPT !.switches = @ + 1]
  /\ UNCHANGED <<client, server>>

-----------------------------------------------------------------------------

Init ==
  /\ foundTarget \in Targets
  /\ client = [url |-> foundTarget, socks |-> <<NewSocket(foundTarget)>>, cur |-> 1, heartbeat |-> FALSE, timer |-> FALSE,
               deferred |-> None, stopped |-> FALSE, ask |-> [a \in Asks |-> NewAsk],
               local |-> [a \in Asks |-> NoLocal], givenUp |-> {}, queries |-> {}, checks |-> {}]
  /\ server = [t \in Targets |-> [ask |-> [a \in Asks |-> "none"], holder |-> 0]]
  /\ seen = [cuts |-> 0, switches |-> 0, queries |-> 0]

Calls(a) == \/ \E wantsReceipt \in BOOLEAN : AskPostbox(a, wantsReceipt)
            \/ Abort(a)
            \/ \E kind \in {"answer", "cancel"} : ResolveLocally(a, kind)
AskTimers(a) == UnavailableTimer(a) \/ TargetAffinityTimer(a) \/ LocalAffinityTimer(a)
Socket(k) == OnOpen(k) \/ OnClose(k) \/ OnMessage(k) \/ QueryResult(k)
Switching == ReconnectFires \/ PollFires \/ \E c \in client.checks : TargetResolved(c)

Next ==
  \/ \E a \in Asks : Calls(a) \/ AskTimers(a) \/ ExpiryTimer(a)
  \/ \E k \in DOMAIN client.socks : Socket(k) \/ ServerTakes(k) \/ Cut(k)
  \/ Switching \/ Query \/ StopClient
  \/ \E t \in Targets, a \in Asks, outcome \in {"answered", "cancelled"} : Resolve(t, a, outcome)
  \/ \E t \in Targets \cup {None} : Select(t)

Spec == Init /\ [][Next]_vars

-----------------------------------------------------------------------------
(* Properties *)

\* A sent ask is pinned to its server and never becomes a Question of two.  What
\* the agent is told about it agrees with that server: a receipt stands for a
\* stored Question, a remote outcome for that outcome, and "unavailable before
\* the request could be sent" for no Question at all.
ReportsMatchServer ==
  \A a \in Asks : LET ask == client.ask[a] IN
    /\ Cardinality({t \in Targets : server[t].ask[a] # "none"}) <= 1
    /\ ask.receipt = "ok" => server[ask.origin].ask[a] # "none"
    /\ ask.state \in {"answered", "cancelled"} => server[ask.origin].ask[a] = ask.state
    /\ ask.state = "unavailable" => \A t \in Targets : server[t].ask[a] = "none"

\* A Question that was resolved here, or abandoned by its agent, does not stay
\* pending on its server, unless the resolution was given up or a message lost.
LocalOutcomeReachesOrigin ==
  \A a \in Asks, t \in Targets :
    /\ client.ask[a].state \in {"answered here", "cancelled here", "aborted"}
    /\ server[t].ask[a] = "pending"
    /\ a \notin client.givenUp /\ ~client.stopped
    => \/ client.local[a].kind # "none"
       \/ \E k \in DOMAIN client.socks :
            client.socks[k].url = t /\ (client.socks[k].lost \/ client.socks[k].up # <<>>)

\* No correlated call outlives the socket its reply would come over.
QuerySettles == \A k \in client.queries : client.socks[k].state # "closed"

\* The heartbeat of a registered client never stops while it is connected.
HeartbeatWhileConnected == IsConnected(client) => client.heartbeat

\* A caller of createAsk is not left without an answer: while it waits there is
\* a message about its Question on the way, or an event to come that sends it
\* again or gives it up.
ReceiptNotStranded ==
  \A a \in Asks : client.ask[a].receipt = "awaited" =>
    \/ client.timer \/ client.checks # {} \/ client.ask[a].affinity
    \/ Current(client).cut \/ Current(client).state \in {"connecting", "closing"}
    \/ \E k \in DOMAIN client.socks :
         \E i \in DOMAIN (client.socks[k].up \o client.socks[k].down) :
            LET m == (client.socks[k].up \o client.socks[k].down)[i] IN m.type # "register" /\ m.ask = a

\* Nobody who called the client waits for nothing (query, createAsk).
CallersHearBack == QuerySettles /\ ReceiptNotStranded
=============================================================================
