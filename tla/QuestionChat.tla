---------------------------- MODULE QuestionChat ----------------------------
(***************************************************************************)
(* Question Chat across its three processes: the browser's HTTP calls, the *)
(* relay of the server (questionChatRelay.ts, the chat messages of         *)
(* extensionSocket.ts), and in each Pi session the client (PostboxClient)  *)
(* with its runtime registry (questionChatRuntime.ts).  All sessions of a  *)
(* machine keep their recovery manifests in one directory tree.            *)
(*                                                                         *)
(* Commands wait at the relay for a correlated result or a timeout; server *)
(* and client exchange messages over one connection after another, each    *)
(* FIFO; creating, recovering and terminating a runtime take time, during  *)
(* which messages arrive.  A connection can be lost without the server's   *)
(* notice, and what is sent into it then is lost.                          *)
(***************************************************************************)
EXTENDS Naturals, Sequences, FiniteSets

CONSTANTS
  Questions,       \* numbers: recovery offers are sorted
  Sessions,        \* Pi sessions of this machine
  Source,          \* Source[q]: the session that asked q (source_session_id)
  Nobody,          \* no session
  CommandIds,      \* client command ids of sends and stops
  NoCommandId,     \* a snapshot: a command that nothing retains
  RecoveryMayFail, \* may a saved chat fail to load (model gone, for one)?
  MaxCalls, MaxConnections, MaxUpsets  \* model checking only

ASSUME ChatAssumption ==
  /\ Questions \subseteq Nat \ {0} /\ IsFiniteSet(Questions)
  /\ Source \in [Questions -> Sessions]
  /\ Nobody \notin Sessions
  /\ NoCommandId \notin CommandIds
  /\ RecoveryMayFail \in BOOLEAN
  /\ {MaxCalls, MaxConnections, MaxUpsets} \subseteq Nat

VARIABLES
  row,       \* row[q]: "pending", "resolved", or "withdrawn" by question.update
  active,    \* activeChats: whose chat, and the call that started it
  pending,   \* commands the relay has sent and not seen the end of
  deferred,  \* deferredCleanup: the owner to tell when it is back
  retained,  \* retainedBrowserCommands: dispatched ids, each with its call
  host,      \* host[s]: what the server keeps of the connection of s
  wire,      \* wire[s]: the connection the client has, and both channels
  ext,       \* ext[s]: client and registry
  disk,      \* disk[q]: the recovery directory
  runs,      \* runs[c]: the calls a send or stop was executed for
  ready,     \* the call that the last result counted for
  count      \* how often things have happened

relayState == <<active, pending, deferred, retained>>
vars == <<row, relayState, host, wire, ext, disk, runs, ready, count>>

\* A chat belongs to the session that asked, whoever owns the Question: routes,
\* authorization and recovery go by snapshot.sessionId, which a transfer or
\* takeover leaves alone.
ChatsWith(q, s) == row[q] = "pending" /\ Source[q] = s

\* Transfers, server restarts and session restarts so far, at most MaxUpsets.
upsets == count.moves + count.restarts + count.reloads

Restored == 0
Inactive == [owner |-> Nobody, by |-> Restored]
NoOffer == [conn |-> 0, q |-> 0]
NoDirectory == [owner |-> Nobody, whole |-> FALSE]

NewHost(k) == [bound |-> k, reconciling |-> k # 0, recovery |-> NoOffer, recover |-> FALSE, complete |-> FALSE]
NoWire == [link |-> 0, down |-> <<>>, up |-> <<>>]
NewExt == [entry |-> [q \in Questions |-> "none"], live |-> {}, dead |-> {}, tomb |-> {},
           ending |-> {}, outcomes |-> {}, activations |-> {}, commands |-> {}, verdicts |-> {},
           offers |-> {}, offered |-> NoOffer, completeSent |-> FALSE]

-----------------------------------------------------------------------------
(* The relay's side of a connection. *)

\* What the server sends reaches the client only over the client's connection.
Reached(s) == host[s].bound # 0 /\ host[s].bound = wire[s].link

Send(w, s, messages) ==
  IF Reached(s) THEN [w EXCEPT ![s].down = @ \o messages] ELSE w
Deliver(s, messages) == Send(wire, s, messages)

Command(kind, cid, q, id) == [type |-> kind, cid |-> cid, q |-> q, id |-> id]
Cleanup(q) == [type |-> "cleanup", q |-> q]

\* activateKind after an error other than a timeout: the previous identity is
\* restored, unless somebody changed the entry in between.
AfterFailure(failed) ==
  [q \in Questions |->
     IF \E p \in failed : p.type = "activate" /\ p.q = q /\ p.cid = active[q].by
     THEN (CHOOSE p \in failed : p.type = "activate" /\ p.q = q /\ p.cid = active[q].by).prev
     ELSE active[q]]

-----------------------------------------------------------------------------
(* HTTP routes.  A call that preflight refuses leaves nothing behind. *)

Dispatch(kind, q, id) ==
  LET s == Source[q]
      cid == count.calls + 1
  IN /\ row[q] = "pending" /\ host[s].bound # 0
     /\ count.calls < MaxCalls
     /\ count' = [count EXCEPT !.calls = cid]
     /\ pending' = pending \cup {[type |-> kind, cid |-> cid, q |-> q, id |-> id,
                                  conn |-> host[s].bound, prev |-> active[q]]}
     /\ wire' = Deliver(s, <<Command(kind, cid, q, id)>>)

Activate(q) ==
  /\ active[q].owner \in {Nobody, Source[q]}
  /\ Dispatch("activate", q, NoCommandId)
  /\ active' = [active EXCEPT ![q] = [owner |-> Source[q], by |-> count'.calls]]
  /\ UNCHANGED <<row, deferred, retained, host, ext, disk, runs, ready>>

\* What a memory of dispatched or executed ids says of a send or stop.
Remembers(memory, q, id) == \E c \in memory : c[1] = q /\ c[2] = id

\* snapshot, sendMessage and stop.  A retained id is replayed instead.
BrowserCommand(q, id) ==
  /\ active[q].owner = Source[q]
  /\ ~Remembers(retained, q, id)
  /\ Dispatch("command", q, id)
  /\ retained' = IF id = NoCommandId THEN retained ELSE retained \cup {<<q, id, count'.calls>>}
  /\ UNCHANGED <<row, active, deferred, host, ext, disk, runs, ready>>

\* Five minutes after its end, or to make room, a command is forgotten.
RelayForgets(c) ==
  /\ c \in retained /\ \A p \in pending : p.cid # c[3]
  /\ retained' = retained \ {c}
  /\ UNCHANGED <<row, active, pending, deferred, host, wire, ext, disk, runs, ready, count>>

\* A timed-out activation may have made a runtime: its identity stays.
SlipCommandTimeout(p) == pending' = pending \ {p} /\ active' = AfterFailure({p})
CommandTimeout(p) == pending' = pending \ {p} /\ UNCHANGED active
Timeout(p) ==
  /\ CommandTimeout(p)
  /\ UNCHANGED <<row, deferred, retained, host, wire, ext, disk, runs, ready, count>>

-----------------------------------------------------------------------------
(* Questions: an answer, cancellation or expiry calls cleanup, a transfer or  *)
(* takeover disposeNonTerminal; question.update's cancel and supersede, none. *)

RelayCleanup(q, w) ==
  LET s == Source[q]
      ended == {p \in pending : p.q = q}
  IN /\ pending' = pending \ ended
     /\ IF host[s].bound = 0
        THEN /\ deferred' = [deferred EXCEPT ![q] = s]
             /\ active' = AfterFailure(ended)
             /\ wire' = w
        ELSE /\ active' = [active EXCEPT ![q] = Inactive]
             /\ wire' = Send(w, s, <<Cleanup(q)>>)
             /\ UNCHANGED deferred

\* An agent's ask.answer or ask.cancel is told ask.resolved, at which its client
\* does what it does at a chat.cleanup.
CloseQuestion(q, told) ==
  LET w == IF told THEN Deliver(Source[q], <<Cleanup(q)>>) ELSE wire
  IN /\ row[q] = "pending"
     /\ row' = [row EXCEPT ![q] = "resolved"]
     /\ IF active[q].owner = Source[q]
        THEN RelayCleanup(q, w)
        ELSE wire' = w /\ UNCHANGED <<active, pending, deferred>>
     /\ UNCHANGED <<retained, host, ext, disk, runs, ready, count>>

WithdrawQuestion(q) ==
  /\ row[q] = "pending"
  /\ row' = [row EXCEPT ![q] = "withdrawn"]
  /\ UNCHANGED <<relayState, host, wire, ext, disk, runs, ready, count>>

DisposeNonTerminal(q) ==
  /\ active' = [active EXCEPT ![q] = Inactive]
  /\ wire' = IF active[q].owner \in Sessions THEN Deliver(active[q].owner, <<Cleanup(q)>>) ELSE wire

\* The owner changes; neither the row's session nor what is pending does.
MoveQuestion(q) ==
  /\ row[q] = "pending"
  /\ upsets < MaxUpsets
  /\ count' = [count EXCEPT !.moves = @ + 1]
  /\ DisposeNonTerminal(q)
  /\ UNCHANGED <<row, pending, deferred, retained, host, ext, disk, runs, ready>>

-----------------------------------------------------------------------------
(* Messages the server takes from the connection of s. *)

Arrives(s, type) == wire[s].up # <<>> /\ Head(wire[s].up).type = type
Taken(s, w) == [w EXCEPT ![s].up = Tail(@)]

\* bind tells the owner what was resolved while it was away.
Bind(s, owed) ==
  /\ host' = [host EXCEPT ![s] = NewHost(wire[s].link)]
  /\ deferred' = [q \in Questions |-> IF q \in owed THEN Nobody ELSE deferred[q]]
  /\ active' = [q \in Questions |-> IF q \in owed THEN Inactive ELSE active[q]]

\* session.register, the first message of a connection.
ServerRegister(s) ==
  LET owed == {q \in Questions : deferred[q] = s}
      notices == [i \in 1..Cardinality(owed) |->
                    Cleanup(CHOOSE q \in owed : Cardinality({p \in owed : p <= q}) = i)]
  IN /\ Arrives(s, "register")
     /\ Bind(s, owed)
     /\ wire' = [wire EXCEPT ![s].up = Tail(@), ![s].down = notices \o <<[type |-> "registered"]>>]
     /\ UNCHANGED <<row, pending, retained, ext, disk, runs, ready, count>>

\* chat.recover.offer: one at a time; a second one is refused, which the client
\* does not notice.
ServerOffer(s) ==
  LET m == Head(wire[s].up)
      recover == m.owner = s /\ ChatsWith(m.q, s)
  IN /\ Arrives(s, "offer")
     /\ IF host[s].recovery # NoOffer \/ host[s].complete
        THEN /\ wire' = Taken(s, wire)
             /\ UNCHANGED host
        ELSE /\ host' = [host EXCEPT ![s].recovery = m.offer, ![s].recover = recover]
             /\ wire' = Taken(s, Deliver(s, <<[type |-> "reconcile", offer |-> m.offer, recover |-> recover]>>))
     /\ UNCHANGED <<row, relayState, ext, disk, runs, ready, count>>

ServerComplete(s) ==
  /\ Arrives(s, "complete")
  /\ host' = [host EXCEPT ![s].complete = TRUE, ![s].reconciling = host[s].recovery # NoOffer]
  /\ wire' = Taken(s, wire)
  /\ UNCHANGED <<row, relayState, ext, disk, runs, ready, count>>

\* chat.reconciled: what the client made of the verdict; the row may have
\* changed since the verdict was given.
Restore(s, q) == active' = [active EXCEPT ![q] = [owner |-> s, by |-> Restored]]
RejectRecovery(s, q) == /\ active' = [active EXCEPT ![q] = Inactive]
                        /\ wire' = Taken(s, Deliver(s, <<Cleanup(q)>>))

Adopt(s, q, status) ==
  IF host[s].recover /\ ChatsWith(q, s)
  THEN /\ IF status = "recovered" THEN Restore(s, q) ELSE UNCHANGED active
       /\ wire' = Taken(s, wire)
  ELSE IF status = "deleted"
  THEN wire' = Taken(s, wire) /\ UNCHANGED active
  ELSE RejectRecovery(s, q)

ServerReconciled(s) ==
  LET m == Head(wire[s].up)
  IN /\ Arrives(s, "reconciled")
     /\ IF host[s].recovery = m.offer
        THEN /\ Adopt(s, m.offer.q, m.status)
             /\ host' = [host EXCEPT ![s].recovery = NoOffer, ![s].reconciling = ~host[s].complete]
        ELSE /\ wire' = Taken(s, wire)
             /\ UNCHANGED <<active, host>>
     /\ UNCHANGED <<row, pending, deferred, retained, ext, disk, runs, ready, count>>

\* resolve and resolveError: a result counts for the command it names, from the
\* connection that command was sent to, while the Question is pending.
Awaited(s, m) == {p \in pending : p.cid = m.cid /\ p.conn = wire[s].link}
SlipAccepted(p) == TRUE
Accepted(p) == row[p.q] = "pending"

ServerResult(s) ==
  LET m == Head(wire[s].up)
      good == {p \in Awaited(s, m) : m.ok /\ Accepted(p)}
  IN /\ Arrives(s, "result")
     /\ pending' = pending \ Awaited(s, m)
     /\ active' = AfterFailure(Awaited(s, m) \ good)
     /\ ready' = {p.cid : p \in good}
     /\ wire' = Taken(s, wire)
     /\ UNCHANGED <<row, deferred, retained, host, ext, disk, runs, count>>

Unbound(s) == [host EXCEPT ![s] = NewHost(0)]
Unbind(s) ==
  /\ host[s].bound # 0 /\ host[s].bound # wire[s].link
  /\ host' = Unbound(s)
  /\ UNCHANGED <<row, relayState, wire, ext, disk, runs, ready, count>>

ServerRestart ==
  /\ upsets < MaxUpsets
  /\ count' = [count EXCEPT !.restarts = @ + 1]
  /\ active' = [q \in Questions |-> Inactive]
  /\ pending' = {} /\ retained' = {}
  /\ deferred' = [q \in Questions |-> Nobody]
  /\ host' = [s \in Sessions |-> NewHost(0)]
  /\ wire' = [s \in Sessions |-> NoWire]
  /\ UNCHANGED <<row, ext, disk, runs, ready>>

-----------------------------------------------------------------------------
(* The client: connection and recovery offers. *)

Connect(s) ==
  /\ wire[s].link = 0
  /\ count.conns < MaxConnections
  /\ count' = [count EXCEPT !.conns = @ + 1]
  /\ wire' = [wire EXCEPT ![s] = [link |-> count'.conns, down |-> <<>>, up |-> <<[type |-> "register"]>>]]
  /\ UNCHANGED <<row, relayState, host, ext, disk, runs, ready>>

LinkLost(s) ==
  /\ wire[s].link # 0
  /\ wire' = [wire EXCEPT ![s] = NoWire]
  /\ UNCHANGED <<row, relayState, host, ext, disk, runs, ready, count>>

Received(s, type) == wire[s].down # <<>> /\ Head(wire[s].down).type = type
Said(s, w, messages) == IF w[s].link = 0 THEN w ELSE [w EXCEPT ![s].up = @ \o messages]
Read(s) == [wire EXCEPT ![s].down = Tail(@)]

\* sendNextQuestionChatRecoveryOffer, with the client state e.
SlipNextOffer(s, e, w) ==
  IF w[s].link = 0 \/ e.offered # NoOffer \/ e.offers = {}
  THEN ext' = [ext EXCEPT ![s] = e] /\ wire' = w
  ELSE LET q == CHOOSE p \in e.offers : \A r \in e.offers : p <= r
           offer == [conn |-> w[s].link, q |-> q]
       IN /\ ext' = [ext EXCEPT ![s] = [e EXCEPT !.offered = offer, !.offers = @ \ {q}]]
          /\ wire' = Said(s, w, <<[type |-> "offer", offer |-> offer, q |-> q, owner |-> disk[q].owner]>>)
NextOffer(s, e, w) ==
  IF w[s].link = 0 \/ e.offered # NoOffer \/ e.completeSent
  THEN ext' = [ext EXCEPT ![s] = e] /\ wire' = w
  ELSE IF e.offers = {}
  THEN /\ ext' = [ext EXCEPT ![s] = [e EXCEPT !.completeSent = TRUE]]
       /\ wire' = Said(s, w, <<[type |-> "complete"]>>)
  ELSE LET q == CHOOSE p \in e.offers : \A r \in e.offers : p <= r
           offer == [conn |-> w[s].link, q |-> q]
       IN /\ ext' = [ext EXCEPT ![s] = [e EXCEPT !.offered = offer, !.offers = @ \ {q}]]
          /\ wire' = Said(s, w, <<[type |-> "offer", offer |-> offer, q |-> q, owner |-> disk[q].owner]>>)

\* list drops every directory that does not load, whoever is filling it.
Loadable == {q \in Questions : disk[q].whole}

Registered(s) ==
  /\ Received(s, "registered")
  /\ NextOffer(s, [ext[s] EXCEPT !.offered = NoOffer, !.offers = Loadable, !.completeSent = FALSE], Read(s))
  /\ disk' = [q \in Questions |-> IF q \in Loadable THEN disk[q] ELSE NoDirectory]
  /\ UNCHANGED <<row, relayState, host, runs, ready, count>>

-----------------------------------------------------------------------------
(* The registry: entry[q] is a runtime being created, recovered or ready.    *)
(* One that is taken out of the map ends in its own time. *)

Ending(q, was, remove) == [q |-> q, was |-> was, remove |-> remove]

RegistryCleanup(e, q) ==
  IF e.entry[q] = "none" THEN e
  ELSE [e EXCEPT !.entry[q] = "none", !.tomb = @ \cup {q}, !.ending = @ \cup {Ending(q, e.entry[q], TRUE)}]

\* The registry's reconcile: delete cleans up, recover loads what is saved here
\* unless the runtime is there.
RegistryReconcile(s, e, q, recover) ==
  IF ~recover THEN RegistryCleanup(e, q)
  ELSE IF e.entry[q] = "none" /\ disk[q] = [owner |-> s, whole |-> TRUE]
       THEN [e EXCEPT !.entry[q] = "recovering"] ELSE e

\* reconcileQuestionChat, up to its first await.
Reconcile(s) ==
  LET m == Head(wire[s].down)
      e == [ext[s] EXCEPT !.offered = NoOffer, !.verdicts = @ \cup {[offer |-> m.offer, recover |-> m.recover]}]
  IN /\ Received(s, "reconcile")
     /\ wire' = Read(s)
     /\ ext' = IF ext[s].offered # m.offer THEN ext
               ELSE [ext EXCEPT ![s] = RegistryReconcile(s, e, m.offer.q, m.recover)]
     /\ UNCHANGED <<row, relayState, host, disk, runs, ready, count>>

\* A chat.cleanup came while the handler was waiting.
Stale(s, q) == q \in ext[s].dead

\* ... and the rest: the result is sent over the connection there is then.
Conclude(s, v, status) ==
  LET q == v.offer.q
      e == [ext[s] EXCEPT !.verdicts = @ \ {v},
                          !.live = IF status = "recovered" /\ ~Stale(s, q) THEN @ \cup {q} ELSE @]
  IN /\ v \in ext[s].verdicts
     /\ IF v.recover
        THEN /\ status = "recovered" => ext[s].entry[q] \in {"ready", "none"}
             /\ status = "failed" => ext[s].entry[q] = "none"
             /\ status # "deleted"
             /\ UNCHANGED disk
        ELSE /\ status = "deleted"
             /\ \A z \in ext[s].ending : z.q # q
             /\ disk' = [disk EXCEPT ![q] = NoDirectory]
     /\ NextOffer(s, e, Said(s, wire, <<[type |-> "reconciled", offer |-> v.offer, status |-> status]>>))
     /\ UNCHANGED <<row, relayState, host, runs, ready, count>>

\* chat.cleanup.
MarkTerminal(e, q) == [e EXCEPT !.dead = @ \cup {q}, !.live = @ \ {q}]
ClientCleanup(s) ==
  LET q == Head(wire[s].down).q
  IN /\ Received(s, "cleanup")
     /\ ext' = [ext EXCEPT ![s] = RegistryCleanup(MarkTerminal(@, q), q)]
     /\ wire' = Read(s)
     /\ UNCHANGED <<row, relayState, host, disk, runs, ready, count>>

Result(cid, ok) == [type |-> "result", cid |-> cid, ok |-> ok]

\* activateKind of the registry.  A directory that is in the way fails the
\* creation, whose handling of the failure removes it.
Refuses(s, q) == q \in ext[s].tomb \/ (ext[s].entry[q] = "none" /\ disk[q] # NoDirectory)
AfterRefusal(s, q) == IF q \in ext[s].tomb THEN disk ELSE [disk EXCEPT ![q] = NoDirectory]

\* chat.activate, up to its await.  A Question that was cleaned up is dropped
\* without an answer.
ActivateHere(s) ==
  LET m == Head(wire[s].down)
      e == [ext[s] EXCEPT !.activations = @ \cup {m}]
  IN /\ Received(s, "activate")
     /\ CASE m.q \in ext[s].dead ->
               wire' = Read(s) /\ UNCHANGED <<ext, disk>>
          [] m.q \notin ext[s].dead /\ Refuses(s, m.q) ->
               /\ wire' = Said(s, Read(s), <<Result(m.cid, FALSE)>>)
               /\ disk' = AfterRefusal(s, m.q)
               /\ UNCHANGED ext
          [] OTHER ->
               /\ wire' = Read(s)
               /\ ext' = [ext EXCEPT ![s] = [e EXCEPT !.entry[m.q] = IF @ = "none" THEN "creating" ELSE @]]
               /\ disk' = IF ext[s].entry[m.q] = "none"
                          THEN [disk EXCEPT ![m.q] = [owner |-> s, whole |-> FALSE]] ELSE disk
     /\ UNCHANGED <<row, relayState, host, runs, ready, count>>

\* ... and the rest of it.
FinishActivation(s, m) ==
  LET e == [ext[s] EXCEPT !.activations = @ \ {m}]
      made == ext[s].entry[m.q] = "ready"
  IN /\ m \in ext[s].activations
     /\ ext[s].entry[m.q] \in {"ready", "none"}
     /\ ext' = [ext EXCEPT ![s] = IF made /\ ~Stale(s, m.q) THEN [e EXCEPT !.live = @ \cup {m.q}] ELSE e]
     /\ wire' = IF made /\ Stale(s, m.q) THEN wire ELSE Said(s, wire, <<Result(m.cid, made)>>)
     /\ UNCHANGED <<row, relayState, host, disk, runs, ready, count>>

\* createPrivateRuntime ends: the manifest is written, if the directory is
\* still there, or everything is removed.
CreationEnds(s, q, ok) ==
  LET made == ok /\ disk[q] = [owner |-> s, whole |-> FALSE]
  IN /\ ext[s].entry[q] = "creating"
     /\ ext' = [ext EXCEPT ![s].entry[q] = IF made THEN "ready" ELSE "none"]
     /\ disk' = [disk EXCEPT ![q] = IF made THEN [owner |-> s, whole |-> TRUE] ELSE NoDirectory]
     /\ UNCHANGED <<row, relayState, host, wire, runs, ready, count>>

RecoveryEnds(s, q, ok) ==
  LET made == ok /\ disk[q] = [owner |-> s, whole |-> TRUE]
  IN /\ ext[s].entry[q] = "recovering"
     /\ ok \/ RecoveryMayFail
     /\ ext' = [ext EXCEPT ![s].entry[q] = IF made THEN "ready" ELSE "none"]
     /\ UNCHANGED <<row, relayState, host, wire, disk, runs, ready, count>>

\* A runtime that was taken out of the map is terminated or, after a reload,
\* suspended: the one removes the directory, the other completes it.
EndingEnds(s, z, ok) ==
  /\ z \in ext[s].ending
  /\ ext' = [ext EXCEPT ![s].ending = @ \ {z}]
  /\ disk' = CASE z.remove /\ (ok \/ z.was # "recovering") -> [disk EXCEPT ![z.q] = NoDirectory]
               [] ~z.remove /\ z.was = "creating" /\ disk[z.q].owner = s ->
                    [disk EXCEPT ![z.q] = IF ok THEN [owner |-> s, whole |-> TRUE] ELSE NoDirectory]
               [] OTHER -> disk
  /\ ok \/ z.was = "creating" \/ RecoveryMayFail
  /\ UNCHANGED <<row, relayState, host, wire, runs, ready, count>>

\* The tombstone of a chat expires after five minutes, and with it all that is
\* known of the chat's commands.
TombstoneExpires(s, q) ==
  /\ q \in ext[s].tomb /\ \A z \in ext[s].ending : z.q # q
  /\ ext' = [ext EXCEPT ![s].tomb = @ \ {q}, ![s].outcomes = {c \in @ : c[1] # q}]
  /\ UNCHANGED <<row, relayState, host, wire, disk, runs, ready, count>>

\* Five minutes after its end, or to make room, an outcome is forgotten.
OutcomeForgotten(s, c) ==
  /\ c \in ext[s].outcomes /\ \A m \in ext[s].commands : m.cid # c[3]
  /\ ext' = [ext EXCEPT ![s].outcomes = @ \ {c}]
  /\ UNCHANGED <<row, relayState, host, wire, disk, runs, ready, count>>

\* chat.snapshot, chat.send, chat.stop: executed unless the id is known.
SlipKnown(s, m) == FALSE
Known(s, m) == Remembers(ext[s].outcomes, m.q, m.id)
NotLive(s, q) == q \in ext[s].dead \/ q \notin ext[s].live
NoRuntime(s, q) == q \in ext[s].tomb \/ ext[s].entry[q] = "none"
Record(m) == [runs EXCEPT ![<<m.q, m.id>>] = Append(@, m.cid)]

Execute(s) ==
  LET m == Head(wire[s].down)
      new == m.id # NoCommandId /\ ~Known(s, m)
      e == [ext[s] EXCEPT !.commands = @ \cup {m}]
  IN /\ Received(s, "command")
     /\ IF NotLive(s, m.q) \/ (~Known(s, m) /\ NoRuntime(s, m.q))
        THEN /\ wire' = Said(s, Read(s), <<Result(m.cid, FALSE)>>)
             /\ UNCHANGED <<ext, runs>>
        ELSE /\ wire' = Read(s)
             /\ ext' = [ext EXCEPT ![s] = IF new THEN [e EXCEPT !.outcomes = @ \cup {<<m.q, m.id, m.cid>>}] ELSE e]
             /\ runs' = IF new THEN Record(m) ELSE runs
     /\ UNCHANGED <<row, relayState, host, disk, ready, count>>

\* The result is sent only while the chat is live.
FinishCommand(s, m) ==
  /\ m \in ext[s].commands
  /\ ext' = [ext EXCEPT ![s].commands = @ \ {m}]
  /\ wire' = IF m.q \in ext[s].live \ ext[s].dead THEN Said(s, wire, <<Result(m.cid, TRUE)>>) ELSE wire
  /\ UNCHANGED <<row, relayState, host, disk, runs, ready, count>>

\* What a reload leaves to end by itself; what quitting leaves on disk.
SuspendAll(s) ==
  [NewExt EXCEPT !.ending = ext[s].ending \cup
     {Ending(q, "creating", FALSE) : q \in {p \in Questions : ext[s].entry[p] = "creating"}}]
CleanupAll(s) == [q \in Questions |-> IF disk[q].owner = s THEN NoDirectory ELSE disk[q]]

\* The session is reloaded (suspendAll), quits (cleanupAll) or crashes.
Restart(s, how) ==
  /\ upsets < MaxUpsets
  /\ count' = [count EXCEPT !.reloads = @ + 1]
  /\ wire' = [wire EXCEPT ![s] = NoWire]
  /\ ext' = [ext EXCEPT ![s] = IF how = "reload" THEN SuspendAll(s) ELSE NewExt]
  /\ disk' = IF how = "quit" THEN CleanupAll(s) ELSE disk
  /\ UNCHANGED <<row, relayState, host, runs, ready>>

-----------------------------------------------------------------------------

Init ==
  /\ row = [q \in Questions |-> "pending"]
  /\ active = [q \in Questions |-> Inactive]
  /\ pending = {} /\ retained = {} /\ ready = {}
  /\ deferred = [q \in Questions |-> Nobody]
  /\ host = [s \in Sessions |-> NewHost(0)]
  /\ wire = [s \in Sessions |-> NoWire]
  /\ ext = [s \in Sessions |-> NewExt]
  /\ disk = [q \in Questions |-> NoDirectory]
  /\ runs = [c \in Questions \X CommandIds |-> <<>>]
  /\ count = [calls |-> 0, conns |-> 0, moves |-> 0, restarts |-> 0, reloads |-> 0]

Http == \E q \in Questions :
          \/ Activate(q)
          \/ \E id \in CommandIds \cup {NoCommandId} : BrowserCommand(q, id)
          \/ \E told \in BOOLEAN : CloseQuestion(q, told)
          \/ WithdrawQuestion(q)
          \/ MoveQuestion(q)

Server(s) == \/ ServerRegister(s) \/ ServerOffer(s) \/ ServerComplete(s)
             \/ ServerReconciled(s) \/ ServerResult(s)

Client(s) == \/ Registered(s) \/ Reconcile(s) \/ ClientCleanup(s) \/ ActivateHere(s) \/ Execute(s)
             \/ \E v \in ext[s].verdicts, status \in {"recovered", "failed", "deleted"} : Conclude(s, v, status)
             \/ \E m \in ext[s].activations : FinishActivation(s, m)
             \/ \E m \in ext[s].commands : FinishCommand(s, m)

Registry(s) == \/ \E q \in Questions, ok \in BOOLEAN : CreationEnds(s, q, ok) \/ RecoveryEnds(s, q, ok)
               \/ \E z \in ext[s].ending, ok \in BOOLEAN : EndingEnds(s, z, ok)
               \/ \E q \in Questions : TombstoneExpires(s, q)
               \/ \E c \in ext[s].outcomes : OutcomeForgotten(s, c)

Fault(s) == \/ Connect(s) \/ LinkLost(s) \/ Unbind(s)
            \/ \E how \in {"reload", "quit", "crash"} : Restart(s, how)

Next ==
  \/ Http
  \/ \E p \in pending : Timeout(p)
  \/ \E c \in retained : RelayForgets(c)
  \/ ServerRestart
  \/ \E s \in Sessions : Server(s) \/ Client(s) \/ Registry(s) \/ Fault(s)

Spec == Init /\ [][Next]_vars

-----------------------------------------------------------------------------
(* Properties *)

\* Nothing is under way between the server and session s, or in its registry.
Quiet(s) ==
  /\ Reached(s)
  /\ wire[s].up = <<>> /\ wire[s].down = <<>>
  /\ pending = {}
  /\ ext[s].activations = {} /\ ext[s].commands = {} /\ ext[s].verdicts = {} /\ ext[s].ending = {}
  /\ \A q \in Questions : ext[s].entry[q] \in {"none", "ready"}

\* The recovery conversation of a connection comes to its end: no session is
\* left "still recovering" when nothing more is going to be said about it.
RecoveryConcludes == \A s \in Sessions : Quiet(s) => ~host[s].reconciling

\* A private chat does not outlive its Question: once everything has settled on
\* a session, it has neither a runtime nor a directory for a Question that was
\* answered, cancelled or expired; and a chat that was cleaned up is never taken
\* for a running one again by the activation or recovery that was under way at
\* that moment.
NoChatResidue ==
  \A s \in Sessions, q \in Questions :
    Quiet(s) /\ row[q] = "resolved" => ext[s].entry[q] = "none" /\ disk[q].owner # s
CleanedUpStaysDown == \A s \in Sessions : ext[s].live \cap ext[s].dead = {}
ChatGoesAway == NoChatResidue /\ CleanedUpStaysDown

\* A browser is told that a chat is ready, or that a send or stop was accepted,
\* only while the Question is pending; and a send or stop that was accepted has
\* been executed, for this call or for an earlier one with its id.
SuccessIsTrue ==
  [][\A p \in pending : p.cid \in ready' \ ready =>
       /\ row[p.q] = "pending"
       /\ p.type = "command" /\ p.id # NoCommandId => runs[<<p.q, p.id>>] # <<>>]_vars

\* The id makes retries idempotent: a message or stop is executed again only
\* after the relay and the session have both forgotten every earlier execution.
ExecutedOnce ==
  \A c \in DOMAIN runs : \A i, j \in DOMAIN runs[c] :
    i < j => LET run == <<c[1], c[2], runs[c][i]>>
             IN run \notin retained /\ run \notin ext[Source[c[1]]].outcomes
=============================================================================
