------------------------------ MODULE ChatStream ------------------------------
(* How a browser follows a private chat: the runtime in the extension numbers *)
(* its events (ManagedQuestionChatRuntime), the relay passes them on to the   *)
(* event streams of the Question (publishEvent, publishTransport), and the    *)
(* browser joins a snapshot, fetched through the same relay, with the events  *)
(* buffered meanwhile (questionChatLifecycle.svelte.ts).  Who may have a chat *)
(* and how it ends is in QuestionChat; here it exists, for one browser.       *)
EXTENDS Integers, Sequences

CONSTANTS
  MaxEvents,     \* numbered events (model checking only)
  MaxSends,      \* messages of the browser (model checking only)
  MaxLosses,     \* lost connections, of the extension or the stream (model checking only)
  Takeover       \* the extension may be back before the server noticed it was gone

ASSUME StreamAssumption ==
  MaxEvents \in Nat /\ MaxSends \in Nat /\ MaxLosses \in Nat /\ Takeover \in BOOLEAN

VARIABLES
  turn,        \* the runtime: its state and the flags of the turn under way
  sdk,         \* the model session: "idle", "accepted", "running" or "answering"
  prompting,   \* a prompt before its preflight: "no", "turn" or "steer"
  aborting,    \* stop awaits session.abort
  sequence,    \* the number of the last event, which is on disk
  link,        \* the extension's connection: "up", "recovering", "lost" or "down"
  wire,        \* from the extension to the server: numbers and snapshots
  stream,      \* the event stream of the browser, and what is on its way there
  request,     \* the browser's snapshot request
  view,        \* what the browser shows
  sync,        \* synchronize under way, with its buffer
  sent,        \* the browser's message, from composer to answer
  own,         \* the events that carry a message of the browser, which shows it already
  sends, losses

streamVars == <<turn, sdk, prompting, aborting, sequence, link, wire, stream, request,
                view, sync, sent, own, sends, losses>>
runtime == <<turn, sdk, prompting, aborting>>
browser == <<request, view, sync>>
streamBounds == <<own, sends, losses>>

\* Definitions named Slip... are faulty variants of the one that follows, used
\* by no specification: a property has to notice each of them.

Fresh == [state |-> "ready", active |-> FALSE, stop |-> FALSE, told |-> FALSE, error |-> FALSE]
NoSync == [stage |-> "none", again |-> FALSE, buffer |-> <<>>]
NoView == [kind |-> "none", seq |-> 0, seen |-> {}, connection |-> "online"]
Closed == [open |-> FALSE, frames |-> <<>>]
Asks(state, n) == [state |-> state, number |-> n]     \* of the snapshot request
NoRequest == Asks("none", 0)
Signal(type, n) == [type |-> type, number |-> n]      \* on the wire and in the stream

StreamInit ==
  /\ turn = Fresh /\ sdk = "idle" /\ prompting = "no" /\ aborting = FALSE
  /\ sequence = 0 /\ link = "up" /\ wire = <<>>
  /\ stream = Closed /\ request = NoRequest /\ view = NoView /\ sync = NoSync
  /\ sent = "no" /\ own = {} /\ sends = 0 /\ losses = 0

-----------------------------------------------------------------------------
(* The runtime.  emit saves the number before anybody hears of it; the client *)
(* sends what it can.                                                        *)

Forwarded(n) ==
  IF link \in {"up", "recovering"}
  THEN wire \o [i \in 1..n |-> Signal("event", sequence + i)]
  ELSE wire
Emit(n) ==
  /\ sequence + n <= MaxEvents /\ sequence' = sequence + n
  /\ wire' = Forwarded(n)

Steers == turn.state = "generating" /\ (turn.active \/ sdk # "idle")

\* send, up to the preflight of the prompt.
RuntimeSend ==
  /\ sent = "there"
  /\ IF prompting # "no" \/ turn.state \in {"stopping", "stopped", "interrupted"}
        \/ (turn.state = "generating" /\ ~Steers)
     THEN sent' = "refused" /\ UNCHANGED prompting
     ELSE sent' = "prompting" /\ prompting' = IF Steers THEN "steer" ELSE "turn"
  /\ UNCHANGED <<turn, sdk, aborting, sequence, link, wire, stream, browser, streamBounds>>

\* startTurn's preflightResult, and the rest of send.  Its result is dropped if the
\* connection was lost meanwhile, and the turn goes on.
SendResult(result) == sent' = IF sent = "prompting" THEN result ELSE sent
Accepted ==
  /\ prompting # "no" /\ prompting' = "no" /\ SendResult("accepted")
  /\ own' = own \cup {sequence + 1}
  /\ sdk' = IF sdk = "idle" THEN "accepted" ELSE sdk
  /\ IF prompting = "turn"
     THEN Emit(2) /\ turn' = [turn EXCEPT !.active = TRUE, !.state = "generating"]
     ELSE Emit(1) /\ UNCHANGED turn
  /\ UNCHANGED <<aborting, link, stream, browser, sends, losses>>

PromptRejected ==
  /\ prompting # "no" /\ prompting' = "no" /\ SendResult("refused")
  /\ UNCHANGED <<turn, sdk, aborting, sequence, link, wire, stream, browser, streamBounds>>

RuntimeStop ==
  /\ prompting = "no" /\ turn.state = "generating" /\ (turn.active \/ sdk # "idle") /\ ~aborting
  /\ Emit(1) /\ aborting' = TRUE
  /\ turn' = [turn EXCEPT !.state = "stopping", !.stop = TRUE, !.told = FALSE]
  /\ UNCHANGED <<sdk, prompting, link, stream, browser, sent, streamBounds>>

\* session.abort ends, or throws while the response goes on.
AbortEnds ==
  /\ aborting /\ aborting' = FALSE
  /\ \/ sdk = "idle" /\ UNCHANGED <<turn, sequence, wire>>
     \/ /\ sdk # "idle" /\ turn.state = "stopping" /\ Emit(1)
        /\ turn' = [turn EXCEPT !.stop = FALSE, !.state = "generating"]
  /\ UNCHANGED <<sdk, prompting, link, stream, browser, sent, streamBounds>>

(* onSessionEvent.                                                           *)

AgentStart ==
  /\ sdk = "accepted" /\ sdk' = "running"
  /\ IF prompting = "no" /\ turn.state \notin {"generating", "stopping"}
     THEN Emit(1) /\ turn' = [turn EXCEPT !.state = "generating"]
     ELSE UNCHANGED <<turn, sequence, wire>>
  /\ UNCHANGED <<prompting, aborting, link, stream, browser, sent, streamBounds>>

\* message_start; text and tool events change no flag.
MessageStart ==
  /\ sdk = "running" /\ sdk' = "answering" /\ Emit(1)
  /\ UNCHANGED <<turn, prompting, aborting, link, stream, browser, sent, streamBounds>>

MessageEnd ==
  /\ sdk = "answering" /\ sdk' = "running"
  /\ \/ /\ turn.stop \/ aborting
        /\ Emit(2) /\ turn' = [turn EXCEPT !.state = "stopped", !.told = TRUE]
     \/ ~turn.stop /\ Emit(1) /\ UNCHANGED turn
     \/ /\ ~turn.stop /\ turn' = [turn EXCEPT !.error = TRUE]
        /\ UNCHANGED <<sequence, wire>>
  /\ UNCHANGED <<prompting, aborting, link, stream, browser, sent, streamBounds>>

AgentEnd ==
  /\ sdk = "running" /\ turn.error
  /\ \/ Emit(1) /\ turn' = [turn EXCEPT !.error = FALSE]                   \* willRetry
     \/ Emit(2) /\ turn' = [turn EXCEPT !.error = FALSE, !.state = "interrupted"]
  /\ UNCHANGED <<sdk, prompting, aborting, link, stream, browser, sent, streamBounds>>

\* agent_settled: the outcome of a stop that no message carried, then ready.
Silent == IF turn.stop /\ ~turn.told THEN IF sdk = "answering" THEN 2 ELSE 1 ELSE 0

AgentSettled ==
  /\ sdk \in {"running", "answering"} /\ sdk' = "idle"
  /\ Emit(Silent + (IF turn.state # "ready" \/ Silent > 0 THEN 1 ELSE 0)) /\ turn' = Fresh
  /\ UNCHANGED <<prompting, aborting, link, stream, browser, sent, streamBounds>>

\* The prompt fails after it was accepted: send's own handler of completion.
CompletionFails ==
  /\ sdk = "accepted" /\ sdk' = "idle"
  /\ IF turn.state # "ready"
     THEN Emit(2) /\ turn' = [turn EXCEPT !.active = FALSE, !.state = "ready"]
     ELSE UNCHANGED <<turn, sequence, wire>>
  /\ UNCHANGED <<prompting, aborting, link, stream, browser, sent, streamBounds>>

-----------------------------------------------------------------------------
(* The connection of the extension, and the relay.                           *)

Frame(f) == stream' = IF stream.open THEN [stream EXCEPT !.frames = Append(@, f)] ELSE stream

\* The server reads the next message of the extension.
Relay ==
  /\ link \in {"up", "recovering"} /\ wire # <<>> /\ wire' = Tail(wire)
  /\ IF Head(wire).type = "event"
     THEN Frame(Head(wire)) /\ UNCHANGED request
     ELSE request' = Asks("answered", Head(wire).number) /\ UNCHANGED stream
  /\ UNCHANGED <<runtime, sequence, link, view, sync, sent, streamBounds>>

FailSent == sent' = IF sent \in {"no", "sending"} THEN sent ELSE "refused"
FailRequest == request' = IF request.state = "asked" THEN Asks("failed", 0) ELSE request

\* close: unbind tells the streams.  With Takeover the server may not notice.
LinkGone ==
  /\ link \in {"up", "recovering"} /\ losses < MaxLosses /\ losses' = losses + 1
  /\ link' \in {"down"} \cup {l \in {"lost"} : Takeover /\ link = "up"}
  /\ IF link' = "down" THEN Frame(Signal("offline", 0)) ELSE UNCHANGED stream
  /\ wire' = <<>> /\ FailRequest /\ FailSent
  /\ UNCHANGED <<runtime, sequence, view, sync, own, sends>>

LinkBack ==
  /\ link \in {"down", "lost"} /\ link' = "recovering"
  /\ UNCHANGED <<runtime, sequence, wire, stream, browser, sent, streamBounds>>

\* chat.reconciled: restore publishes "online".
Restored ==
  /\ link = "recovering" /\ link' = "up" /\ Frame(Signal("online", 0))
  /\ UNCHANGED <<runtime, sequence, wire, browser, sent, streamBounds>>

\* chat.snapshot and its answer; refused while the extension is away.
SnapshotTaken ==
  /\ request.state = "wanted"
  /\ IF link = "up"
     THEN request' = Asks("asked", 0) /\ wire' = Append(wire, Signal("snapshot", sequence))
     ELSE request' = Asks("failed", 0) /\ UNCHANGED wire
  /\ UNCHANGED <<runtime, sequence, link, stream, view, sync, sent, streamBounds>>

-----------------------------------------------------------------------------
(* The browser.                                                              *)

\* synchronize: connect first, then fetch.  Nothing hears the stream before.
SlipSynchronize(v, again) ==
  /\ view' = v /\ sync' = [stage |-> "opening", again |-> again, buffer |-> <<>>]
  /\ stream' = Closed /\ request' = Asks("wanted", 0)
Synchronize(v, again) ==
  /\ view' = v /\ sync' = [stage |-> "opening", again |-> again, buffer |-> <<>>]
  /\ stream' = Closed /\ request' = NoRequest

\* activateWith or recover, once they have a snapshot.
Start ==
  /\ view.kind = "none" /\ link = "up"
  /\ Synchronize([NoView EXCEPT !.kind = "ready", !.seq = sequence, !.seen = 1..sequence], FALSE)
  /\ UNCHANGED <<runtime, sequence, link, wire, sent, streamBounds>>

\* The handler of the SSE route; subscribe tells of an extension that is away.
Subscribed == [open |-> TRUE, frames |-> IF link = "down" THEN <<Signal("offline", 0)>> ELSE <<>>]
Opened ==
  /\ sync.stage = "opening" /\ sync' = [sync EXCEPT !.stage = "fetching"]
  /\ stream' = Subscribed
  /\ request' = IF request = NoRequest THEN Asks("wanted", 0) ELSE request
  /\ UNCHANGED <<runtime, sequence, link, wire, view, sent, streamBounds>>

\* applyQuestionChatEvent
Applied(v, n) == [v EXCEPT !.seq = n, !.seen = @ \cup {n}]

\* applyEvent and applyStreamEvent: the view, and whether to synchronize again.
Outcome(v, f) ==
  LET hold == [view |-> v, again |-> FALSE]
      stale == [view |-> [v EXCEPT !.connection = "stale"], again |-> TRUE]
  IN IF f.type = "offline" THEN [hold EXCEPT !.view.connection = "offline"]
     ELSE IF f.type = "online" THEN IF v.connection = "online" THEN hold ELSE stale
     ELSE IF f.number <= v.seq THEN hold
     ELSE IF f.number > v.seq + 1 THEN stale
     ELSE IF v.connection # "online" THEN hold
     ELSE [hold EXCEPT !.view = Applied(v, f.number)]

\* Frames that came before the snapshot are sorted, which puts those about the
\* transport first; a synchronization they ask for is refused while this one is
\* a resynchronization.
Transport(f) == f.type # "event"
ApplyThose(fs, transport, start) ==
  LET run[n \in 0..Len(fs)] ==
        IF n = 0 THEN start
        ELSE IF Transport(fs[n]) # transport THEN run[n - 1]
        ELSE LET next == Outcome(run[n - 1].view, fs[n])
             IN [next EXCEPT !.again = @ \/ run[n - 1].again]
  IN run[Len(fs)]
ApplyAll(fs, v) == ApplyThose(fs, FALSE, ApplyThose(fs, TRUE, [view |-> v, again |-> FALSE]))

Settled(o) ==
  IF o.again /\ ~sync.again
  THEN Synchronize(o.view, TRUE)
  ELSE view' = o.view /\ sync' = NoSync /\ request' = NoRequest /\ UNCHANGED stream

Fetched ==
  /\ sync.stage = "fetching" /\ request.state = "answered"
  /\ Settled(ApplyAll(sync.buffer,
       [kind |-> "ready", seq |-> request.number, seen |-> 1..request.number,
        connection |-> "online"]))
  /\ UNCHANGED <<runtime, sequence, link, wire, sent, streamBounds>>

\* The catch clauses: a first synchronization gives up, a later one leaves a
\* stream whose frames are buffered and never looked at.
SyncFails ==
  /\ \/ sync.stage = "fetching" /\ request.state = "failed"
     \/ sync.stage = "opening" /\ losses < MaxLosses
  /\ sync' = NoSync /\ request' = NoRequest
  /\ IF sync.again
     THEN view' = [view EXCEPT !.connection = "offline"]
     ELSE view' = [view EXCEPT !.kind = "unavailable"]
  /\ stream' = Closed
  /\ UNCHANGED <<runtime, sequence, link, wire, sent, streamBounds>>

\* The next frame of the stream.
Receive ==
  /\ stream.frames # <<>> /\ view.kind = "ready"
  /\ LET f == Head(stream.frames)
         o == Outcome(view, f)
         rest == [stream EXCEPT !.frames = Tail(@)]
     IN IF sync.stage # "none"
        THEN /\ sync' = [sync EXCEPT !.buffer = Append(@, f)]
             /\ stream' = rest /\ UNCHANGED <<view, request>>
        ELSE IF o.again THEN Synchronize(o.view, TRUE)
        ELSE view' = o.view /\ stream' = rest /\ UNCHANGED <<sync, request>>
  /\ UNCHANGED <<runtime, sequence, link, wire, sent, streamBounds>>

\* EventSource reconnects by itself; what was sent meanwhile is gone.
StreamBreaks ==
  /\ stream.open /\ losses < MaxLosses /\ losses' = losses + 1
  /\ stream' = [stream EXCEPT !.frames = <<Signal("offline", 0)>>]
  /\ UNCHANGED <<runtime, sequence, link, wire, browser, sent, own, sends>>

\* The Retry button.
Retry ==
  /\ sync.stage = "none"
  /\ \/ /\ view.kind = "ready" /\ view.connection # "online"
        /\ Synchronize([view EXCEPT !.connection = "stale"], TRUE)
     \/ /\ view.kind = "unavailable" /\ link = "up"
        /\ Synchronize([NoView EXCEPT !.kind = "ready", !.seq = sequence,
                        !.seen = 1..sequence, !.connection = "stale"], TRUE)
  /\ UNCHANGED <<runtime, sequence, link, wire, sent, streamBounds>>

\* send of QuestionChatActivation: the message is shown at once, as if it were
\* the next event, and posted.
BrowserSend ==
  /\ view.kind = "ready" /\ view.connection = "online" /\ sent = "no" /\ sends < MaxSends
  /\ sends' = sends + 1 /\ sent' = "sending"
  /\ view' = [view EXCEPT !.seq = @ + 1]
  /\ UNCHANGED <<runtime, sequence, link, wire, stream, request, sync, own, losses>>

\* The relay's preflight, dispatch and answer.
SendArrives ==
  /\ sent = "sending" /\ sent' = IF link = "up" THEN "there" ELSE "refused"
  /\ UNCHANGED <<runtime, sequence, link, wire, stream, browser, streamBounds>>

SendAnswered ==
  /\ sent \in {"accepted", "refused"} /\ sent' = "no"
  /\ UNCHANGED <<runtime, sequence, link, wire, stream, browser, streamBounds>>

StreamNext ==
  \/ RuntimeSend \/ Accepted \/ PromptRejected \/ RuntimeStop \/ AbortEnds
  \/ AgentStart \/ MessageStart \/ MessageEnd \/ AgentEnd \/ AgentSettled \/ CompletionFails
  \/ Relay \/ LinkGone \/ LinkBack \/ Restored \/ SnapshotTaken
  \/ Start \/ Opened \/ Fetched \/ SyncFails \/ Receive \/ StreamBreaks \/ Retry
  \/ BrowserSend \/ SendArrives \/ SendAnswered

StreamSpec == StreamInit /\ [][StreamNext]_streamVars

-----------------------------------------------------------------------------

\* Nothing is on its way between the runtime and the browser.
Quiet ==
  /\ wire = <<>> /\ stream.frames = <<>> /\ sync.stage = "none"
  /\ sent = "no" /\ link = "up"

\* A browser that says it is online is not behind the runtime once everything
\* sent has arrived, whatever was lost, buffered or fetched before that.
OnlineIsCurrent ==
  Quiet /\ view.kind = "ready" /\ view.connection = "online" => view.seq >= sequence

\* And it shows every event: none was taken for one it had already.
OnlineHasAll ==
  Quiet /\ view.kind = "ready" /\ view.connection = "online" =>
    1..sequence \subseteq view.seen \cup own
=============================================================================
