-------------------------- MODULE QuestionWorkflow --------------------------
(* QuestionWorkflowViewModel of the Android app: which Question is on screen   *)
(* while states of the server arrive over the stream, from fetches and from    *)
(* the copy a push left behind, and while answers, cancellations, dismissals   *)
(* and taps on notifications are under way.  The stream replays its last       *)
(* statuses to whoever collects it again.                                      *)
EXTENDS Naturals, Sequences, FiniteSets

CONSTANTS
  AppQuestions,  \* Questions
  None,
  ReplaySize,    \* statuses the stream replays, 16 in the code
  MaxVersions,   \* states of the server (model checking only)
  MaxVisits,     \* times the app comes to the foreground (model checking only)
  MaxCommands,   \* calls, taps and refreshes by the human (model checking only)
  MaxFrames,     \* events in flight on a connection (model checking only)
  MaxBreaks      \* connections that break (model checking only)

ASSUME WorkflowAssumption ==
  /\ {None, "queue", "unset"} \cap AppQuestions = {}   \* what the navigation can be at, besides
  /\ {ReplaySize, MaxVersions, MaxVisits, MaxCommands, MaxFrames, MaxBreaks} \subseteq Nat \ {0}

VARIABLES
  history,  \* what was pending at the server, one entry for each change
  screen,   \* the state of the view model
  feed,     \* the connection of the state stream, and what it replays
  prefetch, \* the version a push fetched into the cache, or 0
  appCalls, \* coroutines that wait for the server
  resolvedHere, \* Questions resolved by a call of this app
  workflowBounds

workflowVars == <<history, screen, feed, prefetch, appCalls, resolvedHere, workflowBounds>>

Now == Len(history)
Pending(version) == IF version = 0 THEN {} ELSE history[version]

Nobody == [question |-> None, busy |-> FALSE, over |-> FALSE]
NoMessage == [question |-> None, kind |-> "none"]
Status(kind, version) == [kind |-> kind, version |-> version]

Within(bound, max) ==
  workflowBounds[bound] < max /\ workflowBounds' = [workflowBounds EXCEPT ![bound] = @ + 1]

WorkflowInit ==
  /\ \E first \in SUBSET AppQuestions : history = <<first>>
  /\ screen = [started |-> FALSE, blocked |-> FALSE, version |-> 0, sure |-> FALSE, nav |-> "unset",
               visible |-> Nobody, tapped |-> None, message |-> NoMessage]
  /\ feed = [on |-> FALSE, open |-> FALSE, frames |-> <<>>, last |-> 0,
               replay |-> <<Status("connecting", 0)>>]
  /\ prefetch = 0
  /\ appCalls = {}
  /\ resolvedHere = {}
  /\ workflowBounds = [visits |-> 0, commands |-> 0, breaks |-> 0]

-----------------------------------------------------------------------------
\* applySnapshot

\* A fetch clears the message about the last Question; other states keep it.
Ordinary == [prefer |-> FALSE, force |-> None, over |-> FALSE, message |-> NoMessage]
Keeping(view) == [Ordinary EXCEPT !.message = view.message]

\* The Question that was open was resolved by somebody else.
ResolvedElsewhere(view, how, previous, pending) ==
  /\ how.force = None /\ ~how.over /\ ~how.prefer
  /\ previous # Nobody /\ ~previous.over /\ ~previous.busy
  /\ view.nav = previous.question /\ previous.question \notin pending

\* The Question to show: a forced one, the tapped one, none when the human is
\* done with one, the one on screen.
Requested(view, how, previous, elsewhere, tapped) ==
  CASE how.force # None -> how.force
    [] how.force = None /\ tapped # None -> tapped
    [] how.force = None /\ tapped = None /\ (how.prefer \/ elsewhere) -> None
    [] OTHER -> IF view.nav \in AppQuestions THEN view.nav ELSE previous.question

SlipShows(view) == TRUE
Shows(view) == ~view.blocked

\* The human who looks at the queue stays there.
SlipStaysInQueue(view) == view.nav = "unset"
StaysInQueue(view) == view.nav = "queue"

\* `first` is the oldest pending Question, None when there is none.
Apply(view, version, previous, how, first) ==
  LET pending == Pending(version)
      elsewhere == ResolvedElsewhere(view, how, previous, pending)
      staleTap == view.tapped # None /\ view.tapped \notin pending
      tapped == IF staleTap THEN None ELSE view.tapped
      requested == Requested(view, how, previous, elsewhere, tapped)
      found == IF requested \in pending THEN requested
               ELSE IF requested = None /\ ~elsewhere /\ ~staleTap THEN first ELSE None
      opened == tapped # None /\ found = tapped
      visible == IF found # None THEN [question |-> found, busy |-> FALSE, over |-> how.over]
                 ELSE IF how.over /\ how.force # None /\ how.force = previous.question
                 THEN [previous EXCEPT !.busy = FALSE, !.over = TRUE] ELSE Nobody
      orQueue(question) == IF question = None THEN "queue" ELSE question
      nav == CASE elsewhere \/ (staleTap /\ how.force = None) -> "queue"
               [] how.prefer \/ how.force # None \/ opened -> orQueue(visible.question)
               [] StaysInQueue(view) -> "queue"
               [] OTHER -> orQueue(found)
  IN IF ~Shows(view) THEN view
     ELSE [view EXCEPT !.version = version, !.nav = nav, !.visible = visible,
                       !.tapped = IF opened THEN None ELSE tapped,
                       !.message = IF elsewhere THEN [question |-> previous.question, kind |-> "elsewhere"]
                                   ELSE how.message]

\* Questions are sorted by age; which one that is does not matter here.
Firsts(version) == IF Pending(version) = {} THEN {None} ELSE Pending(version)

\* hardBlockForMismatch
Blocked(view) ==
  [view EXCEPT !.blocked = TRUE, !.started = FALSE, !.nav = "unset", !.visible = Nobody]

\* handleStreamStatus: every status that carries a state is applied.
Handle(view, status, first) ==
  IF status.kind = "incompatible" THEN Blocked(view)
  ELSE IF status.version = 0 THEN view
  ELSE Apply([view EXCEPT !.sure = @ \/ status.kind = "connected"], status.version, view.visible, Keeping(view), first)

-----------------------------------------------------------------------------
\* PostboxStateStream

Replayed(status) ==
  LET all == Append(feed.replay, status) IN
  IF Len(all) > ReplaySize THEN Tail(all) ELSE all

\* emitStatus, to a view model that collects it.
EmitStatus(status, changed) ==
  /\ feed' = [changed EXCEPT !.replay = Replayed(status)]
  /\ \E first \in Firsts(status.version) : screen' = Handle(screen, status, first)

Loop == IF feed.last = 0 THEN Status("connecting", 0) ELSE Status("reconnecting", feed.last)

\* The server sends the current state first.
FeedOpens ==
  /\ feed.on /\ ~feed.open
  /\ EmitStatus(Loop, [feed EXCEPT !.open = TRUE, !.frames = <<Now>>])
  /\ UNCHANGED <<history, prefetch, appCalls, resolvedHere, workflowBounds>>

StateEvent ==
  /\ feed.frames # <<>>
  /\ EmitStatus(Status("connected", Head(feed.frames)),
          [feed EXCEPT !.last = Head(feed.frames), !.frames = Tail(@)])
  /\ UNCHANGED <<history, prefetch, appCalls, resolvedHere, workflowBounds>>

FeedBreaks ==
  /\ feed.open
  /\ Within("breaks", MaxBreaks)
  /\ EmitStatus(Status("reconnecting", feed.last), [feed EXCEPT !.open = FALSE, !.frames = <<>>])
  /\ UNCHANGED <<history, prefetch, appCalls, resolvedHere>>

\* close of the stream leaves a status for the next collector.
FeedClosed(changed) ==
  feed' = [changed EXCEPT !.on = FALSE, !.open = FALSE, !.frames = <<>>, !.last = 0,
                            !.replay = Replayed(Status("disconnected", feed.last))]

\* The server was updated meanwhile, and speaks another protocol.
FoundIncompatible == screen' = Blocked(screen) /\ FeedClosed(feed)

ServerIncompatible ==
  /\ feed.on /\ ~feed.open
  /\ FoundIncompatible
  /\ UNCHANGED <<history, prefetch, appCalls, resolvedHere, workflowBounds>>

-----------------------------------------------------------------------------
\* The server

\* broadcast: a change, or anything else the dashboards are told about.
Broadcast(pending) ==
  /\ Len(feed.frames) < MaxFrames
  /\ history' = IF pending = history[Now] THEN history ELSE Append(history, pending)
  /\ feed' = IF feed.open THEN [feed EXCEPT !.frames = Append(@, Len(history'))] ELSE feed

QueueChanges ==
  /\ Now < MaxVersions
  /\ \E q \in AppQuestions :
       \/ q \notin UNION {Pending(v) : v \in 1..Now} /\ Broadcast(history[Now] \cup {q})
       \/ q \in history[Now] /\ Broadcast(history[Now] \ {q})
  /\ UNCHANGED <<screen, prefetch, appCalls, resolvedHere, workflowBounds>>

Rebroadcast ==
  /\ feed.open /\ Broadcast(history[Now])
  /\ UNCHANGED <<screen, prefetch, appCalls, resolvedHere, workflowBounds>>

\* A push made the app fetch the state while it was in the background.
Prefetched ==
  /\ ~screen.started
  /\ prefetch' = Now
  /\ UNCHANGED <<history, screen, feed, appCalls, resolvedHere, workflowBounds>>

-----------------------------------------------------------------------------
\* The human

\* start: the prefetched state, then the statuses the stream replays.
AfterReplay(view, firsts) ==
  LET after[i \in 0..Len(feed.replay)] ==
        IF i = 0 THEN view
        ELSE LET status == feed.replay[i] IN Handle(after[i - 1], status, firsts[status.version])
  IN after[Len(feed.replay)]

StartView ==
  /\ ~screen.started /\ ~screen.blocked
  /\ Within("visits", MaxVisits)
  /\ feed' = [feed EXCEPT !.on = TRUE, !.replay = Replayed(Status("connecting", 0))]
  /\ \E firsts \in [0..Now -> AppQuestions \cup {None}] :
       /\ \A v \in 0..Now : firsts[v] \in Firsts(v)
       /\ LET begun == [screen EXCEPT !.started = TRUE]
              shown == IF prefetch = 0 THEN begun
                       ELSE Apply(begun, prefetch, begun.visible, Keeping(begun), firsts[prefetch]) IN
          screen' = AfterReplay(shown, firsts)
  /\ UNCHANGED <<history, prefetch, appCalls, resolvedHere>>

CloseView ==
  /\ screen.started
  /\ screen' = [screen EXCEPT !.started = FALSE]
  /\ FeedClosed(feed)
  /\ UNCHANGED <<history, prefetch, appCalls, resolvedHere, workflowBounds>>

ShowQueue ==
  /\ screen.started /\ screen.nav # "queue"
  /\ screen' = [screen EXCEPT !.nav = "queue", !.message = NoMessage]
  /\ UNCHANGED <<history, feed, prefetch, appCalls, resolvedHere, workflowBounds>>

OpenQuestion(q) ==
  /\ screen.started /\ q \in Pending(screen.version)
  /\ screen.nav # q \/ screen.visible.question # q
  /\ screen' = [screen EXCEPT !.nav = q, !.message = NoMessage,
                              !.visible = [question |-> q, busy |-> FALSE, over |-> FALSE]]
  /\ UNCHANGED <<history, feed, prefetch, appCalls, resolvedHere, workflowBounds>>

-----------------------------------------------------------------------------
\* Calls: to the server first, except for a refresh, and then for its state.

AppCall(kind, q, previous) ==
  [kind |-> kind, question |-> q, previous |-> previous, stage |-> "sent", version |-> 0]

Begin(call) == Within("commands", MaxCommands) /\ call \notin appCalls /\ appCalls' = appCalls \cup {call}

Refresh(previous) == [AppCall("refresh", None, previous) EXCEPT !.stage = "fetching"]

RefreshQuestions ==
  /\ screen.started /\ \A c \in appCalls : c.kind # "refresh"
  /\ Begin(Refresh(screen.visible))
  /\ UNCHANGED <<history, screen, feed, prefetch, resolvedHere>>

\* openQuestionFromNotification: a Question that is not known to be pending is
\* looked for in the next state, and a state is fetched.
Tap(q) ==
  LET waiting == [screen EXCEPT !.nav = "queue", !.message = NoMessage, !.tapped = q] IN
  /\ screen.started
  /\ IF screen.sure
     THEN /\ screen' = waiting
          /\ Begin(Refresh(Nobody))
     ELSE /\ Within("commands", MaxCommands)
          /\ screen' = IF q \in Pending(screen.version)
                       THEN Apply(waiting, screen.version, screen.visible, [Ordinary EXCEPT !.force = q], q)
                       ELSE waiting
          /\ UNCHANGED appCalls
  /\ UNCHANGED <<history, feed, prefetch, resolvedHere>>

\* submitAnswer and cancelQuestion
Submit(kind) ==
  /\ ~screen.blocked /\ screen.started
  /\ screen.visible # Nobody /\ ~screen.visible.busy /\ ~screen.visible.over
  /\ screen' = [screen EXCEPT !.visible.busy = TRUE]
  /\ Begin(AppCall(kind, screen.visible.question, screen.visible))
  /\ UNCHANGED <<history, feed, prefetch, resolvedHere>>

Dismiss(q) ==
  /\ screen.started /\ q \in Pending(screen.version)
  /\ \A c \in appCalls : c.kind # "dismiss"
  /\ Begin(AppCall("dismiss", q, Nobody))
  /\ UNCHANGED <<history, screen, feed, prefetch, resolvedHere>>

Step(c, changed) == appCalls' = (appCalls \ {c}) \cup {changed}

\* The server takes the call, or answers 409: the Question is resolved, or has a
\* revision the human has not seen.
ServerTakes(c) ==
  /\ c.stage = "sent"
  /\ \/ /\ c.question \in history[Now]
        /\ Broadcast(history[Now] \ {c.question})
        /\ resolvedHere' = resolvedHere \cup {c.question}
        /\ Step(c, [c EXCEPT !.stage = "taken"])
     \/ /\ c.question \notin history[Now]
        /\ Step(c, [c EXCEPT !.stage = "refused"])
        /\ UNCHANGED <<history, feed, resolvedHere>>
     \/ /\ c.kind = "answer" /\ c.question \in history[Now]
        /\ Step(c, [c EXCEPT !.stage = "outdated"])
        /\ UNCHANGED <<history, feed, resolvedHere>>
  /\ UNCHANGED <<screen, prefetch, workflowBounds>>

\* The response arrives; refreshState follows.
Answered(c) ==
  /\ c.stage \in {"taken", "refused", "outdated"}
  /\ Step(c, [c EXCEPT !.stage = "fetching",
                       !.kind = CASE c.stage = "taken" -> c.kind
                                  [] c.kind = "dismiss" -> "refresh"
                                  [] OTHER -> c.stage,
                       !.question = IF c.kind = "dismiss" /\ (c.stage = "refused" \/ screen.nav # c.question)
                                    THEN None ELSE @,
                       !.previous = IF c.kind = "dismiss" THEN screen.visible ELSE @])
  /\ UNCHANGED <<history, screen, feed, prefetch, resolvedHere, workflowBounds>>

\* showSubmissionError: the call or its response is lost; or the response shows that
\* the server speaks another protocol.
CallFails(c) ==
  /\ c.stage \in {"sent", "taken", "refused", "outdated"}
  /\ Within("breaks", MaxBreaks)
  /\ appCalls' = appCalls \ {c}
  /\ \/ /\ screen' = IF c.kind = "dismiss" THEN screen ELSE [screen EXCEPT !.visible.busy = FALSE]
        /\ UNCHANGED feed
     \/ ~screen.blocked /\ FoundIncompatible
  /\ UNCHANGED <<history, prefetch, resolvedHere>>

FetchServed(c) ==
  /\ c.stage = "fetching"
  /\ Step(c, [c EXCEPT !.stage = "served", !.version = Now])
  /\ UNCHANGED <<history, screen, feed, prefetch, resolvedHere, workflowBounds>>

\* What each call does with the state it fetched (refreshState).
How(c) ==
  CASE c.kind = "refresh" -> Ordinary
    [] c.kind \in {"answer", "dismiss"} -> [Ordinary EXCEPT !.prefer = c.question # None]
    [] c.kind = "outdated" -> [Ordinary EXCEPT !.force = c.question]
    [] OTHER -> [prefer |-> FALSE, force |-> c.question, over |-> TRUE,
                 message |-> [question |-> c.question, kind |-> c.kind]]

FetchReturns(c) ==
  /\ c.stage = "served"
  /\ appCalls' = appCalls \ {c}
  /\ \E first \in Firsts(c.version) :
       screen' = Apply([screen EXCEPT !.sure = TRUE], c.version, c.previous, How(c), first)
  /\ UNCHANGED <<history, feed, prefetch, resolvedHere, workflowBounds>>

\* A fetch that fails, or finds that the server speaks another protocol.
FetchFails(c) ==
  /\ c.stage = "fetching"
  /\ Within("breaks", MaxBreaks)
  /\ appCalls' = appCalls \ {c}
  /\ \/ UNCHANGED <<screen, feed>>
     \/ ~screen.blocked /\ FoundIncompatible
  /\ UNCHANGED <<history, prefetch, resolvedHere>>

WorkflowNext ==
  \/ QueueChanges \/ Rebroadcast \/ Prefetched
  \/ FeedOpens \/ StateEvent \/ FeedBreaks \/ ServerIncompatible
  \/ StartView \/ CloseView \/ ShowQueue \/ RefreshQuestions
  \/ Submit("answer") \/ Submit("cancel")
  \/ \E q \in AppQuestions : OpenQuestion(q) \/ Tap(q) \/ Dismiss(q)
  \/ \E c \in appCalls : ServerTakes(c) \/ Answered(c) \/ CallFails(c)
                      \/ FetchServed(c) \/ FetchReturns(c) \/ FetchFails(c)

WorkflowSpec == WorkflowInit /\ [][WorkflowNext]_workflowVars

-----------------------------------------------------------------------------
\* The Question the human can act on is the one the navigation says is open and
\* the state on display calls pending; nothing of a server that speaks another
\* protocol is shown, whatever was in flight (applySnapshot, hardBlockForMismatch).
ScreenIsCoherent ==
  /\ screen.nav \in AppQuestions => screen.visible.question = screen.nav
  /\ screen.visible # Nobody /\ ~screen.visible.over => screen.visible.question \in Pending(screen.version)
  /\ screen.blocked => screen.visible = Nobody /\ screen.nav \notin AppQuestions

\* The stream never takes the human to a Question that was not asked for: to
\* the tapped one, or to the first of the visit (applySnapshot).
OpenedForAReason ==
  [][appCalls' = appCalls /\ feed' # feed /\ screen'.nav \in AppQuestions /\ screen'.nav # screen.nav
       => screen'.nav = screen.tapped \/ screen.nav = "unset"]_workflowVars

\* "Local submits and cancels never take this path": a Question this app has
\* resolved is not reported as resolved elsewhere (applySnapshot).
OwnIsNotElsewhere == screen.message.kind = "elsewhere" => screen.message.question \notin resolvedHere

\* The state a push fetched is shown "immediately so an open-from-notification
\* never shows the previous visit's stale queue" (start).
StartsCurrent ==
  [][screen'.started /\ ~screen.started => screen'.version >= prefetch]_workflowVars
=============================================================================
