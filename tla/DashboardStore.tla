--------------------------- MODULE DashboardStore ---------------------------
(* The web dashboard's PostboxStore and question forms: which Question is on   *)
(* screen while states of the server arrive by events, by polling and by a     *)
(* fetch that callers share, while this tab resolves Questions itself and      *)
(* notifications are opened.  What the form shows of a Question is             *)
(* DecisionDesk's business.                                                    *)
EXTENDS Naturals, Sequences, FiniteSets, FiniteSetsExt

CONSTANTS
  MaxWebQuestions, \* Questions 1, 2, ... in the order of their creation
  MaxWebChanges,   \* states of the server (model checking only)
  MaxForms,        \* submissions by this tab (model checking only)
  MaxTaps,         \* notifications opened, and returns to the tab (model checking only)
  MaxInTransit,    \* events, or polls, under way at a time (model checking only)
  MaxWebFailures   \* connections and calls that fail (model checking only)

ASSUME DashboardAssumption ==
  {MaxWebQuestions, MaxWebChanges, MaxForms, MaxTaps, MaxInTransit, MaxWebFailures} \subseteq Nat

VARIABLES
  pendingAt,   \* what is pending at the server, one entry for each change
  store,       \* PostboxStore, with two histories: the newest state it ever had,
               \* and the Question that was on screen when the state could not be read
  eventSource,  \* the EventSource: whether it is connected, and the events under way
  loads,       \* fetches of the polling fallback
  shared,      \* snapshotLoadPromise, and who awaits it
  waiters,     \* snapshotWaiters
  forms,       \* resolveVia calls under way
  webBounds

dashboardVars == <<pendingAt, store, eventSource, loads, shared, waiters, forms, webBounds>>

WebQuestions == 1..MaxWebQuestions
Home == 0
Latest == Len(pendingAt)
NoFetch == [stage |-> "none", version |-> 0, joined |-> <<>>]

Counted(bound, max) == webBounds[bound] < max /\ webBounds' = [webBounds EXCEPT ![bound] = @ + 1]

DashboardInit ==
  /\ pendingAt = <<{}>>
  /\ store = [transport |-> "checking", status |-> "loading", version |-> 0, selection |-> Home,
              retained |-> Home, resolving |-> {}, syncing |-> TRUE, attempt |-> 0, form |-> 0,
              newest |-> 0, unread |-> Home]
  /\ eventSource = [open |-> FALSE, frames |-> <<>>]
  /\ loads = {}
  /\ shared = NoFetch
  /\ waiters = <<>>
  /\ forms = {}
  /\ webBounds = [forms |-> 0, taps |-> 0, failures |-> 0]

-----------------------------------------------------------------------------
\* The store

OpenRequests(s) == IF s.status = "ready" THEN pendingAt[s.version] ELSE {}

\* The form of a Question is mounted while the Question is selected and known.
Mounted(old, s) ==
  IF s.selection = old.selection /\ s.selection \in OpenRequests(s) \cup {s.retained} THEN s
  ELSE [s EXCEPT !.form = 0]

SelectedRequest(s, q) ==
  [s EXCEPT !.selection = q, !.retained = IF @ = q THEN @ ELSE Home, !.unread = Home]
Cleared(s) == SelectedRequest(s, Home)

SlipRouteAfterResolved(s) ==
  IF OpenRequests(s) = {} THEN s ELSE SelectedRequest(s, Min(OpenRequests(s)))
RouteAfterResolved(s) ==
  IF OpenRequests(s) = {} THEN Cleared(s) ELSE SelectedRequest(s, Min(OpenRequests(s)))

SlipResolvingHere(s) == FALSE
ResolvingHere(s) == s.selection \in s.resolving

\* applyStateSnapshot and deselectRemotelyResolvedRequest
StateApplied(s, version) ==
  LET wasKnown == s.selection \in OpenRequests(s) \cup {s.retained}
      next == [s EXCEPT !.version = version, !.status = "ready", !.syncing = FALSE,
                        !.newest = IF version > @ THEN version ELSE @] IN
  CASE s.selection = Home -> next
    [] s.selection \in pendingAt[version] -> [next EXCEPT !.retained = Home, !.unread = Home]
    [] s.selection \notin pendingAt[version] /\ ResolvingHere(s) ->
         [next EXCEPT !.retained = IF wasKnown THEN s.selection ELSE Home]
    [] OTHER -> IF wasKnown THEN RouteAfterResolved(next) ELSE next

Failed(s) == [s EXCEPT !.status = "error", !.syncing = FALSE, !.unread = s.selection]

-----------------------------------------------------------------------------
\* Those who await a snapshot

RefreshTask == [kind |-> "refresh", question |-> Home, id |-> 0]
TapTask(q, attempt) == [kind |-> "tap", question |-> q, id |-> attempt]
FormTask(q, id, stage) == [kind |-> stage, question |-> q, id |-> id]

\* endLocalResolve
Ended(s, task) == [s EXCEPT !.resolving = @ \ {task.question}, !.form = IF @ = task.id THEN 0 ELSE @]

\* A notification opened since then has taken over.
Superseded(task) == task.kind = "tap" /\ task.id # store.attempt

\* The rest of loadSnapshot, openRequestFromNotification and resolveVia.
Continued(s, task, arrived) ==
  CASE task.kind = "tap" ->
         IF task.id # s.attempt THEN s
         ELSE IF ~arrived THEN Cleared(Failed(s))
         ELSE IF task.question \in OpenRequests(s) THEN SelectedRequest(s, task.question) ELSE Cleared(s)
    [] task.kind = "answered" ->
         Ended(RouteAfterResolved(IF arrived THEN s ELSE Failed(s)), task)
    [] task.kind = "outdated" -> Ended(IF arrived THEN s ELSE Failed(s), task)
    [] task.kind = "refresh" -> IF arrived THEN s ELSE Failed(s)

\* In the order they began to wait.
Resumed(s, awaiting, arrived) ==
  LET after[n \in 0..Len(awaiting)] ==
        IF n = 0 THEN s ELSE Continued(after[n - 1], awaiting[n], arrived)
  IN after[Len(awaiting)]

\* requestSnapshot: a fetch that is under way is shared.
SharesFetch(task) ==
  shared' = IF shared.stage = "none" THEN [NoFetch EXCEPT !.stage = "sent", !.joined = <<task>>]
            ELSE [shared EXCEPT !.joined = Append(@, task)]

\* A snapshot reaches the store: those who wait for the next one go first.
Arrives(version, joined) ==
  /\ store' = Mounted(store, Resumed(Resumed(StateApplied(store, version), waiters, TRUE), joined, TRUE))
  /\ waiters' = <<>>

Fails(joined) ==
  /\ store' = Mounted(store, Resumed(Resumed(Failed(store), joined, FALSE), waiters, FALSE))
  /\ waiters' = <<>>

-----------------------------------------------------------------------------
\* The server

\* broadcast
Told(pending) ==
  /\ Len(eventSource.frames) < MaxInTransit
  /\ pendingAt' = Append(pendingAt, pending)
  /\ eventSource' = IF eventSource.open THEN [eventSource EXCEPT !.frames = Append(@, Len(pendingAt'))] ELSE eventSource

ServerChanged ==
  /\ Latest < MaxWebChanges
  /\ LET all == UNION {pendingAt[v] : v \in DOMAIN pendingAt} IN
     \/ Cardinality(all) < MaxWebQuestions /\ Told(pendingAt[Latest] \cup {Cardinality(all) + 1})
     \/ \E q \in pendingAt[Latest] : Told(pendingAt[Latest] \ {q})
  /\ UNCHANGED <<store, loads, shared, waiters, forms, webBounds>>

-----------------------------------------------------------------------------
\* start: health first, then events, and polling from the first error on.

HealthAnswers ==
  /\ store.transport = "checking"
  /\ \/ store' = [store EXCEPT !.transport = "events"] /\ UNCHANGED webBounds
     \/ /\ Counted("failures", MaxWebFailures)
        /\ store' = [store EXCEPT !.transport = "unavailable"]
  /\ UNCHANGED <<pendingAt, eventSource, loads, shared, waiters, forms>>

\* subscribe sends the current state; the EventSource reconnects by itself.
EventsOpen ==
  /\ store.transport \in {"events", "polling"} /\ ~eventSource.open
  /\ eventSource' = [open |-> TRUE, frames |-> <<Latest>>]
  /\ UNCHANGED <<pendingAt, store, loads, shared, waiters, forms, webBounds>>

Load == [stage |-> "sent", version |-> 0]

\* startPollingFallback: nothing ever stops it.
EventsBreak ==
  /\ store.transport \in {"events", "polling"}
  /\ Counted("failures", MaxWebFailures)
  /\ eventSource' = [open |-> FALSE, frames |-> <<>>]
  /\ store' = [store EXCEPT !.transport = "polling"]
  /\ loads' = IF store.transport = "events" THEN loads \cup {Load} ELSE loads
  /\ UNCHANGED <<pendingAt, shared, waiters, forms>>

StateArrives ==
  /\ eventSource.frames # <<>>
  /\ eventSource' = [eventSource EXCEPT !.frames = Tail(@)]
  /\ Arrives(Head(eventSource.frames), <<>>)
  /\ UNCHANGED <<pendingAt, loads, shared, forms, webBounds>>

Poll ==
  /\ store.transport = "polling" /\ Cardinality(loads) < MaxInTransit
  /\ loads' = loads \cup {Load}
  /\ UNCHANGED <<pendingAt, store, eventSource, shared, waiters, forms, webBounds>>

\* Fetches are answered, and arrive, in any order.
PollServed(l) ==
  /\ l.stage = "sent"
  /\ loads' = (loads \ {l}) \cup {[stage |-> "served", version |-> Latest]}
  /\ UNCHANGED <<pendingAt, store, eventSource, shared, waiters, forms, webBounds>>

PollReturns(l) ==
  /\ l.stage = "served" /\ loads' = loads \ {l}
  /\ Arrives(l.version, <<>>)
  /\ UNCHANGED <<pendingAt, eventSource, shared, forms, webBounds>>

PollFails(l) ==
  /\ Counted("failures", MaxWebFailures)
  /\ loads' = loads \ {l}
  /\ Fails(<<>>)
  /\ UNCHANGED <<pendingAt, eventSource, shared, forms>>

SharedServed ==
  /\ shared.stage = "sent"
  /\ shared' = [shared EXCEPT !.stage = "served", !.version = Latest]
  /\ UNCHANGED <<pendingAt, store, eventSource, loads, waiters, forms, webBounds>>

\* resolveVia calls that awaited it are over.
Leave(joined) == forms' = {f \in forms : \A i \in DOMAIN joined : joined[i].id # f.id \/ joined[i].kind # f.kind}

SharedReturns ==
  /\ shared.stage = "served" /\ shared' = NoFetch
  /\ Arrives(shared.version, shared.joined)
  /\ Leave(shared.joined)
  /\ UNCHANGED <<pendingAt, eventSource, loads, webBounds>>

SharedFails ==
  /\ shared.stage # "none" /\ shared' = NoFetch
  /\ Counted("failures", MaxWebFailures)
  /\ IF \A i \in DOMAIN shared.joined : Superseded(shared.joined[i])
     THEN UNCHANGED <<store, waiters>>
     ELSE Fails(shared.joined)
  /\ Leave(shared.joined)
  /\ UNCHANGED <<pendingAt, eventSource, loads>>

-----------------------------------------------------------------------------
\* The human

SelectRequest(q) ==
  /\ q \in OpenRequests(store) /\ q # store.selection
  /\ store' = Mounted(store, SelectedRequest(store, q))
  /\ UNCHANGED <<pendingAt, eventSource, loads, shared, waiters, forms, webBounds>>

\* selectSession, selectProject, showHistory, clearSelection
SelectElsewhere ==
  /\ store.selection # Home
  /\ store' = Mounted(store, Cleared(store))
  /\ UNCHANGED <<pendingAt, eventSource, loads, shared, waiters, forms, webBounds>>

\* onVisibilityChange, renamings and dismissals refresh; only the first knows
\* that what is shown may be old.
Returns ==
  /\ Counted("taps", MaxTaps)
  /\ \E old \in BOOLEAN : store' = [store EXCEPT !.syncing = @ \/ old]
  /\ SharesFetch(RefreshTask)
  /\ UNCHANGED <<pendingAt, eventSource, loads, waiters, forms>>

OpenFromNotification(q) ==
  LET task == TapTask(q, store.attempt + 1) IN
  /\ Counted("taps", MaxTaps)
  /\ store' = Mounted(store, [Cleared(store) EXCEPT !.attempt = @ + 1, !.syncing = TRUE])
  /\ IF store.status = "loading"
     THEN waiters' = Append(waiters, task) /\ UNCHANGED shared
     ELSE SharesFetch(task) /\ UNCHANGED waiters
  /\ UNCHANGED <<pendingAt, eventSource, loads, forms>>

\* submit and cancel, of a form that is not busy.
Resolve ==
  LET q == store.selection  id == webBounds.forms + 1 IN
  /\ q # Home /\ q \in OpenRequests(store) \cup {store.retained} /\ store.form = 0
  /\ Counted("forms", MaxForms)
  /\ store' = [store EXCEPT !.resolving = @ \cup {q}, !.form = id]
  /\ forms' = forms \cup {FormTask(q, id, "sent")}
  /\ UNCHANGED <<pendingAt, eventSource, loads, shared, waiters>>

\* The server takes the answer, finds the Question resolved, or revised.
Taken(f) ==
  /\ f.kind = "sent"
  /\ \/ /\ f.question \in pendingAt[Latest]
        /\ Told(pendingAt[Latest] \ {f.question})
        /\ forms' = (forms \ {f}) \cup {[f EXCEPT !.kind = "taken"]}
     \/ /\ f.question \in pendingAt[Latest]
        /\ forms' = (forms \ {f}) \cup {[f EXCEPT !.kind = "stale"]}
        /\ UNCHANGED <<pendingAt, eventSource>>
     \/ /\ f.question \notin pendingAt[Latest]
        /\ forms' = (forms \ {f}) \cup {[f EXCEPT !.kind = "refused"]}
        /\ UNCHANGED <<pendingAt, eventSource>>
  /\ UNCHANGED <<store, loads, shared, waiters, webBounds>>

\* The response: a refresh follows when it was taken, or the revision is old.
Responded(f) ==
  /\ f.kind \in {"taken", "stale", "refused"}
  /\ IF f.kind = "refused"
     THEN /\ forms' = forms \ {f}
          /\ store' = Ended(store, f)
          /\ UNCHANGED shared
     ELSE LET task == [f EXCEPT !.kind = IF f.kind = "taken" THEN "answered" ELSE "outdated"] IN
          /\ forms' = (forms \ {f}) \cup {task}
          /\ SharesFetch(task)
          /\ UNCHANGED store
  /\ UNCHANGED <<pendingAt, eventSource, loads, waiters, webBounds>>

\* The call, or its response, is lost.
CallLost(f) ==
  /\ f.kind \in {"sent", "taken", "stale", "refused"}
  /\ Counted("failures", MaxWebFailures)
  /\ forms' = forms \ {f}
  /\ store' = Ended(store, f)
  /\ UNCHANGED <<pendingAt, eventSource, loads, shared, waiters>>

DashboardNext ==
  \/ ServerChanged \/ HealthAnswers \/ EventsOpen \/ EventsBreak \/ StateArrives \/ Poll
  \/ \E l \in loads : PollServed(l) \/ PollReturns(l) \/ PollFails(l)
  \/ SharedServed \/ SharedReturns \/ SharedFails
  \/ SelectElsewhere \/ Returns \/ Resolve
  \/ \E q \in WebQuestions : SelectRequest(q) \/ OpenFromNotification(q)
  \/ \E f \in forms : Taken(f) \/ Responded(f) \/ CallLost(f)

DashboardSpec == DashboardInit /\ [][DashboardNext]_dashboardVars

-----------------------------------------------------------------------------
\* The tab has what the server sent it last: an older fetch has not overwritten a
\* newer state.
UpToDate == eventSource.open /\ eventSource.frames = <<>> /\ store.version = store.newest

\* A Question that is open on screen is pending in the state the tab has, or this
\* tab was resolving it when it ended, or it ended while the state could not be
\* read; and with its events read the tab has the state of the server, through
\* breaks of the stream, polls and shared fetches: a Question answered elsewhere
\* "disappears from the device that still had it open" (applyStateSnapshot,
\* deselectRemotelyResolvedRequest, startStateTransport).
NothingDeadOnScreen ==
  store.status = "ready" =>
    /\ store.selection \in OpenRequests(store) \cup {Home, store.retained, store.unread}
    /\ UpToDate => OpenRequests(store) = pendingAt[Latest]

\* States that arrive leave the Question on screen that this tab is resolving,
\* so that its form does "its own routing afterwards", unless a notification is
\* being opened (beginLocalResolve, resolveVia).  Two submissions of a Question
\* share the mark, so that this needs MaxForms = 1.
OpeningNotification ==
  \E i \in DOMAIN (waiters \o shared.joined) : (waiters \o shared.joined)[i].kind = "tap"
ResolvingStaysOnScreen ==
  [][\A f \in forms \cap forms' :
       /\ <<eventSource, loads, shared>>' # <<eventSource, loads, shared>> /\ webBounds'.taps = webBounds.taps
       /\ f.question = store.selection /\ store'.selection # store.selection
       => OpeningNotification]_dashboardVars

\* "Continue the decision workflow with the oldest open question": fails when
\* the refresh joins a fetch that is older than the answer.
AnsweredIsNotReopened ==
  [][\A f \in forms \ forms' : f.kind = "answered" => store'.selection # f.question]_dashboardVars
=============================================================================
