-------------------------------- MODULE AppProofs --------------------------------
(* What a human sees of it, for any number of Questions, states, visits, calls *)
(* and events: the Android app's question screen and its drafts, and the view *)
(* of a private chat in the browser.                                         *)
EXTENDS QuestionWorkflow, QuestionDrafts, ChatStream, RecursionLemmas, TLAPS

-----------------------------------------------------------------------------
(* The question screen.  A view shows a version of the server's state and is  *)
(* coherent with it; a view that is blocked was closed, so that it is not     *)
(* collecting the stream any more, and nothing but a fetch can come for it.   *)

AnyQuestion == AppQuestions \cup {None}
Visibles == [question : AnyQuestion, busy : BOOLEAN, over : BOOLEAN]
CallKinds == {"refresh", "answer", "cancel", "dismiss", "refused", "outdated", "taken"}
Messages == [question : AnyQuestion, kind : CallKinds \cup {"none", "elsewhere"}]
Views == [started : BOOLEAN, blocked : BOOLEAN, version : Nat, sure : BOOLEAN,
          nav : AppQuestions \cup {"queue", "unset"}, visible : Visibles,
          tapped : AnyQuestion, message : Messages]
Hows == [prefer : BOOLEAN, force : AnyQuestion, over : BOOLEAN, message : Messages]
Coherent(v) ==
  /\ v.version <= Now
  /\ v.nav \in AppQuestions => v.visible.question = v.nav
  /\ v.visible # Nobody /\ ~v.visible.over => v.visible.question \in Pending(v.version)
  /\ v.blocked => v.visible = Nobody /\ v.nav \notin AppQuestions /\ ~v.started
CoherentViews == {v \in Views : Coherent(v)}

Statuses(n) == [kind : {"connecting", "connected", "reconnecting", "disconnected"}, version : 0..n]
Feeds(n) == [on : BOOLEAN, open : BOOLEAN, frames : Seq(1..n), last : 0..n, replay : Seq(Statuses(n))]
Calls(n) ==
  [kind : CallKinds, question : AnyQuestion, previous : Visibles,
   stage : {"sent", "taken", "refused", "outdated", "fetching", "served"}, version : 0..n]
Server == history \in Seq(SUBSET AppQuestions) /\ Now \in Nat \ {0}
WorkflowInv ==
  /\ Server /\ screen \in CoherentViews
  /\ feed \in Feeds(Now) /\ prefetch \in 0..Now /\ appCalls \subseteq Calls(Now)

LEMMA WorkflowStarts == WorkflowInit => WorkflowInv
<1> SUFFICES ASSUME WorkflowInit PROVE WorkflowInv
  OBVIOUS
<1>1. PICK first \in SUBSET AppQuestions : history = <<first>>
  BY DEF WorkflowInit
<1>2. Server /\ Now = 1
  BY <1>1 DEF Server, Now
<1>3. screen \in CoherentViews
  <2>1. Nobody \in Visibles /\ NoMessage \in Messages /\ None \in AnyQuestion
    BY DEF Visibles, Messages, AnyQuestion, Nobody, NoMessage
  <2>2. screen \in Views
    BY <2>1 DEF WorkflowInit, Views
  <2>3. "unset" \notin AppQuestions
    BY WorkflowAssumption
  <2>4. Coherent(screen)
    BY <1>2, <2>3 DEF WorkflowInit, Coherent
  <2>5. QED
    BY <2>2, <2>4 DEF CoherentViews
<1>4. feed \in Feeds(Now)
  <2>1. Status("connecting", 0) \in Statuses(Now)
    BY <1>2 DEF Status, Statuses
  <2>2. <<Status("connecting", 0)>> \in Seq(Statuses(Now)) /\ <<>> \in Seq(1..Now) /\ 0 \in 0..Now
    BY <1>2, <2>1
  <2>3. QED
    BY <2>2 DEF WorkflowInit, Feeds
<1>5. QED
  BY <1>2, <1>3, <1>4 DEF WorkflowInit, WorkflowInv

\* A state is applied, whoever it came from and whatever call it ends.
LEMMA ApplyIsCoherent ==
  ASSUME Server, NEW page \in CoherentViews, NEW version \in 0..Now, NEW previous \in Visibles,
         NEW how \in Hows, NEW first \in Pending(version) \cup {None}
  PROVE  Apply(page, version, previous, how, first) \in CoherentViews
<1> DEFINE pending == Pending(version)
           elsewhere == ResolvedElsewhere(page, how, previous, pending)
           staleTap == page.tapped # None /\ page.tapped \notin pending
           tapped == IF staleTap THEN None ELSE page.tapped
           requested == Requested(page, how, previous, elsewhere, tapped)
           found == IF requested \in pending THEN requested
                    ELSE IF requested = None /\ ~elsewhere /\ ~staleTap THEN first ELSE None
           opened == tapped # None /\ found = tapped
           visible == IF found # None THEN [question |-> found, busy |-> FALSE, over |-> how.over]
                      ELSE IF how.over /\ how.force # None /\ how.force = previous.question
                      THEN [previous EXCEPT !.busy = FALSE, !.over = TRUE] ELSE Nobody
           orQueue(question) == IF question = None THEN "queue" ELSE question
           nav == CASE elsewhere \/ (staleTap /\ how.force = None) -> "queue"
                    [] how.prefer \/ how.force # None \/ opened -> orQueue(visible.question)
                    [] StaysInQueue(page) -> "queue"
                    [] OTHER -> orQueue(found)
           message == IF elsewhere THEN [question |-> previous.question, kind |-> "elsewhere"] ELSE how.message
           result == [page EXCEPT !.version = version, !.nav = nav, !.visible = visible,
                       !.tapped = IF opened THEN None ELSE tapped, !.message = message]
<1>1. page \in Views /\ pending \subseteq AppQuestions /\ version \in Nat /\ version <= Now
  BY DEF CoherentViews, Server, Pending, Now
<1>2. found \in AnyQuestion /\ (found # None => found \in pending)
  <2> HIDE DEF requested, elsewhere, staleTap
  <2>1. QED
    BY <1>1 DEF AnyQuestion
<1>3. /\ visible \in Visibles
      /\ found # None => visible.question = found
      /\ visible # Nobody /\ ~visible.over => visible.question \in pending
  <2> HIDE DEF found
  <2>1. QED
    BY <1>2 DEF Visibles, Hows, Nobody, AnyQuestion
<1>4. nav \in AppQuestions \cup {"queue", "unset"} /\ (nav \in AppQuestions => visible.question = nav)
  <2>1. visible.question \in AnyQuestion
    BY <1>3 DEF Visibles
  <2> HIDE DEF found, visible, elsewhere, staleTap, opened
  <2>2. nav \in {"queue", orQueue(visible.question), orQueue(found)}
    OBVIOUS
  <2>3. orQueue(visible.question) \in AppQuestions \cup {"queue"}
    BY <2>1 DEF AnyQuestion
  <2>4. orQueue(found) = "queue" \/ orQueue(found) = visible.question
    BY <1>3
  <2>5. orQueue(visible.question) = "queue" \/ orQueue(visible.question) = visible.question
    OBVIOUS
  <2> HIDE DEF nav, orQueue
  <2>6. "queue" \notin AppQuestions
    BY WorkflowAssumption
  <2>7. QED
    BY <1>2, <1>3, <2>1, <2>2, <2>3, <2>4, <2>5, <2>6 DEF AnyQuestion
<1>5. message \in Messages /\ (IF opened THEN None ELSE tapped) \in AnyQuestion
  <2> HIDE DEF elsewhere, staleTap, opened
  <2>1. QED
    BY <1>1 DEF Messages, Hows, Views, Visibles, AnyQuestion
<1> HIDE DEF nav, visible, message, opened, tapped, pending
<1>6. result \in Views
  BY <1>1, <1>3, <1>4, <1>5 DEF Views
<1>7. ~page.blocked => Coherent(result)
  BY <1>1, <1>3, <1>4 DEF Coherent, Views, pending
<1>8. Apply(page, version, previous, how, first) = IF ~Shows(page) THEN page ELSE result
  BY DEF Apply, nav, visible, message, opened, tapped, pending
<1> HIDE DEF result
<1>9. QED
  BY <1>6, <1>7, <1>8 DEF Shows, CoherentViews

LEMMA BlockedIsCoherent ==
  ASSUME NEW page \in CoherentViews
  PROVE  Blocked(page) \in CoherentViews
<1>1. page \in Views /\ page.version <= Now /\ "unset" \notin AppQuestions
  BY WorkflowAssumption DEF CoherentViews, Coherent
<1>2. Nobody \in Visibles
  BY DEF Visibles, AnyQuestion, Nobody
<1>3. Blocked(page) \in Views
  BY <1>1, <1>2 DEF Blocked, Views
<1>4. Coherent(Blocked(page))
  BY <1>1, <1>2 DEF Blocked, Views, Coherent
<1>5. QED
  BY <1>3, <1>4 DEF CoherentViews

LEMMA KeepingIsHow ==
  ASSUME NEW page \in CoherentViews
  PROVE  Keeping(page) \in Hows
BY DEF CoherentViews, Views, Keeping, Ordinary, Hows, AnyQuestion, NoMessage, Messages

LEMMA HandleIsCoherent ==
  ASSUME Server, NEW page \in CoherentViews, NEW status \in Statuses(Now), NEW first \in Firsts(status.version)
  PROVE  Handle(page, status, first) \in CoherentViews
<1>1. status.version \in 0..Now /\ first \in Pending(status.version) \cup {None}
  BY DEF Statuses, Firsts
<1> DEFINE seen == [page EXCEPT !.sure = @ \/ status.kind = "connected"]
<1>2. seen \in CoherentViews /\ page.visible \in Visibles /\ Keeping(page) \in Hows
  <2>1. page \in Views /\ Coherent(page)
    BY DEF CoherentViews
  <2>2. seen \in Views
    BY <2>1 DEF Views
  <2>3. Coherent(seen)
    BY <2>1 DEF Views, Coherent
  <2>4. QED
    BY <2>1, <2>2, <2>3, KeepingIsHow DEF CoherentViews, Views
<1> HIDE DEF seen
<1>3. Apply(seen, status.version, page.visible, Keeping(page), first) \in CoherentViews
  BY <1>1, <1>2, ApplyIsCoherent
<1>4. QED
  BY <1>3, BlockedIsCoherent DEF Handle, seen

\* What the stream replays to a view that starts.
LEMMA ReplayIsCoherent ==
  ASSUME Server, feed \in Feeds(Now), NEW page \in CoherentViews, NEW firsts,
         \A v \in 0..Now : firsts[v] \in Firsts(v)
  PROVE  AfterReplay(page, firsts) \in CoherentViews
<1> DEFINE L == Len(feed.replay)
           Next1(v, i) == Handle(v, feed.replay[i], firsts[feed.replay[i].version])
           step == [iv \in (1..L) \X CoherentViews |-> Next1(iv[2], iv[1])]
           Eq(h) == h = [i \in 0..L |-> IF i = 0 THEN page ELSE Next1(h[i - 1], i)]
           c == CHOOSE h : Eq(h)
<1>1. L \in Nat /\ \A i \in 1..L : feed.replay[i] \in Statuses(Now)
  BY DEF Feeds
<1>2. \A v \in CoherentViews, i \in 1..L : Next1(v, i) \in CoherentViews
  <2> SUFFICES ASSUME NEW v \in CoherentViews, NEW i \in 1..L PROVE Next1(v, i) \in CoherentViews
    OBVIOUS
  <2>1. feed.replay[i] \in Statuses(Now) /\ feed.replay[i].version \in 0..Now
    BY <1>1 DEF Statuses
  <2>2. QED
    BY <2>1, HandleIsCoherent
<1> HIDE DEF Next1
<1>3. \A iv \in (1..L) \X CoherentViews : iv[1] \in 1..L /\ iv[2] \in CoherentViews
  OBVIOUS
<1>4. step \in [(1..L) \X CoherentViews -> CoherentViews]
  BY <1>2, <1>3
<1>5. PICK g : Iteration(g, L, CoherentViews, page, step)
  <2> HIDE DEF step, L
  <2>1. QED
    BY <1>1, <1>4, Iterates
<1>6. \A i \in 1..L : g[i] = Next1(g[i - 1], i)
  <2> TAKE i \in 1..L
  <2>1. i - 1 \in 0..L
    BY <1>1
  <2>2. g[i - 1] \in CoherentViews /\ g[i] = step[<<i, g[i - 1]>>] /\ <<i, g[i - 1]>> \in (1..L) \X CoherentViews
    BY <1>5, <2>1 DEF Iteration
  <2>3. QED
    BY <2>2
<1>7. Eq(g)
  <2> DEFINE r == [i \in 0..L |-> IF i = 0 THEN page ELSE Next1(g[i - 1], i)]
  <2>1. \A i \in 0..L : i # 0 => i \in 1..L
    BY <1>1
  <2>2. \A i \in 0..L : r[i] = g[i]
    BY <1>5, <1>6, <2>1 DEF Iteration
  <2>3. g = [i \in 0..L |-> g[i]]
    BY <1>5 DEF Iteration
  <2>4. r = [i \in 0..L |-> r[i]]
    OBVIOUS
  <2> HIDE DEF r
  <2>5. g = r
    BY <2>2, <2>3, <2>4
  <2>6. QED
    BY <2>5 DEF r
<1>8. Eq(c)
  <2> HIDE DEF Eq
  <2>1. QED
    BY <1>7
<1>9. \A i \in 0..L : c[i] = IF i = 0 THEN page ELSE Next1(c[i - 1], i)
  <2> HIDE DEF c
  <2>1. QED
    BY <1>8
<1>10. c[L] \in CoherentViews
  <2> DEFINE T == {i \in 0..L : c[i] \in CoherentViews}
  <2> HIDE DEF c
  <2>1. 0 \in T
    BY <1>1, <1>9
  <2>2. ASSUME NEW i \in 1..L, i - 1 \in T PROVE i \in T
    <3>1. i \in 0..L /\ i # 0 /\ c[i - 1] \in CoherentViews
      BY <1>1, <2>2
    <3>2. QED
      BY <1>2, <1>9, <3>1
  <2>3. \A i \in 0..L : i \in T
    <3> HIDE DEF T, L
    <3>1. QED
      BY <1>1, <2>1, <2>2, StepByStep
  <2>4. QED
    BY <1>1, <2>3
<1>11. AfterReplay(page, firsts) = c[L]
  BY DEF AfterReplay, Next1
<1>12. QED
  BY <1>10, <1>11

LEMMA SameServer ==
  ASSUME WorkflowInv, UNCHANGED history, screen' \in CoherentViews, feed' \in Feeds(Now),
         prefetch' \in 0..Now, appCalls' \subseteq Calls(Now)
  PROVE  WorkflowInv'
<1>1. Now' = Now /\ Server' /\ \A v : Pending(v)' = Pending(v)
  BY DEF WorkflowInv, Server, Now, Pending
<1>2. screen' \in Views /\ Coherent(screen')
  BY DEF CoherentViews
<1>3. CoherentViews' = CoherentViews
  BY <1>1 DEF CoherentViews, Coherent
<1>4. QED
  BY <1>1, <1>3 DEF WorkflowInv

\* The server's state changes, and the stream carries the new one.
LEMMA BroadcastKeeps ==
  ASSUME WorkflowInv, NEW pending \in SUBSET AppQuestions, Broadcast(pending),
         UNCHANGED <<screen, prefetch>>, appCalls' \subseteq Calls(Now)
  PROVE  WorkflowInv'
<1>1. Server /\ Now \in Nat \ {0}
  BY DEF WorkflowInv, Server
<1>2. /\ Server' /\ Now' \in Nat /\ Now <= Now' /\ Len(history') = Now'
      /\ \A v \in 0..Now : Pending(v)' = Pending(v)
  <2>1. CASE history' = history
    BY <1>1, <2>1 DEF Server, Now, Pending
  <2>2. CASE history' = Append(history, pending)
    <3>1. /\ history' \in Seq(SUBSET AppQuestions) /\ Len(history') = Len(history) + 1
          /\ \A v \in 1..Len(history) : history'[v] = history[v]
      BY <1>1, <2>2 DEF Server
    <3>2. QED
      BY <1>1, <3>1 DEF Server, Now, Pending
  <2>3. QED
    BY <2>1, <2>2 DEF Broadcast
<1>3. screen' \in CoherentViews'
  BY <1>1, <1>2 DEF WorkflowInv, CoherentViews, Views, Coherent
<1>4. feed' \in Feeds(Now')
  <2>1. 1..Now \subseteq 1..Now' /\ 0..Now \subseteq 0..Now' /\ Now' \in 1..Now'
    BY <1>1, <1>2
  <2>2. Statuses(Now) \subseteq Statuses(Now')
    BY <2>1 DEF Statuses
  <2>3. feed.frames \in Seq(1..Now') /\ feed.replay \in Seq(Statuses(Now'))
    <3>1. feed.frames \in Seq(1..Now) /\ feed.replay \in Seq(Statuses(Now))
      BY DEF WorkflowInv, Feeds
    <3>2. \A S, T : S \subseteq T => \A f \in Seq(S) : f \in Seq(T)
      OBVIOUS
    <3>3. QED
      BY <2>1, <2>2, <3>1, <3>2
  <2>4. feed' = feed \/ feed' = [feed EXCEPT !.frames = Append(feed.frames, Now')]
    BY <1>2 DEF Broadcast
  <2>5. Append(feed.frames, Now') \in Seq(1..Now')
    BY <2>1, <2>3
  <2>6. QED
    BY <2>1, <2>3, <2>4, <2>5 DEF WorkflowInv, Feeds
<1>5. prefetch' \in 0..Now' /\ appCalls' \subseteq Calls(Now')
  <2>1. 0..Now \subseteq 0..Now'
    BY <1>1, <1>2
  <2>2. Calls(Now) \subseteq Calls(Now')
    BY <2>1 DEF Calls
  <2>3. QED
    BY <2>1, <2>2 DEF WorkflowInv
<1>6. QED
  BY <1>2, <1>3, <1>4, <1>5 DEF WorkflowInv

\* What the stream keeps for the next view.
LEMMA ReplayedStatuses ==
  ASSUME WorkflowInv, NEW status \in Statuses(Now)
  PROVE  Replayed(status) \in Seq(Statuses(Now))
<1> DEFINE all == Append(feed.replay, status)
<1>1. feed.replay \in Seq(Statuses(Now))
  BY DEF WorkflowInv, Feeds
<1>2. all \in Seq(Statuses(Now)) /\ all # <<>>
  BY <1>1
<1>3. Tail(all) \in Seq(Statuses(Now))
  BY <1>2
<1>4. QED
  BY <1>2, <1>3 DEF Replayed

LEMMA StatusIs ==
  ASSUME Server, NEW kind \in {"connecting", "connected", "reconnecting", "disconnected"}, NEW version \in 0..Now
  PROVE  Status(kind, version) \in Statuses(Now) /\ Status(kind, version).version = version
BY DEF Status, Statuses

LEMMA FeedEnds ==
  ASSUME WorkflowInv, FeedClosed(feed)
  PROVE  feed' \in Feeds(Now)
<1>1. Server /\ feed \in Feeds(Now) /\ feed.last \in 0..Now
  BY DEF WorkflowInv, Feeds
<1>2. Replayed(Status("disconnected", feed.last)) \in Seq(Statuses(Now))
  BY <1>1, StatusIs, ReplayedStatuses
<1>3. <<>> \in Seq(1..Now) /\ 0 \in 0..Now
  BY <1>1 DEF Server
<1>4. QED
  BY <1>1, <1>2, <1>3 DEF FeedClosed, Feeds

LEMMA FeedSteps ==
  ASSUME WorkflowInv,
         \/ FeedOpens \/ StateEvent \/ FeedBreaks \/ ServerIncompatible \/ CloseView
  PROVE  WorkflowInv'
<1>1. /\ Server /\ feed \in Feeds(Now) /\ screen \in CoherentViews /\ UNCHANGED <<history, prefetch, appCalls>>
      /\ prefetch \in 0..Now /\ appCalls \subseteq Calls(Now) /\ Now \in 1..Now /\ 0 \in 0..Now
  BY DEF WorkflowInv, Server, FeedOpens, StateEvent, FeedBreaks, ServerIncompatible, CloseView
<1>2. feed.last \in 0..Now
  BY <1>1 DEF Feeds
<1>3. ASSUME NEW status \in Statuses(Now), NEW changed \in Feeds(Now), EmitStatus(status, changed)
      PROVE  WorkflowInv'
  <2>1. feed' \in Feeds(Now)
    BY <1>3, ReplayedStatuses DEF EmitStatus, Feeds
  <2>2. screen' \in CoherentViews
    BY <1>1, <1>3, HandleIsCoherent DEF EmitStatus
  <2>3. QED
    BY <1>1, <2>1, <2>2, SameServer
<1>4. FeedClosed(feed) => feed' \in Feeds(Now)
  BY FeedEnds
<1>5. CASE FeedOpens
  <2> DEFINE changed == [feed EXCEPT !.open = TRUE, !.frames = <<Now>>]
  <2>1. <<Now>> \in Seq(1..Now)
    BY <1>1
  <2>2. changed \in Feeds(Now)
    BY <1>1, <2>1 DEF Feeds
  <2>3. Loop \in Statuses(Now)
    BY <1>1, <1>2, StatusIs DEF Loop
  <2>4. EmitStatus(Loop, changed)
    BY <1>5 DEF FeedOpens
  <2> HIDE DEF changed
  <2>5. QED
    BY <1>3, <2>2, <2>3, <2>4
<1>6. CASE StateEvent
  <2> DEFINE f == Head(feed.frames)
             changed == [feed EXCEPT !.last = f, !.frames = Tail(feed.frames)]
  <2>1. f \in 1..Now /\ Tail(feed.frames) \in Seq(1..Now)
    BY <1>1, <1>6 DEF StateEvent, Feeds
  <2>2. f \in 0..Now
    BY <2>1
  <2>3. changed \in Feeds(Now)
    BY <1>1, <2>1, <2>2 DEF Feeds
  <2>4. Status("connected", f) \in Statuses(Now)
    BY <1>1, <2>2, StatusIs
  <2>5. EmitStatus(Status("connected", f), changed)
    BY <1>6 DEF StateEvent
  <2> HIDE DEF changed, f
  <2>6. QED
    BY <1>3, <2>3, <2>4, <2>5
<1>7. CASE FeedBreaks
  <2> DEFINE changed == [feed EXCEPT !.open = FALSE, !.frames = <<>>]
  <2>1. <<>> \in Seq(1..Now)
    OBVIOUS
  <2>2. changed \in Feeds(Now)
    BY <1>1, <2>1 DEF Feeds
  <2>3. Status("reconnecting", feed.last) \in Statuses(Now)
    BY <1>1, <1>2, StatusIs
  <2>4. EmitStatus(Status("reconnecting", feed.last), changed)
    BY <1>7 DEF FeedBreaks
  <2> HIDE DEF changed
  <2>5. QED
    BY <1>3, <2>2, <2>3, <2>4
<1>8. CASE ServerIncompatible
  BY <1>1, <1>4, <1>8, BlockedIsCoherent, SameServer DEF ServerIncompatible, FoundIncompatible
<1>9. CASE CloseView
  <2>1. screen' = [screen EXCEPT !.started = FALSE] /\ FeedClosed(feed)
    BY <1>9 DEF CloseView
  <2>2. screen' \in CoherentViews
    BY <1>1, <2>1 DEF CoherentViews, Views, Coherent
  <2>3. QED
    BY <1>1, <1>4, <2>1, <2>2, SameServer
<1>10. QED
  BY <1>5, <1>6, <1>7, <1>8, <1>9

LEMMA CallIs ==
  ASSUME Server, NEW kind \in CallKinds, NEW q \in AnyQuestion, NEW previous \in Visibles
  PROVE  /\ AppCall(kind, q, previous) \in Calls(Now)
         /\ [AppCall(kind, q, previous) EXCEPT !.stage = "fetching"] \in Calls(Now)
BY DEF Server, Calls, AppCall

\* The human, at the screen.
LEMMA HumanSteps ==
  ASSUME WorkflowInv,
         \/ StartView \/ ShowQueue \/ RefreshQuestions \/ Submit("answer") \/ Submit("cancel")
         \/ \E q \in AppQuestions : OpenQuestion(q) \/ Tap(q) \/ Dismiss(q)
  PROVE  WorkflowInv'
<1>1. /\ Server /\ feed \in Feeds(Now) /\ screen \in CoherentViews /\ UNCHANGED <<history, prefetch>>
      /\ prefetch \in 0..Now /\ appCalls \subseteq Calls(Now) /\ Now \in Nat
  BY DEF WorkflowInv, Server, StartView, ShowQueue, RefreshQuestions, Submit, OpenQuestion, Tap, Dismiss
<1>2. /\ screen \in Views /\ Coherent(screen) /\ screen.visible \in Visibles /\ screen.version \in 0..Now
      /\ NoMessage \in Messages /\ "queue" \notin AppQuestions
  BY <1>1, WorkflowAssumption DEF CoherentViews, Coherent, Views, NoMessage, Messages, AnyQuestion
<1>3. ASSUME NEW call \in Calls(Now), Begin(call) PROVE appCalls' \subseteq Calls(Now)
  BY <1>1, <1>3 DEF Begin
<1>4. CASE StartView
  <2> DEFINE begun == [screen EXCEPT !.started = TRUE]
  <2>1. PICK firsts \in [0..Now -> AppQuestions \cup {None}] :
          /\ \A v \in 0..Now : firsts[v] \in Firsts(v)
          /\ screen' = AfterReplay(IF prefetch = 0 THEN begun
                                   ELSE Apply(begun, prefetch, begun.visible, Keeping(begun), firsts[prefetch]), firsts)
    BY <1>4 DEF StartView
  <2>2. begun \in CoherentViews /\ begun.visible \in Visibles
    BY <1>2, <1>4 DEF StartView, CoherentViews, Coherent, Views
  <2> DEFINE displayed == IF prefetch = 0 THEN begun
                          ELSE Apply(begun, prefetch, begun.visible, Keeping(begun), firsts[prefetch])
  <2> HIDE DEF begun
  <2>3. firsts[prefetch] \in Pending(prefetch) \cup {None}
    BY <1>1, <2>1 DEF Firsts
  <2>4. displayed \in CoherentViews
    BY <1>1, <2>2, <2>3, KeepingIsHow, ApplyIsCoherent
  <2>5. screen' = AfterReplay(displayed, firsts)
    BY <2>1
  <2> HIDE DEF displayed
  <2>6. screen' \in CoherentViews
    BY <1>1, <2>1, <2>4, <2>5, ReplayIsCoherent
  <2>7. feed' \in Feeds(Now) /\ appCalls' = appCalls
    <3>1. Replayed(Status("connecting", 0)) \in Seq(Statuses(Now))
      BY <1>1, StatusIs, ReplayedStatuses
    <3>2. QED
      BY <1>1, <1>4, <3>1 DEF StartView, Feeds
  <2>8. QED
    BY <1>1, <2>6, <2>7, SameServer
<1>5. CASE ShowQueue
  <2>1. screen' = [screen EXCEPT !.nav = "queue", !.message = NoMessage] /\ UNCHANGED <<feed, appCalls>>
    BY <1>5 DEF ShowQueue
  <2>2. screen' \in CoherentViews
    BY <1>2, <2>1 DEF CoherentViews, Coherent, Views
  <2>3. QED
    BY <1>1, <2>1, <2>2, SameServer
<1>6. CASE RefreshQuestions
  <2>1. Begin(Refresh(screen.visible)) /\ UNCHANGED <<screen, feed>>
    BY <1>6 DEF RefreshQuestions
  <2>2. Refresh(screen.visible) \in Calls(Now)
    BY <1>1, <1>2, CallIs DEF Refresh, AnyQuestion, CallKinds
  <2>3. QED
    BY <1>1, <1>3, <2>1, <2>2, SameServer
<1>7. ASSUME NEW kind \in {"answer", "cancel"}, Submit(kind) PROVE WorkflowInv'
  <2>1. /\ screen' = [screen EXCEPT !.visible.busy = TRUE] /\ screen.visible # Nobody /\ ~screen.visible.over
        /\ Begin(AppCall(kind, screen.visible.question, screen.visible)) /\ UNCHANGED feed
        /\ ~screen.blocked
    BY <1>7 DEF Submit
  <2>2. screen' \in CoherentViews
    BY <1>2, <2>1 DEF CoherentViews, Coherent, Views, Visibles
  <2>3. AppCall(kind, screen.visible.question, screen.visible) \in Calls(Now)
    BY <1>1, <1>2, CallIs DEF Visibles, CallKinds
  <2>4. QED
    BY <1>1, <1>3, <2>1, <2>2, <2>3, SameServer
<1>8. ASSUME NEW q \in AppQuestions, OpenQuestion(q) PROVE WorkflowInv'
  <2> DEFINE it == [question |-> q, busy |-> FALSE, over |-> FALSE]
  <2>1. /\ screen' = [screen EXCEPT !.nav = q, !.message = NoMessage, !.visible = it]
        /\ screen.started /\ q \in Pending(screen.version) /\ UNCHANGED <<feed, appCalls>>
    BY <1>8 DEF OpenQuestion
  <2>2. it \in Visibles /\ it.question = q
    BY DEF Visibles, AnyQuestion
  <2> HIDE DEF it
  <2>3. screen' \in Views
    BY <1>2, <2>1, <2>2 DEF Views
  <2>4. Coherent(screen')
    BY <1>2, <2>1, <2>2 DEF Coherent, Views
  <2>5. QED
    BY <1>1, <2>1, <2>3, <2>4, SameServer DEF CoherentViews
<1>9. ASSUME NEW q \in AppQuestions, Tap(q) PROVE WorkflowInv'
  <2> DEFINE waiting == [screen EXCEPT !.nav = "queue", !.message = NoMessage, !.tapped = q]
             how == [Ordinary EXCEPT !.force = q]
  <2>1. waiting \in CoherentViews /\ how \in Hows /\ q \in AnyQuestion
    <3>1. waiting \in Views
      BY <1>2 DEF Views, AnyQuestion
    <3>2. Coherent(waiting)
      BY <1>2 DEF Coherent, Views
    <3>3. QED
      BY <1>2, <3>1, <3>2 DEF CoherentViews, Hows, Ordinary, AnyQuestion
  <2>2. \/ screen' = waiting
        \/ /\ q \in Pending(screen.version)
           /\ screen' = Apply(waiting, screen.version, screen.visible, how, q)
    BY <1>9 DEF Tap
  <2>3. Begin(Refresh(Nobody)) \/ appCalls' = appCalls
    BY <1>9 DEF Tap
  <2> HIDE DEF waiting, how
  <2>4. screen' \in CoherentViews
    BY <1>1, <1>2, <2>1, <2>2, ApplyIsCoherent
  <2>5. Nobody \in Visibles /\ None \in AnyQuestion
    BY DEF Nobody, Visibles, AnyQuestion
  <2>6. Refresh(Nobody) \in Calls(Now)
    BY <1>1, <2>5, CallIs DEF Refresh, CallKinds
  <2>7. feed' = feed
    BY <1>9 DEF Tap
  <2>8. QED
    BY <1>1, <1>3, <2>3, <2>4, <2>6, <2>7, SameServer
<1>10. ASSUME NEW q \in AppQuestions, Dismiss(q) PROVE WorkflowInv'
  <2>1. Begin(AppCall("dismiss", q, Nobody)) /\ UNCHANGED <<screen, feed>>
    BY <1>10 DEF Dismiss
  <2>2. Nobody \in Visibles /\ q \in AnyQuestion
    BY DEF Nobody, Visibles, AnyQuestion
  <2>3. AppCall("dismiss", q, Nobody) \in Calls(Now)
    BY <1>1, <2>2, CallIs DEF CallKinds
  <2>4. QED
    BY <1>1, <1>3, <2>1, <2>3, SameServer
<1>11. QED
  BY <1>4, <1>5, <1>6, <1>7, <1>8, <1>9, <1>10

\* The calls of the app, at the server and back.
LEMMA CallSteps ==
  ASSUME WorkflowInv, NEW c \in appCalls,
         ServerTakes(c) \/ Answered(c) \/ CallFails(c) \/ FetchServed(c) \/ FetchReturns(c) \/ FetchFails(c)
  PROVE  WorkflowInv'
<1>1. /\ Server /\ feed \in Feeds(Now) /\ screen \in CoherentViews
      /\ prefetch \in 0..Now /\ appCalls \subseteq Calls(Now) /\ Now \in 0..Now /\ UNCHANGED prefetch
  BY DEF WorkflowInv, Server, ServerTakes, Answered, CallFails, FetchServed, FetchReturns, FetchFails
<1>2. c \in Calls(Now) /\ screen \in Views /\ Coherent(screen) /\ screen.visible \in Visibles
  BY <1>1 DEF CoherentViews, Views
<1>3. appCalls \ {c} \subseteq Calls(Now)
  BY <1>1
<1>4. ASSUME NEW changed \in Calls(Now), Step(c, changed) PROVE appCalls' \subseteq Calls(Now)
  BY <1>1, <1>4 DEF Step
<1>5. CASE ServerTakes(c)
  <2>1. \A stage \in {"taken", "refused", "outdated"} : [c EXCEPT !.stage = stage] \in Calls(Now)
    BY <1>2 DEF Calls
  <2>2. appCalls' \subseteq Calls(Now)
    BY <1>4, <1>5, <2>1 DEF ServerTakes
  <2>3. history[Now] \ {c.question} \in SUBSET AppQuestions
    BY <1>1 DEF Server, Now
  <2>4. \/ Broadcast(history[Now] \ {c.question}) /\ UNCHANGED <<screen, prefetch>>
        \/ UNCHANGED <<history, feed, screen, prefetch>>
    BY <1>5 DEF ServerTakes
  <2>5. QED
    BY <1>1, <2>2, <2>3, <2>4, BroadcastKeeps, SameServer
<1>6. CASE Answered(c)
  <2> DEFINE kind == CASE c.stage = "taken" -> c.kind
                       [] c.kind = "dismiss" -> "refresh"
                       [] OTHER -> c.stage
             question == IF c.kind = "dismiss" /\ (c.stage = "refused" \/ screen.nav # c.question)
                         THEN None ELSE c.question
             previous == IF c.kind = "dismiss" THEN screen.visible ELSE c.previous
             changed == [c EXCEPT !.stage = "fetching", !.kind = kind, !.question = question, !.previous = previous]
  <2>1. kind \in CallKinds
    BY <1>2, <1>6 DEF Answered, Calls, CallKinds
  <2>2. question \in AnyQuestion /\ previous \in Visibles
    BY <1>2 DEF Calls, AnyQuestion
  <2>3. Step(c, changed) /\ UNCHANGED <<history, screen, feed>>
    BY <1>6 DEF Answered
  <2> HIDE DEF kind, question, previous
  <2>4. changed \in Calls(Now)
    BY <1>2, <2>1, <2>2 DEF Calls
  <2> HIDE DEF changed
  <2>5. QED
    BY <1>1, <1>4, <2>3, <2>4, SameServer
<1>7. CASE CallFails(c)
  <2>1. [screen EXCEPT !.visible.busy = FALSE] \in CoherentViews
    <3> DEFINE it == [screen.visible EXCEPT !.busy = FALSE]
    <3>1. /\ it \in Visibles /\ it.question = screen.visible.question /\ it.over = screen.visible.over
          /\ screen.visible = Nobody => it = Nobody
      <4>1. it \in Visibles /\ it.question = screen.visible.question /\ it.over = screen.visible.over
        BY <1>2 DEF Visibles
      <4>2. [Nobody EXCEPT !.busy = FALSE] = Nobody
        <5>1. Nobody = [x \in {"question", "busy", "over"} |-> Nobody[x]] /\ Nobody.busy = FALSE
          BY DEF Nobody
        <5>2. \A r, f : r = [x \in {"question", "busy", "over"} |-> r[x]] /\ r["busy"] = f => [r EXCEPT !["busy"] = f] = r
          OBVIOUS
        <5>3. QED
          BY <5>1, <5>2
      <4>3. QED
        BY <4>1, <4>2
    <3>2. [screen EXCEPT !.visible.busy = FALSE] = [screen EXCEPT !.visible = it]
      BY <1>2 DEF Views
    <3> HIDE DEF it
    <3>3. [screen EXCEPT !.visible = it] \in Views
      BY <1>2, <3>1 DEF Views
    <3>4. Coherent([screen EXCEPT !.visible = it])
      BY <1>2, <3>1 DEF Views, Coherent
    <3>5. QED
      BY <3>2, <3>3, <3>4 DEF CoherentViews
  <2>2. /\ \/ /\ screen' = screen \/ screen' = [screen EXCEPT !.visible.busy = FALSE]
              /\ UNCHANGED feed
           \/ screen' = Blocked(screen) /\ FeedClosed(feed)
        /\ appCalls' = appCalls \ {c} /\ UNCHANGED history
    BY <1>7 DEF CallFails, FoundIncompatible
  <2>3. screen' \in CoherentViews
    BY <1>1, <2>1, <2>2, BlockedIsCoherent
  <2>4. feed' \in Feeds(Now)
    BY <1>1, <2>2, FeedEnds
  <2>5. QED
    BY <1>1, <1>3, <2>2, <2>3, <2>4, SameServer
<1>8. CASE FetchServed(c)
  <2> DEFINE changed == [c EXCEPT !.stage = "served", !.version = Now]
  <2>1. changed \in Calls(Now)
    BY <1>1, <1>2 DEF Calls
  <2>2. Step(c, changed) /\ UNCHANGED <<history, screen, feed>>
    BY <1>8 DEF FetchServed
  <2> HIDE DEF changed
  <2>3. QED
    BY <1>1, <1>4, <2>1, <2>2, SameServer
<1>9. CASE FetchReturns(c)
  <2> DEFINE sure == [screen EXCEPT !.sure = TRUE]
  <2>1. PICK first \in Firsts(c.version) : screen' = Apply(sure, c.version, c.previous, How(c), first)
    BY <1>9 DEF FetchReturns
  <2>2. sure \in CoherentViews
    BY <1>2 DEF CoherentViews, Views, Coherent
  <2>3. How(c) \in Hows
    <3>1. c.kind \in CallKinds /\ c.question \in AnyQuestion /\ None \in AnyQuestion
      BY <1>2 DEF Calls, AnyQuestion
    <3>2. Ordinary \in Hows
      BY <3>1 DEF Ordinary, Hows, NoMessage, Messages
    <3>3. [Ordinary EXCEPT !.prefer = c.question # None] \in Hows /\ [Ordinary EXCEPT !.force = c.question] \in Hows
      BY <3>1, <3>2 DEF Hows
    <3>4. [prefer |-> FALSE, force |-> c.question, over |-> TRUE,
           message |-> [question |-> c.question, kind |-> c.kind]] \in Hows
      BY <3>1 DEF Hows, Messages
    <3>5. \/ How(c) = Ordinary \/ How(c) = [Ordinary EXCEPT !.prefer = c.question # None]
          \/ How(c) = [Ordinary EXCEPT !.force = c.question]
          \/ How(c) = [prefer |-> FALSE, force |-> c.question, over |-> TRUE,
                       message |-> [question |-> c.question, kind |-> c.kind]]
      BY <3>1 DEF How, CallKinds
    <3>6. QED
      BY <3>2, <3>3, <3>4, <3>5
  <2>4. c.version \in 0..Now /\ c.previous \in Visibles /\ first \in Pending(c.version) \cup {None}
    BY <1>2, <2>1 DEF Calls, Firsts
  <2> HIDE DEF sure
  <2>5. screen' \in CoherentViews
    BY <1>1, <2>1, <2>2, <2>3, <2>4, ApplyIsCoherent
  <2>6. appCalls' = appCalls \ {c} /\ UNCHANGED <<history, feed>>
    BY <1>9 DEF FetchReturns
  <2>7. QED
    BY <1>1, <1>3, <2>5, <2>6, SameServer
<1>10. CASE FetchFails(c)
  <2>1. /\ UNCHANGED <<screen, feed>> \/ (screen' = Blocked(screen) /\ FeedClosed(feed))
        /\ appCalls' = appCalls \ {c} /\ UNCHANGED history
    BY <1>10 DEF FetchFails, FoundIncompatible
  <2>2. screen' \in CoherentViews
    BY <1>1, <2>1, BlockedIsCoherent
  <2>3. feed' \in Feeds(Now)
    BY <1>1, <2>1, FeedEnds
  <2>4. QED
    BY <1>1, <1>3, <2>1, <2>2, <2>3, SameServer
<1>11. QED
  BY <1>5, <1>6, <1>7, <1>8, <1>9, <1>10

LEMMA WorkflowStep ==
  ASSUME WorkflowInv, [WorkflowNext]_workflowVars
  PROVE  WorkflowInv'
<1>1. /\ Server /\ feed \in Feeds(Now) /\ screen \in CoherentViews /\ Now \in 1..Now /\ Now \in 0..Now
      /\ prefetch \in 0..Now /\ appCalls \subseteq Calls(Now) /\ history[Now] \in SUBSET AppQuestions
  BY DEF WorkflowInv, Server, Now
<1>2. CASE QueueChanges
  <2>1. PICK pending \in SUBSET AppQuestions : Broadcast(pending)
    BY <1>1, <1>2 DEF QueueChanges
  <2>2. UNCHANGED <<screen, prefetch, appCalls>>
    BY <1>2 DEF QueueChanges
  <2>3. QED
    BY <1>1, <2>1, <2>2, BroadcastKeeps
<1>3. CASE Rebroadcast
  BY <1>1, <1>3, BroadcastKeeps DEF Rebroadcast
<1>4. CASE Prefetched
  BY <1>1, <1>4, SameServer DEF Prefetched
<1>5. CASE UNCHANGED workflowVars
  BY <1>1, <1>5, SameServer DEF workflowVars
<1>6. QED
  BY <1>2, <1>3, <1>4, <1>5, FeedSteps, HumanSteps, CallSteps DEF WorkflowNext

\* The Question the human can act on is the one the navigation says is open and
\* the state on display calls pending; nothing of a server that speaks another
\* protocol is shown, whatever was in flight (applySnapshot, hardBlockForMismatch).
THEOREM ScreenStaysCoherent == WorkflowSpec => []ScreenIsCoherent
<1>1. WorkflowInv => ScreenIsCoherent
  BY DEF WorkflowInv, CoherentViews, Coherent, ScreenIsCoherent
<1>2. QED
  BY <1>1, WorkflowStarts, WorkflowStep, PTL DEF WorkflowSpec

-----------------------------------------------------------------------------
(* Drafts.  A Question's draft in memory, the chain of its jobs and its file  *)
(* are looked at together: while nothing was restored there is nothing in     *)
(* memory that a restored draft could replace, the newest draft is in the     *)
(* file or in the last job, and what the file holds beyond it is owed to a    *)
(* clean-up, to a failure, or to a draft that was not opened yet.             *)

Optional == Draft \cup {NoDraft}
Jobs == [op : {"save", "delete"}, draft : Optional, revision : Nat]
DraftStates == [memory : Optional, revision : Nat, failed : BOOLEAN, warned : BOOLEAN,
                load : {"never", "running", "read", "purging", "done"}, since : Nat, found : Optional]
Files == [draft : Optional, readable : BOOLEAN]
Waits == [active : SUBSET DraftQuestions, waits : [DraftQuestions -> Nat]]
Bounds == [edits : Nat, revisions : Nat, faults : Nat, deaths : Nat]
DraftTypes ==
  /\ \A state \in fetched \cup {known, offered} : DOMAIN state \subseteq DraftQuestions
  /\ shown \in [question : DraftQuestions \cup {NoDraft}, selected : Draft]
  /\ drafts \in [DraftQuestions -> DraftStates] /\ files \in [DraftQuestions -> Files]
  /\ saves \in [DraftQuestions -> Seq(Jobs)] /\ cleanups \in Seq(Waits)
  /\ submitted \subseteq DraftQuestions /\ draftBounds \in Bounds

\* The jobs of a Question write what was in memory, under its revision.
JobsSound(d, jobs) ==
  /\ d.since <= d.revision
  /\ \A i \in 1..Len(jobs) :
       /\ jobs[i].op = "delete" <=> jobs[i].draft = NoDraft
       /\ jobs[i].revision <= d.revision
       /\ jobs[i].op = "save" /\ jobs[i].revision = d.revision => jobs[i].draft = d.memory
OnlyDeletes(jobs) == \A i \in 1..Len(jobs) : jobs[i].op = "delete"

\* Nothing was typed while nothing was restored.
Early(d) == d.load = "never" \/ (d.load \in {"running", "read", "purging"} /\ d.since = d.revision)
EarlyIsBlank(d, jobs, file) ==
  /\ Early(d) \/ d.failed => d.memory = NoDraft /\ OnlyDeletes(jobs)
  /\ d.load = "read" /\ Early(d) => file \in {d.found, NoDraft}

\* The newest draft is stored, or will be, unless the human was warned.
Saving(d, jobs) ==
  jobs # <<>> /\ jobs[Len(jobs)].op = "save" /\ jobs[Len(jobs)].revision = d.revision
NewestStored(d, jobs, file) ==
  d.memory # NoDraft => \/ Saving(d, jobs)
                        \/ OnlyDeletes(jobs) /\ (file \in {d.memory, NoDraft} \/ d.warned)
DraftSound(d, jobs, file) ==
  JobsSound(d, jobs) /\ EarlyIsBlank(d, jobs, file) /\ NewestStored(d, jobs, file)

\* What the file will hold when the jobs are done, if none of them fails.
Left(jobs, file) == IF jobs = <<>> THEN file ELSE jobs[Len(jobs)].draft
Owed(q) == \E i \in 1..Len(cleanups) : q \notin cleanups[i].active /\ cleanups[i].waits[q] = Len(saves[q])
NothingLeft(q) ==
  drafts[q].memory = NoDraft /\ Left(saves[q], files[q].draft) # NoDraft =>
    \/ draftBounds.faults > 0 \/ Owed(q)
    \/ IF Early(drafts[q]) THEN q \in DOMAIN known \/ (drafts[q].load = "never" /\ known = NoPending)
       ELSE drafts[q].warned

QuestionSound(q) ==
  /\ DraftSound(drafts[q], saves[q], files[q].draft)
  /\ NothingLeft(q)
  /\ shown.question = q /\ q # NoDraft => drafts[q].load # "never"
DraftsInv == DraftTypes /\ \A q \in DraftQuestions : QuestionSound(q)

LEMMA DraftIsNoNoDraft == \A draft \in Draft : draft # NoDraft
BY DraftsAssumption DEF Draft

LEMMA OpenFacts ==
  ASSUME NEW d \in DraftStates
  PROVE  /\ d.memory \in Optional /\ d.revision \in Nat /\ d.since \in Nat /\ d.found \in Optional
         /\ d.load \in {"never", "running", "read", "purging", "done"}
         /\ d.failed \in BOOLEAN /\ d.warned \in BOOLEAN
BY DEF DraftStates

LEMMA JobFacts ==
  ASSUME NEW jobs \in Seq(Jobs)
  PROVE  /\ \A i \in 1..Len(jobs) : jobs[i] \in Jobs /\ jobs[i].revision \in Nat
                                   /\ jobs[i].op \in {"save", "delete"} /\ jobs[i].draft \in Optional
         /\ Len(jobs) \in Nat /\ (jobs = <<>> <=> Len(jobs) = 0)
<1>1. \A i \in 1..Len(jobs) : jobs[i] \in Jobs
  OBVIOUS
<1>2. QED
  BY <1>1 DEF Jobs

\* A draft is typed, or cut down to what is offered, and saved.
LEMMA SavedIsSound ==
  ASSUME NEW d \in DraftStates, NEW e \in DraftStates, NEW jobs \in Seq(Jobs), NEW file \in Optional,
         DraftSound(d, jobs, file), NEW draft \in Draft, d.load # "never",
         e.memory = draft, e.revision = d.revision + 1, e.failed = FALSE, e.since = d.since,
         e.load \in {d.load, "done"}
  PROVE  /\ DraftSound(e, Append(jobs, SaveJob(draft, d.revision + 1)), file)
         /\ Append(jobs, SaveJob(draft, d.revision + 1)) \in Seq(Jobs)
<1> DEFINE job == SaveJob(draft, d.revision + 1)
           all == Append(jobs, job)
<1>1. job \in Jobs /\ job.op = "save" /\ job.draft = draft /\ job.revision = d.revision + 1
  BY OpenFacts DEF SaveJob, Jobs, Optional
<1> HIDE DEF job
<1>2. all \in Seq(Jobs) /\ Len(all) = Len(jobs) + 1 /\ all[Len(jobs) + 1] = job
      /\ \A i \in 1..Len(jobs) : all[i] = jobs[i]
  BY <1>1
<1>3. \A i \in 1..Len(all) : i = Len(jobs) + 1 \/ i \in 1..Len(jobs)
  BY <1>2, JobFacts
<1>4. all # <<>> /\ Len(all) \in Nat
  BY <1>2, JobFacts
<1> HIDE DEF all
<1>5. JobsSound(d, jobs) /\ d.since <= d.revision
  BY DEF DraftSound, JobsSound
<1>6. JobsSound(e, all)
  <2>1. e.since <= e.revision
    BY <1>5, OpenFacts
  <2>2. ASSUME NEW i \in 1..Len(all)
        PROVE  /\ all[i].op = "delete" <=> all[i].draft = NoDraft
               /\ all[i].revision <= e.revision
               /\ all[i].op = "save" /\ all[i].revision = e.revision => all[i].draft = e.memory
    <3>1. CASE i = Len(jobs) + 1
      BY <1>1, <1>2, <3>1, OpenFacts, DraftIsNoNoDraft
    <3>2. CASE i \in 1..Len(jobs)
      <4>1. all[i] = jobs[i] /\ jobs[i].revision \in Nat /\ jobs[i].revision <= d.revision
            /\ (jobs[i].op = "delete" <=> jobs[i].draft = NoDraft)
        BY <1>2, <1>5, <3>2, JobFacts DEF JobsSound
      <4>2. jobs[i].revision <= d.revision + 1 /\ jobs[i].revision # d.revision + 1
        BY <4>1, OpenFacts
      <4>3. QED
        BY <4>1, <4>2
    <3>3. QED
      BY <1>3, <3>1, <3>2
  <2>3. QED
    BY <2>1, <2>2 DEF JobsSound
<1>7. ~Early(e) /\ ~e.failed
  BY <1>5, OpenFacts DEF Early
<1>8. Saving(e, all)
  BY <1>1, <1>2, <1>4 DEF Saving
<1>9. QED
  BY <1>2, <1>6, <1>7, <1>8 DEF DraftSound, EarlyIsBlank, NewestStored, all, job

\* A load begins, for the first time or because the human asks again.
LEMMA LoadingIsSound ==
  ASSUME NEW d \in DraftStates, NEW e \in DraftStates, NEW jobs \in Seq(Jobs), NEW file \in Optional,
         DraftSound(d, jobs, file), Early(d) \/ d.failed,
         e.memory = d.memory, e.revision = d.revision, e.load = "running", e.since = d.revision
  PROVE  DraftSound(e, jobs, file)
BY OpenFacts DEF DraftSound, JobsSound, EarlyIsBlank, NewestStored

\* The store reads the file.
LEMMA ReadIsSound ==
  ASSUME NEW d \in DraftStates, NEW e \in DraftStates, NEW jobs \in Seq(Jobs), NEW file \in Optional,
         DraftSound(d, jobs, file), d.load = "running", e.load \in {"read", "purging"},
         e.load = "read" => e.found = file,
         e.memory = d.memory, e.revision = d.revision, e.since = d.since,
         e.failed = d.failed, e.warned = d.warned
  PROVE  DraftSound(e, jobs, file) /\ (Early(e) <=> Early(d))
<1>1. Early(e) <=> Early(d)
  BY DEF Early
<1>2. JobsSound(e, jobs)
  BY DEF DraftSound, JobsSound
<1>3. EarlyIsBlank(e, jobs, file)
  BY <1>1 DEF DraftSound, EarlyIsBlank
<1>4. NewestStored(e, jobs, file)
  BY DEF DraftSound, NewestStored, Saving
<1>5. QED
  BY <1>1, <1>2, <1>3, <1>4 DEF DraftSound

\* A load ends, and nothing is restored.
LEMMA SettledIsSound ==
  ASSUME NEW d \in DraftStates, NEW e \in DraftStates, NEW jobs \in Seq(Jobs), NEW file \in Optional,
         DraftSound(d, jobs, file), NEW left \in {file, NoDraft}, e.load = "done",
         e.memory = d.memory, e.revision = d.revision, e.since = d.since,
         e.failed => d.failed \/ Early(d), d.warned => e.warned \/ Early(d)
  PROVE  DraftSound(e, jobs, left) /\ ~Early(e)
<1>1. ~Early(e)
  BY DEF Early
<1>2. JobsSound(e, jobs)
  BY DEF DraftSound, JobsSound
<1>3. EarlyIsBlank(e, jobs, left)
  BY <1>1 DEF DraftSound, EarlyIsBlank
<1>4. NewestStored(e, jobs, left)
  BY DEF DraftSound, NewestStored, Saving, EarlyIsBlank
<1>5. QED
  BY <1>1, <1>2, <1>3, <1>4 DEF DraftSound

\* A draft is restored as it was stored.
LEMMA RestoredIsSound ==
  ASSUME NEW d \in DraftStates, NEW e \in DraftStates, NEW jobs \in Seq(Jobs), NEW file \in Optional,
         DraftSound(d, jobs, file), d.load = "read", Early(d), e.load = "done",
         e.memory = d.found, e.revision = d.revision, e.since = d.since, e.failed = FALSE
  PROVE  DraftSound(e, jobs, file)
<1>1. OnlyDeletes(jobs) /\ file \in {d.found, NoDraft}
  BY DEF DraftSound, EarlyIsBlank
<1>2. JobsSound(e, jobs)
  BY <1>1 DEF DraftSound, JobsSound, OnlyDeletes
<1>3. EarlyIsBlank(e, jobs, file)
  BY DEF EarlyIsBlank, Early
<1>4. NewestStored(e, jobs, file)
  BY <1>1 DEF NewestStored
<1>5. QED
  BY <1>2, <1>3, <1>4 DEF DraftSound

\* The Question is over, and its draft is dropped from memory.
LEMMA DroppedIsSound ==
  ASSUME NEW d \in DraftStates, NEW e \in DraftStates, NEW jobs \in Seq(Jobs), NEW file \in Optional,
         DraftSound(d, jobs, file), d.memory # NoDraft, e.memory = NoDraft, e.revision = d.revision + 1,
         e.failed = FALSE, e.load = d.load, e.since = d.since
  PROVE  DraftSound(e, jobs, file)
<1>1. d.since <= d.revision /\ d.load # "never"
  BY DEF DraftSound, JobsSound, EarlyIsBlank, Early
<1>2. ~Early(e)
  BY <1>1, OpenFacts DEF Early
<1>3. JobsSound(e, jobs)
  <2>1. e.since <= e.revision
    BY <1>1, OpenFacts
  <2>2. ASSUME NEW i \in 1..Len(jobs)
        PROVE  /\ jobs[i].op = "delete" <=> jobs[i].draft = NoDraft
               /\ jobs[i].revision <= e.revision /\ jobs[i].revision # e.revision
    <3>1. /\ jobs[i].revision \in Nat /\ jobs[i].revision <= d.revision
          /\ jobs[i].op = "delete" <=> jobs[i].draft = NoDraft
      BY JobFacts DEF DraftSound, JobsSound
    <3>2. jobs[i].revision <= d.revision + 1 /\ jobs[i].revision # d.revision + 1
      BY <3>1, OpenFacts
    <3>3. QED
      BY <3>1, <3>2
  <2>3. QED
    BY <2>1, <2>2 DEF JobsSound
<1>4. QED
  BY <1>2, <1>3 DEF DraftSound, EarlyIsBlank, NewestStored

\* The server has taken the answer, and a job deletes the file.
LEMMA ForgottenIsSound ==
  ASSUME NEW d \in DraftStates, NEW e \in DraftStates, NEW jobs \in Seq(Jobs), NEW file \in Optional,
         DraftSound(d, jobs, file), e.memory = NoDraft, e.revision = d.revision + 1,
         e.failed = FALSE, e.load = d.load, e.since = d.since
  PROVE  /\ DraftSound(e, Append(jobs, DeleteJob(d.revision + 1)), file)
         /\ Append(jobs, DeleteJob(d.revision + 1)) \in Seq(Jobs)
         /\ Left(Append(jobs, DeleteJob(d.revision + 1)), file) = NoDraft
<1> DEFINE job == DeleteJob(d.revision + 1)
           all == Append(jobs, job)
<1>1. job \in Jobs /\ job.op = "delete" /\ job.draft = NoDraft /\ job.revision = d.revision + 1
  BY OpenFacts DEF DeleteJob, Jobs, Optional
<1> HIDE DEF job
<1>2. all \in Seq(Jobs) /\ Len(all) = Len(jobs) + 1 /\ all[Len(jobs) + 1] = job
      /\ \A i \in 1..Len(jobs) : all[i] = jobs[i]
  BY <1>1
<1>3. \A i \in 1..Len(all) : i = Len(jobs) + 1 \/ i \in 1..Len(jobs)
  BY <1>2, JobFacts
<1>4. all # <<>> /\ Len(all) \in Nat
  BY <1>2, JobFacts
<1> HIDE DEF all
<1>5. JobsSound(d, jobs) /\ d.since <= d.revision
  BY DEF DraftSound, JobsSound
<1>6. JobsSound(e, all)
  <2>1. e.since <= e.revision
    BY <1>5, OpenFacts
  <2>2. ASSUME NEW i \in 1..Len(all)
        PROVE  /\ all[i].op = "delete" <=> all[i].draft = NoDraft
               /\ all[i].revision <= e.revision
               /\ all[i].op = "save" /\ all[i].revision = e.revision => all[i].draft = e.memory
    <3>1. CASE i = Len(jobs) + 1
      BY <1>1, <1>2, <3>1, OpenFacts
    <3>2. CASE i \in 1..Len(jobs)
      <4>1. all[i] = jobs[i] /\ jobs[i].revision \in Nat /\ jobs[i].revision <= d.revision
            /\ (jobs[i].op = "delete" <=> jobs[i].draft = NoDraft)
        BY <1>2, <1>5, <3>2, JobFacts DEF JobsSound
      <4>2. jobs[i].revision <= d.revision + 1 /\ jobs[i].revision # d.revision + 1
        BY <4>1, OpenFacts
      <4>3. QED
        BY <4>1, <4>2
    <3>3. QED
      BY <1>3, <3>1, <3>2
  <2>3. QED
    BY <2>1, <2>2 DEF JobsSound
<1>7. EarlyIsBlank(e, all, file)
  <2>1. CASE Early(e)
    <3>1. d.load = "never" /\ e.load = "never"
      BY <1>5, <2>1, OpenFacts DEF Early
    <3>2. OnlyDeletes(jobs)
      BY <3>1 DEF DraftSound, EarlyIsBlank, Early
    <3>3. OnlyDeletes(all)
      BY <1>1, <1>2, <1>3, <3>2 DEF OnlyDeletes
    <3>4. QED
      BY <3>1, <3>3 DEF EarlyIsBlank
  <2>2. CASE ~Early(e)
    BY <2>2 DEF EarlyIsBlank
  <2>3. QED
    BY <2>1, <2>2
<1>8. Left(all, file) = NoDraft
  BY <1>1, <1>2, <1>4 DEF Left
<1>9. QED
  BY <1>2, <1>6, <1>7, <1>8 DEF DraftSound, NewestStored, all, job

\* The file is deleted by a clean-up.
LEMMA CleanedIsSound ==
  ASSUME NEW d, NEW jobs, NEW file, NEW left \in {file, NoDraft}, DraftSound(d, jobs, file)
  PROVE  DraftSound(d, jobs, left)
BY DEF DraftSound, EarlyIsBlank, NewestStored

LEMMA WithoutFacts ==
  ASSUME NEW jobs \in Seq(Jobs), jobs # <<>>
  PROVE  /\ Without(jobs, 1) \in Seq(Jobs) /\ Len(Without(jobs, 1)) = Len(jobs) - 1 /\ Len(jobs) \in Nat \ {0}
         /\ \A i \in 1..(Len(jobs) - 1) : i + 1 \in 1..Len(jobs) /\ Without(jobs, 1)[i] = jobs[i + 1]
         /\ Without(jobs, 1) = <<>> <=> Len(jobs) = 1
<1>1. Len(jobs) \in Nat \ {0} /\ Len(jobs) - 1 \in Nat
  BY JobFacts
<1>2. Without(jobs, 1) = [j \in 1..(Len(jobs) - 1) |-> jobs[j + 1]]
  <2>1. \A j \in 1..(Len(jobs) - 1) : ~(j < 1)
    BY <1>1
  <2>2. QED
    BY <2>1 DEF Without
<1>3. \A i \in 1..(Len(jobs) - 1) : i + 1 \in 1..Len(jobs) /\ jobs[i + 1] \in Jobs
  BY <1>1, JobFacts
<1> DEFINE rest == [j \in 1..(Len(jobs) - 1) |-> jobs[j + 1]]
<1>4. rest \in Seq(Jobs) /\ Len(rest) = Len(jobs) - 1
  BY <1>1, <1>3
<1>5. rest = <<>> <=> Len(jobs) = 1
  BY <1>1, <1>4, JobFacts
<1>6. QED
  BY <1>1, <1>2, <1>3, <1>4, <1>5

\* The first job is done: it wrote its draft, or it failed, left the file as it
\* was and, if it was the newest, warned the human.
LEMMA JobDoneIsSound ==
  ASSUME NEW d \in DraftStates, NEW e \in DraftStates, NEW jobs \in Seq(Jobs), NEW file \in Optional,
         DraftSound(d, jobs, file), jobs # <<>>, NEW left \in Optional,
         e.memory = d.memory, e.revision = d.revision, e.failed = d.failed, e.load = d.load,
         e.since = d.since, e.found = d.found,
         \/ left = jobs[1].draft
         \/ left = file /\ (d.warned \/ (jobs[1].op = "save" /\ jobs[1].revision = d.revision) => e.warned)
  PROVE  DraftSound(e, Without(jobs, 1), left)
<1> DEFINE rest == Without(jobs, 1)
<1>1. /\ rest \in Seq(Jobs) /\ Len(rest) = Len(jobs) - 1 /\ Len(jobs) \in Nat \ {0}
      /\ \A i \in 1..(Len(jobs) - 1) : i + 1 \in 1..Len(jobs) /\ rest[i] = jobs[i + 1]
      /\ rest = <<>> <=> Len(jobs) = 1
  BY WithoutFacts
<1> HIDE DEF rest
<1>2. 1 \in 1..Len(jobs) /\ (jobs[1].op = "delete" <=> jobs[1].draft = NoDraft)
      /\ jobs[1].op \in {"save", "delete"}
  BY <1>1, JobFacts DEF DraftSound, JobsSound
<1>3. JobsSound(e, rest)
  BY <1>1 DEF DraftSound, JobsSound
<1>4. OnlyDeletes(jobs) => OnlyDeletes(rest) /\ left \in {file, NoDraft}
  BY <1>1, <1>2 DEF OnlyDeletes
<1>5. EarlyIsBlank(e, rest, left)
  BY <1>4 DEF DraftSound, EarlyIsBlank, Early
<1>6. NewestStored(e, rest, left)
  <2> SUFFICES ASSUME d.memory # NoDraft
               PROVE  Saving(e, rest) \/ (OnlyDeletes(rest) /\ (left \in {d.memory, NoDraft} \/ e.warned))
    BY DEF NewestStored
  <2>1. CASE Saving(d, jobs) /\ Len(jobs) = 1
    <3>1. OnlyDeletes(rest)
      BY <1>1, <2>1 DEF OnlyDeletes
    <3>2. jobs[1].op = "save" /\ jobs[1].revision = d.revision /\ jobs[1].draft = d.memory
      BY <1>2, <2>1 DEF Saving, DraftSound, JobsSound
    <3>3. QED
      BY <3>1, <3>2
  <2>2. CASE Saving(d, jobs) /\ Len(jobs) # 1
    <3>1. Len(rest) \in 1..(Len(jobs) - 1) /\ Len(rest) + 1 = Len(jobs) /\ rest # <<>>
      BY <1>1, <2>2
    <3>2. rest[Len(rest)] = jobs[Len(jobs)]
      BY <1>1, <3>1
    <3>3. QED
      BY <2>2, <3>1, <3>2 DEF Saving
  <2>3. CASE OnlyDeletes(jobs) /\ (file \in {d.memory, NoDraft} \/ d.warned)
    <3>1. jobs[1].draft = NoDraft
      BY <1>2, <2>3 DEF OnlyDeletes
    <3>2. QED
      BY <1>4, <2>3, <3>1
  <2>4. QED
    BY <2>1, <2>2, <2>3 DEF DraftSound, NewestStored
<1>7. QED
  BY <1>3, <1>5, <1>6 DEF DraftSound, rest

\* What the file will hold in the end does not depend on how many jobs are done.
LEMMA LeftStays ==
  ASSUME NEW jobs \in Seq(Jobs), NEW file, jobs # <<>>
  PROVE  Left(Without(jobs, 1), jobs[1].draft) = Left(jobs, file)
<1>1. CASE Len(jobs) = 1
  BY <1>1, WithoutFacts DEF Left
<1>2. CASE Len(jobs) # 1
  <2>1. Len(jobs) - 1 \in 1..(Len(jobs) - 1) /\ (Len(jobs) - 1) + 1 = Len(jobs)
    BY <1>2, WithoutFacts
  <2>2. QED
    BY <1>2, <2>1, WithoutFacts DEF Left
<1>3. QED
  BY <1>1, <1>2

-----------------------------------------------------------------------------
(* What the operators on the table of drafts do.                              *)

LEMMA PersistedFacts ==
  ASSUME NEW table \in [DraftQuestions -> DraftStates], NEW q \in DraftQuestions, NEW draft \in Optional
  PROVE  LET t == Persisted(table, q, draft) IN
         /\ t \in [DraftQuestions -> DraftStates]
         /\ t[q] \in DraftStates
         /\ t[q].memory = draft /\ t[q].revision = table[q].revision + 1 /\ t[q].failed = FALSE
         /\ t[q].load = table[q].load /\ t[q].since = table[q].since /\ t[q].warned = table[q].warned
         /\ t[q].found = table[q].found
         /\ \A p \in DraftQuestions : p # q => t[p] = table[p]
<1> DEFINE d == table[q]
           next == d.revision + 1
           e == [d EXCEPT !.memory = draft, !.revision = next, !.failed = FALSE]
<1>1. d \in DraftStates /\ next \in Nat
  BY OpenFacts
<1>2. e \in DraftStates
  <2> HIDE DEF next
  <2>1. QED
    BY <1>1, OpenFacts DEF DraftStates, Optional
<1>3. Persisted(table, q, draft) = [table EXCEPT ![q] = e]
  BY DEF Persisted
<1>4. /\ e.memory = draft /\ e.revision = d.revision + 1 /\ e.failed = FALSE
      /\ e.load = d.load /\ e.since = d.since /\ e.warned = d.warned /\ e.found = d.found
  BY <1>1 DEF DraftStates
<1> HIDE DEF e
<1>5. QED
  BY <1>2, <1>3, <1>4

LEMMA PersistedTables ==
  \A table \in [DraftQuestions -> DraftStates] : \A q \in DraftQuestions, draft \in Optional :
    /\ Persisted(table, q, draft)[q] \in DraftStates /\ Persisted(table, q, draft)[q].memory = draft
    /\ Persisted(table, q, draft)[q].revision = table[q].revision + 1
    /\ Persisted(table, q, draft)[q].failed = FALSE
    /\ Persisted(table, q, draft)[q].load = table[q].load
    /\ Persisted(table, q, draft)[q].since = table[q].since
<1> TAKE table \in [DraftQuestions -> DraftStates]
<1> TAKE q \in DraftQuestions, draft \in Optional
<1> DEFINE t == Persisted(table, q, draft)
<1>1. t[q] \in DraftStates
  BY PersistedFacts
<1>2. t[q].memory = draft
  BY PersistedFacts
<1>3. t[q].revision = table[q].revision + 1
  BY PersistedFacts
<1>4. t[q].failed = FALSE
  <2>1. ~t[q].failed
    BY PersistedFacts
  <2>2. t[q].failed \in BOOLEAN
    BY <1>1, OpenFacts
  <2> HIDE DEF t
  <2>3. QED
    BY <2>1, <2>2
<1>5. t[q].load = table[q].load /\ t[q].since = table[q].since
  BY PersistedFacts
<1>6. QED
  BY <1>1, <1>2, <1>3, <1>4, <1>5

LEMMA ForgottenFacts ==
  ASSUME NEW table \in [DraftQuestions -> DraftStates], NEW q \in DraftQuestions
  PROVE  LET t == Forgotten(table, q) IN
         /\ t \in [DraftQuestions -> DraftStates]
         /\ t[q] \in DraftStates
         /\ t[q].memory = NoDraft /\ t[q].revision = table[q].revision + 1 /\ t[q].failed = FALSE
         /\ t[q].load = table[q].load /\ t[q].since = table[q].since
         /\ \A p \in DraftQuestions : p # q => t[p] = table[p]
<1> DEFINE d == table[q]
           next == d.revision + 1
           e == [d EXCEPT !.memory = NoDraft, !.revision = next, !.failed = FALSE, !.warned = FALSE]
<1>1. d \in DraftStates /\ next \in Nat
  BY OpenFacts
<1>2. e \in DraftStates
  <2> HIDE DEF next
  <2>1. QED
    BY <1>1, OpenFacts DEF DraftStates, Optional
<1>3. Forgotten(table, q) = [table EXCEPT ![q] = e]
  BY DEF Forgotten
<1>4. /\ e.memory = NoDraft /\ e.revision = d.revision + 1 /\ e.failed = FALSE
      /\ e.load = d.load /\ e.since = d.since
  BY <1>1 DEF DraftStates
<1> HIDE DEF e
<1>5. QED
  BY <1>2, <1>3, <1>4

LEMMA LoadStartedFacts ==
  ASSUME NEW table \in [DraftQuestions -> DraftStates], NEW q \in DraftQuestions
  PROVE  LET t == LoadStarted(table, q) IN
         /\ t \in [DraftQuestions -> DraftStates]
         /\ t[q] \in DraftStates
         /\ t[q].memory = table[q].memory /\ t[q].revision = table[q].revision
         /\ t[q].warned = table[q].warned /\ t[q].failed = table[q].failed
         /\ IF table[q].load = "never" THEN t[q].load = "running" /\ t[q].since = table[q].revision
            ELSE t[q] = table[q]
         /\ \A p \in DraftQuestions : p # q => t[p] = table[p]
<1> DEFINE d == table[q]
           e == [d EXCEPT !.load = "running", !.since = d.revision]
<1>1. d \in DraftStates
  OBVIOUS
<1>2. e \in DraftStates
  BY <1>1, OpenFacts DEF DraftStates
<1>3. d.load = "never" => LoadStarted(table, q) = [table EXCEPT ![q] = e]
  BY DEF LoadStarted
<1>4. d.load # "never" => LoadStarted(table, q) = table
  BY DEF LoadStarted
<1>5. /\ e.memory = d.memory /\ e.revision = d.revision /\ e.failed = d.failed /\ e.warned = d.warned
      /\ e.load = "running" /\ e.since = d.revision
  BY <1>1 DEF DraftStates
<1> HIDE DEF e
<1>6. QED
  BY <1>2, <1>3, <1>4, <1>5

\* A load that has ended, whatever it brings, changes nothing else.
LEMMA LoadedAlone ==
  ASSUME drafts \in [DraftQuestions -> DraftStates], NEW q \in DraftQuestions
  PROVE  /\ Loaded(q) \in [DraftQuestions -> DraftStates] /\ Loaded(q)[q] \in DraftStates
         /\ Loaded(q)[q].memory = drafts[q].memory /\ Loaded(q)[q].revision = drafts[q].revision
         /\ Loaded(q)[q].since = drafts[q].since /\ Loaded(q)[q].load = "done"
         /\ Loaded(q)[q].failed = drafts[q].failed /\ Loaded(q)[q].warned = drafts[q].warned
         /\ \A p \in DraftQuestions : p # q => Loaded(q)[p] = drafts[p]
<1> DEFINE d == drafts[q]
           e == [d EXCEPT !.load = "done", !.found = NoDraft]
<1>1. d \in DraftStates
  OBVIOUS
<1>2. e \in DraftStates
  BY <1>1, OpenFacts DEF DraftStates, Optional
<1>3. Loaded(q) = [drafts EXCEPT ![q] = e]
  BY DEF Loaded
<1>4. /\ e.memory = d.memory /\ e.revision = d.revision /\ e.failed = d.failed /\ e.warned = d.warned
      /\ e.load = "done" /\ e.since = d.since
  BY <1>1 DEF DraftStates
<1> HIDE DEF e
<1>5. QED
  BY <1>2, <1>3, <1>4

\* The draft of q after a load ended, and what may be noted of the end.
LEMMA LoadedFacts ==
  ASSUME drafts \in [DraftQuestions -> DraftStates], NEW q \in DraftQuestions,
         NEW failed \in BOOLEAN, NEW warned \in BOOLEAN
  PROVE  LET t == [Loaded(q) EXCEPT ![q].failed = failed, ![q].warned = warned] IN
         /\ t \in [DraftQuestions -> DraftStates] /\ Loaded(q) \in [DraftQuestions -> DraftStates]
         /\ t[q] \in DraftStates /\ Loaded(q)[q] \in DraftStates
         /\ t[q].memory = drafts[q].memory /\ t[q].revision = drafts[q].revision
         /\ t[q].since = drafts[q].since /\ t[q].load = "done"
         /\ t[q].failed = failed /\ t[q].warned = warned
         /\ Loaded(q)[q].memory = drafts[q].memory /\ Loaded(q)[q].revision = drafts[q].revision
         /\ Loaded(q)[q].since = drafts[q].since /\ Loaded(q)[q].load = "done"
         /\ Loaded(q)[q].failed = drafts[q].failed /\ Loaded(q)[q].warned = drafts[q].warned
         /\ \A p \in DraftQuestions : p # q => t[p] = drafts[p] /\ Loaded(q)[p] = drafts[p]
<1> DEFINE d == drafts[q]
           e == [d EXCEPT !.load = "done", !.found = NoDraft]
           f == [e EXCEPT !.failed = failed, !.warned = warned]
<1>1. d \in DraftStates
  OBVIOUS
<1>2. e \in DraftStates
  BY <1>1, OpenFacts DEF DraftStates, Optional
<1>3. Loaded(q) = [drafts EXCEPT ![q] = e]
  BY DEF Loaded
<1>4. /\ e.memory = d.memory /\ e.revision = d.revision /\ e.failed = d.failed /\ e.warned = d.warned
      /\ e.load = "done" /\ e.since = d.since
  BY <1>1 DEF DraftStates
<1> HIDE DEF e
<1>5. f \in DraftStates
  BY <1>2, OpenFacts DEF DraftStates
<1>6. /\ f.memory = d.memory /\ f.revision = d.revision /\ f.failed = failed /\ f.warned = warned
      /\ f.load = "done" /\ f.since = d.since
  BY <1>2, <1>4 DEF DraftStates
<1>7. [Loaded(q) EXCEPT ![q].failed = failed, ![q].warned = warned] = [drafts EXCEPT ![q] = f]
  BY <1>3
<1> HIDE DEF f
<1>8. QED
  BY <1>2, <1>3, <1>4, <1>5, <1>6, <1>7

LEMMA SanitizedIsDraft ==
  ASSUME NEW draft \in Draft, NEW options
  PROVE  Sanitized(draft, options) \in Draft
BY DEF Sanitized, Draft

LEMMA BoundsCounted ==
  ASSUME draftBounds \in Bounds, NEW bound \in {"edits", "revisions", "faults", "deaths"}, NEW max, Count(bound, max)
  PROVE  /\ draftBounds' \in Bounds /\ draftBounds'[bound] = draftBounds[bound] + 1
         /\ bound # "faults" => draftBounds'.faults = draftBounds.faults
         /\ bound = "faults" => draftBounds'.faults > 0
BY DEF Bounds, Count

-----------------------------------------------------------------------------
(* The steps.                                                                 *)

LEMMA DraftsStart == DraftsInit => DraftsInv
<1> SUFFICES ASSUME DraftsInit PROVE DraftsInv
  OBVIOUS
<1>1. Unknown \in DraftStates /\ NoDraft \in Optional /\ Nowhere.selected \in Draft
  BY DEF Unknown, DraftStates, Optional, Nowhere, Draft
<1>2. DOMAIN known = {} /\ DOMAIN offered = DraftQuestions
  BY DEF DraftsInit, NoPending
<1>3. [draft |-> NoDraft, readable |-> TRUE] \in Files
  BY <1>1 DEF Files
<1>4. draftBounds \in Bounds
  BY DEF DraftsInit, Bounds
<1>5. Nowhere \in [question : DraftQuestions \cup {NoDraft}, selected : Draft]
  BY DEF Nowhere, Draft
<1>6. <<>> \in Seq(Jobs) /\ <<>> \in Seq(Waits)
  OBVIOUS
<1>7. DraftTypes
  BY <1>1, <1>2, <1>3, <1>4, <1>5, <1>6 DEF DraftsInit, DraftTypes
<1>8. ASSUME NEW q \in DraftQuestions PROVE QuestionSound(q)
  <2>1. drafts[q] = Unknown /\ saves[q] = <<>> /\ files[q].draft = NoDraft /\ shown.question = NoDraft
    BY DEF DraftsInit, Nowhere
  <2>2. DraftSound(Unknown, <<>>, NoDraft)
    BY DEF DraftSound, JobsSound, EarlyIsBlank, NewestStored, OnlyDeletes, Early, Unknown
  <2>3. NothingLeft(q)
    BY <2>1 DEF NothingLeft, Left
  <2>4. QED
    BY <2>1, <2>2, <2>3 DEF QuestionSound
<1>9. QED
  BY <1>7, <1>8 DEF DraftsInv

LEMMA TypedFacts ==
  ASSUME DraftTypes, NEW q \in DraftQuestions
  PROVE  /\ drafts[q] \in DraftStates /\ saves[q] \in Seq(Jobs) /\ files[q] \in Files
         /\ files[q].draft \in Optional /\ draftBounds.faults \in Nat
BY DEF DraftTypes, Files, Bounds

\* A step that does not concern the draft of q.
LEMMA QuestionKept ==
  ASSUME NEW q \in DraftQuestions, QuestionSound(q), drafts'[q] = drafts[q], saves'[q] = saves[q],
         files'[q].draft = files[q].draft, known' = known,
         Owed(q) => Owed(q)', draftBounds.faults > 0 => draftBounds'.faults > 0,
         shown'.question \in {shown.question, NoDraft} \/ drafts[q].load # "never" \/ shown'.question # q
  PROVE  QuestionSound(q)'
<1>1. DraftSound(drafts[q], saves[q], files[q].draft)'
  BY DEF QuestionSound
<1>2. NothingLeft(q)'
  BY DEF QuestionSound, NothingLeft
<1>3. (shown.question = q /\ q # NoDraft => drafts[q].load # "never")'
  BY DEF QuestionSound
<1>4. QED
  BY <1>1, <1>2, <1>3 DEF QuestionSound

LEMMA OwedStays ==
  ASSUME NEW q, cleanups' = cleanups, saves'[q] = saves[q], Owed(q)
  PROVE  Owed(q)'
BY DEF Owed

LEMMA ServerSteps ==
  ASSUME DraftsInv, StateRead \/ (\E q \in DraftQuestions : Revised(q) \/ SubmitDraft(q))
  PROVE  DraftsInv'
<1>1. UNCHANGED <<known, shown, drafts, saves, cleanups, files>>
  BY DEF StateRead, Revised, SubmitDraft
<1>2. draftBounds' \in Bounds /\ draftBounds'.faults = draftBounds.faults
  <2>1. draftBounds \in Bounds
    BY DEF DraftsInv, DraftTypes
  <2>2. CASE UNCHANGED draftBounds
    BY <2>1, <2>2
  <2>3. CASE Count("revisions", MaxRevisions)
    BY <2>1, <2>3, BoundsCounted
  <2>4. QED
    BY <2>2, <2>3 DEF StateRead, Revised, SubmitDraft
<1>3. DOMAIN offered \subseteq DraftQuestions /\ DOMAIN known \subseteq DraftQuestions
      /\ \A state \in fetched : DOMAIN state \subseteq DraftQuestions
  BY DEF DraftsInv, DraftTypes
<1>4. DOMAIN offered' \subseteq DraftQuestions
  <2>1. CASE StateRead
    BY <1>3, <2>1 DEF StateRead
  <2>2. ASSUME NEW q \in DraftQuestions, Revised(q) PROVE DOMAIN offered' \subseteq DraftQuestions
    BY <1>3, <2>2 DEF Revised
  <2>3. ASSUME NEW q \in DraftQuestions, SubmitDraft(q) PROVE DOMAIN offered' \subseteq DraftQuestions
    BY <1>3, <2>3 DEF SubmitDraft
  <2>4. QED
    BY <2>1, <2>2, <2>3
<1>5. \A state \in fetched' : DOMAIN state \subseteq DraftQuestions
  BY <1>3 DEF StateRead, Revised, SubmitDraft
<1>6. submitted' \subseteq DraftQuestions
  BY DEF DraftsInv, DraftTypes, StateRead, Revised, SubmitDraft
<1>7. DraftTypes'
  BY <1>1, <1>2, <1>3, <1>4, <1>5, <1>6 DEF DraftsInv, DraftTypes
<1>8. ASSUME NEW q \in DraftQuestions PROVE QuestionSound(q)'
  <2>1. QuestionSound(q) /\ (Owed(q) => Owed(q)')
    BY <1>1, OwedStays DEF DraftsInv
  <2>2. QED
    BY <1>1, <1>2, <2>1, QuestionKept
<1>9. QED
  BY <1>7, <1>8 DEF DraftsInv

LEMMA JoinedFacts ==
  ASSUME cleanups \in Seq(Waits), NEW q \in DraftQuestions
  PROVE  /\ Joined(q) \in Seq(Waits) /\ Len(Joined(q)) = Len(cleanups)
         /\ \A i \in 1..Len(cleanups) :
              /\ Joined(q)[i].active = cleanups[i].active
              /\ cleanups[i].waits[q] \in Nat
              /\ cleanups[i].waits[q] > 0 => Joined(q)[i].waits[q] = cleanups[i].waits[q] - 1
              /\ \A p \in DraftQuestions : p # q => Joined(q)[i].waits[p] = cleanups[i].waits[p]
<1> DEFINE less(w) == [w EXCEPT ![q] = IF w[q] > 0 THEN w[q] - 1 ELSE 0]
           after(c) == [c EXCEPT !.waits = less(c.waits)]
<1>1. ASSUME NEW w \in [DraftQuestions -> Nat]
      PROVE  /\ less(w) \in [DraftQuestions -> Nat]
             /\ w[q] > 0 => less(w)[q] = w[q] - 1
             /\ \A p \in DraftQuestions : p # q => less(w)[p] = w[p]
  OBVIOUS
<1>2. \A c \in Waits : c.waits \in [DraftQuestions -> Nat] /\ c.waits[q] \in Nat
  BY DEF Waits
<1> HIDE DEF less
<1>3. ASSUME NEW c \in Waits
      PROVE  after(c) \in Waits /\ after(c).active = c.active /\ after(c).waits = less(c.waits)
  BY <1>1, <1>2 DEF Waits
<1>4. DOMAIN cleanups = 1..Len(cleanups) /\ Len(cleanups) \in Nat
      /\ \A i \in 1..Len(cleanups) : cleanups[i] \in Waits
  OBVIOUS
<1>5. Joined(q) = [i \in 1..Len(cleanups) |-> after(cleanups[i])]
  BY <1>4 DEF Joined, less
<1> HIDE DEF after
<1>6. QED
  BY <1>1, <1>2, <1>3, <1>4, <1>5

\* A job of q ends.  A clean-up that waited for all the jobs still does.
LEMMA JobEndsFacts ==
  ASSUME DraftTypes, NEW q \in DraftQuestions, saves[q] # <<>>, JobEnds(q, 1)
  PROVE  /\ saves' \in [DraftQuestions -> Seq(Jobs)] /\ cleanups' \in Seq(Waits)
         /\ saves'[q] = Without(saves[q], 1)
         /\ \A p \in DraftQuestions : p # q => saves'[p] = saves[p]
         /\ \A p \in DraftQuestions : Owed(p) => Owed(p)'
<1>1. saves \in [DraftQuestions -> Seq(Jobs)] /\ cleanups \in Seq(Waits) /\ saves[q] \in Seq(Jobs)
  BY DEF DraftTypes
<1>2. /\ saves' \in [DraftQuestions -> Seq(Jobs)] /\ cleanups' \in Seq(Waits)
      /\ saves'[q] = Without(saves[q], 1)
      /\ \A p \in DraftQuestions : p # q => saves'[p] = saves[p]
  BY <1>1, WithoutFacts, JoinedFacts DEF JobEnds
<1>3. ASSUME NEW p \in DraftQuestions, Owed(p) PROVE Owed(p)'
  <2>1. PICK i \in 1..Len(cleanups) : p \notin cleanups[i].active /\ cleanups[i].waits[p] = Len(saves[p])
    BY <1>3 DEF Owed
  <2>2. i \in 1..Len(cleanups') /\ cleanups'[i].active = cleanups[i].active
    BY <1>1, JoinedFacts DEF JobEnds
  <2>3. cleanups'[i].waits[p] = Len(saves'[p])
    <3>1. CASE p = q
      <4>1. Len(saves[q]) > 0 /\ Len(saves'[q]) = Len(saves[q]) - 1
        BY <1>1, <1>2, WithoutFacts
      <4>2. QED
        BY <1>1, <2>1, <3>1, <4>1, JoinedFacts DEF JobEnds
    <3>2. CASE p # q
      BY <1>1, <1>2, <2>1, <3>2, JoinedFacts DEF JobEnds
    <3>3. QED
      BY <3>1, <3>2
  <2>4. QED
    BY <2>1, <2>2, <2>3 DEF Owed
<1>4. QED
  BY <1>2, <1>3

LEMMA WarnFacts ==
  ASSUME DraftTypes, NEW q \in DraftQuestions, NEW job, NEW warning \in BOOLEAN, Warn(q, job, warning)
  PROVE  /\ drafts' \in [DraftQuestions -> DraftStates]
         /\ \A p \in DraftQuestions : p # q => drafts'[p] = drafts[p]
         /\ drafts'[q].memory = drafts[q].memory /\ drafts'[q].revision = drafts[q].revision
         /\ drafts'[q].failed = drafts[q].failed /\ drafts'[q].load = drafts[q].load
         /\ drafts'[q].since = drafts[q].since /\ drafts'[q].found = drafts[q].found
         /\ drafts'[q].warned = IF job.op = "save" /\ job.revision = drafts[q].revision
                                THEN warning ELSE drafts[q].warned
<1> DEFINE e == [drafts[q] EXCEPT !.warned = warning]
<1>1. drafts \in [DraftQuestions -> DraftStates] /\ drafts[q] \in DraftStates
  BY DEF DraftTypes
<1>2. /\ e \in DraftStates /\ e.memory = drafts[q].memory /\ e.revision = drafts[q].revision
      /\ e.failed = drafts[q].failed /\ e.load = drafts[q].load /\ e.since = drafts[q].since
      /\ e.found = drafts[q].found /\ e.warned = warning
  BY <1>1 DEF DraftStates
<1>3. CASE job.op = "save" /\ job.revision = drafts[q].revision
  <2>1. drafts' = [drafts EXCEPT ![q] = e]
    BY <1>3 DEF Warn
  <2> HIDE DEF e
  <2>2. QED
    BY <1>1, <1>2, <1>3, <2>1
<1>4. CASE ~(job.op = "save" /\ job.revision = drafts[q].revision)
  BY <1>1, <1>4 DEF Warn
<1>5. QED
  BY <1>3, <1>4

LEMMA JobSucceedsKeeps ==
  ASSUME DraftsInv, NEW q \in DraftQuestions, JobSucceeds(q)
  PROVE  DraftsInv'
<1> DEFINE job == saves[q][1]
           written == [draft |-> job.draft, readable |-> TRUE]
<1>1. DraftTypes /\ saves[q] # <<>> /\ job \in Jobs /\ saves[q] \in Seq(Jobs)
  <2>1. DraftTypes /\ saves[q] \in Seq(Jobs) /\ 1 \in DOMAIN saves[q]
    BY DEF DraftsInv, DraftTypes, JobSucceeds, SaveRunnable
  <2>2. QED
    BY <2>1
<1>2. /\ files' = [files EXCEPT ![q] = written]
      /\ Warn(q, job, FALSE) /\ JobEnds(q, 1)
      /\ UNCHANGED <<offered, known, fetched, shown, submitted, draftBounds>>
  BY DEF JobSucceeds, SaveRunnable
<1>3. written \in Files /\ written.draft = job.draft /\ job.draft \in Optional
  BY <1>1 DEF Files, Jobs
<1> HIDE DEF written, job
<1>4. files' \in [DraftQuestions -> Files] /\ files'[q].draft = job.draft
      /\ \A p \in DraftQuestions : p # q => files'[p] = files[p]
  BY <1>1, <1>2, <1>3 DEF DraftTypes
<1>5. DraftTypes'
  BY <1>1, <1>2, <1>4, WarnFacts, JobEndsFacts DEF DraftTypes
<1>6. ASSUME NEW p \in DraftQuestions, p # q PROVE QuestionSound(p)'
  <2>1. QuestionSound(p) /\ drafts'[p] = drafts[p] /\ saves'[p] = saves[p] /\ (Owed(p) => Owed(p)')
    BY <1>1, <1>2, <1>6, WarnFacts, JobEndsFacts DEF DraftsInv
  <2>2. QED
    BY <1>2, <1>4, <1>6, <2>1, QuestionKept
<1>7. QuestionSound(q)'
  <2>1. QuestionSound(q) /\ drafts[q] \in DraftStates /\ drafts'[q] \in DraftStates /\ files[q].draft \in Optional
    BY <1>1, <1>5, TypedFacts DEF DraftsInv, DraftTypes
  <2>2. DraftSound(drafts[q], saves[q], files[q].draft)'
    <3>1. DraftSound(drafts'[q], Without(saves[q], 1), files'[q].draft)
      BY <1>1, <1>2, <1>3, <1>4, <2>1, WarnFacts, JobDoneIsSound DEF QuestionSound, job
    <3>2. QED
      BY <1>1, <1>2, <3>1, JobEndsFacts
  <2>3. NothingLeft(q)'
    <3>1. Left(saves'[q], files'[q].draft) = Left(saves[q], files[q].draft)
      BY <1>1, <1>2, <1>4, JobEndsFacts, LeftStays DEF job
    <3>2. drafts'[q].memory = drafts[q].memory /\ (Early(drafts'[q]) <=> Early(drafts[q]))
          /\ drafts'[q].load = drafts[q].load /\ (Owed(q) => Owed(q)')
      BY <1>1, <1>2, WarnFacts, JobEndsFacts DEF Early
    <3>3. drafts[q].memory = NoDraft => drafts'[q].warned = drafts[q].warned
      <4>1. 1 \in 1..Len(saves[q])
        BY <1>1, JobFacts
      <4>2. drafts[q].memory = NoDraft => ~(job.op = "save" /\ job.revision = drafts[q].revision)
        BY <2>1, <4>1 DEF QuestionSound, DraftSound, JobsSound, job
      <4>3. QED
        BY <1>1, <1>2, <4>2, WarnFacts
    <3>4. QED
      BY <1>2, <2>1, <3>1, <3>2, <3>3 DEF QuestionSound, NothingLeft
  <2>4. QED
    BY <1>1, <1>2, <2>1, <2>2, <2>3, WarnFacts DEF QuestionSound
<1>8. QED
  BY <1>5, <1>6, <1>7 DEF DraftsInv

LEMMA JobFailsKeeps ==
  ASSUME DraftsInv, NEW q \in DraftQuestions, JobFails(q)
  PROVE  DraftsInv'
<1> DEFINE job == saves[q][1]
<1>1. DraftTypes /\ saves[q] # <<>> /\ job \in Jobs /\ saves[q] \in Seq(Jobs)
  <2>1. DraftTypes /\ saves[q] \in Seq(Jobs) /\ 1 \in DOMAIN saves[q]
    BY DEF DraftsInv, DraftTypes, JobFails, SaveRunnable
  <2>2. QED
    BY <2>1
<1>2. /\ Warn(q, job, TRUE) /\ JobEnds(q, 1) /\ Count("faults", MaxStoreFaults)
      /\ UNCHANGED <<offered, known, fetched, shown, submitted>>
      /\ \/ files' = files
         \/ files' = [p \in DraftQuestions |-> [files[p] EXCEPT !.readable = FALSE]]
  BY DEF JobFails, SaveRunnable
<1> HIDE DEF job
<1>3. files' \in [DraftQuestions -> Files] /\ \A p \in DraftQuestions : files'[p].draft = files[p].draft
  <2>1. files \in [DraftQuestions -> Files]
    BY <1>1 DEF DraftTypes
  <2>2. \A file \in Files : [file EXCEPT !.readable = FALSE] \in Files
                            /\ [file EXCEPT !.readable = FALSE].draft = file.draft
    BY DEF Files
  <2>3. QED
    BY <1>2, <2>1, <2>2
<1>4. draftBounds' \in Bounds /\ draftBounds'.faults > 0
  BY <1>1, <1>2, BoundsCounted DEF DraftTypes
<1>5. DraftTypes'
  BY <1>1, <1>2, <1>3, <1>4, WarnFacts, JobEndsFacts DEF DraftTypes
<1>6. ASSUME NEW p \in DraftQuestions, p # q PROVE QuestionSound(p)'
  <2>1. QuestionSound(p) /\ drafts'[p] = drafts[p] /\ saves'[p] = saves[p] /\ (Owed(p) => Owed(p)')
    BY <1>1, <1>2, <1>6, WarnFacts, JobEndsFacts DEF DraftsInv
  <2>2. QED
    BY <1>2, <1>3, <1>4, <1>6, <2>1, QuestionKept
<1>7. QuestionSound(q)'
  <2>1. QuestionSound(q) /\ drafts[q] \in DraftStates /\ drafts'[q] \in DraftStates /\ files[q].draft \in Optional
    BY <1>1, <1>5, TypedFacts DEF DraftsInv, DraftTypes
  <2>2. DraftSound(drafts[q], saves[q], files[q].draft)'
    <3> DEFINE d == drafts[q]
               e == drafts'[q]
               jobs == saves[q]
               file == files[q].draft
    <3>3. /\ e.memory = d.memory /\ e.revision = d.revision /\ e.failed = d.failed /\ e.load = d.load
          /\ e.since = d.since /\ e.found = d.found
          /\ e.warned = IF job.op = "save" /\ job.revision = d.revision THEN TRUE ELSE d.warned
      BY <1>1, <1>2, WarnFacts
    <3>4. d \in DraftStates /\ e \in DraftStates /\ jobs \in Seq(Jobs) /\ file \in Optional
          /\ DraftSound(d, jobs, file) /\ jobs # <<>> /\ job = jobs[1]
      BY <1>1, <2>1 DEF QuestionSound, job
    <3> HIDE DEF d, e, jobs, file
    <3>5. d.warned \/ (jobs[1].op = "save" /\ jobs[1].revision = d.revision) => e.warned
      BY <3>3, <3>4
    <3>6. DraftSound(e, Without(jobs, 1), file)
      BY <3>3, <3>4, <3>5, JobDoneIsSound
    <3>1. DraftSound(drafts'[q], Without(saves[q], 1), files[q].draft)
      BY <3>6 DEF d, e, jobs, file
    <3>2. QED
      BY <1>1, <1>2, <1>3, <3>1, JobEndsFacts
  <2>3. NothingLeft(q)'
    BY <1>4 DEF NothingLeft
  <2>4. QED
    BY <1>1, <1>2, <2>1, <2>2, <2>3, WarnFacts DEF QuestionSound
<1>8. QED
  BY <1>5, <1>6, <1>7 DEF DraftsInv

LEMMA TailFacts ==
  ASSUME NEW S, NEW s \in Seq(S), s # <<>>
  PROVE  /\ Tail(s) \in Seq(S) /\ Len(Tail(s)) = Len(s) - 1 /\ Len(s) \in Nat \ {0} /\ Head(s) = s[1]
         /\ \A i \in 1..(Len(s) - 1) : Tail(s)[i] = s[i + 1]
OBVIOUS

LEMMA CleanedUpKeeps ==
  ASSUME DraftsInv, CleanedUp
  PROVE  DraftsInv'
<1>1. DraftTypes /\ cleanups \in Seq(Waits) /\ cleanups # <<>> /\ Head(cleanups) = cleanups[1]
      /\ cleanups' = Tail(cleanups) /\ UNCHANGED <<offered, known, fetched, shown, submitted, drafts, saves>>
  BY TailFacts DEF DraftsInv, DraftTypes, CleanedUp
<1> DEFINE none == [draft |-> NoDraft, readable |-> TRUE]
<1>2. /\ files' \in [DraftQuestions -> Files]
      /\ draftBounds' \in Bounds /\ (draftBounds.faults > 0 => draftBounds'.faults > 0)
      /\ \A q \in DraftQuestions : files'[q].draft \in {files[q].draft, NoDraft}
      /\ \A q \in DraftQuestions : q \notin cleanups[1].active => files'[q].draft = NoDraft \/ draftBounds'.faults > 0
      /\ \A q \in DraftQuestions : q \in cleanups[1].active => files'[q].draft = files[q].draft
  <2>1. none \in Files /\ none.draft = NoDraft
    BY DEF Files, Optional
  <2> HIDE DEF none
  <2>2. CASE /\ files' = [q \in DraftQuestions |-> IF q \in Head(cleanups).active THEN files[q] ELSE none]
             /\ UNCHANGED draftBounds
    BY <1>1, <2>1, <2>2 DEF DraftTypes
  <2>3. CASE Count("faults", MaxStoreFaults) /\ UNCHANGED files
    BY <1>1, <2>3, BoundsCounted DEF DraftTypes
  <2>4. QED
    BY <2>2, <2>3 DEF CleanedUp, none
<1>3. DraftTypes'
  BY <1>1, <1>2, TailFacts DEF DraftTypes
<1>4. ASSUME NEW q \in DraftQuestions PROVE QuestionSound(q)'
  <2>1. QuestionSound(q) /\ saves[q] \in Seq(Jobs)
    BY <1>1, TypedFacts DEF DraftsInv
  <2>2. DraftSound(drafts[q], saves[q], files[q].draft)'
    BY <1>1, <1>2, <2>1, CleanedIsSound DEF QuestionSound
  <2>3. Owed(q) /\ draftBounds'.faults = 0 /\ Left(saves[q], files'[q].draft) # NoDraft => Owed(q)'
    <3> SUFFICES ASSUME Owed(q), draftBounds'.faults = 0, Left(saves[q], files'[q].draft) # NoDraft
                 PROVE  Owed(q)'
      OBVIOUS
    <3>1. PICK i \in 1..Len(cleanups) : q \notin cleanups[i].active /\ cleanups[i].waits[q] = Len(saves[q])
      BY DEF Owed
    <3>2. CASE i = 1
      <4>1. Len(saves[q]) = 0 /\ saves[q] = <<>>
        BY <1>1, <2>1, <3>1, <3>2, JobFacts DEF CleanedUp
      <4>2. files'[q].draft = NoDraft
        BY <1>2, <3>1, <3>2
      <4>3. QED
        BY <4>1, <4>2 DEF Left
    <3>3. CASE i # 1
      <4> DEFINE j == i - 1
      <4>1. j \in 1..(Len(cleanups) - 1) /\ j + 1 = i
        BY <1>1, <3>3, TailFacts
      <4>2. j \in 1..Len(cleanups') /\ cleanups'[j] = cleanups[i]
        BY <1>1, <4>1, TailFacts
      <4>3. QED
        BY <1>1, <3>1, <4>2 DEF Owed
    <3>4. QED
      BY <3>2, <3>3
  <2>4. draftBounds'.faults \in Nat
    BY <1>3 DEF DraftTypes, Bounds
  <2>5. Left(saves[q], files'[q].draft) # NoDraft => Left(saves[q], files[q].draft) # NoDraft
    BY <1>2 DEF Left
  <2>6. NothingLeft(q)'
    BY <1>1, <1>2, <2>1, <2>3, <2>4, <2>5 DEF QuestionSound, NothingLeft
  <2>7. QED
    BY <1>1, <2>1, <2>2, <2>6 DEF QuestionSound
<1>5. QED
  BY <1>3, <1>4 DEF DraftsInv

LEMMA LoadReadsKeeps ==
  ASSUME DraftsInv, NEW q \in DraftQuestions, LoadReads(q)
  PROVE  DraftsInv'
<1> DEFINE d == drafts[q]
           load == IF files[q].readable THEN "read" ELSE "purging"
           found == IF files[q].readable THEN files[q].draft ELSE NoDraft
           e == [d EXCEPT !.load = load, !.found = found]
<1>1. DraftTypes /\ d \in DraftStates /\ files[q].draft \in Optional /\ saves[q] \in Seq(Jobs) /\ QuestionSound(q)
  BY TypedFacts DEF DraftsInv
<1>2. found \in Optional /\ load \in {"read", "purging"} /\ (load = "read" => found = files[q].draft)
  BY <1>1 DEF Optional
<1>3. drafts' = [drafts EXCEPT ![q] = e] /\ d.load = "running"
      /\ UNCHANGED <<offered, known, fetched, shown, submitted, saves, cleanups, files, draftBounds>>
  BY DEF LoadReads
<1> HIDE DEF load, found
<1>4. /\ e \in DraftStates /\ e.memory = d.memory /\ e.revision = d.revision /\ e.failed = d.failed
      /\ e.load = load /\ e.since = d.since /\ e.found = found /\ e.warned = d.warned
  BY <1>1, <1>2 DEF DraftStates
<1> HIDE DEF e
<1>5. drafts' \in [DraftQuestions -> DraftStates] /\ drafts'[q] = e
      /\ \A p \in DraftQuestions : p # q => drafts'[p] = drafts[p]
  BY <1>1, <1>3, <1>4 DEF DraftTypes
<1>6. DraftTypes'
  BY <1>1, <1>3, <1>5 DEF DraftTypes
<1>7. ASSUME NEW p \in DraftQuestions, p # q PROVE QuestionSound(p)'
  BY <1>3, <1>5, <1>7, OwedStays, QuestionKept DEF DraftsInv
<1>8. QuestionSound(q)'
  <2>1. DraftSound(d, saves[q], files[q].draft)
    BY <1>1 DEF QuestionSound
  <2>2. DraftSound(e, saves[q], files[q].draft) /\ (Early(e) <=> Early(d))
    <3> HIDE DEF d
    <3>1. QED
      BY <1>1, <1>2, <1>3, <1>4, <2>1, ReadIsSound
  <2>3. Owed(q) => Owed(q)'
    BY <1>3, OwedStays
  <2>4. NothingLeft(q)'
    BY <1>1, <1>3, <1>4, <1>5, <2>2, <2>3 DEF QuestionSound, NothingLeft
  <2>5. QED
    BY <1>1, <1>2, <1>3, <1>4, <1>5, <2>2, <2>4 DEF QuestionSound
<1>9. QED
  BY <1>6, <1>7, <1>8 DEF DraftsInv

LEMMA LoadFailsKeeps ==
  ASSUME DraftsInv, NEW q \in DraftQuestions, LoadFails(q)
  PROVE  DraftsInv'
<1> DEFINE d == drafts[q]
           e == drafts'[q]
<1>1. DraftTypes /\ d \in DraftStates /\ files[q].draft \in Optional /\ saves[q] \in Seq(Jobs) /\ QuestionSound(q)
      /\ drafts \in [DraftQuestions -> DraftStates]
  BY TypedFacts DEF DraftsInv, DraftTypes
<1>2. /\ UNCHANGED <<offered, known, fetched, shown, submitted, saves, cleanups>>
      /\ d.load \in {"purging", "running"}
      /\ drafts' = LoadFailed(q)
  BY DEF LoadFails
<1>3. /\ drafts' \in [DraftQuestions -> DraftStates] /\ e \in DraftStates
      /\ e.memory = d.memory /\ e.revision = d.revision /\ e.since = d.since /\ e.load = "done"
      /\ IF d.revision = d.since THEN e.failed = TRUE /\ e.warned = TRUE
         ELSE e.failed = d.failed /\ e.warned = d.warned
      /\ \A p \in DraftQuestions : p # q => drafts'[p] = drafts[p]
  <2>1. CASE d.revision = d.since
    <3>1. drafts' = [Loaded(q) EXCEPT ![q].failed = TRUE, ![q].warned = TRUE]
      BY <1>2, <2>1 DEF LoadFailed, Untouched
    <3>2. /\ drafts' \in [DraftQuestions -> DraftStates] /\ e \in DraftStates
          /\ e.memory = d.memory /\ e.revision = d.revision /\ e.since = d.since /\ e.load = "done"
          /\ e.failed = TRUE /\ e.warned = TRUE
          /\ \A p \in DraftQuestions : p # q => drafts'[p] = drafts[p]
      <4> DEFINE t == [Loaded(q) EXCEPT ![q].failed = TRUE, ![q].warned = TRUE]
      <4>1. drafts' = t
        BY <3>1
      <4>2. /\ t \in [DraftQuestions -> DraftStates] /\ t[q] \in DraftStates
            /\ t[q].memory = d.memory /\ t[q].revision = d.revision
            /\ t[q].since = d.since /\ t[q].load = "done" /\ t[q].failed = TRUE /\ t[q].warned = TRUE
            /\ \A p \in DraftQuestions : p # q => t[p] = drafts[p]
        BY <1>1, LoadedFacts
      <4> HIDE DEF t
      <4>3. QED
        BY <4>1, <4>2
    <3>3. QED
      BY <2>1, <3>2
  <2>2. CASE d.revision # d.since
    <3>1. drafts' = Loaded(q)
      BY <1>2, <2>2 DEF LoadFailed, Untouched
    <3>2. /\ drafts' \in [DraftQuestions -> DraftStates] /\ e \in DraftStates
          /\ e.memory = d.memory /\ e.revision = d.revision /\ e.since = d.since /\ e.load = "done"
          /\ e.failed = d.failed /\ e.warned = d.warned
          /\ \A p \in DraftQuestions : p # q => drafts'[p] = drafts[p]
      <4> DEFINE t == Loaded(q)
      <4>1. drafts' = t
        BY <3>1
      <4>2. /\ t \in [DraftQuestions -> DraftStates] /\ t[q] \in DraftStates
            /\ t[q].memory = d.memory /\ t[q].revision = d.revision
            /\ t[q].since = d.since /\ t[q].load = "done"
            /\ t[q].failed = d.failed /\ t[q].warned = d.warned
            /\ \A p \in DraftQuestions : p # q => t[p] = drafts[p]
        BY <1>1, LoadedAlone
      <4> HIDE DEF t
      <4>3. QED
        BY <4>1, <4>2
    <3>3. QED
      BY <2>2, <3>2
  <2>3. QED
    BY <2>1, <2>2
<1>4. /\ files' \in [DraftQuestions -> Files] /\ draftBounds' \in Bounds
      /\ draftBounds.faults > 0 => draftBounds'.faults > 0
      /\ \A p \in DraftQuestions : p # q => files'[p] = files[p]
      /\ \/ files'[q].draft = NoDraft
         \/ files'[q].draft = files[q].draft /\ draftBounds'.faults > 0
  <2> DEFINE none == [draft |-> NoDraft, readable |-> TRUE]
  <2>1. none \in Files /\ none.draft = NoDraft
    BY DEF Files, Optional
  <2> HIDE DEF none
  <2>2. CASE files' = [files EXCEPT ![q] = none] /\ UNCHANGED draftBounds
    BY <1>1, <2>1, <2>2 DEF DraftTypes
  <2>3. CASE Count("faults", MaxStoreFaults) /\ UNCHANGED files
    BY <1>1, <2>3, BoundsCounted DEF DraftTypes
  <2>4. QED
    BY <2>2, <2>3 DEF LoadFails, none
<1>5. DraftTypes'
  BY <1>1, <1>2, <1>3, <1>4 DEF DraftTypes
<1>6. ASSUME NEW p \in DraftQuestions, p # q PROVE QuestionSound(p)'
  BY <1>2, <1>3, <1>4, <1>6, OwedStays, QuestionKept DEF DraftsInv
<1>7. QuestionSound(q)'
  <2>1. DraftSound(d, saves[q], files[q].draft)
    BY <1>1 DEF QuestionSound
  <2>2. d.revision = d.since <=> Early(d)
    BY <1>1, <1>2, OpenFacts DEF Early
  <2> HIDE DEF d, e
  <2>3. DraftSound(e, saves[q], files'[q].draft) /\ ~Early(e)
    BY <1>1, <1>3, <1>4, <2>1, <2>2, SettledIsSound
  <2>4. Left(saves[q], files'[q].draft) # NoDraft =>
          Left(saves[q], files[q].draft) # NoDraft \/ draftBounds'.faults > 0
    BY <1>4 DEF Left
  <2>5. Owed(q) => Owed(q)'
    BY <1>2, OwedStays
  <2>6. NothingLeft(q)'
    BY <1>1, <1>2, <1>3, <1>4, <2>2, <2>3, <2>4, <2>5 DEF QuestionSound, NothingLeft, d, e
  <2>7. QED
    BY <1>1, <1>2, <1>3, <2>3, <2>6 DEF QuestionSound, e
<1>8. QED
  BY <1>5, <1>6, <1>7 DEF DraftsInv

LEMMA DraftRestoredKeeps ==
  ASSUME DraftsInv, NEW q \in DraftQuestions, DraftRestored(q)
  PROVE  DraftsInv'
<1> DEFINE d == drafts[q]
           e == drafts'[q]
           calm == [Loaded(q) EXCEPT ![q].failed = FALSE, ![q].warned = FALSE]
           usable == d.found # NoDraft /\ q \in DOMAIN known
           clean == IF usable THEN Sanitized(d.found, known[q]) ELSE {}
           job == SaveJob(clean, d.revision + 1)
<1>1. DraftTypes /\ d \in DraftStates /\ files[q].draft \in Optional /\ saves[q] \in Seq(Jobs) /\ QuestionSound(q)
      /\ drafts \in [DraftQuestions -> DraftStates] /\ DraftSound(d, saves[q], files[q].draft)
  BY TypedFacts DEF DraftsInv, DraftTypes, QuestionSound
<1>2. UNCHANGED <<offered, known, fetched, submitted, cleanups, files, draftBounds>> /\ d.load = "read"
  BY DEF DraftRestored
<1>3. clean \in Draft /\ (Early(d) <=> d.revision = d.since)
  BY <1>1, <1>2, SanitizedIsDraft, OpenFacts DEF Early, Optional, Draft
<1>4. /\ calm \in [DraftQuestions -> DraftStates] /\ Loaded(q) \in [DraftQuestions -> DraftStates]
      /\ calm[q] \in DraftStates /\ Loaded(q)[q] \in DraftStates
      /\ calm[q].memory = d.memory /\ calm[q].revision = d.revision
      /\ calm[q].since = d.since /\ calm[q].load = "done"
      /\ calm[q].failed = FALSE /\ calm[q].warned = FALSE
      /\ Loaded(q)[q].memory = d.memory /\ Loaded(q)[q].revision = d.revision
      /\ Loaded(q)[q].since = d.since /\ Loaded(q)[q].load = "done"
      /\ Loaded(q)[q].failed = d.failed /\ Loaded(q)[q].warned = d.warned
      /\ \A p \in DraftQuestions : p # q => calm[p] = drafts[p] /\ Loaded(q)[p] = drafts[p]
  BY <1>1, LoadedFacts
<1>5. /\ ~Untouched(q) => drafts' = Loaded(q) /\ UNCHANGED <<saves, shown>>
      /\ Untouched(q) =>
           /\ drafts' = IF ~usable THEN calm
                        ELSE IF clean = d.found THEN [calm EXCEPT ![q].memory = clean]
                        ELSE Persisted(calm, q, clean)
           /\ IF usable /\ clean # d.found THEN StartSave(q, clean) ELSE UNCHANGED saves
           /\ shown' = IF usable /\ shown.question = q THEN [shown EXCEPT !.selected = clean] ELSE shown
  BY DEF DraftRestored
<1> HIDE DEF calm, usable, clean
<1>6. shown'.question = shown.question /\ shown' \in [question : DraftQuestions \cup {NoDraft}, selected : Draft]
  <2>1. shown \in [question : DraftQuestions \cup {NoDraft}, selected : Draft]
    BY <1>1 DEF DraftTypes
  <2>2. \A s \in [question : DraftQuestions \cup {NoDraft}, selected : Draft] :
          /\ [s EXCEPT !.selected = clean] \in [question : DraftQuestions \cup {NoDraft}, selected : Draft]
          /\ [s EXCEPT !.selected = clean].question = s.question
    BY <1>3
  <2>3. QED
    BY <1>5, <2>1, <2>2
<1>7. saves \in [DraftQuestions -> Seq(Jobs)]
  BY <1>1 DEF DraftTypes
<1>8. Owed(q) /\ saves' = saves => Owed(q)'
  BY <1>2, OwedStays
\* What has happened to q decides everything.
<1>9. SUFFICES /\ drafts' \in [DraftQuestions -> DraftStates] /\ saves' \in [DraftQuestions -> Seq(Jobs)]
               /\ \A p \in DraftQuestions : p # q => drafts'[p] = drafts[p] /\ saves'[p] = saves[p]
               /\ DraftSound(e, saves'[q], files[q].draft) /\ NothingLeft(q)' /\ e.load = "done"
  <2> SUFFICES ASSUME /\ drafts' \in [DraftQuestions -> DraftStates] /\ saves' \in [DraftQuestions -> Seq(Jobs)]
                      /\ \A p \in DraftQuestions : p # q => drafts'[p] = drafts[p] /\ saves'[p] = saves[p]
                      /\ DraftSound(e, saves'[q], files[q].draft) /\ NothingLeft(q)' /\ e.load = "done"
               PROVE  DraftsInv'
    OBVIOUS
  <2>1. DraftTypes'
    BY <1>1, <1>2, <1>6 DEF DraftTypes
  <2>2. ASSUME NEW p \in DraftQuestions, p # q PROVE QuestionSound(p)'
    BY <1>2, <1>6, <2>2, OwedStays, QuestionKept DEF DraftsInv
  <2>3. QuestionSound(q)'
    BY <1>2 DEF QuestionSound
  <2>4. QED
    BY <2>1, <2>2, <2>3 DEF DraftsInv
<1>10. CASE ~Untouched(q)
  <2>1. drafts' = Loaded(q) /\ UNCHANGED saves /\ ~Early(d)
    BY <1>3, <1>5, <1>10 DEF Untouched
  <2>2. e \in DraftStates /\ e.memory = d.memory /\ e.revision = d.revision /\ e.since = d.since
        /\ e.load = "done" /\ e.failed = d.failed /\ e.warned = d.warned
    BY <1>4, <2>1
  <2> HIDE DEF e, d
  <2>3. DraftSound(e, saves[q], files[q].draft) /\ ~Early(e)
    BY <1>1, <2>2, SettledIsSound
  <2>4. NothingLeft(q)'
    BY <1>1, <1>2, <1>8, <2>1, <2>2, <2>3 DEF QuestionSound, NothingLeft, d, e
  <2>5. QED
    BY <1>4, <1>7, <2>1, <2>2, <2>3, <2>4
<1>11. CASE Untouched(q) /\ ~usable
  <2>1. drafts' = calm /\ UNCHANGED saves /\ Early(d)
    BY <1>3, <1>5, <1>11 DEF Untouched
  <2>2. e \in DraftStates /\ e.memory = d.memory /\ e.revision = d.revision /\ e.since = d.since
        /\ e.load = "done" /\ e.failed = FALSE /\ e.warned = FALSE
    BY <1>4, <2>1
  <2>3. d.memory = NoDraft /\ OnlyDeletes(saves[q]) /\ files[q].draft \in {d.found, NoDraft}
    BY <1>1, <1>2, <2>1 DEF DraftSound, EarlyIsBlank
  <2>4. Left(saves[q], files[q].draft) # NoDraft => q \notin DOMAIN known
    <3>1. saves[q] # <<>> => saves[q][Len(saves[q])].draft = NoDraft
      <4>1. saves[q] # <<>> => Len(saves[q]) \in 1..Len(saves[q])
        BY <1>1, JobFacts
      <4>2. QED
        BY <1>1, <2>3, <4>1 DEF DraftSound, JobsSound, OnlyDeletes
    <3>2. QED
      BY <1>11, <2>3, <3>1 DEF Left, usable
  <2> HIDE DEF e, d
  <2>5. DraftSound(e, saves[q], files[q].draft)
    BY <1>1, <2>1, <2>2, SettledIsSound
  <2>6. d.load = "read"
    BY <1>2
  <2>7. NothingLeft(q)'
    BY <1>1, <1>2, <1>8, <2>1, <2>2, <2>4, <2>6 DEF QuestionSound, NothingLeft, d, e
  <2>8. QED
    BY <1>4, <1>7, <2>1, <2>2, <2>5, <2>7
<1>12. CASE Untouched(q) /\ usable /\ clean = d.found
  <2> DEFINE f == [calm[q] EXCEPT !.memory = clean]
  <2>1. drafts' = [calm EXCEPT ![q] = f] /\ UNCHANGED saves /\ Early(d)
    BY <1>3, <1>5, <1>12 DEF Untouched
  <2>2. /\ f \in DraftStates /\ f.memory = clean /\ f.revision = d.revision /\ f.since = d.since
        /\ f.load = "done" /\ f.failed = FALSE
    BY <1>3, <1>4 DEF DraftStates, Optional
  <2> HIDE DEF f
  <2>3. e = f /\ drafts' \in [DraftQuestions -> DraftStates]
        /\ \A p \in DraftQuestions : p # q => drafts'[p] = drafts[p]
    BY <1>4, <2>1, <2>2
  <2>4. NothingLeft(q)'
    BY <1>3, <2>2, <2>3, DraftIsNoNoDraft DEF NothingLeft
  <2> HIDE DEF e, d
  <2>5. DraftSound(f, saves[q], files[q].draft)
    BY <1>1, <1>2, <1>12, <2>1, <2>2, RestoredIsSound
  <2>6. QED
    BY <1>7, <2>1, <2>2, <2>3, <2>4, <2>5
<1>13. CASE Untouched(q) /\ usable /\ clean # d.found
  <2>1. drafts' = Persisted(calm, q, clean) /\ saves' = [saves EXCEPT ![q] = Append(saves[q], job)]
    BY <1>5, <1>13 DEF StartSave
  <2>2. /\ drafts' \in [DraftQuestions -> DraftStates] /\ e \in DraftStates /\ e.memory = clean
        /\ e.revision = d.revision + 1 /\ e.failed = FALSE /\ e.since = d.since /\ e.load = "done"
        /\ \A p \in DraftQuestions : p # q => drafts'[p] = drafts[p]
    <3>1. clean \in Optional
      BY <1>3 DEF Optional
    <3> DEFINE t == Persisted(calm, q, clean)
    <3>2. /\ t \in [DraftQuestions -> DraftStates] /\ t[q] \in DraftStates
          /\ t[q].memory = clean /\ t[q].revision = calm[q].revision + 1 /\ t[q].failed = FALSE
          /\ t[q].load = calm[q].load /\ t[q].since = calm[q].since
          /\ \A p \in DraftQuestions : p # q => t[p] = calm[p]
      BY <1>4, <3>1, PersistedFacts
    <3> HIDE DEF t
    <3>3. e = t[q] /\ drafts' = t
      BY <2>1 DEF t
    <3> HIDE DEF e, d
    <3>4. e \in DraftStates /\ e.memory = clean /\ e.revision = d.revision + 1 /\ e.failed = FALSE
          /\ e.since = d.since /\ e.load = "done"
      BY <1>4, <3>2, <3>3
    <3>5. QED
      BY <1>4, <3>2, <3>3, <3>4
  <2>3. NothingLeft(q)'
    BY <1>3, <2>2, DraftIsNoNoDraft DEF NothingLeft
  <2> HIDE DEF e, d
  <2>4. DraftSound(e, Append(saves[q], job), files[q].draft) /\ Append(saves[q], job) \in Seq(Jobs)
    BY <1>1, <1>2, <1>3, <2>2, SavedIsSound
  <2> HIDE DEF job
  <2>5. saves' \in [DraftQuestions -> Seq(Jobs)] /\ saves'[q] = Append(saves[q], job)
        /\ \A p \in DraftQuestions : p # q => saves'[p] = saves[p]
    BY <1>7, <2>1, <2>4
  <2>6. QED
    BY <2>2, <2>3, <2>4, <2>5
<1>14. QED
  BY <1>10, <1>11, <1>12, <1>13

LEMMA SavedTable ==
  ASSUME drafts \in [DraftQuestions -> DraftStates], NEW q \in DraftQuestions, NEW draft \in Draft,
         drafts' = Persisted(drafts, q, draft)
  PROVE  /\ drafts' \in [DraftQuestions -> DraftStates] /\ drafts'[q] \in DraftStates
         /\ drafts'[q].memory = draft /\ drafts'[q].revision = drafts[q].revision + 1
         /\ drafts'[q].failed = FALSE /\ drafts'[q].since = drafts[q].since /\ drafts'[q].load = drafts[q].load
         /\ \A p \in DraftQuestions : p # q => drafts'[p] = drafts[p]
<1>1. draft \in Optional
  BY DEF Optional
<1>2. QED
  BY <1>1, PersistedFacts

\* A draft is saved, by an edit or because the human asks again.
LEMMA SaveKeeps ==
  ASSUME DraftsInv, NEW q \in DraftQuestions, NEW draft \in Draft, shown.question = q, q # NoDraft,
         drafts' = Persisted(drafts, q, draft), StartSave(q, draft), Count("edits", MaxEdits),
         shown' \in [question : DraftQuestions \cup {NoDraft}, selected : Draft], shown'.question = q,
         UNCHANGED <<offered, known, fetched, submitted, cleanups, files>>
  PROVE  DraftsInv'
<1> DEFINE d == drafts[q]
           e == drafts'[q]
           job == SaveJob(draft, d.revision + 1)
<1>1. DraftTypes /\ d \in DraftStates /\ files[q].draft \in Optional /\ saves[q] \in Seq(Jobs) /\ QuestionSound(q)
      /\ drafts \in [DraftQuestions -> DraftStates] /\ DraftSound(d, saves[q], files[q].draft) /\ d.load # "never"
      /\ saves \in [DraftQuestions -> Seq(Jobs)]
  BY TypedFacts DEF DraftsInv, DraftTypes, QuestionSound
<1>2. /\ drafts' \in [DraftQuestions -> DraftStates] /\ e \in DraftStates /\ e.memory = draft
      /\ e.revision = d.revision + 1 /\ e.failed = FALSE /\ e.since = d.since /\ e.load = d.load
      /\ \A p \in DraftQuestions : p # q => drafts'[p] = drafts[p]
  BY <1>1, SavedTable
<1>3. saves' = [saves EXCEPT ![q] = Append(saves[q], job)]
  BY DEF StartSave
<1>4. DraftSound(e, Append(saves[q], job), files[q].draft) /\ Append(saves[q], job) \in Seq(Jobs)
  <2> HIDE DEF d, e
  <2>1. QED
    BY <1>1, <1>2, SavedIsSound
<1> HIDE DEF job
<1>5. saves' \in [DraftQuestions -> Seq(Jobs)] /\ saves'[q] = Append(saves[q], job)
      /\ \A p \in DraftQuestions : p # q => saves'[p] = saves[p]
  BY <1>1, <1>3, <1>4
<1>6. draftBounds' \in Bounds /\ draftBounds'.faults = draftBounds.faults
  BY <1>1, BoundsCounted DEF DraftTypes
<1>7. DraftTypes'
  BY <1>1, <1>2, <1>5, <1>6 DEF DraftTypes
<1>8. ASSUME NEW p \in DraftQuestions, p # q PROVE QuestionSound(p)'
  BY <1>2, <1>5, <1>6, <1>8, OwedStays, QuestionKept DEF DraftsInv
<1>9. QuestionSound(q)'
  <2>1. NothingLeft(q)'
    BY <1>2, DraftIsNoNoDraft DEF NothingLeft
  <2>2. QED
    BY <1>1, <1>2, <1>4, <1>5, <2>1 DEF QuestionSound
<1>10. QED
  BY <1>7, <1>8, <1>9 DEF DraftsInv

LEMMA EditKeeps ==
  ASSUME DraftsInv, NEW option \in DraftOptions, Edit(option)
  PROVE  DraftsInv'
<1> DEFINE q == shown.question
           selected == IF option \in shown.selected THEN shown.selected \ {option}
                       ELSE shown.selected \cup {option}
<1>1. shown \in [question : DraftQuestions \cup {NoDraft}, selected : Draft]
  BY DEF DraftsInv, DraftTypes
<1>2. selected \in Draft
  BY <1>1 DEF Draft
<1>3. /\ q # NoDraft /\ Count("edits", MaxEdits)
      /\ shown' = [shown EXCEPT !.selected = selected]
      /\ drafts' = Persisted(drafts, q, selected)
      /\ StartSave(q, selected)
      /\ UNCHANGED <<offered, known, fetched, submitted, cleanups, files>>
  BY DEF Edit
<1> HIDE DEF selected
<1>4. shown' \in [question : DraftQuestions \cup {NoDraft}, selected : Draft] /\ shown'.question = q
  BY <1>1, <1>2, <1>3
<1>5. q \in DraftQuestions
  BY <1>1, <1>3
<1> HIDE DEF q
<1>6. QED
  BY <1>2, <1>3, <1>4, <1>5, SaveKeeps DEF q

LEMMA RetrySaveKeeps ==
  ASSUME DraftsInv, RetrySave
  PROVE  DraftsInv'
<1>1. shown \in [question : DraftQuestions \cup {NoDraft}, selected : Draft]
  BY DEF DraftsInv, DraftTypes
<1>6. PICK q \in DraftQuestions : q = shown.question
  BY <1>1 DEF RetrySave
<1> DEFINE d == drafts[q]
           again == d.failed /\ d.memory = NoDraft
<1>2. /\ q # NoDraft /\ q \in DOMAIN known /\ Count("edits", MaxEdits)
      /\ UNCHANGED <<offered, known, fetched, shown, submitted, cleanups, files>>
      /\ q \in DraftQuestions
  BY <1>6 DEF RetrySave
<1>3. CASE ~again
  <2>1. drafts' = Persisted(drafts, q, shown.selected) /\ StartSave(q, shown.selected)
    BY <1>6, <1>3 DEF RetrySave
  <2>2. shown.selected \in Draft /\ shown'.question = q
        /\ shown' \in [question : DraftQuestions \cup {NoDraft}, selected : Draft]
    BY <1>6, <1>1, <1>2
  <2>3. QED
    BY <1>6, <1>2, <2>1, <2>2, SaveKeeps
<1>4. CASE again
  <2> DEFINE e == [d EXCEPT !.failed = FALSE, !.load = "running", !.since = d.revision]
  <2>1. drafts' = [drafts EXCEPT ![q] = e] /\ UNCHANGED saves
    BY <1>6, <1>4 DEF RetrySave
  <2>2. DraftTypes /\ d \in DraftStates /\ files[q].draft \in Optional /\ saves[q] \in Seq(Jobs)
        /\ drafts \in [DraftQuestions -> DraftStates] /\ DraftSound(d, saves[q], files[q].draft)
        /\ QuestionSound(q)
    BY <1>2, TypedFacts DEF DraftsInv, DraftTypes, QuestionSound
  <2>3. d.failed = TRUE
    BY <1>4, <2>2, OpenFacts
  <2>4. /\ e \in DraftStates /\ e.memory = d.memory /\ e.revision = d.revision
        /\ e.load = "running" /\ e.since = d.revision
    BY <2>2, OpenFacts DEF DraftStates
  <2> HIDE DEF e
  <2>5. DraftSound(e, saves[q], files[q].draft)
    <3> HIDE DEF d
    <3>1. QED
      BY <2>2, <2>3, <2>4, LoadingIsSound
  <2>6. draftBounds' \in Bounds /\ draftBounds'.faults = draftBounds.faults
    BY <1>2, <2>2, BoundsCounted DEF DraftTypes
  <2>7. drafts' \in [DraftQuestions -> DraftStates] /\ drafts'[q] = e
        /\ \A p \in DraftQuestions : p # q => drafts'[p] = drafts[p]
    BY <1>2, <2>1, <2>2, <2>4
  <2>8. DraftTypes'
    BY <1>2, <2>1, <2>2, <2>6, <2>7 DEF DraftTypes
  <2>9. ASSUME NEW p \in DraftQuestions, p # q PROVE QuestionSound(p)'
    BY <1>2, <2>1, <2>6, <2>7, <2>9, OwedStays, QuestionKept DEF DraftsInv
  <2>10. QuestionSound(q)'
    <3>1. Early(e)
      BY <2>4 DEF Early
    <3>2. NothingLeft(q)'
      BY <1>2, <2>7, <3>1 DEF NothingLeft
    <3>3. QED
      BY <1>2, <2>1, <2>4, <2>5, <2>7, <3>2 DEF QuestionSound
  <2>11. QED
    BY <2>8, <2>9, <2>10 DEF DraftsInv
<1>5. QED
  BY <1>3, <1>4

LEMMA SelectKeeps ==
  ASSUME DraftsInv, NEW q \in DraftQuestions, SelectQuestion(q)
  PROVE  DraftsInv'
<1>1. DraftTypes /\ drafts[q] \in DraftStates /\ files[q].draft \in Optional /\ saves[q] \in Seq(Jobs)
      /\ drafts \in [DraftQuestions -> DraftStates] /\ QuestionSound(q)
      /\ DraftSound(drafts[q], saves[q], files[q].draft)
  BY TypedFacts DEF DraftsInv, DraftTypes, QuestionSound
<1>2. /\ q \in DOMAIN known /\ shown' = ShownDraft(drafts, q, known) /\ drafts' = LoadStarted(drafts, q)
      /\ UNCHANGED <<offered, known, fetched, submitted, saves, cleanups, files, draftBounds>>
  BY DEF SelectQuestion
<1>3. /\ drafts' \in [DraftQuestions -> DraftStates] /\ drafts'[q] \in DraftStates
      /\ drafts'[q].memory = drafts[q].memory /\ drafts'[q].revision = drafts[q].revision
      /\ IF drafts[q].load = "never" THEN drafts'[q].load = "running" /\ drafts'[q].since = drafts[q].revision
         ELSE drafts'[q] = drafts[q]
      /\ \A p \in DraftQuestions : p # q => drafts'[p] = drafts[p]
  BY <1>1, <1>2, LoadStartedFacts
<1>4. shown' \in [question : DraftQuestions \cup {NoDraft}, selected : Draft] /\ shown'.question = q
  <2>1. shown.selected \in Draft /\ {} \in Draft /\ drafts[q].memory \in Optional
    BY <1>1, OpenFacts DEF DraftTypes, Draft
  <2>2. QED
    BY <1>2, <2>1, SanitizedIsDraft DEF ShownDraft, Optional
<1>5. DraftTypes'
  BY <1>1, <1>2, <1>3, <1>4 DEF DraftTypes
<1>6. ASSUME NEW p \in DraftQuestions, p # q PROVE QuestionSound(p)'
  BY <1>2, <1>3, <1>4, <1>6, OwedStays, QuestionKept DEF DraftsInv
<1>7. QuestionSound(q)'
  <2>1. CASE drafts[q].load = "never"
    <3>1. Early(drafts[q]) /\ Early(drafts'[q])
      BY <1>3, <2>1 DEF Early
    <3>2. DraftSound(drafts'[q], saves[q], files[q].draft)
      BY <1>1, <1>3, <2>1, <3>1, LoadingIsSound
    <3>3. NothingLeft(q)'
      BY <1>2, <3>1 DEF NothingLeft
    <3>4. QED
      BY <1>2, <1>3, <2>1, <3>2, <3>3 DEF QuestionSound
  <2>2. CASE drafts[q].load # "never"
    BY <1>1, <1>2, <1>3, <2>2, OwedStays, QuestionKept
  <2>3. QED
    BY <2>1, <2>2
<1>8. QED
  BY <1>5, <1>6, <1>7 DEF DraftsInv

LEMMA SubmitAcceptedKeeps ==
  ASSUME DraftsInv, NEW q \in DraftQuestions, SubmitAccepted(q)
  PROVE  DraftsInv'
<1> DEFINE d == drafts[q]
           e == drafts'[q]
           all == Append(saves[q], DeleteJob(d.revision + 1))
<1>1. DraftTypes /\ d \in DraftStates /\ files[q].draft \in Optional /\ saves[q] \in Seq(Jobs) /\ QuestionSound(q)
      /\ drafts \in [DraftQuestions -> DraftStates] /\ DraftSound(d, saves[q], files[q].draft)
      /\ saves \in [DraftQuestions -> Seq(Jobs)]
  BY TypedFacts DEF DraftsInv, DraftTypes, QuestionSound
<1>2. /\ drafts' = Forgotten(drafts, q) /\ saves' = [saves EXCEPT ![q] = all]
      /\ submitted' \subseteq submitted
      /\ UNCHANGED <<offered, known, fetched, shown, cleanups, files, draftBounds>>
  BY DEF SubmitAccepted
<1>3. /\ drafts' \in [DraftQuestions -> DraftStates] /\ e \in DraftStates /\ e.memory = NoDraft
      /\ e.revision = d.revision + 1 /\ e.failed = FALSE /\ e.since = d.since /\ e.load = d.load
      /\ \A p \in DraftQuestions : p # q => drafts'[p] = drafts[p]
  BY <1>1, <1>2, ForgottenFacts
<1>4. DraftSound(e, all, files[q].draft) /\ all \in Seq(Jobs) /\ Left(all, files[q].draft) = NoDraft
  <2> HIDE DEF d, e
  <2>1. QED
    BY <1>1, <1>3, ForgottenIsSound
<1> HIDE DEF all
<1>5. saves' \in [DraftQuestions -> Seq(Jobs)] /\ saves'[q] = all
      /\ \A p \in DraftQuestions : p # q => saves'[p] = saves[p]
  BY <1>1, <1>2, <1>4
<1>6. DraftTypes'
  BY <1>1, <1>2, <1>3, <1>5 DEF DraftTypes
<1>7. ASSUME NEW p \in DraftQuestions, p # q PROVE QuestionSound(p)'
  BY <1>2, <1>3, <1>5, <1>7, OwedStays, QuestionKept DEF DraftsInv
<1>8. QuestionSound(q)'
  <2>1. NothingLeft(q)'
    BY <1>2, <1>4, <1>5 DEF NothingLeft
  <2>2. QED
    BY <1>1, <1>2, <1>3, <1>4, <1>5, <2>1 DEF QuestionSound
<1>9. QED
  BY <1>6, <1>7, <1>8 DEF DraftsInv

LEMMA AppDiesKeeps ==
  ASSUME DraftsInv, AppDies
  PROVE  DraftsInv'
<1>1. DraftTypes /\ UNCHANGED <<offered, files>> /\ Count("deaths", MaxAppDeaths)
      /\ known' = NoPending /\ fetched' = {} /\ shown' = Nowhere /\ submitted' = {} /\ cleanups' = <<>>
      /\ drafts' = [q \in DraftQuestions |-> Unknown] /\ saves' = [q \in DraftQuestions |-> <<>>]
  BY DEF DraftsInv, AppDies
<1>2. Unknown \in DraftStates /\ Nowhere \in [question : DraftQuestions \cup {NoDraft}, selected : Draft]
      /\ DOMAIN NoPending = {} /\ <<>> \in Seq(Jobs) /\ <<>> \in Seq(Waits)
  BY DEF Unknown, DraftStates, Optional, Nowhere, Draft, NoPending
<1>3. draftBounds' \in Bounds
  BY <1>1, BoundsCounted DEF DraftTypes
<1>4. DraftTypes'
  BY <1>1, <1>2, <1>3 DEF DraftTypes
<1>5. ASSUME NEW q \in DraftQuestions PROVE QuestionSound(q)'
  <2>1. drafts'[q] = Unknown /\ saves'[q] = <<>> /\ shown'.question = NoDraft
    BY <1>1 DEF Nowhere
  <2>2. \A file : DraftSound(Unknown, <<>>, file)
    BY DEF DraftSound, JobsSound, EarlyIsBlank, NewestStored, OnlyDeletes, Early, Unknown
  <2>3. Early(Unknown) /\ Unknown.load = "never"
    BY DEF Early, Unknown
  <2>4. NothingLeft(q)'
    BY <1>1, <2>1, <2>3 DEF NothingLeft
  <2>5. QED
    BY <2>1, <2>2, <2>4 DEF QuestionSound
<1>6. QED
  BY <1>4, <1>5 DEF DraftsInv

\* What a new state does to the draft of a Question: it is dropped when the
\* Question is over, and cut down when it selects what is not offered any more.
OverAndDropped(p, state) ==
  /\ p \notin DOMAIN state /\ drafts[p].memory # NoDraft
  /\ drafts'[p].memory = NoDraft /\ drafts'[p].revision = drafts[p].revision + 1
  /\ drafts'[p].failed = FALSE /\ drafts'[p].load = drafts[p].load /\ drafts'[p].since = drafts[p].since
  /\ saves'[p] = saves[p]
CutDown(p, state) ==
  LET draft == Sanitized(drafts[p].memory, state[p]) IN
  /\ p \in DOMAIN state /\ drafts[p].memory # NoDraft
  /\ drafts'[p].memory = draft /\ drafts'[p].revision = drafts[p].revision + 1
  /\ drafts'[p].failed = FALSE /\ drafts'[p].load = drafts[p].load /\ drafts'[p].since = drafts[p].since
  /\ saves'[p] = Append(saves[p], SaveJob(draft, drafts[p].revision + 1))
LeftOrOpened(p, state) ==
  /\ p \in DOMAIN state \/ drafts[p].memory = NoDraft
  /\ saves'[p] = saves[p]
  /\ \/ drafts'[p] = drafts[p]
     \/ /\ drafts[p].load = "never" /\ p \in DOMAIN state
        /\ drafts'[p].memory = drafts[p].memory /\ drafts'[p].revision = drafts[p].revision
        /\ drafts'[p].load = "running" /\ drafts'[p].since = drafts[p].revision

LEMMA SnapshotTable ==
  ASSUME DraftsInv, NEW state \in fetched, SnapshotApplied(state)
  PROVE  /\ drafts' \in [DraftQuestions -> DraftStates]
         /\ \A p \in DraftQuestions :
              /\ OverAndDropped(p, state) \/ CutDown(p, state) \/ LeftOrOpened(p, state)
              /\ shown'.question = p /\ p # NoDraft => drafts'[p].load # "never"
         /\ shown' \in [question : DraftQuestions \cup {NoDraft}, selected : Draft]
<1> DEFINE active == DOMAIN state
           kept == Dropped(drafts, active)
           outgrown == Outgrown(state, kept)
           clean(p) == Sanitized(kept[p].memory, state[p])
           revised == [p \in DraftQuestions |->
                         IF p \in outgrown THEN Persisted(kept, p, clean(p))[p] ELSE kept[p]]
<1>1. /\ DraftTypes /\ drafts \in [DraftQuestions -> DraftStates] /\ active \subseteq DraftQuestions
      /\ shown.selected \in Draft /\ {} \in Draft
      /\ \A p \in DraftQuestions : DraftSound(drafts[p], saves[p], files[p].draft)
  BY DEF DraftsInv, DraftTypes, QuestionSound, Draft
<1>2. /\ saves' = [p \in DraftQuestions |->
                     IF p \in outgrown THEN Append(saves[p], SaveJob(clean(p), kept[p].revision + 1)) ELSE saves[p]]
      /\ \/ shown' = Nowhere /\ drafts' = revised
         \/ \E q \in active : shown' = ShownDraft(kept, q, state) /\ drafts' = LoadStarted(revised, q)
  BY DEF SnapshotApplied
<1>3. /\ kept \in [DraftQuestions -> DraftStates]
      /\ \A p \in DraftQuestions :
           IF p \notin active /\ drafts[p].memory # NoDraft
           THEN /\ kept[p].memory = NoDraft /\ kept[p].revision = drafts[p].revision + 1 /\ kept[p].failed = FALSE
                /\ kept[p].load = drafts[p].load /\ kept[p].since = drafts[p].since
           ELSE kept[p] = drafts[p]
  <2>1. \A p \in DraftQuestions : LET t == Forgotten(drafts, p)[p] IN
          /\ t \in DraftStates /\ t.memory = NoDraft /\ t.revision = drafts[p].revision + 1 /\ t.failed = FALSE
          /\ t.load = drafts[p].load /\ t.since = drafts[p].since
    BY <1>1, ForgottenFacts
  <2>2. QED
    BY <1>1, <2>1 DEF Dropped
<1>4. outgrown \subseteq active /\ \A p \in outgrown : kept[p].memory # NoDraft
  BY DEF Outgrown
<1> HIDE DEF kept, outgrown
<1>5. \A p \in outgrown : kept[p] = drafts[p] /\ drafts[p].memory # NoDraft /\ clean(p) \in Draft
  <2>1. \A p \in outgrown : kept[p] = drafts[p] /\ drafts[p].memory # NoDraft /\ p \in DraftQuestions
    BY <1>1, <1>3, <1>4
  <2>2. \A p \in outgrown : kept[p].memory \in Draft
    BY <1>1, <2>1, OpenFacts DEF Optional
  <2>3. QED
    BY <2>1, <2>2, SanitizedIsDraft
<1>6. /\ revised \in [DraftQuestions -> DraftStates]
      /\ \A p \in DraftQuestions :
           IF p \in outgrown
           THEN /\ revised[p].memory = clean(p) /\ revised[p].revision = drafts[p].revision + 1
                /\ revised[p].failed = FALSE /\ revised[p].load = drafts[p].load
                /\ revised[p].since = drafts[p].since
           ELSE revised[p] = kept[p]
  <2>1. \A p \in outgrown : clean(p) \in Optional /\ p \in DraftQuestions
    BY <1>1, <1>4, <1>5 DEF Optional
  <2> HIDE DEF clean
  <2> HIDE DEF revised
  <2>4. \A q \in DraftQuestions, draft \in Optional : LET t == Persisted(kept, q, draft)[q] IN
          /\ t \in DraftStates /\ t.memory = draft /\ t.revision = kept[q].revision + 1 /\ t.failed = FALSE
          /\ t.load = kept[q].load /\ t.since = kept[q].since
    BY <1>3, PersistedTables
  <2>2. \A p \in outgrown : LET t == Persisted(kept, p, clean(p))[p] IN
          /\ t \in DraftStates /\ t.memory = clean(p) /\ t.revision = kept[p].revision + 1 /\ t.failed = FALSE
          /\ t.load = kept[p].load /\ t.since = kept[p].since
    BY <2>1, <2>4
  <2> USE DEF revised
  <2>3. QED
    BY <1>3, <1>5, <2>2
<1>7. ASSUME NEW p \in DraftQuestions, drafts'[p] = revised[p]
      PROVE  OverAndDropped(p, state) \/ CutDown(p, state) \/ LeftOrOpened(p, state)
  <2>1. CASE p \in outgrown
    <3>1. CutDown(p, state)
      BY <1>2, <1>4, <1>5, <1>6, <1>7, <2>1 DEF CutDown
    <3>2. QED
      BY <3>1
  <2> HIDE DEF revised, clean
  <2>2. CASE p \notin active /\ drafts[p].memory # NoDraft
    <3>1. OverAndDropped(p, state)
      BY <1>2, <1>3, <1>4, <1>6, <1>7, <2>2 DEF OverAndDropped
    <3>2. QED
      BY <3>1
  <2>3. CASE p \notin outgrown /\ ~(p \notin active /\ drafts[p].memory # NoDraft)
    <3>1. LeftOrOpened(p, state)
      BY <1>2, <1>3, <1>6, <1>7, <2>3 DEF LeftOrOpened
    <3>2. QED
      BY <3>1
  <2>4. QED
    BY <2>1, <2>2, <2>3
<1>8. CASE shown' = Nowhere /\ drafts' = revised
  <2>1. shown' \in [question : DraftQuestions \cup {NoDraft}, selected : Draft] /\ shown'.question = NoDraft
    BY <1>1, <1>8 DEF Nowhere
  <2>2. QED
    BY <1>6, <1>7, <1>8, <2>1
<1>9. ASSUME NEW q \in active, shown' = ShownDraft(kept, q, state), drafts' = LoadStarted(revised, q)
      PROVE  /\ drafts' \in [DraftQuestions -> DraftStates]
             /\ \A p \in DraftQuestions :
                  /\ OverAndDropped(p, state) \/ CutDown(p, state) \/ LeftOrOpened(p, state)
                  /\ shown'.question = p /\ p # NoDraft => drafts'[p].load # "never"
             /\ shown' \in [question : DraftQuestions \cup {NoDraft}, selected : Draft]
  <2> HIDE DEF revised, clean
  <2>1. q \in DraftQuestions
    BY <1>1
  <2>2. /\ drafts' \in [DraftQuestions -> DraftStates]
        /\ drafts'[q].memory = revised[q].memory /\ drafts'[q].revision = revised[q].revision
        /\ IF revised[q].load = "never" THEN drafts'[q].load = "running" /\ drafts'[q].since = revised[q].revision
           ELSE drafts'[q] = revised[q]
        /\ \A p \in DraftQuestions : p # q => drafts'[p] = revised[p]
    BY <1>6, <1>9, <2>1, LoadStartedFacts
  <2>3. shown' \in [question : DraftQuestions \cup {NoDraft}, selected : Draft] /\ shown'.question = q
    <3>1. kept[q].memory \in Optional
      BY <1>3, <2>1, OpenFacts
    <3>2. QED
      BY <1>1, <1>9, <2>1, <3>1, SanitizedIsDraft DEF ShownDraft, Optional
  <2>4. drafts'[q].load # "never"
    BY <2>2
  <2>5. revised[q].load = "never" => LeftOrOpened(q, state)
    <3> SUFFICES ASSUME revised[q].load = "never" PROVE LeftOrOpened(q, state)
      OBVIOUS
    <3>1. q \notin outgrown
      <4>1. drafts[q].load = "never" => drafts[q].memory = NoDraft
        BY <1>1, <2>1 DEF DraftSound, EarlyIsBlank, Early
      <4>2. QED
        BY <1>5, <1>6, <2>1, <4>1
    <3>2. revised[q] = drafts[q]
      BY <1>3, <1>6, <2>1, <3>1
    <3>3. saves'[q] = saves[q]
      BY <1>2, <2>1, <3>1
    <3>4. QED
      BY <2>2, <3>2, <3>3 DEF LeftOrOpened
  <2>6. QED
    BY <1>7, <2>1, <2>2, <2>3, <2>4, <2>5
<1>10. QED
  BY <1>2, <1>8, <1>9

LEMMA SnapshotKeeps ==
  ASSUME DraftsInv, NEW state \in fetched, SnapshotApplied(state)
  PROVE  DraftsInv'
<1> DEFINE new == Cleanup(DOMAIN state)
<1>1. DraftTypes /\ DOMAIN state \subseteq DraftQuestions /\ saves \in [DraftQuestions -> Seq(Jobs)]
      /\ cleanups \in Seq(Waits)
  BY DEF DraftsInv, DraftTypes
<1>2. /\ fetched' = fetched \ {state} /\ known' = state /\ cleanups' = Append(cleanups, new)
      /\ UNCHANGED <<offered, submitted, files, draftBounds>>
  BY DEF SnapshotApplied
<1>3. new \in Waits /\ new.active = DOMAIN state /\ \A p \in DraftQuestions : new.waits[p] = Len(saves[p])
  BY <1>1, JobFacts DEF Cleanup, Waits
<1> HIDE DEF new
<1>4. /\ cleanups' \in Seq(Waits) /\ Len(cleanups') = Len(cleanups) + 1 /\ cleanups'[Len(cleanups) + 1] = new
      /\ Len(cleanups) \in Nat
      /\ \A i \in 1..Len(cleanups) : cleanups'[i] = cleanups[i] /\ i \in 1..Len(cleanups')
  BY <1>1, <1>2, <1>3
<1>5. ASSUME NEW p \in DraftQuestions
      PROVE  QuestionSound(p)' /\ saves'[p] \in Seq(Jobs)
  <2> DEFINE d == drafts[p]
             e == drafts'[p]
             jobs == saves[p]
             file == files[p].draft
  <2>1. /\ d \in DraftStates /\ e \in DraftStates /\ jobs \in Seq(Jobs) /\ file \in Optional
        /\ DraftSound(d, jobs, file) /\ NothingLeft(p) /\ files'[p].draft = file
    BY <1>1, <1>2, SnapshotTable, TypedFacts DEF DraftsInv, QuestionSound
  <2>2. shown'.question = p /\ p # NoDraft => e.load # "never"
    BY SnapshotTable
  <2>3. saves'[p] = saves[p] => (Owed(p) => Owed(p)')
    <3> SUFFICES ASSUME saves'[p] = saves[p], Owed(p) PROVE Owed(p)'
      OBVIOUS
    <3>1. PICK i \in 1..Len(cleanups) : p \notin cleanups[i].active /\ cleanups[i].waits[p] = Len(saves[p])
      BY DEF Owed
    <3>2. i \in 1..Len(cleanups') /\ cleanups'[i] = cleanups[i]
      BY <1>4
    <3>3. QED
      BY <3>1, <3>2 DEF Owed
  <2>4. saves'[p] = saves[p] /\ p \notin DOMAIN state => Owed(p)'
    <3>1. Len(cleanups) + 1 \in 1..Len(cleanups')
      BY <1>4
    <3>2. QED
      BY <1>3, <1>4, <3>1 DEF Owed
  <2>5. SUFFICES ASSUME TRUE PROVE DraftSound(e, saves'[p], file) /\ NothingLeft(p)' /\ saves'[p] \in Seq(Jobs)
    BY <2>1, <2>2 DEF QuestionSound
  <2>6. CASE OverAndDropped(p, state)
    <3>1. NothingLeft(p)'
      BY <2>4, <2>6 DEF OverAndDropped, NothingLeft
    <3>2. saves'[p] = jobs /\ d.memory # NoDraft /\ e.memory = NoDraft /\ e.revision = d.revision + 1
          /\ e.failed = FALSE /\ e.load = d.load /\ e.since = d.since
      BY <2>6 DEF OverAndDropped
    <3> HIDE DEF d, e, jobs, file
    <3>3. DraftSound(e, jobs, file)
      BY <2>1, <3>2, DroppedIsSound
    <3>4. QED
      BY <2>1, <3>1, <3>2, <3>3
  <2>7. CASE CutDown(p, state)
    <3> DEFINE draft == Sanitized(d.memory, state[p])
    <3>1. draft \in Draft
      BY <2>1, <2>7, OpenFacts, SanitizedIsDraft DEF CutDown, Optional
    <3>2. saves'[p] = Append(jobs, SaveJob(draft, d.revision + 1)) /\ d.memory # NoDraft /\ e.memory = draft
          /\ e.revision = d.revision + 1 /\ e.failed = FALSE /\ e.load = d.load /\ e.since = d.since
      BY <2>7 DEF CutDown
    <3> HIDE DEF draft
    <3>3. NothingLeft(p)'
      BY <3>1, <3>2, DraftIsNoNoDraft DEF NothingLeft
    <3> HIDE DEF d, e, jobs, file
    <3>4. d.load # "never"
      BY <2>1, <3>2 DEF DraftSound, EarlyIsBlank, Early
    <3>5. DraftSound(e, Append(jobs, SaveJob(draft, d.revision + 1)), file)
          /\ Append(jobs, SaveJob(draft, d.revision + 1)) \in Seq(Jobs)
      BY <2>1, <3>1, <3>2, <3>4, SavedIsSound
    <3>6. QED
      BY <3>2, <3>3, <3>5
  <2>8. CASE LeftOrOpened(p, state)
    <3>1. saves'[p] = jobs /\ (p \in DOMAIN state \/ d.memory = NoDraft)
      BY <2>8 DEF LeftOrOpened
    <3>2. CASE e = d
      <4>1. DraftSound(e, saves'[p], file)
        BY <2>1, <3>1, <3>2
      <4>2. NothingLeft(p)'
        BY <1>2, <2>1, <2>3, <2>4, <3>1, <3>2 DEF NothingLeft
      <4>3. QED
        BY <2>1, <3>1, <4>1, <4>2
    <3>3. CASE /\ d.load = "never" /\ p \in DOMAIN state /\ e.memory = d.memory /\ e.revision = d.revision
               /\ e.load = "running" /\ e.since = d.revision
      <4>1. Early(d) /\ Early(e)
        BY <3>3 DEF Early
      <4>2. NothingLeft(p)'
        BY <1>2, <3>3, <4>1 DEF NothingLeft
      <4> HIDE DEF d, e, jobs, file
      <4>3. DraftSound(e, jobs, file)
        BY <2>1, <3>3, <4>1, LoadingIsSound
      <4>4. QED
        BY <2>1, <3>1, <4>2, <4>3
    <3>4. QED
      BY <2>8, <3>2, <3>3 DEF LeftOrOpened
  <2>9. QED
    BY <2>6, <2>7, <2>8, SnapshotTable
<1>6. saves' \in [DraftQuestions -> Seq(Jobs)]
  <2>1. DOMAIN saves' = DraftQuestions /\ saves' = [p \in DraftQuestions |-> saves'[p]]
    BY DEF SnapshotApplied
  <2>2. QED
    BY <1>5, <2>1
<1>7. DraftTypes'
  BY <1>1, <1>2, <1>4, <1>6, SnapshotTable DEF DraftTypes
<1>8. QED
  BY <1>5, <1>7 DEF DraftsInv

LEMMA DraftsStep ==
  ASSUME DraftsInv, [DraftsNext]_draftVars
  PROVE  DraftsInv'
<1>1. CASE UNCHANGED draftVars
  <2>1. DraftTypes'
    BY <1>1 DEF DraftsInv, DraftTypes, draftVars
  <2>2. ASSUME NEW q \in DraftQuestions PROVE QuestionSound(q)'
    BY <1>1, OwedStays, QuestionKept DEF DraftsInv, draftVars
  <2>3. QED
    BY <2>1, <2>2 DEF DraftsInv
<1>2. QED
  BY <1>1, ServerSteps, CleanedUpKeeps, RetrySaveKeeps, AppDiesKeeps, SnapshotKeeps, EditKeeps, SelectKeeps,
     SubmitAcceptedKeeps, JobSucceedsKeeps, JobFailsKeeps, LoadReadsKeeps, DraftRestoredKeeps, LoadFailsKeeps
  DEF DraftsNext

LEMMA NewestIsStored ==
  ASSUME DraftsInv
  PROVE  OnlyNewestStored
<1> SUFFICES ASSUME NEW q \in DraftQuestions, AtRest(q), files[q].draft # NoDraft
             PROVE  \/ files[q].draft = drafts[q].memory \/ drafts[q].warned
                    \/ /\ drafts[q].memory = NoDraft
                       /\ \/ draftBounds.faults > 0
                          \/ drafts[q].load = "never" /\ (q \in DOMAIN known \/ known = NoPending)
  BY DEF OnlyNewestStored
<1>1. QuestionSound(q) /\ saves[q] = <<>> /\ cleanups = <<>> /\ drafts[q].load \in {"never", "done"}
  BY DEF DraftsInv, AtRest
<1>2. CASE drafts[q].memory # NoDraft
  BY <1>1, <1>2 DEF QuestionSound, DraftSound, NewestStored, Saving
<1>3. CASE drafts[q].memory = NoDraft
  <2>1. ~Owed(q) /\ Left(saves[q], files[q].draft) # NoDraft
    BY <1>1 DEF Owed, Left
  <2>2. Early(drafts[q]) => drafts[q].load = "never"
    BY <1>1 DEF Early
  <2>3. QED
    BY <1>1, <1>3, <2>1, <2>2 DEF QuestionSound, NothingLeft
<1>4. QED
  BY <1>2, <1>3

\* What a step does to a draft in memory.
Memory(q) == drafts'[q].memory \in {drafts[q].memory, NoDraft} \/ drafts[q].memory = NoDraft

LEMMA LoadsKeepMemory ==
  ASSUME DraftsInv, NEW q \in DraftQuestions, LoadReads(q) \/ DraftRestored(q) \/ LoadFails(q),
         NEW p \in DraftQuestions
  PROVE  Memory(p)
<1>1. DraftTypes /\ drafts \in [DraftQuestions -> DraftStates] /\ drafts[q] \in DraftStates
      /\ DraftSound(drafts[q], saves[q], files[q].draft)
  BY DEF DraftsInv, DraftTypes, QuestionSound
<1>2. \A failed \in BOOLEAN, warned \in BOOLEAN :
        LET t == [Loaded(q) EXCEPT ![q].failed = failed, ![q].warned = warned] IN
        t[p].memory = drafts[p].memory /\ Loaded(q)[p].memory = drafts[p].memory
  <2> SUFFICES ASSUME NEW failed \in BOOLEAN, NEW warned \in BOOLEAN
               PROVE  LET t == [Loaded(q) EXCEPT ![q].failed = failed, ![q].warned = warned] IN
                      t[p].memory = drafts[p].memory /\ Loaded(q)[p].memory = drafts[p].memory
    OBVIOUS
  <2> DEFINE e == [drafts[q] EXCEPT !.load = "done", !.found = NoDraft]
             f == [e EXCEPT !.failed = failed, !.warned = warned]
  <2>1. Loaded(q) = [drafts EXCEPT ![q] = e] /\ e.memory = drafts[q].memory
    BY <1>1 DEF Loaded, DraftStates
  <2>2. f.memory = e.memory
    BY <1>1 DEF DraftStates
  <2> HIDE DEF e
  <2>3. [Loaded(q) EXCEPT ![q].failed = failed, ![q].warned = warned] = [drafts EXCEPT ![q] = f]
    BY <1>1, <2>1
  <2> HIDE DEF f
  <2>4. QED
    BY <1>1, <2>1, <2>2, <2>3
<1>3. CASE p # q
  <2>1. CASE LoadReads(q)
    <3> DEFINE e == [drafts[q] EXCEPT !.load = IF files[q].readable THEN "read" ELSE "purging",
                                      !.found = IF files[q].readable THEN files[q].draft ELSE NoDraft]
    <3>1. drafts' = [drafts EXCEPT ![q] = e]
      BY <2>1 DEF LoadReads
    <3> HIDE DEF e
    <3>2. QED
      BY <1>1, <1>3, <3>1 DEF Memory
  <2>2. CASE DraftRestored(q)
    <3> DEFINE calm == [Loaded(q) EXCEPT ![q].failed = FALSE, ![q].warned = FALSE]
               clean == Sanitized(drafts[q].found, known[q])
    <3>1. calm \in [DraftQuestions -> DraftStates] /\ calm[p] = drafts[p] /\ Loaded(q)[p] = drafts[p]
      BY <1>1, <1>3, LoadedFacts
    <3>2. \/ drafts' \in {Loaded(q), calm, [calm EXCEPT ![q].memory = clean]}
          \/ drafts' = Persisted(calm, q, clean)
      BY <2>2 DEF DraftRestored
    <3> HIDE DEF calm, clean
    <3>3. [calm EXCEPT ![q].memory = clean][p] = calm[p] /\ Persisted(calm, q, clean)[p] = calm[p]
      BY <1>3, <3>1 DEF Persisted
    <3>4. QED
      BY <3>1, <3>2, <3>3 DEF Memory
  <2>3. CASE LoadFails(q)
    BY <1>2, <2>3 DEF LoadFails, LoadFailed, Memory
  <2>4. QED
    BY <2>1, <2>2, <2>3
<1>4. CASE p = q
  <2>1. CASE LoadReads(q)
    <3> DEFINE load == IF files[q].readable THEN "read" ELSE "purging"
               found == IF files[q].readable THEN files[q].draft ELSE NoDraft
               e == [drafts[q] EXCEPT !.load = load, !.found = found]
    <3>1. drafts' = [drafts EXCEPT ![q] = e]
      BY <2>1 DEF LoadReads
    <3> HIDE DEF load, found
    <3>2. e.memory = drafts[q].memory
      BY <1>1 DEF DraftStates
    <3> HIDE DEF e
    <3>3. QED
      BY <1>1, <1>4, <3>1, <3>2 DEF Memory
  <2>2. CASE DraftRestored(q) /\ Untouched(q)
    <3>1. Early(drafts[q])
      BY <1>1, <2>2, OpenFacts DEF DraftRestored, Untouched, Early
    <3>2. QED
      BY <1>1, <1>4, <3>1 DEF DraftSound, EarlyIsBlank, Memory
  <2>3. CASE DraftRestored(q) /\ ~Untouched(q)
    BY <1>2, <1>4, <2>3 DEF DraftRestored, Memory
  <2>4. CASE LoadFails(q)
    BY <1>2, <2>4 DEF LoadFails, LoadFailed, Memory
  <2>5. QED
    BY <2>1, <2>2, <2>3, <2>4
<1>5. QED
  BY <1>3, <1>4

LEMMA StepKeepsEdits ==
  ASSUME DraftsInv, [DraftsNext]_draftVars
  PROVE  EditsAreKept
<1> SUFFICES ASSUME NEW p \in DraftQuestions
             PROVE  \/ Memory(p)
                    \/ draftBounds'.edits > draftBounds.edits
                    \/ p \in DOMAIN known' /\ drafts'[p].memory = Sanitized(drafts[p].memory, known'[p])
  BY DEF EditsAreKept, Memory
<1>1. DraftTypes /\ drafts \in [DraftQuestions -> DraftStates] /\ draftBounds \in Bounds
  BY DEF DraftsInv, DraftTypes
<1>2. CASE UNCHANGED drafts
  BY <1>2 DEF Memory
<1>3. CASE Count("edits", MaxEdits)
  BY <1>1, <1>3, BoundsCounted DEF Bounds
<1>4. CASE AppDies
  <2>1. drafts'[p] = Unknown
    BY <1>4 DEF AppDies
  <2>2. QED
    BY <2>1 DEF Memory, Unknown
<1>5. ASSUME NEW state \in fetched, SnapshotApplied(state)
      PROVE  Memory(p) \/ (p \in DOMAIN known' /\ drafts'[p].memory = Sanitized(drafts[p].memory, known'[p]))
  <2>1. known' = state
    BY <1>5 DEF SnapshotApplied
  <2>2. OverAndDropped(p, state) \/ CutDown(p, state) \/ LeftOrOpened(p, state)
    BY <1>5, SnapshotTable
  <2>3. QED
    BY <2>1, <2>2 DEF OverAndDropped, CutDown, LeftOrOpened, Memory
<1>6. ASSUME NEW q \in DraftQuestions, SelectQuestion(q) PROVE Memory(p)
  <2>1. drafts' = LoadStarted(drafts, q)
    BY <1>6 DEF SelectQuestion
  <2>2. QED
    BY <1>1, <2>1, LoadStartedFacts DEF Memory
<1>7. ASSUME NEW q \in DraftQuestions, SubmitAccepted(q) PROVE Memory(p)
  <2>1. drafts' = Forgotten(drafts, q)
    BY <1>7 DEF SubmitAccepted
  <2>2. drafts'[q].memory = NoDraft /\ (p # q => drafts'[p] = drafts[p])
    BY <1>1, <2>1, ForgottenFacts
  <2>3. QED
    BY <2>2 DEF Memory
<1>8. ASSUME NEW q \in DraftQuestions, JobSucceeds(q) \/ JobFails(q) PROVE Memory(p)
  <2>1. (\E job : Warn(q, job, TRUE)) \/ \E job : Warn(q, job, FALSE)
    <3>1. CASE JobSucceeds(q)
      BY <3>1 DEF JobSucceeds
    <3>2. CASE JobFails(q)
      BY <3>2 DEF JobFails
    <3>3. QED
      BY <1>8, <3>1, <3>2
  <2>2. drafts'[q].memory = drafts[q].memory /\ (p # q => drafts'[p] = drafts[p])
    BY <1>1, <2>1, WarnFacts
  <2>3. QED
    BY <2>2 DEF Memory
<1>9. ASSUME NEW q \in DraftQuestions, LoadReads(q) \/ DraftRestored(q) \/ LoadFails(q) PROVE Memory(p)
  BY <1>9, LoadsKeepMemory
<1>10. CASE StateRead \/ CleanedUp \/ RetrySave
  BY <1>2, <1>3, <1>10 DEF StateRead, CleanedUp, RetrySave
<1>11. ASSUME NEW option \in DraftOptions, Edit(option) PROVE Count("edits", MaxEdits)
  BY <1>11 DEF Edit
<1>12. ASSUME NEW q \in DraftQuestions, Revised(q) \/ SubmitDraft(q) PROVE UNCHANGED drafts
  BY <1>12 DEF Revised, SubmitDraft
<1>13. CASE UNCHANGED draftVars
  BY <1>2, <1>13 DEF draftVars
<1>14. QED
  BY <1>2, <1>3, <1>4, <1>5, <1>6, <1>7, <1>8, <1>9, <1>10, <1>11, <1>12, <1>13 DEF DraftsNext

\* Once the jobs of a Question are through, its file holds nothing but the draft
\* in memory, unless the human was warned, the store failed or the Question was
\* not opened yet; and what the human typed is replaced by nothing but another
\* edit, or by itself without what is not offered any more (persistDraft,
\* restoreDraft, reconcileDraftsForServer).
THEOREM DraftsStayNewest == DraftsSpec => DraftsAreKept
<1>1. DraftsInv /\ [DraftsNext]_draftVars => [OnlyNewestStored' /\ EditsAreKept]_draftVars
  <2>1. DraftsInv' => OnlyNewestStored'
    BY NewestIsStored, PTL
  <2>2. QED
    BY <2>1, DraftsStep, StepKeepsEdits
<1>2. QED
  BY <1>1, DraftsStart, DraftsStep, PTL DEF DraftsSpec, DraftsAreKept

-----------------------------------------------------------------------------
(* The private chat in the browser.  What keeps a view that says it is online *)
(* from being left behind is always something on its way: the last event      *)
(* itself, or word that the connection broke.                                *)

Signals == [type : {"event", "snapshot", "offline", "online"}, number : Nat]
Links == {"up", "recovering", "down"}
Requests == [state : {"none", "wanted", "asked", "answered", "failed"}, number : Nat]
ChatViews == [kind : {"none", "ready", "unavailable"}, seq : Nat, seen : SUBSET Nat,
              connection : {"online", "stale", "offline"}]
Synchronizations == [stage : {"none", "opening", "fetching"}, again : BOOLEAN, buffer : Seq(Signals)]
StreamTypes ==
  /\ sequence \in Nat /\ link \in Links /\ wire \in Seq(Signals)
  /\ stream \in [open : BOOLEAN, frames : Seq(Signals)]
  /\ request \in Requests /\ view \in ChatViews /\ sync \in Synchronizations
\* The frame f is in s; the browser will read it.
OnTheWay(f, s) == \E i \in DOMAIN s : s[i] = f
ToBeRead(f) == OnTheWay(f, sync.buffer) \/ OnTheWay(f, stream.frames)

\* Who has seen the events up to such a number will see the last one, or hear
\* that the connection broke.
SafeNumbers ==
  {number \in Nat :
     \/ ToBeRead(Signal("offline", 0))
     \/ /\ link # "down"
        /\ \/ number >= sequence
           \/ OnTheWay(Signal("event", sequence), wire)
           \/ ToBeRead(Signal("event", sequence))}

Online == view.kind = "ready" /\ view.connection = "online" /\ sync.stage = "none"
Stages ==
  /\ sync.stage = "none" => sync.buffer = <<>>
  /\ view.kind = "none" => sync.stage = "none"
  /\ sync.stage # "fetching" => request.state = "none"
  /\ Online \/ sync.stage = "fetching" => stream.open
  /\ link = "down" => wire = <<>>

\* A snapshot comes for the request that waits for it, and only one.
SnapshotsAsked ==
  \A i \in DOMAIN wire :
    /\ wire[i].type \in {"event", "snapshot"}
    /\ wire[i].type = "snapshot" =>
         request.state = "asked" /\ \A j \in DOMAIN wire : wire[j].type = "snapshot" => j = i

\* The view on the screen, the snapshot that arrived and the one under way.
EverythingComes ==
  /\ Online => view.seq \in SafeNumbers
  /\ request.state = "answered" => request.number \in SafeNumbers
  /\ \A i \in DOMAIN wire : wire[i].type = "snapshot" => wire[i].number \in SafeNumbers

StreamInv == Stages /\ SnapshotsAsked /\ EverythingComes

LEMMA OnTheWayFacts ==
  ASSUME NEW s \in Seq(Signals), NEW f \in Signals
  PROVE  /\ Append(s, f) \in Seq(Signals)
         /\ \A g : OnTheWay(g, s) \/ g = f => OnTheWay(g, Append(s, f))
         /\ s # <<>> =>
              /\ Tail(s) \in Seq(Signals) /\ Head(s) \in Signals
              /\ \A i \in DOMAIN Tail(s) : i + 1 \in DOMAIN s /\ Tail(s)[i] = s[i + 1]
              /\ 1 \in DOMAIN s /\ Head(s) = s[1]
              /\ \A g : OnTheWay(g, s) => g = Head(s) \/ OnTheWay(g, Tail(s))
<1>1. Append(s, f) \in Seq(Signals)
  OBVIOUS
<1>2. ASSUME NEW g, OnTheWay(g, s) PROVE OnTheWay(g, Append(s, f))
  <2>1. PICK i \in DOMAIN s : s[i] = g
    BY <1>2 DEF OnTheWay
  <2>2. i \in DOMAIN Append(s, f) /\ Append(s, f)[i] = g
    BY <2>1
  <2>3. QED
    BY <2>2 DEF OnTheWay
<1>3. OnTheWay(f, Append(s, f))
  <2>1. Len(s) + 1 \in DOMAIN Append(s, f) /\ Append(s, f)[Len(s) + 1] = f
    OBVIOUS
  <2>2. QED
    BY <2>1 DEF OnTheWay
<1>4. ASSUME s # <<>>
      PROVE  /\ Tail(s) \in Seq(Signals) /\ Head(s) \in Signals
             /\ \A i \in DOMAIN Tail(s) : i + 1 \in DOMAIN s /\ Tail(s)[i] = s[i + 1]
             /\ 1 \in DOMAIN s /\ Head(s) = s[1]
  BY <1>4
<1>5. ASSUME s # <<>>, NEW g, OnTheWay(g, s), g # Head(s) PROVE OnTheWay(g, Tail(s))
  <2>1. PICK i \in DOMAIN s : s[i] = g
    BY <1>5 DEF OnTheWay
  <2>2. i \in 1..Len(s) /\ i # 1 /\ Len(s) \in Nat
    BY <1>4, <1>5, <2>1
  <2>3. i - 1 \in DOMAIN Tail(s) /\ Tail(s)[i - 1] = s[i]
    BY <1>5, <2>2
  <2>4. QED
    BY <2>1, <2>3 DEF OnTheWay
<1>6. QED
  BY <1>1, <1>2, <1>3, <1>4, <1>5

\* What a frame does to the view: it is never more online than it was, not
\* behind the events it was shown, and not online after it heard "offline".
LEMMA OutcomeFacts ==
  ASSUME NEW v \in ChatViews, NEW f \in Signals
  PROVE  LET o == Outcome(v, f)
         IN /\ o.view \in ChatViews /\ o.again \in BOOLEAN
            /\ o.view.kind = v.kind /\ o.view.seq >= v.seq
            /\ o.view.connection = "online" =>
                 /\ v.connection = "online" /\ f.type # "offline"
                 /\ f.type = "event" => f.number <= o.view.seq
<1> DEFINE hold == [view |-> v, again |-> FALSE]
           stale == [view |-> [v EXCEPT !.connection = "stale"], again |-> TRUE]
           o == Outcome(v, f)
<1>1. v.seq \in Nat /\ f.number \in Nat /\ v.seen \in SUBSET Nat
  BY DEF ChatViews, Signals
<1>2. /\ [v EXCEPT !.connection = "stale"] \in ChatViews
      /\ [v EXCEPT !.connection = "offline"] \in ChatViews
      /\ Applied(v, f.number) \in ChatViews
  BY <1>1 DEF ChatViews, Applied
<1>3. CASE f.type = "offline"
  <2>1. o = [hold EXCEPT !.view.connection = "offline"]
    BY <1>3 DEF Outcome
  <2>2. o = [view |-> [v EXCEPT !.connection = "offline"], again |-> FALSE]
    BY <2>1
  <2>3. QED
    BY <1>1, <1>2, <2>2 DEF ChatViews
<1>4. CASE o = hold /\ ((f.type = "online" /\ v.connection = "online") \/ f.number <= v.seq \/ v.connection # "online")
           /\ f.type # "offline"
  BY <1>1, <1>4
<1>5. CASE o = stale
  BY <1>1, <1>2, <1>5 DEF ChatViews
<1>6. CASE o = [hold EXCEPT !.view = Applied(v, f.number)] /\ f.type # "offline" /\ f.number = v.seq + 1
           /\ v.connection = "online"
  <2>1. o = [view |-> Applied(v, f.number), again |-> FALSE]
    BY <1>6
  <2>2. Applied(v, f.number).kind = v.kind /\ Applied(v, f.number).seq = f.number
    BY DEF ChatViews, Applied
  <2>3. o.view = Applied(v, f.number) /\ o.again \in BOOLEAN
    BY <2>1
  <2>6. o = Outcome(v, f)
    OBVIOUS
  <2> HIDE DEF o
  <2>4. o.view \in ChatViews /\ o.view.kind = v.kind /\ o.view.seq = f.number
    BY <1>2, <2>2, <2>3
  <2>7. f.type # "offline" /\ f.number = v.seq + 1 /\ v.connection = "online"
    BY <1>6
  <2>5. o.view.seq >= v.seq /\ f.number <= o.view.seq
    BY <1>1, <2>4, <2>7
  <2>8. QED
    BY <1>1, <2>3, <2>4, <2>5, <2>6, <2>7
<1>7. QED
  BY <1>1, <1>3, <1>4, <1>5, <1>6 DEF Outcome

Results == [view : ChatViews, again : BOOLEAN]
\* The result r has taken frame f of the kind `transport` into account.
Heeds(r, f, transport) ==
  r.view.connection = "online" /\ Transport(f) = transport =>
    f.type # "offline" /\ (f.type = "event" => f.number <= r.view.seq)
Follows(r, o) ==
  /\ r.view.kind = o.view.kind /\ r.view.seq >= o.view.seq
  /\ r.view.connection = "online" => o.view.connection = "online"

LEMMA ApplyThoseFacts ==
  ASSUME NEW fs \in Seq(Signals), NEW transport \in BOOLEAN, NEW start \in Results
  PROVE  LET r == ApplyThose(fs, transport, start)
         IN r \in Results /\ Follows(r, start) /\ \A i \in 1..Len(fs) : Heeds(r, fs[i], transport)
<1> DEFINE L == Len(fs)
           Next(r, n) == IF Transport(fs[n]) # transport THEN r
                         ELSE LET next == Outcome(r.view, fs[n])
                              IN [next EXCEPT !.again = @ \/ r.again]
           step == [nr \in (1..L) \X Results |-> Next(nr[2], nr[1])]
           Eq(h) == h = [n \in 0..L |-> IF n = 0 THEN start ELSE Next(h[n - 1], n)]
           c == CHOOSE h : Eq(h)
<1>1. L \in Nat
  OBVIOUS
<1>2. ASSUME NEW r \in Results, NEW n \in 1..L
      PROVE  Next(r, n) \in Results /\ Follows(Next(r, n), r) /\ Heeds(Next(r, n), fs[n], transport)
  <2> DEFINE o == Outcome(r.view, fs[n])
  <2>1. r.view \in ChatViews /\ fs[n] \in Signals /\ r.again \in BOOLEAN /\ r.view.seq \in Nat
    BY DEF Results, ChatViews
  <2>2. /\ o.view \in ChatViews /\ o.again \in BOOLEAN
        /\ o.view.kind = r.view.kind /\ o.view.seq >= r.view.seq
        /\ o.view.connection = "online" =>
             /\ r.view.connection = "online" /\ fs[n].type # "offline"
             /\ fs[n].type = "event" => fs[n].number <= o.view.seq
    BY <2>1, OutcomeFacts
  <2>3. o = [view |-> o.view, again |-> o.again]
    BY <2>1 DEF Outcome
  <2>4. CASE Transport(fs[n]) = transport
    <3>1. Next(r, n) = [o EXCEPT !.again = @ \/ r.again]
      BY <2>4
    <3>2. Next(r, n) = [view |-> o.view, again |-> o.again \/ r.again]
      BY <2>3, <3>1
    <3> HIDE DEF o, Next
    <3>3. QED
      BY <2>1, <2>2, <3>2 DEF Results, Follows, Heeds
  <2>5. CASE Transport(fs[n]) # transport
    <3>1. Next(r, n) = r
      BY <2>5
    <3>2. Follows(r, r) /\ Heeds(r, fs[n], transport)
      BY <2>1, <2>5 DEF Follows, Heeds
    <3>3. QED
      BY <3>1, <3>2
  <2>6. QED
    BY <2>4, <2>5
<1> HIDE DEF Next
<1>3. \A nr \in (1..L) \X Results : nr[1] \in 1..L /\ nr[2] \in Results
  OBVIOUS
<1>4. step \in [(1..L) \X Results -> Results]
  BY <1>2, <1>3
<1>5. PICK g : Iteration(g, L, Results, start, step)
  <2> HIDE DEF step, L
  <2>1. QED
    BY <1>1, <1>4, Iterates
<1>6. \A n \in 1..L : g[n] = Next(g[n - 1], n)
  <2> TAKE n \in 1..L
  <2>1. n - 1 \in 0..L
    BY <1>1
  <2>2. g[n - 1] \in Results /\ g[n] = step[<<n, g[n - 1]>>] /\ <<n, g[n - 1]>> \in (1..L) \X Results
    BY <1>5, <2>1 DEF Iteration
  <2>3. QED
    BY <2>2
<1>7. Eq(g)
  <2> DEFINE r == [n \in 0..L |-> IF n = 0 THEN start ELSE Next(g[n - 1], n)]
  <2>1. \A n \in 0..L : n # 0 => n \in 1..L
    BY <1>1
  <2>2. \A n \in 0..L : r[n] = g[n]
    BY <1>5, <1>6, <2>1 DEF Iteration
  <2>3. g = [n \in 0..L |-> g[n]]
    BY <1>5 DEF Iteration
  <2>4. r = [n \in 0..L |-> r[n]]
    OBVIOUS
  <2> HIDE DEF r
  <2>5. g = r
    BY <2>2, <2>3, <2>4
  <2>6. QED
    BY <2>5 DEF r
<1>8. Eq(c)
  <2> HIDE DEF Eq
  <2>1. QED
    BY <1>7
<1>9. \A n \in 0..L : c[n] = IF n = 0 THEN start ELSE Next(c[n - 1], n)
  <2> HIDE DEF c
  <2>1. QED
    BY <1>8
<1>10. ApplyThose(fs, transport, start) = c[L]
  BY DEF ApplyThose, Next
<1> HIDE DEF c
<1> DEFINE Done(n) == /\ c[n] \in Results /\ Follows(c[n], start)
                      /\ \A i \in 1..n : Heeds(c[n], fs[i], transport)
           T == {n \in 0..L : Done(n)}
<1>11. 0 \in T
  <2>1. c[0] = start /\ start.view.seq \in Nat
    BY <1>1, <1>9 DEF Results, ChatViews
  <2>2. QED
    BY <1>1, <2>1 DEF Follows
<1>12. ASSUME NEW n \in 1..L, n - 1 \in T PROVE n \in T
  <2>1. n \in 0..L /\ n # 0 /\ c[n] = Next(c[n - 1], n) /\ Done(n - 1)
    BY <1>1, <1>9, <1>12
  <2>2. c[n] \in Results /\ Follows(c[n], c[n - 1]) /\ Heeds(c[n], fs[n], transport)
    BY <1>2, <2>1
  <2>3. c[n].view.seq \in Nat /\ c[n - 1].view.seq \in Nat /\ start.view.seq \in Nat
    BY <2>1, <2>2 DEF Results, ChatViews
  <2>4. Follows(c[n], start)
    BY <2>1, <2>2, <2>3 DEF Follows
  <2>5. ASSUME NEW i \in 1..n PROVE Heeds(c[n], fs[i], transport)
    <3>1. CASE i = n
      BY <2>2, <3>1
    <3>2. CASE i # n
      <4>1. i \in 1..(n - 1) /\ fs[i] \in Signals
        BY <1>1, <3>2
      <4>2. Heeds(c[n - 1], fs[i], transport) /\ fs[i].number \in Nat
        BY <2>1, <4>1 DEF Signals
      <4>3. QED
        BY <2>2, <2>3, <4>2 DEF Heeds, Follows
    <3>3. QED
      BY <3>1, <3>2
  <2>6. QED
    BY <2>1, <2>2, <2>4, <2>5
<1>13. L \in T
  <2> HIDE DEF T, L
  <2>1. \A n \in 0..L : n \in T
    BY <1>1, <1>11, <1>12, StepByStep
  <2>2. QED
    BY <1>1, <2>1
<1>14. QED
  BY <1>10, <1>13

\* A view that is online after it took the buffer has all that was in it.
LEMMA ApplyAllFacts ==
  ASSUME NEW fs \in Seq(Signals), NEW v \in ChatViews
  PROVE  LET r == ApplyAll(fs, v)
         IN /\ r \in Results /\ r.view.kind = v.kind /\ r.view.seq >= v.seq
            /\ r.view.connection = "online" =>
                 \A f : OnTheWay(f, fs) =>
                   f.type # "offline" /\ (f.type = "event" => f.number <= r.view.seq)
<1> DEFINE start == [view |-> v, again |-> FALSE]
           first == ApplyThose(fs, TRUE, start)
           r == ApplyThose(fs, FALSE, first)
<1>1. start \in Results /\ start.view = v
  BY DEF Results
<1>2. first \in Results /\ Follows(first, start) /\ \A i \in 1..Len(fs) : Heeds(first, fs[i], TRUE)
  BY <1>1, ApplyThoseFacts
<1> HIDE DEF start
<1>3. r \in Results /\ Follows(r, first) /\ \A i \in 1..Len(fs) : Heeds(r, fs[i], FALSE)
  <2> HIDE DEF first
  <2>1. QED
    BY <1>2, ApplyThoseFacts
<1>4. ApplyAll(fs, v) = r
  BY DEF ApplyAll, start
<1> HIDE DEF first, r
<1>5. v.seq \in Nat /\ first.view.seq \in Nat /\ r.view.seq \in Nat
  BY <1>2, <1>3 DEF Results, ChatViews
<1>6. r.view.kind = v.kind /\ r.view.seq >= v.seq
  BY <1>1, <1>2, <1>3, <1>5 DEF Follows
<1>7. ASSUME r.view.connection = "online", NEW f, OnTheWay(f, fs)
      PROVE  f.type # "offline" /\ (f.type = "event" => f.number <= r.view.seq)
  <2>1. PICK i \in 1..Len(fs) : f = fs[i]
    BY <1>7 DEF OnTheWay
  <2>2. f \in Signals /\ first.view.connection = "online" /\ first.view.seq <= r.view.seq
    BY <1>3, <1>5, <1>7, <2>1 DEF Follows
  <2>3. f.number \in Nat
    BY <2>2 DEF Signals
  <2>4. CASE Transport(f)
    BY <1>2, <1>5, <2>1, <2>2, <2>3, <2>4 DEF Heeds
  <2>5. CASE ~Transport(f)
    <3>1. Transport(f) = FALSE
      BY <2>5 DEF Transport
    <3>2. QED
      BY <1>3, <1>7, <2>1, <3>1 DEF Heeds
  <2>6. QED
    BY <2>4, <2>5
<1>8. QED
  BY <1>3, <1>4, <1>6, <1>7

-----------------------------------------------------------------------------
(* The steps.                                                                *)

LEMMA SignalFacts ==
  /\ \A n \in Nat : Signal("event", n) \in Signals /\ Signal("snapshot", n) \in Signals
  /\ Signal("offline", 0) \in Signals /\ Signal("online", 0) \in Signals
BY DEF Signals, Signal

LEMMA StreamStarts == ~Takeover /\ StreamInit => StreamTypes /\ StreamInv
<1> SUFFICES ASSUME StreamInit PROVE StreamTypes /\ StreamInv
  OBVIOUS
<1>1. <<>> \in Seq(Signals)
  OBVIOUS
<1>2. StreamTypes
  BY <1>1 DEF StreamInit, StreamTypes, Closed, NoRequest, Asks, NoView, NoSync, Links, Requests,
              ChatViews, Synchronizations
<1>3. Stages /\ SnapshotsAsked /\ EverythingComes
  BY DEF StreamInit, Stages, SnapshotsAsked, EverythingComes, Online, Closed, NoRequest, Asks,
         NoView, NoSync
<1>4. QED
  BY <1>2, <1>3 DEF StreamInv

\* A step that leaves the stream, the browser and the link, and appends what it
\* emitted to the wire, or to nothing while the extension is away.
LEMMA EmitKeepsStream ==
  ASSUME StreamTypes, StreamInv, NEW n \in Nat, Emit(n), UNCHANGED <<link, stream, browser>>
  PROVE  StreamTypes' /\ StreamInv'
<1> DEFINE more == [i \in 1..n |-> Signal("event", sequence + i)]
<1>1. sequence \in Nat /\ sequence' = sequence + n /\ sequence' \in Nat /\ wire \in Seq(Signals)
  BY DEF StreamTypes, Emit
<1>2. more \in Seq(Signals) /\ Len(more) = n
  BY <1>1, SignalFacts
<1>3. wire' = wire \/ (link # "down" /\ wire' = wire \o more)
  <2>1. CASE link \in {"up", "recovering"}
    BY <2>1 DEF Emit, Forwarded
  <2>2. CASE link \notin {"up", "recovering"}
    BY <2>2 DEF Emit, Forwarded
  <2>3. QED
    BY <2>1, <2>2
<1>4. link \in {"up", "recovering"} => wire' = wire \o more
  BY DEF Emit, Forwarded
<1>5. wire' \in Seq(Signals)
  <2>1. \A t \in Seq(Signals) : wire \o t \in Seq(Signals)
    BY <1>1
  <2> HIDE DEF more
  <2>2. QED
    BY <1>1, <1>2, <1>3, <2>1
<1>6. ASSUME NEW i \in DOMAIN wire'
      PROVE  (i \in DOMAIN wire /\ wire'[i] = wire[i]) \/ wire'[i].type = "event"
  <2>1. CASE wire' = wire
    BY <1>6, <2>1
  <2>2. CASE wire' = wire \o more /\ i \notin DOMAIN wire
    <3>1. i - Len(wire) \in 1..n /\ wire'[i] = more[i - Len(wire)]
      BY <1>1, <1>2, <1>5, <1>6, <2>2
    <3>2. QED
      BY <3>1 DEF Signal
  <2>3. CASE wire' = wire \o more /\ i \in DOMAIN wire
    BY <1>1, <1>2, <2>3
  <2>4. QED
    BY <1>3, <2>1, <2>2, <2>3
<1>7. ASSUME NEW i \in DOMAIN wire PROVE i \in DOMAIN wire' /\ wire'[i] = wire[i]
  BY <1>1, <1>2, <1>3
<1>8. ASSUME NEW number \in SafeNumbers PROVE number \in SafeNumbers'
  <2>1. CASE ToBeRead(Signal("offline", 0))
    BY <2>1 DEF SafeNumbers, ToBeRead, browser
  <2>2. CASE n = 0
    <3>1. sequence' = sequence /\ \A f : OnTheWay(f, wire) => OnTheWay(f, wire')
      BY <1>1, <1>7, <2>2 DEF OnTheWay
    <3>2. QED
      BY <1>8, <3>1 DEF SafeNumbers, ToBeRead, browser
  <2>3. CASE n # 0 /\ link # "down"
    <3>1. wire' = wire \o more
      BY <1>4, <2>3 DEF StreamTypes, Links
    <3>2. Len(wire) + n \in DOMAIN wire' /\ n \in 1..n
      BY <1>1, <1>2, <2>3, <3>1
    <3>3. wire'[Len(wire) + n] = more[n]
      BY <1>1, <1>2, <2>3, <3>1, <3>2
    <3>4. OnTheWay(Signal("event", sequence'), wire')
      BY <1>1, <3>2, <3>3 DEF OnTheWay
    <3>5. QED
      BY <2>3, <3>4 DEF SafeNumbers
  <2>4. QED
    BY <1>8, <2>1, <2>2, <2>3 DEF SafeNumbers
<1>9. StreamTypes'
  BY <1>1, <1>5 DEF StreamTypes, browser
<1>10. Stages'
  <2>1. link = "down" => wire' = wire
    BY <1>3
  <2>2. QED
    BY <2>1 DEF StreamInv, Stages, Online, browser
<1>11. SnapshotsAsked'
  BY <1>6, <1>7, SMTT(30) DEF StreamInv, SnapshotsAsked, browser
<1>12. EverythingComes'
  <2>1. (Online => view.seq \in SafeNumbers) /\ (request.state = "answered" => request.number \in SafeNumbers)
    BY DEF StreamInv, EverythingComes
  <2>2. (Online' => view'.seq \in SafeNumbers') /\ (request'.state = "answered" => request'.number \in SafeNumbers')
    BY <1>8, <2>1 DEF Online, browser
  <2>3. ASSUME NEW i \in DOMAIN wire', wire'[i].type = "snapshot" PROVE wire'[i].number \in SafeNumbers'
    <3>1. i \in DOMAIN wire /\ wire'[i] = wire[i]
      BY <1>6, <2>3
    <3>2. wire[i].number \in SafeNumbers
      BY <2>3, <3>1 DEF StreamInv, EverythingComes
    <3>3. QED
      BY <1>8, <3>1, <3>2
  <2>4. QED
    BY <2>2, <2>3 DEF EverythingComes
<1>13. QED
  BY <1>9, <1>10, <1>11, <1>12 DEF StreamInv

LEMMA NothingKeepsStream ==
  StreamTypes /\ StreamInv /\ UNCHANGED <<sequence, link, wire, stream, browser>>
    => StreamTypes' /\ StreamInv'
BY DEF StreamTypes, StreamInv, Stages, SnapshotsAsked, EverythingComes, SafeNumbers, ToBeRead, OnTheWay,
       Online, browser

\* The model session and the commands: they emit, or do not.
LEMMA RuntimeKeepsStream ==
  ASSUME StreamTypes, StreamInv,
         \/ RuntimeSend \/ Accepted \/ PromptRejected \/ RuntimeStop \/ AbortEnds
         \/ AgentStart \/ MessageStart \/ MessageEnd \/ AgentEnd \/ AgentSettled \/ CompletionFails
  PROVE  StreamTypes' /\ StreamInv'
<1>1. UNCHANGED <<link, stream, browser>>
  BY DEF RuntimeSend, Accepted, PromptRejected, RuntimeStop, AbortEnds, AgentStart, MessageStart,
         MessageEnd, AgentEnd, AgentSettled, CompletionFails
<1>2. (\E n \in 0..3 : Emit(n)) \/ UNCHANGED <<sequence, wire>>
  <2>1. CASE Accepted \/ RuntimeStop \/ AbortEnds
    BY <2>1 DEF Accepted, RuntimeStop, AbortEnds
  <2>2. CASE AgentStart \/ MessageStart \/ MessageEnd \/ AgentEnd
    BY <2>2 DEF AgentStart, MessageStart, MessageEnd, AgentEnd
  <2>3. CASE AgentSettled
    <3> DEFINE n == Silent + (IF turn.state # "ready" \/ Silent > 0 THEN 1 ELSE 0)
    <3>1. Silent \in {0, 1, 2}
      BY DEF Silent
    <3>2. n \in 0..3
      BY <3>1
    <3>3. Emit(n)
      BY <2>3 DEF AgentSettled
    <3>4. QED
      BY <3>2, <3>3
  <2>4. CASE RuntimeSend \/ PromptRejected \/ CompletionFails
    BY <2>4 DEF RuntimeSend, PromptRejected, CompletionFails
  <2>5. QED
    BY <2>1, <2>2, <2>3, <2>4
<1>3. QED
  BY <1>1, <1>2, EmitKeepsStream, NothingKeepsStream

\* A message to the server arrives: an event is passed on to the stream, the
\* snapshot answers the request, and with it all that came before it is there.
LEMMA RelayKeepsStream ==
  ASSUME StreamTypes, StreamInv, Relay
  PROVE  StreamTypes' /\ StreamInv'
<1> DEFINE e == Head(wire)
<1>1. wire \in Seq(Signals) /\ wire # <<>> /\ wire' = Tail(wire) /\ wire' \in Seq(Signals)
  BY DEF StreamTypes, Relay
<1>2. /\ e \in Signals /\ 1 \in DOMAIN wire /\ e = wire[1] /\ link # "down"
      /\ \A i \in DOMAIN wire' : i + 1 \in DOMAIN wire /\ wire'[i] = wire[i + 1]
      /\ \A g : OnTheWay(g, wire) => g = e \/ OnTheWay(g, wire')
  <2>1. Head(wire) \in Signals /\ link # "down"
    BY <1>1 DEF Relay
  <2>2. QED
    BY <1>1, <2>1, OnTheWayFacts
<1>3. UNCHANGED <<sequence, link, view, sync>>
  BY DEF Relay
<1>4. e.type \in {"event", "snapshot"} /\ e.number \in Nat
  BY <1>2 DEF StreamInv, SnapshotsAsked, Signals
<1>5. stream.frames \in Seq(Signals) /\ sequence \in Nat
  BY DEF StreamTypes
<1>6. CASE e.type = "event"
  <2>1. request' = request /\ stream' = IF stream.open THEN [stream EXCEPT !.frames = Append(@, e)] ELSE stream
    BY <1>6 DEF Relay, Frame
  <2>2. stream' \in [open : BOOLEAN, frames : Seq(Signals)] /\ stream'.open = stream.open
    BY <1>2, <2>1, OnTheWayFacts DEF StreamTypes
  <2>3. ASSUME stream.open PROVE SafeNumbers \subseteq SafeNumbers'
    <3>1. stream'.frames = Append(stream.frames, e)
      BY <2>1, <2>3 DEF StreamTypes
    <3>2. \A g : OnTheWay(g, stream.frames) \/ g = e => OnTheWay(g, stream'.frames)
      BY <1>2, <1>5, <3>1, OnTheWayFacts
    <3>3. QED
      BY <1>2, <1>3, <3>2 DEF SafeNumbers, ToBeRead
  <2>4. StreamTypes'
    BY <1>1, <1>3, <2>1, <2>2 DEF StreamTypes
  <2>5. Stages'
    BY <1>2, <1>3, <2>1, <2>2 DEF StreamInv, Stages, Online
  <2>6. SnapshotsAsked'
    <3> SUFFICES ASSUME NEW i \in DOMAIN wire'
                 PROVE  /\ wire'[i].type \in {"event", "snapshot"}
                        /\ wire'[i].type = "snapshot" =>
                             /\ request'.state = "asked"
                             /\ \A j \in DOMAIN wire' : wire'[j].type = "snapshot" => j = i
      BY DEF SnapshotsAsked
    <3>1. i + 1 \in DOMAIN wire /\ wire'[i] = wire[i + 1]
      BY <1>2
    <3>2. ASSUME wire'[i].type = "snapshot", NEW j \in DOMAIN wire', wire'[j].type = "snapshot" PROVE j = i
      <4>1. j + 1 \in DOMAIN wire /\ wire'[j] = wire[j + 1] /\ i \in Nat /\ j \in Nat
        BY <1>1, <1>2, <3>2
      <4>2. j + 1 = i + 1
        BY <3>1, <3>2, <4>1 DEF StreamInv, SnapshotsAsked
      <4>3. QED
        BY <4>1, <4>2
    <3>3. QED
      BY <2>1, <3>1, <3>2 DEF StreamInv, SnapshotsAsked
  <2>7. EverythingComes'
    <3>1. Online' = Online /\ (Online => stream.open /\ view.seq \in SafeNumbers)
      BY <1>3 DEF StreamInv, Stages, EverythingComes, Online
    <3>2. request.state \in {"asked", "answered"} => stream.open
      BY DEF StreamInv, Stages
    <3>3. request.state = "answered" => request.number \in SafeNumbers
      BY DEF StreamInv, EverythingComes
    <3>4. ASSUME NEW i \in DOMAIN wire', wire'[i].type = "snapshot" PROVE wire'[i].number \in SafeNumbers'
      <4>1. i + 1 \in DOMAIN wire /\ wire'[i] = wire[i + 1]
        BY <1>2
      <4>2. request.state = "asked" /\ wire'[i].number \in SafeNumbers
        BY <3>4, <4>1 DEF StreamInv, SnapshotsAsked, EverythingComes
      <4>3. QED
        BY <2>3, <3>2, <4>2
    <3>5. QED
      BY <1>3, <2>1, <2>3, <3>1, <3>2, <3>3, <3>4 DEF EverythingComes
  <2>8. QED
    BY <2>4, <2>5, <2>6, <2>7 DEF StreamInv
<1>7. CASE e.type = "snapshot"
  <2>1. stream' = stream /\ request' = [state |-> "answered", number |-> e.number]
    BY <1>7 DEF Relay, Asks
  <2>2. request.state = "asked" /\ e.number \in SafeNumbers /\ sync.stage = "fetching"
    BY <1>2, <1>7 DEF StreamInv, SnapshotsAsked, EverythingComes, Stages
  <2>3. SafeNumbers \subseteq SafeNumbers'
    <3>1. e # Signal("event", sequence)
      BY <1>7 DEF Signal
    <3>2. QED
      BY <1>2, <1>3, <2>1, <3>1 DEF SafeNumbers, ToBeRead
  <2>4. StreamTypes'
    BY <1>1, <1>3, <1>4, <2>1 DEF StreamTypes, Requests
  <2>5. ASSUME NEW i \in DOMAIN wire' PROVE wire'[i].type = "event"
    <3>1. i + 1 \in DOMAIN wire /\ wire'[i] = wire[i + 1] /\ i + 1 # 1
      BY <1>1, <1>2
    <3>2. QED
      BY <1>2, <1>7, <3>1 DEF StreamInv, SnapshotsAsked
  <2>6. QED
    BY <1>2, <1>3, <2>1, <2>2, <2>3, <2>4, <2>5
       DEF StreamInv, Stages, SnapshotsAsked, EverythingComes, Online
<1>8. QED
  BY <1>4, <1>6, <1>7

\* The connection of the extension: who goes away is announced to the stream,
\* if there is one, and before the first event that is lost.
LEMMA LinkKeepsStream ==
  ASSUME ~Takeover, StreamTypes, StreamInv, LinkGone \/ LinkBack \/ Restored
  PROVE  StreamTypes' /\ StreamInv'
<1>1. /\ UNCHANGED <<sequence, view, sync>>
      /\ sequence \in Nat /\ stream.frames \in Seq(Signals) /\ wire \in Seq(Signals)
  BY DEF LinkGone, LinkBack, Restored, browser, StreamTypes
<1>2. \A f \in Signals :
        LET t == IF stream.open THEN [stream EXCEPT !.frames = Append(@, f)] ELSE stream
        IN /\ t \in [open : BOOLEAN, frames : Seq(Signals)] /\ t.open = stream.open
           /\ \A g : OnTheWay(g, stream.frames) => OnTheWay(g, t.frames)
           /\ stream.open => OnTheWay(f, t.frames)
  <2> TAKE f \in Signals
  <2> DEFINE t == IF stream.open THEN [stream EXCEPT !.frames = Append(@, f)] ELSE stream
  <2>1. Append(stream.frames, f) \in Seq(Signals)
    BY <1>1, OnTheWayFacts
  <2>2. \A g : OnTheWay(g, stream.frames) \/ g = f => OnTheWay(g, Append(stream.frames, f))
    BY <1>1, OnTheWayFacts
  <2>3. CASE stream.open
    <3>1. t = [stream EXCEPT !.frames = Append(stream.frames, f)]
      BY <2>3
    <3>2. t.frames = Append(stream.frames, f) /\ t.open = stream.open
          /\ t \in [open : BOOLEAN, frames : Seq(Signals)]
      BY <2>1, <3>1 DEF StreamTypes
    <3>3. t = IF stream.open THEN [stream EXCEPT !.frames = Append(@, f)] ELSE stream
      OBVIOUS
    <3> HIDE DEF t
    <3>4. QED
      BY <2>2, <3>2, <3>3
  <2>4. CASE ~stream.open
    BY <2>4 DEF StreamTypes
  <2>5. QED
    BY <2>3, <2>4
<1>3. CASE LinkGone
  <2>1. /\ link' = "down" /\ wire' = <<>> /\ wire' \in Seq(Signals)
        /\ stream' = IF stream.open THEN [stream EXCEPT !.frames = Append(@, Signal("offline", 0))] ELSE stream
        /\ request' = IF request.state = "asked" THEN Asks("failed", 0) ELSE request
    BY <1>3 DEF LinkGone, Frame, FailRequest
  <2>2. /\ stream' \in [open : BOOLEAN, frames : Seq(Signals)] /\ stream'.open = stream.open
        /\ stream.open => ToBeRead(Signal("offline", 0))'
    BY <1>2, <2>1, SignalFacts DEF ToBeRead
  <2>3. request' \in Requests /\ request'.state # "asked" /\ (request'.state = "answered" => request' = request)
        /\ (request'.state = "none" <=> request.state = "none")
    BY <2>1 DEF Asks, Requests, StreamTypes
  <2>4. stream.open => SafeNumbers' = Nat
    BY <2>2 DEF SafeNumbers
  <2>5. StreamTypes'
    BY <1>1, <2>1, <2>2, <2>3 DEF StreamTypes, Links
  <2>6. Stages' /\ SnapshotsAsked'
    BY <1>1, <2>1, <2>2, <2>3 DEF StreamInv, Stages, SnapshotsAsked, Online
  <2>7. EverythingComes'
    <3>1. Online' \/ request'.state = "answered" => stream.open
      BY <1>1, <2>3 DEF StreamInv, Stages, Online
    <3>2. view'.seq \in Nat /\ request'.number \in Nat /\ \A i \in DOMAIN wire' : FALSE
      BY <2>1, <2>5 DEF StreamTypes, ChatViews, Requests
    <3>3. QED
      BY <2>4, <3>1, <3>2 DEF EverythingComes
  <2>8. QED
    BY <2>5, <2>6, <2>7 DEF StreamInv
<1>4. CASE LinkBack
  <2>1. link = "down" /\ link' = "recovering" /\ UNCHANGED <<wire, stream, request>>
    BY <1>4 DEF LinkBack, StreamTypes, Links, browser
  <2>2. SafeNumbers \subseteq SafeNumbers'
    BY <1>1, <2>1 DEF SafeNumbers, ToBeRead
  <2>3. StreamTypes' /\ Stages' /\ SnapshotsAsked'
    BY <1>1, <2>1 DEF StreamInv, StreamTypes, Stages, SnapshotsAsked, Online, Links
  <2>4. EverythingComes'
    BY <1>1, <2>1, <2>2 DEF StreamInv, EverythingComes, Online
  <2>5. QED
    BY <2>3, <2>4 DEF StreamInv
<1>5. CASE Restored
  <2>1. /\ link = "recovering" /\ link' = "up" /\ UNCHANGED <<wire, request>>
        /\ stream' = IF stream.open THEN [stream EXCEPT !.frames = Append(@, Signal("online", 0))] ELSE stream
    BY <1>5 DEF Restored, browser, Frame
  <2>2. /\ stream' \in [open : BOOLEAN, frames : Seq(Signals)] /\ stream'.open = stream.open
        /\ \A g : OnTheWay(g, stream.frames) => OnTheWay(g, stream'.frames)
    BY <1>2, <2>1, SignalFacts
  <2>3. SafeNumbers \subseteq SafeNumbers'
    BY <1>1, <2>1, <2>2 DEF SafeNumbers, ToBeRead
  <2>4. StreamTypes' /\ Stages' /\ SnapshotsAsked'
    BY <1>1, <2>1, <2>2 DEF StreamInv, StreamTypes, Stages, SnapshotsAsked, Online, Links
  <2>5. EverythingComes'
    BY <1>1, <2>1, <2>3 DEF StreamInv, EverythingComes, Online
  <2>6. QED
    BY <2>4, <2>5 DEF StreamInv
<1>6. QED
  BY <1>3, <1>4, <1>5

\* The snapshot is numbered with the last event there is, and goes down the same
\* wire as the events after it.
LEMMA SnapshotKeepsStream ==
  ASSUME StreamTypes, StreamInv, SnapshotTaken
  PROVE  StreamTypes' /\ StreamInv'
<1>1. UNCHANGED <<sequence, link, stream, view, sync>> /\ request.state = "wanted"
  BY DEF SnapshotTaken
<1>2. sequence \in Nat /\ wire \in Seq(Signals)
  BY DEF StreamTypes
<1>3. \A i \in DOMAIN wire : wire[i].type = "event"
  BY <1>1 DEF StreamInv, SnapshotsAsked
<1>4. CASE link = "up"
  <2> DEFINE s == Signal("snapshot", sequence)
  <2>1. request' = Asks("asked", 0) /\ wire' = Append(wire, s) /\ s \in Signals /\ s.type = "snapshot" /\ s.number = sequence
    BY <1>2, <1>4, SignalFacts DEF SnapshotTaken, Signal
  <2> HIDE DEF s
  <2>2. wire' \in Seq(Signals) /\ \A g : OnTheWay(g, wire) => OnTheWay(g, wire')
    BY <1>2, <2>1, OnTheWayFacts
  <2>3. \A i \in DOMAIN wire' : (i \in DOMAIN wire /\ wire'[i] = wire[i]) \/ (i = Len(wire) + 1 /\ wire'[i] = s)
    BY <1>2, <2>1
  <2>4. sequence \in SafeNumbers' /\ SafeNumbers \subseteq SafeNumbers'
    BY <1>1, <1>2, <1>4, <2>2 DEF SafeNumbers, ToBeRead
  <2>5. StreamTypes' /\ request'.state = "asked"
    BY <1>1, <2>1, <2>2 DEF StreamTypes, Requests, Asks
  <2>6. SnapshotsAsked'
    <3> SUFFICES ASSUME NEW i \in DOMAIN wire'
                 PROVE  /\ wire'[i].type \in {"event", "snapshot"}
                        /\ wire'[i].type = "snapshot" =>
                             \A j \in DOMAIN wire' : wire'[j].type = "snapshot" => j = i
      BY <2>5 DEF SnapshotsAsked
    <3>1. \A j \in DOMAIN wire' : wire'[j].type = "event" \/ (j = Len(wire) + 1 /\ wire'[j].type = "snapshot")
      BY <1>3, <2>1, <2>3
    <3>2. QED
      BY <3>1
  <2>7. Stages'
    BY <1>1, <1>4, <2>5 DEF StreamInv, Stages, Online
  <2>8. EverythingComes'
    <3>1. \A i \in DOMAIN wire' : wire'[i].type = "snapshot" => wire'[i].number \in SafeNumbers'
      BY <1>3, <2>1, <2>3, <2>4
    <3>2. QED
      BY <1>1, <2>4, <2>5, <3>1 DEF StreamInv, EverythingComes, Online
  <2>9. QED
    BY <2>5, <2>6, <2>7, <2>8 DEF StreamInv
<1>5. CASE link # "up"
  <2>1. request' = Asks("failed", 0) /\ wire' = wire
    BY <1>5 DEF SnapshotTaken
  <2>2. request' \in Requests /\ request'.state = "failed"
    BY <2>1 DEF Requests, Asks
  <2>3. SafeNumbers' = SafeNumbers
    BY <1>1, <2>1 DEF SafeNumbers, ToBeRead
  <2>4. StreamTypes' /\ Stages' /\ SnapshotsAsked'
    BY <1>1, <1>3, <2>1, <2>2 DEF StreamInv, StreamTypes, Stages, SnapshotsAsked, Online
  <2>5. EverythingComes'
    BY <1>1, <1>3, <2>1, <2>2, <2>3 DEF StreamInv, EverythingComes, Online
  <2>6. QED
    BY <2>4, <2>5 DEF StreamInv
<1>6. QED
  BY <1>4, <1>5

\* A synchronization begins with nothing asked, nothing heard and no promise.
LEMMA SynchronizeKeepsStream ==
  ASSUME StreamTypes, StreamInv, request.state # "asked", NEW v \in ChatViews, v.kind # "none",
         NEW again \in BOOLEAN, Synchronize(v, again), UNCHANGED <<sequence, link, wire>>
  PROVE  StreamTypes' /\ StreamInv'
<1>1. /\ view' = v /\ sync' = [stage |-> "opening", again |-> again, buffer |-> <<>>]
      /\ stream' = [open |-> FALSE, frames |-> <<>>] /\ request' = [state |-> "none", number |-> 0]
      /\ <<>> \in Seq(Signals)
  BY DEF Synchronize, Closed, NoRequest, Asks
<1>2. StreamTypes'
  BY <1>1 DEF StreamTypes, Requests, Synchronizations
<1>3. \A i \in DOMAIN wire : wire[i].type = "event"
  BY DEF StreamInv, SnapshotsAsked
<1>4. ~Online' /\ request'.state = "none"
  BY <1>1 DEF Online
<1>5. QED
  BY <1>1, <1>2, <1>3, <1>4 DEF StreamInv, Stages, SnapshotsAsked, EverythingComes

\* The steps that begin a synchronization, and the stream it opens.
LEMMA BeginningKeepsStream ==
  ASSUME StreamTypes, StreamInv, Start \/ Opened \/ Retry \/ SyncFails
  PROVE  StreamTypes' /\ StreamInv'
<1>1. /\ UNCHANGED <<sequence, link, wire>> /\ sequence \in Nat /\ 1..sequence \in SUBSET Nat
      /\ view \in ChatViews /\ sync \in Synchronizations
  <2>1. UNCHANGED <<sequence, link, wire>>
    BY DEF Start, Opened, Retry, SyncFails
  <2>2. sequence \in Nat /\ view \in ChatViews /\ sync \in Synchronizations
    BY DEF StreamTypes
  <2>3. 1..sequence \in SUBSET Nat
    BY <2>2
  <2>4. QED
    BY <2>1, <2>2, <2>3
<1>2. CASE Start
  <2> DEFINE v == [NoView EXCEPT !.kind = "ready", !.seq = sequence, !.seen = 1..sequence]
  <2>1. NoView \in ChatViews
    BY DEF NoView, ChatViews
  <2>2. v \in ChatViews /\ v.kind # "none"
    BY <1>1, <2>1 DEF ChatViews
  <2>3. request.state # "asked" /\ Synchronize(v, FALSE)
    BY <1>2 DEF Start, StreamInv, Stages
  <2> HIDE DEF v
  <2>4. QED
    BY <1>1, <2>2, <2>3, SynchronizeKeepsStream
<1>3. CASE Retry
  <2>1. request.state # "asked"
    BY <1>3 DEF Retry, StreamInv, Stages
  <2>2. CASE view.kind = "ready" /\ Synchronize([view EXCEPT !.connection = "stale"], TRUE)
    <3>1. [view EXCEPT !.connection = "stale"] \in ChatViews /\ [view EXCEPT !.connection = "stale"].kind # "none"
      BY <1>1, <2>2 DEF ChatViews
    <3>2. QED
      BY <1>1, <2>1, <2>2, <3>1, SynchronizeKeepsStream
  <2>3. CASE Synchronize([NoView EXCEPT !.kind = "ready", !.seq = sequence,
                          !.seen = 1..sequence, !.connection = "stale"], TRUE)
    <3> DEFINE v == [NoView EXCEPT !.kind = "ready", !.seq = sequence,
                     !.seen = 1..sequence, !.connection = "stale"]
    <3>1. NoView \in ChatViews
      BY DEF NoView, ChatViews
    <3>2. v \in ChatViews /\ v.kind # "none" /\ Synchronize(v, TRUE)
      BY <1>1, <2>3, <3>1 DEF ChatViews
    <3> HIDE DEF v
    <3>3. QED
      BY <1>1, <2>1, <3>2, SynchronizeKeepsStream
  <2>4. QED
    BY <1>3, <2>2, <2>3 DEF Retry
<1>4. \A i \in DOMAIN wire : request.state # "asked" => wire[i].type = "event"
  BY DEF StreamInv, SnapshotsAsked
<1>5. CASE Opened
  <2>1. /\ sync.stage = "opening" /\ sync' = [sync EXCEPT !.stage = "fetching"] /\ view' = view
        /\ stream' = Subscribed /\ request.state = "none"
        /\ request' \in {Asks("wanted", 0), request}
    BY <1>5 DEF Opened, StreamInv, Stages
  <2>2. stream' \in [open : BOOLEAN, frames : Seq(Signals)] /\ stream'.open
    <3>1. <<Signal("offline", 0)>> \in Seq(Signals) /\ <<>> \in Seq(Signals)
      BY SignalFacts
    <3>2. QED
      BY <2>1, <3>1 DEF Subscribed
  <2>3. request' \in Requests /\ request'.state \in {"none", "wanted"}
    BY <2>1 DEF StreamTypes, Requests, Asks
  <2>4. sync' \in Synchronizations /\ sync'.stage = "fetching" /\ sync'.buffer = sync.buffer
    BY <1>1, <2>1 DEF Synchronizations
  <2>5. StreamTypes' /\ ~Online'
    BY <1>1, <2>1, <2>2, <2>3, <2>4 DEF StreamTypes, Online
  <2>6. Stages' /\ SnapshotsAsked' /\ EverythingComes'
    BY <1>1, <1>4, <2>1, <2>2, <2>3, <2>4, <2>5 DEF StreamInv, Stages, SnapshotsAsked, EverythingComes
  <2>7. QED
    BY <2>5, <2>6 DEF StreamInv
<1>6. CASE SyncFails
  <2>1. /\ sync' = NoSync /\ request' = NoRequest /\ stream' = Closed
        /\ \/ view' = [view EXCEPT !.connection = "offline"]
           \/ view' = [view EXCEPT !.kind = "unavailable"]
        /\ request.state \in {"failed", "none"} /\ sync.stage # "none"
    BY <1>6 DEF SyncFails, StreamInv, Stages
  <2>2. /\ view' \in ChatViews /\ (view'.connection # "online" \/ view'.kind # "ready")
        /\ view'.kind = "none" => view.kind = "none"
    BY <1>1, <2>1 DEF ChatViews
  <2>3. /\ sync' = [stage |-> "none", again |-> FALSE, buffer |-> <<>>]
        /\ stream' = [open |-> FALSE, frames |-> <<>>] /\ request' = [state |-> "none", number |-> 0]
        /\ <<>> \in Seq(Signals)
    BY <2>1 DEF NoSync, NoRequest, Asks, Closed
  <2>4. StreamTypes' /\ ~Online'
    BY <1>1, <2>2, <2>3 DEF StreamTypes, Requests, Synchronizations, Online
  <2>5. Stages' /\ SnapshotsAsked' /\ EverythingComes'
    BY <1>1, <1>4, <2>1, <2>2, <2>3, <2>4 DEF StreamInv, Stages, SnapshotsAsked, EverythingComes
  <2>6. QED
    BY <2>4, <2>5 DEF StreamInv
<1>7. QED
  BY <1>2, <1>3, <1>5, <1>6

\* The snapshot arrives in the browser, and the view it gives takes the buffer.
LEMMA FetchKeepsStream ==
  ASSUME StreamTypes, StreamInv, Fetched
  PROVE  StreamTypes' /\ StreamInv'
<1> DEFINE v == [kind |-> "ready", seq |-> request.number, seen |-> 1..request.number, connection |-> "online"]
           o == ApplyAll(sync.buffer, v)
<1>1. /\ UNCHANGED <<sequence, link, wire>> /\ sync.stage = "fetching" /\ request.state = "answered"
      /\ request.number \in Nat /\ sync.buffer \in Seq(Signals) /\ sequence \in Nat
      /\ stream.open
  BY DEF Fetched, StreamTypes, Requests, Synchronizations, StreamInv, Stages
<1>2. v \in ChatViews /\ v.kind = "ready" /\ v.seq = request.number
  BY <1>1 DEF ChatViews
<1>3. Settled(o)
  BY DEF Fetched
<1> HIDE DEF v
<1>4. /\ o \in Results /\ o.view.kind = "ready" /\ o.view.seq >= request.number
      /\ o.view.connection = "online" =>
           \A f : OnTheWay(f, sync.buffer) =>
             f.type # "offline" /\ (f.type = "event" => f.number <= o.view.seq)
  BY <1>1, <1>2, ApplyAllFacts
<1> HIDE DEF o
<1>5. o.view \in ChatViews /\ o.view.seq \in Nat
  BY <1>4 DEF Results, ChatViews
<1>6. CASE Synchronize(o.view, TRUE)
  BY <1>1, <1>4, <1>5, <1>6, SynchronizeKeepsStream
<1>7. CASE view' = o.view /\ sync' = NoSync /\ request' = NoRequest /\ UNCHANGED stream
  <2>1. /\ sync' = [stage |-> "none", again |-> FALSE, buffer |-> <<>>]
        /\ request' = [state |-> "none", number |-> 0] /\ <<>> \in Seq(Signals)
    BY <1>7 DEF NoSync, NoRequest, Asks
  <2>2. StreamTypes'
    BY <1>1, <1>5, <1>7, <2>1 DEF StreamTypes, Requests, Synchronizations
  <2>3. Stages'
    BY <1>1, <1>4, <1>7, <2>1 DEF StreamInv, Stages
  <2>4. \A i \in DOMAIN wire : wire[i].type = "event"
    BY <1>1 DEF StreamInv, SnapshotsAsked
  <2>5. ASSUME Online' PROVE o.view.seq \in SafeNumbers'
    <3>1. \A f : OnTheWay(f, sync.buffer) =>
             f.type # "offline" /\ (f.type = "event" => f.number <= o.view.seq)
      BY <1>4, <1>7, <2>5 DEF Online
    <3>2. request.number \in SafeNumbers
      BY <1>1 DEF StreamInv, EverythingComes
    <3>3. CASE ToBeRead(Signal("offline", 0))
      <4>1. OnTheWay(Signal("offline", 0), stream.frames)
        BY <3>1, <3>3 DEF ToBeRead, Signal
      <4>2. QED
        BY <1>5, <1>7, <4>1 DEF SafeNumbers, ToBeRead
    <3>4. CASE OnTheWay(Signal("event", sequence), sync.buffer) /\ link # "down"
      <4>1. sequence <= o.view.seq
        BY <3>1, <3>4 DEF Signal
      <4>2. QED
        BY <1>1, <1>5, <3>4, <4>1 DEF SafeNumbers
    <3>5. CASE /\ link # "down"
               /\ \/ request.number >= sequence \/ OnTheWay(Signal("event", sequence), wire)
                  \/ OnTheWay(Signal("event", sequence), stream.frames)
      BY <1>1, <1>4, <1>5, <1>7, <3>5 DEF SafeNumbers, ToBeRead
    <3>6. QED
      BY <3>2, <3>3, <3>4, <3>5 DEF SafeNumbers, ToBeRead
  <2>6. SnapshotsAsked' /\ EverythingComes'
    BY <1>1, <1>7, <2>1, <2>4, <2>5 DEF SnapshotsAsked, EverythingComes
  <2>7. QED
    BY <2>2, <2>3, <2>6 DEF StreamInv
<1>8. QED
  BY <1>3, <1>6, <1>7 DEF Settled

\* A frame is shown, buffered or the reason to synchronize again.
LEMMA ReceiveKeepsStream ==
  ASSUME StreamTypes, StreamInv, Receive
  PROVE  StreamTypes' /\ StreamInv'
<1> DEFINE f == Head(stream.frames)
           o == Outcome(view, f)
           rest == [stream EXCEPT !.frames = Tail(@)]
<1>1. /\ UNCHANGED <<sequence, link, wire>> /\ stream.frames # <<>> /\ view.kind = "ready"
      /\ view \in ChatViews /\ stream.frames \in Seq(Signals) /\ sync.buffer \in Seq(Signals)
      /\ sequence \in Nat
  BY DEF Receive, StreamTypes, Synchronizations
<1>2. f \in Signals
  BY <1>1
<1>3. /\ Tail(stream.frames) \in Seq(Signals)
      /\ \A g : OnTheWay(g, stream.frames) => g = f \/ OnTheWay(g, Tail(stream.frames))
  BY <1>1, <1>2, OnTheWayFacts
<1>4. /\ rest \in [open : BOOLEAN, frames : Seq(Signals)] /\ rest.open = stream.open
      /\ rest.frames = Tail(stream.frames)
  BY <1>3 DEF StreamTypes
<1>5. CASE sync.stage # "none"
  <2>1. sync' = [sync EXCEPT !.buffer = Append(@, f)] /\ stream' = rest /\ UNCHANGED <<view, request>>
    BY <1>5 DEF Receive
  <2>2. /\ Append(sync.buffer, f) \in Seq(Signals)
        /\ \A g : OnTheWay(g, sync.buffer) \/ g = f => OnTheWay(g, Append(sync.buffer, f))
    BY <1>1, <1>2, OnTheWayFacts
  <2>3. /\ sync' \in Synchronizations /\ sync'.stage = sync.stage
        /\ sync'.buffer = Append(sync.buffer, f)
    BY <2>1, <2>2 DEF StreamTypes, Synchronizations
  <2> HIDE DEF f, rest
  <2>4. SafeNumbers \subseteq SafeNumbers'
    <3>1. \A g : ToBeRead(g) => ToBeRead(g)'
      BY <1>3, <1>4, <2>1, <2>2, <2>3 DEF ToBeRead
    <3>2. QED
      BY <1>1, <3>1 DEF SafeNumbers
  <2>5. StreamTypes'
    BY <1>1, <1>4, <2>1, <2>3 DEF StreamTypes
  <2>6. Stages' /\ SnapshotsAsked'
    BY <1>1, <1>4, <1>5, <2>1, <2>3 DEF StreamInv, Stages, SnapshotsAsked, Online
  <2>7. EverythingComes'
    BY <1>1, <1>5, <2>1, <2>3, <2>4 DEF StreamInv, EverythingComes, Online
  <2>8. QED
    BY <2>5, <2>6, <2>7 DEF StreamInv
<1>6. /\ o.view \in ChatViews /\ o.again \in BOOLEAN
      /\ o.view.kind = view.kind /\ o.view.seq >= view.seq
      /\ o.view.connection = "online" =>
           /\ view.connection = "online" /\ f.type # "offline"
           /\ f.type = "event" => f.number <= o.view.seq
  <2> HIDE DEF f
  <2>1. QED
    BY <1>1, <1>2, OutcomeFacts
<1>7. sync.stage = "none" => \/ Synchronize(o.view, TRUE)
                             \/ view' = o.view /\ stream' = rest /\ UNCHANGED <<sync, request>>
  BY DEF Receive
<1> HIDE DEF f, o, rest
<1>8. CASE sync.stage = "none" /\ Synchronize(o.view, TRUE)
  <2>1. request.state # "asked"
    BY <1>8 DEF StreamInv, Stages
  <2>2. QED
    BY <1>1, <1>6, <1>8, <2>1, SynchronizeKeepsStream
<1>9. CASE sync.stage = "none" /\ view' = o.view /\ stream' = rest /\ UNCHANGED <<sync, request>>
  <2>1. view.seq \in Nat /\ o.view.seq \in Nat
    BY <1>1, <1>6 DEF ChatViews
  <2>2. StreamTypes'
    BY <1>1, <1>4, <1>6, <1>9 DEF StreamTypes
  <2>3. Online' => Online
    BY <1>6, <1>9 DEF Online
  <2>4. Stages' /\ SnapshotsAsked'
    BY <1>1, <1>4, <1>6, <1>9, <2>3 DEF StreamInv, Stages, SnapshotsAsked
  <2>5. ASSUME Online' PROVE o.view.seq \in SafeNumbers'
    <3>1. view.seq \in SafeNumbers /\ sync.buffer = <<>> /\ o.view.connection = "online"
      BY <1>9, <2>3, <2>5 DEF StreamInv, Stages, EverythingComes, Online
    <3>2. \A g : ToBeRead(g) => g = f \/ ToBeRead(g)'
      BY <1>3, <1>4, <1>9 DEF ToBeRead
    <3>3. f # Signal("offline", 0) /\ (f = Signal("event", sequence) => sequence <= o.view.seq)
      BY <1>6, <3>1 DEF Signal
    <3>4. QED
      BY <1>1, <1>6, <2>1, <3>1, <3>2, <3>3 DEF SafeNumbers
  <2>6. EverythingComes'
    BY <1>1, <1>9, <2>5 DEF StreamInv, EverythingComes, Stages, SnapshotsAsked
  <2>7. QED
    BY <2>2, <2>4, <2>6 DEF StreamInv
<1>10. QED
  BY <1>5, <1>7, <1>8, <1>9

LEMMA OthersKeepStream ==
  ASSUME StreamTypes, StreamInv, StreamBreaks \/ BrowserSend \/ SendArrives \/ SendAnswered
  PROVE  StreamTypes' /\ StreamInv'
<1>1. CASE StreamBreaks
  <2>1. /\ UNCHANGED <<sequence, link, wire, request, view, sync>>
        /\ stream' = [stream EXCEPT !.frames = <<Signal("offline", 0)>>]
    BY <1>1 DEF StreamBreaks, browser
  <2>2. <<Signal("offline", 0)>> \in Seq(Signals) /\ OnTheWay(Signal("offline", 0), <<Signal("offline", 0)>>)
    BY SignalFacts DEF OnTheWay
  <2>3. /\ stream' \in [open : BOOLEAN, frames : Seq(Signals)] /\ stream'.open = stream.open
        /\ stream'.frames = <<Signal("offline", 0)>>
    BY <2>1, <2>2 DEF StreamTypes
  <2>4. SafeNumbers' = Nat /\ SafeNumbers \subseteq Nat
    BY <2>2, <2>3 DEF SafeNumbers, ToBeRead
  <2>5. StreamTypes' /\ Stages' /\ SnapshotsAsked' /\ EverythingComes'
    BY <2>1, <2>3, <2>4 DEF StreamInv, StreamTypes, Stages, SnapshotsAsked, EverythingComes, Online
  <2>6. QED
    BY <2>5 DEF StreamInv
<1>2. CASE BrowserSend
  <2>1. /\ UNCHANGED <<sequence, link, wire, stream, request, sync>>
        /\ view' = [view EXCEPT !.seq = @ + 1] /\ view \in ChatViews /\ sequence \in Nat
    BY <1>2 DEF BrowserSend, StreamTypes
  <2>2. view' \in ChatViews /\ view'.kind = view.kind /\ view'.connection = view.connection
        /\ view'.seq = view.seq + 1 /\ view.seq \in Nat
    BY <2>1 DEF ChatViews
  <2>3. SafeNumbers' = SafeNumbers /\ (view.seq \in SafeNumbers => view'.seq \in SafeNumbers)
    BY <2>1, <2>2 DEF SafeNumbers, ToBeRead
  <2>4. StreamTypes' /\ Stages' /\ SnapshotsAsked' /\ EverythingComes'
    BY <2>1, <2>2, <2>3 DEF StreamInv, StreamTypes, Stages, SnapshotsAsked, EverythingComes, Online
  <2>5. QED
    BY <2>4 DEF StreamInv
<1>3. CASE SendArrives \/ SendAnswered
  BY <1>3, NothingKeepsStream DEF SendArrives, SendAnswered
<1>4. QED
  BY <1>1, <1>2, <1>3

LEMMA StreamStep ==
  ~Takeover /\ StreamTypes /\ StreamInv /\ [StreamNext]_streamVars => StreamTypes' /\ StreamInv'
<1> SUFFICES ASSUME ~Takeover, StreamTypes, StreamInv, [StreamNext]_streamVars
             PROVE  StreamTypes' /\ StreamInv'
  OBVIOUS
<1>1. CASE UNCHANGED streamVars
  BY <1>1, NothingKeepsStream DEF streamVars, browser
<1>2. QED
  BY <1>1, RuntimeKeepsStream, RelayKeepsStream, LinkKeepsStream, SnapshotKeepsStream,
     BeginningKeepsStream, FetchKeepsStream, ReceiveKeepsStream, OthersKeepStream DEF StreamNext

\* A browser that says it is online is not behind the runtime once everything
\* sent has arrived, however often the extension and the stream broke, the
\* snapshot was asked for and frames were buffered (ManagedQuestionChatRuntime.emit,
\* QuestionChatRelay, QuestionChatLifecycle), for any number of events.  It
\* needs the server to notice that the extension is gone before it is back:
\* with Takeover it need not be so.
THEOREM OnlineMeansCurrent == ~Takeover => (StreamSpec => []OnlineIsCurrent)
<1> SUFFICES ASSUME ~Takeover PROVE StreamSpec => []OnlineIsCurrent
  OBVIOUS
<1>1. StreamTypes /\ StreamInv => OnlineIsCurrent
  <2> SUFFICES ASSUME StreamTypes, StreamInv, Quiet, view.kind = "ready", view.connection = "online"
               PROVE  view.seq >= sequence
    BY DEF OnlineIsCurrent
  <2>1. view.seq \in SafeNumbers /\ sync.buffer = <<>> /\ stream.frames = <<>> /\ wire = <<>>
    BY DEF Quiet, StreamInv, Stages, EverythingComes, Online
  <2>2. \A f : ~ToBeRead(f) /\ ~OnTheWay(f, wire)
    BY <2>1 DEF ToBeRead, OnTheWay
  <2>3. QED
    BY <2>1, <2>2 DEF SafeNumbers
<1>2. QED
  BY <1>1, StreamStarts, StreamStep, PTL DEF StreamSpec

================================================================================
