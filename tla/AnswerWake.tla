------------------------------ MODULE AnswerWake ------------------------------
(* How an Answer that reached the extension becomes a turn of the agent:      *)
(* PostboxClient.deliverAnswerNotification with its inbox, and the            *)
(* AnswerAutoWakeCoordinator, which writes an intent into the session's       *)
(* branch, batches intents into a follow-up message of Pi and notes that it   *)
(* was sent.  A registration has a client and a coordinator; it is replaced   *)
(* by a reload or another registration, and a crash loses all but the branch  *)
(* and the inbox.  Pi's queue and the navigation of branches are external.    *)
EXTENDS Naturals, Sequences, FiniteSets

CONSTANTS
  WakeAnswers,
  MaxRegistrations,   \* registrations, reloads and crashes included
  MaxQueueClears,     \* times the human clears Pi's queue
  MaxNavigations,     \* times the human goes back to an earlier entry
  HandoverMidDelivery \* a registration may be replaced during a delivery

ASSUME WakeAssumption ==
  /\ MaxRegistrations \in Nat \ {0}
  /\ MaxQueueClears \in Nat /\ MaxNavigations \in Nat
  /\ HandoverMidDelivery \in BOOLEAN

VARIABLES
  wakeInbox,     \* the durable inbox
  wakeAcked,     \* Answers the server will not announce again
  wakeJobs,      \* deliveries under way, of this and of replaced clients
  wakeReg,       \* the current registration
  wakePending,   \* its coordinator: to be sent
  wakeQueued,    \* sent, not yet seen in the branch
  wakeTimer,     \* its batch or retry timer is armed
  branch,        \* entries of the session's branch
  piQueue,       \* follow-up messages Pi has not delivered yet
  recorded,      \* history: Answers with an intent on some branch
  clears, moves  \* history: how often the human intervened

wakeVars == <<wakeInbox, wakeAcked, wakeJobs, wakeReg, wakePending, wakeQueued,
              wakeTimer, branch, piQueue, recorded, clears, moves>>
coordinator == <<wakePending, wakeQueued, wakeTimer>>
human == <<clears, moves>>

\* Definitions named Slip... are faulty variants of the one that follows, used
\* by no specification: a property has to notice each of them.

Entries == [kind : {"intent", "sent", "message"}, ids : SUBSET WakeAnswers]
Jobs == [reg : 1..MaxRegistrations, answer : WakeAnswers,
         stage : {"received", "tell", "mark", "ack"}]

InBranch(b, kind) == UNION {b[i].ids : i \in {j \in DOMAIN b : b[j].kind = kind}}
Entry(kind, ids) == [kind |-> kind, ids |-> ids]

\* refreshFromSession: what the branch says replaces what was remembered; a
\* sent wake without a message is believed to be queued while Pi has a queue.
Refreshed(b) ==
  LET completed == InBranch(b, "message")
      open == InBranch(b, "intent") \ completed
      waiting == IF piQueue = <<>> THEN {} ELSE open \cap InBranch(b, "sent")
      again == open \ waiting
  IN [pending |-> (wakePending \ (completed \cup waiting)) \cup again,
      queued |-> (wakeQueued \ (completed \cup again)) \cup waiting]

WakeInit ==
  /\ wakeInbox = [a \in WakeAnswers |-> "unknown"] /\ wakeAcked = {} /\ wakeJobs = {}
  /\ wakeReg = 1 /\ wakePending = {} /\ wakeQueued = {} /\ wakeTimer = FALSE
  /\ branch = <<>> /\ piQueue = <<>> /\ recorded = {} /\ clears = 0 /\ moves = 0

-----------------------------------------------------------------------------
(* Delivery: one notification of a client at a time, in the order received.  *)

\* answer.available, again on every connection until it was acknowledged.
ReceiveAnswer(a) ==
  /\ a \notin wakeAcked /\ \A j \in wakeJobs : j.reg = wakeReg => j.answer # a
  /\ wakeJobs' = wakeJobs \cup {[reg |-> wakeReg, answer |-> a, stage |-> "received"]}
  /\ UNCHANGED <<wakeInbox, wakeAcked, wakeReg, coordinator, branch, piQueue, recorded, human>>

Advance(j, stage) == wakeJobs' = (wakeJobs \ {j}) \cup {[j EXCEPT !.stage = stage]}

\* inbox.begin
SlipBeginDelivery(j) ==
  /\ j.stage = "received"
  /\ \A k \in wakeJobs : k.reg = j.reg => k.stage = "received"
  /\ IF wakeInbox[j.answer] = "delivered"
     THEN Advance(j, "ack") /\ UNCHANGED wakeInbox
     ELSE Advance(j, "tell") /\ wakeInbox' = [wakeInbox EXCEPT ![j.answer] = "delivered"]
  /\ UNCHANGED <<wakeAcked, wakeReg, coordinator, branch, piQueue, recorded, human>>
BeginDelivery(j) ==
  /\ j.stage = "received"
  /\ \A k \in wakeJobs : k.reg = j.reg => k.stage = "received"
  /\ IF wakeInbox[j.answer] = "delivered"
     THEN Advance(j, "ack") /\ UNCHANGED wakeInbox
     ELSE Advance(j, "tell") /\ wakeInbox' = [wakeInbox EXCEPT ![j.answer] = "pending"]
  /\ UNCHANGED <<wakeAcked, wakeReg, coordinator, branch, piQueue, recorded, human>>

\* AnswerAutoWakeCoordinator.notify; the coordinator of a replaced registration
\* was stopped and does nothing.
Notify(a) ==
  LET now == Refreshed(branch)
      known == a \in now.pending \cup now.queued \cup InBranch(branch, "message")
  IN /\ wakePending' = IF known THEN now.pending ELSE now.pending \cup {a}
     /\ wakeQueued' = now.queued
     /\ wakeTimer' = (wakeTimer \/ ~known)
     /\ branch' = IF known THEN branch ELSE Append(branch, Entry("intent", {a}))
     /\ recorded' = IF known THEN recorded ELSE recorded \cup {a}

TellAgent(j) ==
  /\ j.stage = "tell" /\ Advance(j, "mark")
  /\ IF j.reg = wakeReg THEN Notify(j.answer)
     ELSE UNCHANGED <<coordinator, branch, recorded>>
  /\ UNCHANGED <<wakeInbox, wakeAcked, wakeReg, piQueue, human>>

\* inbox.markDelivered, which may fail for want of the lock.
MarkDelivered(j) ==
  /\ j.stage = "mark"
  /\ \/ Advance(j, "ack") /\ wakeInbox' = [wakeInbox EXCEPT ![j.answer] = "delivered"]
     \/ wakeJobs' = wakeJobs \ {j} /\ UNCHANGED wakeInbox
  /\ UNCHANGED <<wakeAcked, wakeReg, coordinator, branch, piQueue, recorded, human>>

\* The acknowledgement goes nowhere from a stopped client, or gets lost.
AckDelivery(j) ==
  /\ j.stage = "ack" /\ wakeJobs' = wakeJobs \ {j}
  /\ \/ j.reg = wakeReg /\ wakeAcked' = wakeAcked \cup {j.answer}
     \/ UNCHANGED wakeAcked
  /\ UNCHANGED <<wakeInbox, wakeReg, coordinator, branch, piQueue, recorded, human>>

-----------------------------------------------------------------------------

\* flush: the pending wakes become one follow-up message; when Pi throws they
\* stay pending and the retry timer is armed.
FlushWakes ==
  LET now == Refreshed(branch) IN
  /\ wakeTimer
  /\ \/ /\ now.pending # {}
        /\ wakePending' = {} /\ wakeQueued' = now.queued \cup now.pending
        /\ wakeTimer' = FALSE
        /\ piQueue' = Append(piQueue, now.pending)
        /\ branch' = Append(branch, Entry("sent", now.pending))
     \/ /\ wakePending' = now.pending /\ wakeQueued' = now.queued
        /\ wakeTimer' = (now.pending # {})
        /\ UNCHANGED <<piQueue, branch>>
  /\ UNCHANGED <<wakeInbox, wakeAcked, wakeJobs, wakeReg, recorded, human>>

PiDelivers ==
  /\ piQueue # <<>> /\ piQueue' = Tail(piQueue)
  /\ branch' = Append(branch, Entry("message", Head(piQueue)))
  /\ UNCHANGED <<wakeInbox, wakeAcked, wakeJobs, wakeReg, coordinator, recorded, human>>

ClearQueue ==
  /\ piQueue # <<>> /\ clears < MaxQueueClears
  /\ piQueue' = <<>> /\ clears' = clears + 1
  /\ UNCHANGED <<wakeInbox, wakeAcked, wakeJobs, wakeReg, coordinator, branch, recorded, moves>>

Navigate ==
  /\ piQueue = <<>> /\ moves < MaxNavigations /\ moves' = moves + 1
  /\ \E n \in 0..Len(branch) - 1 : branch' = SubSeq(branch, 1, n)
  /\ UNCHANGED <<wakeInbox, wakeAcked, wakeJobs, wakeReg, coordinator, piQueue, recorded, clears>>

\* registerResolvedTarget: a new client, a new coordinator, recover.  The old
\* client is stopped, but goes through the notifications it has received.
Recover(b, queue) ==
  LET open == InBranch(b, "intent") \ InBranch(b, "message")
      waiting == IF queue = <<>> THEN {} ELSE open \cap InBranch(b, "sent")
  IN /\ wakePending' = open \ waiting /\ wakeQueued' = waiting
     /\ wakeTimer' = (open # waiting)

Reregister ==
  /\ wakeReg < MaxRegistrations /\ wakeReg' = wakeReg + 1
  /\ HandoverMidDelivery \/ wakeJobs = {}
  /\ Recover(branch, piQueue)
  /\ UNCHANGED <<wakeInbox, wakeAcked, wakeJobs, branch, piQueue, recorded, human>>

CrashSession ==
  /\ wakeReg < MaxRegistrations /\ wakeReg' = wakeReg + 1
  /\ wakeJobs' = {} /\ piQueue' = <<>>
  /\ Recover(branch, <<>>)
  /\ UNCHANGED <<wakeInbox, wakeAcked, branch, recorded, human>>

WakeNext ==
  \/ \E a \in WakeAnswers : ReceiveAnswer(a)
  \/ \E j \in wakeJobs : BeginDelivery(j) \/ TellAgent(j) \/ MarkDelivered(j) \/ AckDelivery(j)
  \/ FlushWakes \/ PiDelivers \/ ClearQueue \/ Navigate \/ Reregister \/ CrashSession

WakeSpec == WakeInit /\ [][WakeNext]_wakeVars

-----------------------------------------------------------------------------

\* An Answer the inbox calls delivered, which nobody will be told of again, has
\* a wake intent in the session (deliverAnswerNotification, notify).
WakeRecorded == \A a \in WakeAnswers : wakeInbox[a] = "delivered" => a \in recorded

\* One branch announces an Answer to its agent once, through batching, retries,
\* reloads, crashes and duplicate deliveries (notify, flush, refreshFromSession).
WokenOnce ==
  \A i, j \in DOMAIN branch :
    /\ branch[i].kind = "message" /\ branch[j].kind = "message"
    /\ branch[i].ids \cap branch[j].ids # {}
    => i = j

\* A wake that was recorded and not announced is still to be sent or in Pi's
\* queue, unless a human cleared that queue or went back to where it was not
\* recorded (flush, recover).
WakeNotForgotten ==
  \A a \in InBranch(branch, "intent") \ InBranch(branch, "message") :
    \/ a \in wakePending
    \/ \E i \in DOMAIN piQueue : a \in piQueue[i]
    \/ clears + moves > 0

\* Every Answer the inbox has let go of reaches its agent, and reaches it once,
\* through batching, retries, reloads, crashes and duplicate deliveries.
WakeSound == WakeRecorded /\ WokenOnce /\ WakeNotForgotten
=============================================================================
