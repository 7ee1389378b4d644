---------------------------- MODULE RequestStore ----------------------------
(***************************************************************************)
(* The durable Question store of the Postbox server                        *)
(* (packages/server/src/services/requestStore.ts): the questions,          *)
(* question_revisions, question_events and answers tables, and the         *)
(* in-memory map of owner waits.                                           *)
(*                                                                         *)
(* Every method of the store is synchronous and runs in the server's one   *)
(* JavaScript thread, so a method is one action; what interleaves is the   *)
(* order in which agents, the dashboard, the chat and the expiry sweep     *)
(* call them.  A call that is refused after it has expired what was due    *)
(* changes what ExpireDue changes and no more; a call that is refused      *)
(* outright changes nothing.                                               *)
(*                                                                         *)
(* The wording of a Question is abstracted to the set of its option        *)
(* values, a Selection to a subset of them.  The parent of a Question is   *)
(* modelled in QuestionHierarchy; here a reparent is the revision it       *)
(* creates.  Delivery of notifications is modelled in AnswerNotifications. *)
(***************************************************************************)
EXTENDS Naturals, Sequences, FiniteSets

CONSTANTS
  Owners,            \* owner identities with a row in the owners table
  Questions,         \* Question ids
  Multi,             \* the Questions asked with mode "multi"
  OptionValues,      \* machine values an option can carry
  Other,             \* OTHER_OPTION_VALUE, always selectable
  Nobody,            \* no owner, no reader
  NoQuestion,        \* no replacement Question
  AnyRevision,       \* an expectedRevision the caller left out
  MaxOptions,        \* OPTIONS_MAX, 20 in the code
  MaxRevision,       \* bound on content revisions (model checking only)
  MaxOwnerRevision   \* bound on ownership changes (model checking only)

ASSUME ConstantsAssumption ==
  /\ Multi \subseteq Questions
  /\ Other \notin OptionValues
  /\ Nobody \notin Owners
  /\ NoQuestion \notin Questions
  /\ AnyRevision \notin Nat
  /\ MaxOptions \in Nat /\ MaxRevision \in Nat /\ MaxOwnerRevision \in Nat

VARIABLES
  questions,   \* the questions table
  revisions,   \* question_revisions: immutable content snapshots
  answers,     \* the answers table, one sequence of rows per Question
  events,      \* question_events, one sequence per Question
  waits,       \* keys of ownerWaits: owners blocked in wait_for_postbox
  offline      \* owners the presence bookkeeping reports as offline

store == <<questions, revisions, answers, events>>
vars == <<questions, revisions, answers, events, waits, offline>>

-----------------------------------------------------------------------------
(* Records *)

Terminal == {"answered", "cancelled", "expired", "superseded"}
Status == {"absent", "pending"} \cup Terminal
EventType == {"revision", "parent_changed", "owner_changed"} \cup Terminal

Question == [status: Status, revision: Nat, ownerRevision: Nat,
             owner: Owners \cup {Nobody}, options: SUBSET OptionValues,
             expiry: {"never", "later", "due"},
             replacement: Questions \cup {NoQuestion}]

Absent == [status |-> "absent", revision |-> 0, ownerRevision |-> 0,
           owner |-> Nobody, options |-> {}, expiry |-> "never",
           replacement |-> NoQuestion]

Snapshot == [revision: Nat, options: SUBSET OptionValues]
SnapshotOf(row) == [revision |-> row.revision, options |-> row.options]

AnswerRow == [revision: Nat, status: Terminal,
              selected: SUBSET (OptionValues \cup {Other}),
              reader: Owners \cup {Nobody}]

-----------------------------------------------------------------------------
(* Definitions named Slip... are faulty variants of the definition that     *)
(* follows them.  No specification uses them: each stands for a plausible   *)
(* mistake in the code, and shows that a property would notice it.          *)

\* A lifecycle outcome is inserted already read, by the named owner.
SlipLifecycleRow(status, revision, reader) ==
  [revision |-> revision, status |-> "pending", selected |-> {}, reader |-> reader]
LifecycleRow(status, revision, reader) ==
  [revision |-> revision, status |-> status, selected |-> {}, reader |-> reader]

Event == [type: EventType, revision: Nat, owner: Owners \cup {Nobody}]
\* The owner of an event is the owner of the row once it is recorded: the actor
\* the code stores, or facts.owner for owner_changed (the actor of "expired" is
\* the server itself).
EventOf(type, row) == [type |-> type, revision |-> row.revision, owner |-> row.owner]

Exists(q) == questions[q].status # "absent"
Pending(q) == questions[q].status = "pending"
PendingOf(o) == {q \in Questions : Pending(q) /\ questions[q].owner = o}

\* A caller that states no expected revision is not held to one.
SlipExpectedRevision(q, expected) == TRUE
ExpectedRevision(q, expected) == expected \in {AnyRevision, questions[q].revision}

\* The Questions nextUnreadQuestionId chooses from.
UnreadOf(o) ==
  {q \in Questions :
     /\ questions[q].owner = o
     /\ questions[q].status = "answered"
     /\ \E i \in DOMAIN answers[q] : /\ answers[q][i].status = "answered"
                                     /\ answers[q][i].reader = Nobody}

-----------------------------------------------------------------------------
(* Expiry.  create, proposeAnswer, answer and cancel call expireDue before *)
(* they look at anything, so their effect starts from the tables below.    *)

Overdue == {q \in Questions : Pending(q) /\ questions[q].expiry = "due"}

QuestionsAfterExpiry ==
  [q \in Questions |-> IF q \in Overdue
                       THEN [questions[q] EXCEPT !.status = "expired"]
                       ELSE questions[q]]

SlipAnswersAfterExpiry == answers
AnswersAfterExpiry ==
  [q \in Questions |-> IF q \in Overdue
                       THEN Append(answers[q], LifecycleRow("expired", questions[q].revision, questions[q].owner))
                       ELSE answers[q]]

EventsAfterExpiry ==
  [q \in Questions |-> IF q \in Overdue
                       THEN Append(events[q], EventOf("expired", questions[q]))
                       ELSE events[q]]

SlipWaitsAfterExpiry == waits
SlipWaitsBeyondOverdue ==
  waits \ {questions[q].owner : q \in {p \in Questions : Pending(p) /\ questions[p].expiry # "never"}}
WaitsAfterExpiry == waits \ {questions[q].owner : q \in Overdue}

ExpireDue ==
  /\ Overdue # {}
  /\ questions' = QuestionsAfterExpiry
  /\ answers' = AnswersAfterExpiry
  /\ events' = EventsAfterExpiry
  /\ waits' = WaitsAfterExpiry
  /\ UNCHANGED <<revisions, offline>>

\* The clock passes the expiry of a Question.
Elapse(q) ==
  /\ Pending(q)
  /\ questions[q].expiry = "later"
  /\ questions' = [questions EXCEPT ![q].expiry = "due"]
  /\ UNCHANGED <<revisions, answers, events, waits, offline>>

-----------------------------------------------------------------------------
(* Creation.  A replayed request id returns the stored Question unchanged. *)

NewQuestion(o, options, expiry) ==
  [status |-> "pending", revision |-> 1, ownerRevision |-> 1, owner |-> o,
   options |-> options, expiry |-> expiry, replacement |-> NoQuestion]

Create(o, q, options, expiry) ==
  /\ ~Exists(q)
  /\ LET row == NewQuestion(o, options, expiry)
     IN /\ questions' = [QuestionsAfterExpiry EXCEPT ![q] = row]
        /\ revisions' = [revisions EXCEPT ![q] = {SnapshotOf(row)}]
  /\ answers' = AnswersAfterExpiry
  /\ events' = EventsAfterExpiry
  /\ waits' = WaitsAfterExpiry
  /\ UNCHANGED offline

-----------------------------------------------------------------------------
(* Updates by the owner: write_question's revise, reparent, cancel and     *)
(* supersede.  updateQuestion does not expire what is due.                 *)

SlipUpdatable(o, q, expected, expectedOwner) ==
  /\ Exists(q)
  /\ questions[q].owner = o
  /\ questions[q].revision = expected
  /\ questions[q].ownerRevision = expectedOwner
  /\ expected < MaxRevision
SlipUpdatableByContent(o, q, expected, expectedOwner) ==
  /\ Pending(q)
  /\ questions[q].owner = o
  /\ questions[q].revision = expected
  /\ expected < MaxRevision
Updatable(o, q, expected, expectedOwner) ==
  /\ Pending(q)
  /\ questions[q].owner = o
  /\ questions[q].revision = expected
  /\ questions[q].ownerRevision = expectedOwner
  /\ expected < MaxRevision

\* seedQuestionRevision: INSERT OR IGNORE of the row that is about to change.
Seeded(q) ==
  IF \E s \in revisions[q] : s.revision = questions[q].revision
  THEN revisions[q]
  ELSE revisions[q] \cup {SnapshotOf(questions[q])}

\* The next revision of a Question is stored, snapshotted and logged together.
CommitRevision(q, type, row) ==
  /\ questions' = [questions EXCEPT ![q] = row]
  /\ revisions' = [revisions EXCEPT ![q] = Seeded(q) \cup {SnapshotOf(row)}]
  /\ events' = [events EXCEPT ![q] = Append(@, EventOf(type, row))]

SlipNextRevision(q) == questions[q]
NextRevision(q) == [questions[q] EXCEPT !.revision = @ + 1]

Revise(o, q, expected, expectedOwner, options) ==
  /\ Updatable(o, q, expected, expectedOwner)
  /\ CommitRevision(q, "revision", [NextRevision(q) EXCEPT !.options = options])
  /\ UNCHANGED <<answers, waits, offline>>

Reparent(o, q, expected, expectedOwner) ==
  /\ Updatable(o, q, expected, expectedOwner)
  /\ CommitRevision(q, "parent_changed", NextRevision(q))
  /\ UNCHANGED <<answers, waits, offline>>

\* Cancel and supersede share the branch that resolves the Question.
ResolveByOwner(o, q, status, replacement) ==
  LET row == [NextRevision(q) EXCEPT !.status = status, !.replacement = replacement]
  IN /\ CommitRevision(q, status, row)
     /\ answers' = [answers EXCEPT ![q] = Append(@, LifecycleRow(status, row.revision, o))]
     /\ waits' = waits \ {o}
     /\ UNCHANGED offline

CancelByOwner(o, q, expected, expectedOwner) ==
  /\ Updatable(o, q, expected, expectedOwner)
  /\ ResolveByOwner(o, q, "cancelled", NoQuestion)

Supersede(o, q, expected, expectedOwner, replacement) ==
  /\ Updatable(o, q, expected, expectedOwner)
  /\ replacement # q
  /\ Exists(replacement)
  /\ ResolveByOwner(o, q, "superseded", replacement)

-----------------------------------------------------------------------------
(* Ownership.  Both paths are one compare-and-swap on owner, status and    *)
(* the two version counters; the previous owner's wait is then resolved.   *)
(* Nothing forbids naming the current owner as the next one.               *)

ChangeOwner(q, expectedOwner, next, expected, expectedOwnerRevision) ==
  /\ questions[q].owner = expectedOwner
  /\ Pending(q)
  /\ questions[q].ownerRevision = expectedOwnerRevision
  /\ ExpectedRevision(q, expected)
  /\ expectedOwnerRevision < MaxOwnerRevision
  /\ LET row == [questions[q] EXCEPT !.owner = next, !.ownerRevision = @ + 1]
     IN /\ questions' = [questions EXCEPT ![q] = row]
        /\ events' = [events EXCEPT ![q] = Append(@, EventOf("owner_changed", row))]
  /\ waits' = waits \ {expectedOwner}
  /\ UNCHANGED <<revisions, answers, offline>>

TransferQuestionOwner(o, q, next, expected, expectedOwnerRevision) ==
  ChangeOwner(q, o, next, expected, expectedOwnerRevision)

TakeoverQuestionOwner(o, q, expectedOwner, expected, expectedOwnerRevision) ==
  /\ expectedOwner \in offline
  /\ ChangeOwner(q, expectedOwner, o, expected, expectedOwnerRevision)

-----------------------------------------------------------------------------
(* The human side. *)

\* A proposal from Question Chat, made through a session of the owner,
\* appends one option with a fresh value.

ProposeAnswer(o, q, value) ==
  /\ Pending(q) /\ q \notin Overdue
  /\ questions[q].owner = o
  /\ Cardinality(questions[q].options) < MaxOptions
  /\ value \notin questions[q].options
  /\ questions[q].revision < MaxRevision
  /\ LET row == [NextRevision(q) EXCEPT !.options = @ \cup {value}]
     IN /\ questions' = [QuestionsAfterExpiry EXCEPT ![q] = row]
        /\ revisions' = [revisions EXCEPT ![q] = Seeded(q) \cup {SnapshotOf(row)}]
        /\ events' = [EventsAfterExpiry EXCEPT ![q] = Append(@, EventOf("revision", row))]
  /\ answers' = AnswersAfterExpiry
  /\ waits' = WaitsAfterExpiry
  /\ UNCHANGED offline

ValidSelection(q, selected) ==
  /\ selected # {}
  /\ selected \subseteq questions[q].options \cup {Other}
  /\ q \notin Multi => Cardinality(selected) = 1

\* The dashboard sends the revision its form shows; the terminal fallback of
\* the extension (ask.answer) sends none.
Answer(q, selected, expected) ==
  /\ Pending(q) /\ q \notin Overdue
  /\ ExpectedRevision(q, expected)
  /\ ValidSelection(q, selected)
  /\ LET row == [revision |-> questions[q].revision, status |-> "answered",
                 selected |-> selected, reader |-> Nobody]
     IN /\ answers' = [AnswersAfterExpiry EXCEPT ![q] = Append(@, row)]
        /\ events' = [EventsAfterExpiry EXCEPT ![q] = Append(@, EventOf("answered", questions[q]))]
  /\ questions' = [QuestionsAfterExpiry EXCEPT ![q].status = "answered"]
  /\ waits' = WaitsAfterExpiry \ {questions[q].owner}
  /\ UNCHANGED <<revisions, offline>>

\* Cancellation from the dashboard or a local fallback: no owner, no version.
Cancel(q) ==
  /\ Pending(q) /\ q \notin Overdue
  /\ questions' = [QuestionsAfterExpiry EXCEPT ![q].status = "cancelled"]
  /\ answers' = [AnswersAfterExpiry EXCEPT ![q] =
       Append(@, LifecycleRow("cancelled", questions[q].revision, questions[q].owner))]
  /\ events' = [EventsAfterExpiry EXCEPT ![q] = Append(@, EventOf("cancelled", questions[q]))]
  /\ waits' = WaitsAfterExpiry \ {questions[q].owner}
  /\ UNCHANGED <<revisions, offline>>

-----------------------------------------------------------------------------
(* Reading an Answer.  Only the read that records the first reader changes *)
(* anything; the newest answers row is the last one.                       *)

SlipReadAnswer(q, reader) ==
  /\ questions[q].status = "answered"
  /\ answers[q] # <<>>
  /\ answers' = [answers EXCEPT ![q][Len(answers[q])].reader = reader]
  /\ UNCHANGED <<questions, revisions, events, waits, offline>>

ReadAnswer(q, reader) ==
  /\ questions[q].status = "answered"
  /\ answers[q] # <<>>
  /\ LET last == Len(answers[q])
     IN /\ answers[q][last].status = "answered"
        /\ answers[q][last].reader = Nobody
        /\ answers' = [answers EXCEPT ![q][last].reader = reader]
  /\ UNCHANGED <<questions, revisions, events, waits, offline>>

GetAnswer(o, q) == questions[q].owner = o /\ ReadAnswer(q, o)

GetAnswerForRecovery(o, q) == questions[q].owner \in offline /\ ReadAnswer(q, o)

-----------------------------------------------------------------------------
(* wait_for_postbox *)

\* Registers only when nothing is unread and something is pending.
WaitForPostbox(o) ==
  /\ UnreadOf(o) = {}
  /\ PendingOf(o) # {}
  /\ o \notin waits
  /\ waits' = waits \cup {o}
  /\ UNCHANGED <<store, offline>>

\* The abort signal of the wait: the tool call was cancelled, its socket
\* closed or its connection was replaced.
AbortWait(o) ==
  /\ o \in waits
  /\ waits' = waits \ {o}
  /\ UNCHANGED <<store, offline>>

\* close, or a crash: the tables survive, the waits do not.
Restart ==
  /\ waits # {}
  /\ waits' = {}
  /\ UNCHANGED <<store, offline>>

\* SessionStore decides when an owner counts as offline.
PresenceChange(o) ==
  /\ offline' = IF o \in offline THEN offline \ {o} ELSE offline \cup {o}
  /\ UNCHANGED <<store, waits>>

-----------------------------------------------------------------------------

Init ==
  /\ questions = [q \in Questions |-> Absent]
  /\ revisions = [q \in Questions |-> {}]
  /\ answers = [q \in Questions |-> <<>>]
  /\ events = [q \in Questions |-> <<>>]
  /\ waits = {}
  /\ offline = {}

Contents == {c \in SUBSET OptionValues : Cardinality(c) \in 1..MaxOptions}
Expected == {AnyRevision} \cup 1..MaxRevision

OwnerUpdate(o, q, r, w) ==
  \/ \E options \in Contents : Revise(o, q, r, w, options)
  \/ Reparent(o, q, r, w)
  \/ CancelByOwner(o, q, r, w)
  \/ \E replacement \in Questions : Supersede(o, q, r, w, replacement)
  \/ \E next \in Owners : TransferQuestionOwner(o, q, next, r, w)
  \/ \E previous \in Owners : TakeoverQuestionOwner(o, q, previous, r, w)

AgentStep ==
  \E o \in Owners, q \in Questions :
    \/ \E options \in Contents, expiry \in {"never", "later"} : Create(o, q, options, expiry)
    \/ \E r \in 1..MaxRevision, w \in 1..MaxOwnerRevision : OwnerUpdate(o, q, r, w)
    \/ \E value \in OptionValues : ProposeAnswer(o, q, value)
    \/ GetAnswer(o, q)
    \/ GetAnswerForRecovery(o, q)

HumanStep ==
  \E q \in Questions :
    \/ \E selected \in SUBSET (OptionValues \cup {Other}), expected \in Expected :
         Answer(q, selected, expected)
    \/ Cancel(q)

OwnerStep == \E o \in Owners : WaitForPostbox(o) \/ AbortWait(o) \/ PresenceChange(o)

Next ==
  \/ AgentStep
  \/ HumanStep
  \/ OwnerStep
  \/ ExpireDue
  \/ \E q \in Questions : Elapse(q)
  \/ Restart

Spec == Init /\ [][Next]_vars

\* The server sweeps every minute (EXPIRY_SWEEP_MS in app.ts) and on every
\* state snapshot; no agent and no human is assumed to do anything.
FairSpec == Spec /\ WF_vars(ExpireDue)

-----------------------------------------------------------------------------
(* Properties *)

TypeOK ==
  /\ questions \in [Questions -> Question]
  /\ revisions \in [Questions -> SUBSET Snapshot]
  /\ answers \in [Questions -> Seq(AnswerRow)]
  /\ events \in [Questions -> Seq(Event)]
  /\ waits \subseteq Owners
  /\ offline \subseteq Owners

\* An owner blocked in wait_for_postbox always has something to wait for: a
\* pending Question of its own, and no unread Answer it could take instead.
\* Every path that answers, cancels, expires, supersedes or gives away a
\* Question has to resolve the wait, or the agent hangs with nothing to come.
WaitIsActionable ==
  \A o \in waits : PendingOf(o) # {} /\ UnreadOf(o) = {}

\* A Question has an answers row exactly when it is terminal, only one, of
\* its own status and revision; the selection uses the options of the
\* snapshot with that revision; only human Answers start unread.
ResolutionRecorded ==
  \A q \in Questions :
    LET row == answers[q][1]
    IN IF questions[q].status \in Terminal
       THEN /\ Len(answers[q]) = 1
            /\ row.status = questions[q].status
            /\ row.revision = questions[q].revision
            /\ row.reader = Nobody => row.status = "answered"
            /\ \E s \in revisions[q] : /\ s.revision = row.revision
                                       /\ row.selected \subseteq s.options \cup {Other}
       ELSE answers[q] = <<>>

\* question_revisions is the complete history: one snapshot for each
\* revision number up to the current one, whose snapshot is the current content.
HistoryFaithful ==
  \A q \in Questions :
    /\ {s.revision : s \in revisions[q]} = 1..questions[q].revision
    /\ \A s, t \in revisions[q] : s.revision = t.revision => s = t
    /\ Exists(q) => SnapshotOf(questions[q]) \in revisions[q]

OwnerChanges(q) == {i \in DOMAIN events[q] : events[q][i].type = "owner_changed"}

\* question_events accounts for the row: ownerRevision counts the changes of
\* owner, the last event names the owner and the revision the row has, event
\* revisions climb one at a time, and the terminal event is the last one.
LogAgrees ==
  \A q \in Questions :
    LET log == events[q]
        At(i) == IF i = 0 THEN 1 ELSE log[i].revision
    IN /\ Exists(q) => questions[q].ownerRevision = 1 + Cardinality(OwnerChanges(q))
       /\ log # <<>> => EventOf(log[Len(log)].type, questions[q]) = log[Len(log)]
       /\ \A i \in DOMAIN log :
            /\ log[i].revision \in {At(i - 1), At(i - 1) + 1}
            /\ log[i].type \in Terminal => i = Len(log)
       /\ questions[q].status \in Terminal <=>
            log # <<>> /\ log[Len(log)].type = questions[q].status

\* Nothing is missing from what the store keeps of a Question's past, whatever
\* revises, proposes, transfers and resolves it (CommitRevision, recordQuestionEvent).
HistoryAgrees == HistoryFaithful /\ LogAgrees

\* Terminal Questions are immutable ("Terminal Questions are immutable",
\* question_terminal): row, history, log and Answer stay; the one change left
\* is the first reader of an unread Answer, who then stays too.
TerminalIsFinal ==
  [][\A q \in Questions : questions[q].status \in Terminal =>
       /\ questions'[q] = questions[q]
       /\ revisions'[q] = revisions[q]
       /\ events'[q] = events[q]
       /\ \/ answers'[q] = answers[q]
          \/ /\ answers[q][1].reader = Nobody
             /\ \E o \in Owners : answers'[q] = [answers[q] EXCEPT ![1].reader = o]]_vars

\* Nobody is woken for nothing: a wait that ends without an abort or a restart
\* (which leave the tables alone) ends because one of the waiter's own pending
\* Questions was resolved or changed hands in that step.
WakeIsJustified ==
  [][\A o \in waits \ waits' : store' # store =>
       \E q \in PendingOf(o) : \/ questions'[q].status # "pending"
                               \/ questions'[q].ownerRevision # questions[q].ownerRevision]_vars

\* A Question whose expiry has passed does not stay open, and an owner waiting
\* only on overdue Questions is let go, without anyone acting (expireDue).
OverdueResolved ==
  \A q \in Questions : q \in Overdue ~> questions[q].status \in Terminal
OverdueWaitEnds ==
  \A o \in Owners : (o \in waits /\ PendingOf(o) \subseteq Overdue) ~> (o \notin waits)
OverdueEnds == OverdueResolved /\ OverdueWaitEnds
=============================================================================
