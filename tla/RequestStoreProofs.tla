------------------------- MODULE RequestStoreProofs --------------------------
(* Theorems about RequestStore and DecisionDesk, for every set of owners and  *)
(* Questions: types, the waits of owners, the one outcome of every Question,  *)
(* its complete history and log, the hand-off the store implements, and what  *)
(* those who act from old copies can do.                                      *)
EXTENDS RequestStoreRefinement, DecisionDesk, FiniteSetTheorems, SequenceTheorems, TLAPS

-----------------------------------------------------------------------------
(* Expiry *)

\* The tables expireDue leaves behind are well typed.
LEMMA ExpiryTyping ==
  ASSUME TypeOK
  PROVE  /\ QuestionsAfterExpiry \in [Questions -> Question]
         /\ AnswersAfterExpiry \in [Questions -> Seq(AnswerRow)]
         /\ EventsAfterExpiry \in [Questions -> Seq(Event)]
         /\ WaitsAfterExpiry \subseteq Owners
<1>1. ASSUME NEW q \in Questions
      PROVE  [questions[q] EXCEPT !.status = "expired"] \in Question
  BY DEF TypeOK, Question, Status, Terminal
<1>2. QuestionsAfterExpiry \in [Questions -> Question]
  BY <1>1 DEF TypeOK, QuestionsAfterExpiry
<1>3. ASSUME NEW q \in Questions
      PROVE  LifecycleRow("expired", questions[q].revision, questions[q].owner) \in AnswerRow
  BY DEF TypeOK, LifecycleRow, AnswerRow, Question, Terminal
<1>4. AnswersAfterExpiry \in [Questions -> Seq(AnswerRow)]
  BY <1>3 DEF TypeOK, AnswersAfterExpiry
<1>5. ASSUME NEW q \in Questions
      PROVE  EventOf("expired", questions[q]) \in Event
  BY DEF TypeOK, EventOf, Event, EventType, Question, Terminal
<1>6. EventsAfterExpiry \in [Questions -> Seq(Event)]
  BY <1>5 DEF TypeOK, EventsAfterExpiry
<1>7. WaitsAfterExpiry \subseteq Owners
  BY DEF TypeOK, WaitsAfterExpiry
<1>8. QED
  BY <1>2, <1>4, <1>6, <1>7

-----------------------------------------------------------------------------
(* Type correctness *)

\* Appending a row to the rows of one Question keeps the table well typed.
LEMMA AppendTyping ==
  ASSUME NEW S, NEW f \in [Questions -> Seq(S)], NEW q \in Questions, NEW e \in S
  PROVE  [f EXCEPT ![q] = Append(@, e)] \in [Questions -> Seq(S)]
OBVIOUS

\* What is derived from a questions row, its snapshot and its events, is well typed.
LEMMA RowTyping ==
  ASSUME NEW row \in Question
  PROVE  /\ SnapshotOf(row) \in Snapshot
         /\ \A type \in EventType : EventOf(type, row) \in Event
BY DEF Question, SnapshotOf, Snapshot, EventOf, Event

\* So is each next revision updateQuestion can write.
LEMMA RevisedTyping ==
  ASSUME TypeOK, NEW q \in Questions
  PROVE  /\ questions[q] \in Question
         /\ questions[q].options \in SUBSET OptionValues
         /\ NextRevision(q) \in Question
         /\ \A options \in SUBSET OptionValues :
              [NextRevision(q) EXCEPT !.options = options] \in Question
         /\ \A status \in Terminal, replacement \in Questions \cup {NoQuestion} :
              [NextRevision(q) EXCEPT !.status = status, !.replacement = replacement] \in Question
<1>1. questions[q] \in Question
  BY DEF TypeOK
<1>2. NextRevision(q) \in Question /\ questions[q].options \in SUBSET OptionValues
  BY <1>1 DEF NextRevision, Question
<1>3. ASSUME NEW options \in SUBSET OptionValues
      PROVE  [NextRevision(q) EXCEPT !.options = options] \in Question
  BY <1>2 DEF Question
<1>4. ASSUME NEW status \in Terminal, NEW replacement \in Questions \cup {NoQuestion}
      PROVE  [NextRevision(q) EXCEPT !.status = status, !.replacement = replacement] \in Question
  BY <1>2 DEF Question, Status
<1>5. QED
  BY <1>1, <1>2, <1>3, <1>4

\* seedQuestionRevision adds only snapshots.
LEMMA SeededTyping ==
  ASSUME TypeOK, NEW q \in Questions
  PROVE  Seeded(q) \in SUBSET Snapshot
<1>1. questions[q] \in Question /\ revisions[q] \in SUBSET Snapshot
  BY DEF TypeOK
<1>2. SnapshotOf(questions[q]) \in Snapshot
  BY <1>1, RowTyping
<1>3. QED
  BY <1>1, <1>2 DEF Seeded

\* Storing a revision keeps questions, question_revisions and question_events well typed.
LEMMA CommitTyping ==
  ASSUME TypeOK, NEW q \in Questions, NEW type \in EventType, NEW row \in Question,
         CommitRevision(q, type, row)
  PROVE  /\ questions' \in [Questions -> Question]
         /\ revisions' \in [Questions -> SUBSET Snapshot]
         /\ events' \in [Questions -> Seq(Event)]
<1>1. questions' \in [Questions -> Question]
  BY DEF TypeOK, CommitRevision
<1>2. revisions' \in [Questions -> SUBSET Snapshot]
  BY RowTyping, SeededTyping DEF TypeOK, CommitRevision
<1>3. events' \in [Questions -> Seq(Event)]
  BY RowTyping, AppendTyping DEF TypeOK, CommitRevision
<1>4. QED
  BY <1>1, <1>2, <1>3

\* The branch of updateQuestion that cancels or supersedes is well typed.
LEMMA ResolveTyping ==
  ASSUME TypeOK, NEW o \in Owners, NEW q \in Questions, NEW status \in {"cancelled", "superseded"},
         NEW replacement \in Questions \cup {NoQuestion},
         ResolveByOwner(o, q, status, replacement)
  PROVE  TypeOK'
<1> DEFINE row == [NextRevision(q) EXCEPT !.status = status, !.replacement = replacement]
<1>1. row \in Question /\ row.revision \in Nat
  BY RevisedTyping DEF Terminal, Question
<1>2. LifecycleRow(status, row.revision, o) \in AnswerRow
  BY <1>1 DEF LifecycleRow, AnswerRow, Terminal
<1>3. CommitRevision(q, status, row)
  BY DEF ResolveByOwner
<1>4. answers' \in [Questions -> Seq(AnswerRow)]
  BY <1>2, AppendTyping DEF ResolveByOwner, TypeOK
<1>5. waits' \subseteq Owners /\ offline' \subseteq Owners
  BY DEF ResolveByOwner, TypeOK
<1> HIDE DEF row
<1>6. QED
  BY <1>1, <1>3, <1>4, <1>5, CommitTyping DEF TypeOK, EventType, Terminal

\* The empty database is well typed.
LEMMA InitTyping == Init => TypeOK
<1> SUFFICES ASSUME Init PROVE TypeOK
  OBVIOUS
<1>1. Absent \in Question
  BY DEF Absent, Question, Status
<1>2. QED
  BY <1>1 DEF Init, TypeOK

\* create is well typed.
LEMMA CreateTyping ==
  ASSUME TypeOK, NEW o \in Owners, NEW q \in Questions, NEW options \in SUBSET OptionValues,
         NEW expiry \in {"never", "later"}, Create(o, q, options, expiry)
  PROVE  TypeOK'
<1> DEFINE row == NewQuestion(o, options, expiry)
<1>1. row \in Question
  BY DEF NewQuestion, Question, Status
<1>2. /\ questions' = [QuestionsAfterExpiry EXCEPT ![q] = row]
      /\ revisions' = [revisions EXCEPT ![q] = {SnapshotOf(row)}]
  BY DEF Create
<1> HIDE DEF row
<1>3. questions' \in [Questions -> Question]
  BY <1>1, <1>2, ExpiryTyping
<1>4. revisions' \in [Questions -> SUBSET Snapshot]
  BY <1>1, <1>2, RowTyping DEF TypeOK
<1>5. QED
  BY <1>3, <1>4, ExpiryTyping DEF Create, TypeOK

\* The four updates of updateQuestion are well typed.
LEMMA UpdateTyping ==
  ASSUME TypeOK, NEW o \in Owners, NEW q \in Questions, NEW r, NEW w
  PROVE  /\ \A options \in SUBSET OptionValues : Revise(o, q, r, w, options) => TypeOK'
         /\ Reparent(o, q, r, w) => TypeOK'
         /\ CancelByOwner(o, q, r, w) => TypeOK'
         /\ \A p \in Questions : Supersede(o, q, r, w, p) => TypeOK'
<1>1. ASSUME NEW options \in SUBSET OptionValues, Revise(o, q, r, w, options)
      PROVE  TypeOK'
  <2>1. [NextRevision(q) EXCEPT !.options = options] \in Question
    BY RevisedTyping
  <2>2. QED
    BY <1>1, <2>1, CommitTyping DEF Revise, TypeOK, EventType
<1>2. ASSUME Reparent(o, q, r, w) PROVE TypeOK'
  BY <1>2, RevisedTyping, CommitTyping DEF Reparent, TypeOK, EventType
<1>3. ASSUME CancelByOwner(o, q, r, w) PROVE TypeOK'
  BY <1>3, ResolveTyping DEF CancelByOwner
<1>4. ASSUME NEW p \in Questions, Supersede(o, q, r, w, p) PROVE TypeOK'
  BY <1>4, ResolveTyping DEF Supersede
<1>5. QED
  BY <1>1, <1>2, <1>3, <1>4

\* A row with another owner and owner revision is a row.
LEMMA HandedOverTyping ==
  ASSUME NEW row \in Question, NEW next \in Owners, NEW n \in Nat
  PROVE  [row EXCEPT !.owner = next, !.ownerRevision = n] \in Question
BY DEF Question

\* The compare-and-swap of the owner is well typed.
LEMMA ChangeOwnerTyping ==
  ASSUME TypeOK, NEW q \in Questions, NEW o, NEW next \in Owners, NEW r, NEW w,
         ChangeOwner(q, o, next, r, w)
  PROVE  TypeOK'
<1> DEFINE row == [questions[q] EXCEPT !.owner = next, !.ownerRevision = @ + 1]
<1>0. questions[q] \in Question /\ questions[q].ownerRevision + 1 \in Nat
  BY DEF TypeOK, Question
<1>1. row \in Question
  BY <1>0, HandedOverTyping
<1>2. /\ questions' = [questions EXCEPT ![q] = row]
      /\ events' = [events EXCEPT ![q] = Append(@, EventOf("owner_changed", row))]
  BY DEF ChangeOwner
<1> HIDE DEF row
<1>3. questions' \in [Questions -> Question]
  BY <1>1, <1>2 DEF TypeOK
<1>4. EventOf("owner_changed", row) \in Event
  BY <1>1, RowTyping DEF EventType
<1>5. events' \in [Questions -> Seq(Event)]
  BY <1>2, <1>4, AppendTyping DEF TypeOK
<1>6. QED
  BY <1>3, <1>5 DEF ChangeOwner, TypeOK

\* proposeAnswer is well typed.
LEMMA ProposeTyping ==
  ASSUME TypeOK, NEW o \in Owners, NEW q \in Questions, NEW value \in OptionValues,
         ProposeAnswer(o, q, value)
  PROVE  TypeOK'
<1> DEFINE row == [NextRevision(q) EXCEPT !.options = @ \cup {value}]
<1>1. row \in Question
  BY RevisedTyping DEF Question
<1>2. /\ questions' = [QuestionsAfterExpiry EXCEPT ![q] = row]
      /\ revisions' = [revisions EXCEPT ![q] = Seeded(q) \cup {SnapshotOf(row)}]
      /\ events' = [EventsAfterExpiry EXCEPT ![q] = Append(@, EventOf("revision", row))]
  BY DEF ProposeAnswer
<1> HIDE DEF row
<1>3. questions' \in [Questions -> Question]
  BY <1>1, <1>2, ExpiryTyping
<1>4. revisions' \in [Questions -> SUBSET Snapshot]
  BY <1>1, <1>2, RowTyping, SeededTyping DEF TypeOK
<1>5. EventOf("revision", row) \in Event
  BY <1>1, RowTyping DEF EventType
<1>6. events' \in [Questions -> Seq(Event)]
  BY <1>2, <1>5, ExpiryTyping, AppendTyping
<1>7. QED
  BY <1>3, <1>4, <1>6, ExpiryTyping DEF ProposeAnswer, TypeOK

\* answer and cancel resolve a Question in place, after what was due expired.
LEMMA ResolvedInPlaceTyping ==
  ASSUME TypeOK, NEW q \in Questions, NEW status \in Terminal, NEW row \in AnswerRow
  PROVE  /\ [QuestionsAfterExpiry EXCEPT ![q].status = status] \in [Questions -> Question]
         /\ [AnswersAfterExpiry EXCEPT ![q] = Append(@, row)] \in [Questions -> Seq(AnswerRow)]
         /\ [EventsAfterExpiry EXCEPT ![q] = Append(@, EventOf(status, questions[q]))]
              \in [Questions -> Seq(Event)]
<1>1. [QuestionsAfterExpiry[q] EXCEPT !.status = status] \in Question
  BY ExpiryTyping DEF Question, Status
<1>2. [QuestionsAfterExpiry EXCEPT ![q].status = status] \in [Questions -> Question]
  BY <1>1, ExpiryTyping
<1>3. EventOf(status, questions[q]) \in Event
  BY RowTyping DEF TypeOK, EventType
<1>4. QED
  BY <1>2, <1>3, ExpiryTyping, AppendTyping

\* answer is well typed.
LEMMA AnswerTyping ==
  ASSUME TypeOK, NEW q \in Questions, NEW selected \in SUBSET (OptionValues \cup {Other}),
         NEW expected, Answer(q, selected, expected)
  PROVE  TypeOK'
<1> DEFINE row == [revision |-> questions[q].revision, status |-> "answered",
                   selected |-> selected, reader |-> Nobody]
<1>1. row \in AnswerRow
  BY DEF TypeOK, Question, AnswerRow, Terminal
<1>2. answers' = [AnswersAfterExpiry EXCEPT ![q] = Append(@, row)]
  BY DEF Answer
<1> HIDE DEF row
<1>3. answers' \in [Questions -> Seq(AnswerRow)]
  BY <1>1, <1>2, ExpiryTyping, AppendTyping
<1>4. questions' \in [Questions -> Question] /\ events' \in [Questions -> Seq(Event)]
  BY <1>1, ResolvedInPlaceTyping DEF Answer, Terminal
<1>5. QED
  BY <1>3, <1>4, ExpiryTyping DEF Answer, TypeOK

\* cancel is well typed.
LEMMA CancelTyping ==
  ASSUME TypeOK, NEW q \in Questions, Cancel(q)
  PROVE  TypeOK'
<1>1. LifecycleRow("cancelled", questions[q].revision, questions[q].owner) \in AnswerRow
  BY DEF TypeOK, Question, LifecycleRow, AnswerRow, Terminal
<1>2. QED
  BY <1>1, ResolvedInPlaceTyping, ExpiryTyping DEF Cancel, TypeOK, Terminal

\* Recording the reader of the newest Answer is well typed.
LEMMA ReadTyping ==
  ASSUME TypeOK, NEW q \in Questions, NEW reader \in Owners, ReadAnswer(q, reader)
  PROVE  TypeOK'
<1> DEFINE last == Len(answers[q])
<1>0. answers[q] \in Seq(AnswerRow) /\ answers[q] # <<>>
  BY DEF TypeOK, ReadAnswer
<1>1. answers[q] \in Seq(AnswerRow) /\ last \in DOMAIN answers[q] /\ answers[q][last] \in AnswerRow
  BY <1>0
<1>2. [answers[q][last] EXCEPT !.reader = reader] \in AnswerRow
  BY <1>1 DEF AnswerRow
<1>3. [answers[q] EXCEPT ![last].reader = reader] \in Seq(AnswerRow)
  BY <1>1, <1>2
<1>4. answers' = [answers EXCEPT ![q] = [answers[q] EXCEPT ![last].reader = reader]]
  BY DEF ReadAnswer, TypeOK
<1>5. QED
  BY <1>3, <1>4 DEF ReadAnswer, TypeOK

\* The tables hold only rows of the declared types, whatever is called when: no
\* call writes a partial row, an unknown status or a reader who is no owner.
THEOREM TypeCorrect == Spec => []TypeOK
<1>1. Init => TypeOK
  BY InitTyping
<1>2. TypeOK /\ [Next]_vars => TypeOK'
  <2> SUFFICES ASSUME TypeOK, [Next]_vars PROVE TypeOK'
    OBVIOUS
  <2>1. CASE AgentStep
    <3>1. PICK o \in Owners, q \in Questions :
            \/ \E options \in Contents, expiry \in {"never", "later"} : Create(o, q, options, expiry)
            \/ \E r \in 1..MaxRevision, w \in 1..MaxOwnerRevision : OwnerUpdate(o, q, r, w)
            \/ \E value \in OptionValues : ProposeAnswer(o, q, value)
            \/ GetAnswer(o, q)
            \/ GetAnswerForRecovery(o, q)
      BY <2>1 DEF AgentStep
    <3>2. ASSUME NEW options \in Contents, NEW expiry \in {"never", "later"}, Create(o, q, options, expiry)
          PROVE  TypeOK'
      BY <3>2, CreateTyping DEF Contents
    <3>3. ASSUME NEW r, NEW w, OwnerUpdate(o, q, r, w)
          PROVE  TypeOK'
      <4>1. Contents \subseteq SUBSET OptionValues
        BY DEF Contents
      <4>2. \A next, p \in Owners : /\ TransferQuestionOwner(o, q, next, r, w) => TypeOK'
                                    /\ TakeoverQuestionOwner(o, q, p, r, w) => TypeOK'
        BY ChangeOwnerTyping DEF TransferQuestionOwner, TakeoverQuestionOwner
      <4>3. QED
        BY <3>3, <4>1, <4>2, UpdateTyping DEF OwnerUpdate
    <3>4. ASSUME NEW value \in OptionValues, ProposeAnswer(o, q, value) PROVE TypeOK'
      BY <3>4, ProposeTyping
    <3>5. ASSUME GetAnswer(o, q) \/ GetAnswerForRecovery(o, q) PROVE TypeOK'
      BY <3>5, ReadTyping DEF GetAnswer, GetAnswerForRecovery
    <3>6. QED
      BY <3>1, <3>2, <3>3, <3>4, <3>5
  <2>2. CASE HumanStep
    BY <2>2, AnswerTyping, CancelTyping DEF HumanStep
  <2>3. CASE OwnerStep
    BY <2>3 DEF OwnerStep, WaitForPostbox, AbortWait, PresenceChange, store, TypeOK
  <2>4. CASE ExpireDue
    BY <2>4, ExpiryTyping DEF ExpireDue, TypeOK
  <2>5. CASE \E q \in Questions : Elapse(q)
    <3>1. PICK q \in Questions : Elapse(q)
      BY <2>5
    <3>2. [questions[q] EXCEPT !.expiry = "due"] \in Question
      BY DEF TypeOK, Question
    <3>3. questions' = [questions EXCEPT ![q] = [questions[q] EXCEPT !.expiry = "due"]]
      BY <3>1 DEF Elapse
    <3>4. QED
      BY <3>1, <3>2, <3>3 DEF Elapse, TypeOK
  <2>6. CASE Restart
    BY <2>6 DEF Restart, store, TypeOK
  <2>7. CASE UNCHANGED vars
    BY <2>7 DEF vars, TypeOK
  <2>8. QED
    BY <2>1, <2>2, <2>3, <2>4, <2>5, <2>6, <2>7 DEF Next
<1>3. QED
  BY <1>1, <1>2, PTL DEF Spec

-----------------------------------------------------------------------------
(* No wait hangs.  WaitIsActionable is inductive: what has to be shown of   *)
(* each call is that it does one of the following to each Question.         *)

HasUnread(rows) ==
  \E i \in DOMAIN rows : rows[i].status = "answered" /\ rows[i].reader = Nobody

Untouched(q) ==
  /\ questions'[q].status = questions[q].status
  /\ questions'[q].owner = questions[q].owner
  /\ answers'[q] = answers[q]

\* The Question leaves its owner, or is closed without an Answer, and the owner was woken.
LeftWoken(q) ==
  /\ questions[q].owner \notin waits'
  /\ questions'[q].status # "answered"

\* The Question stays with its owner, and the owner was woken.
KeptWoken(q) ==
  /\ questions[q].owner \notin waits'
  /\ questions'[q].owner = questions[q].owner

Opened(q) ==
  /\ questions[q].status = "absent"
  /\ questions'[q].status = "pending"

ReadOnce(q) ==
  /\ questions[q].status = "answered"
  /\ questions'[q] = questions[q]
  /\ HasUnread(answers'[q]) => HasUnread(answers[q])

WaitersMinded(q) ==
  Untouched(q) \/ LeftWoken(q) \/ KeptWoken(q) \/ Opened(q) \/ ReadOnce(q)

\* A step that minds the waiters of every Question, and adds none, leaves no
\* owner waiting for nothing.
LEMMA WaitStep ==
  ASSUME WaitIsActionable, waits' \subseteq waits, \A q \in Questions : WaitersMinded(q)
  PROVE  WaitIsActionable'
<1> SUFFICES ASSUME NEW o \in waits'
             PROVE  PendingOf(o)' # {} /\ UnreadOf(o)' = {}
  BY DEF WaitIsActionable
<1>0. PendingOf(o) # {} /\ UnreadOf(o) = {}
  BY DEF WaitIsActionable
<1>1. PICK p \in Questions : questions[p].status = "pending" /\ questions[p].owner = o
  BY <1>0 DEF PendingOf, Pending
<1>2. Untouched(p)
  <2>1. ~LeftWoken(p) /\ ~KeptWoken(p) /\ ~Opened(p) /\ ~ReadOnce(p)
    BY <1>1 DEF LeftWoken, KeptWoken, Opened, ReadOnce
  <2>2. QED
    BY <2>1 DEF WaitersMinded
<1>3. PendingOf(o)' # {}
  BY <1>1, <1>2 DEF PendingOf, Pending, Untouched
<1>4. ASSUME NEW u \in Questions, questions'[u].owner = o, questions'[u].status = "answered",
             HasUnread(answers'[u])
      PROVE  FALSE
  <2>1. u \notin UnreadOf(o)
    BY <1>0
  <2>2. ~Untouched(u) /\ ~ReadOnce(u)
    BY <1>4, <2>1 DEF Untouched, ReadOnce, UnreadOf, HasUnread
  <2>3. ~LeftWoken(u) /\ ~KeptWoken(u) /\ ~Opened(u)
    BY <1>4 DEF LeftWoken, KeptWoken, Opened
  <2>4. QED
    BY <2>2, <2>3 DEF WaitersMinded
<1>5. UnreadOf(o)' = {}
  BY <1>4 DEF UnreadOf, HasUnread
<1>6. QED
  BY <1>3, <1>5

\* Expiry closes exactly the overdue Questions and wakes their owners.
LEMMA ExpiryWakes ==
  ASSUME NEW q \in Questions
  PROVE  /\ WaitsAfterExpiry \subseteq waits
         /\ q \in Overdue =>
              questions[q].owner \notin WaitsAfterExpiry
         /\ q \notin Overdue =>
              QuestionsAfterExpiry[q] = questions[q] /\ AnswersAfterExpiry[q] = answers[q]
BY DEF WaitsAfterExpiry, QuestionsAfterExpiry, AnswersAfterExpiry

\* So what expires on the way of another call is minded.
LEMMA ExpiryMinded ==
  ASSUME TypeOK, NEW q \in Questions, waits' \subseteq WaitsAfterExpiry,
         questions'[q] = QuestionsAfterExpiry[q], answers'[q] = AnswersAfterExpiry[q]
  PROVE  WaitersMinded(q)
<1>1. CASE q \in Overdue
  <2>1. questions'[q].status = "expired"
    BY <1>1 DEF QuestionsAfterExpiry, TypeOK, Question
  <2>2. QED
    BY <1>1, <2>1, ExpiryWakes DEF WaitersMinded, LeftWoken
<1>2. CASE q \notin Overdue
  BY <1>2, ExpiryWakes DEF WaitersMinded, Untouched
<1>3. QED
  BY <1>1, <1>2

\* create opens a Question no one waits on, after what was due expired.
LEMMA CreateKeepsWaits ==
  ASSUME TypeOK, WaitIsActionable, NEW o, NEW q \in Questions, NEW options, NEW expiry,
         Create(o, q, options, expiry)
  PROVE  WaitIsActionable'
<1>1. Opened(q)
  BY ExpiryTyping DEF Create, NewQuestion, Exists, Opened
<1>2. ASSUME NEW p \in Questions, p # q PROVE WaitersMinded(p)
  BY <1>2, ExpiryTyping, ExpiryMinded DEF Create
<1>3. waits' \subseteq waits
  BY ExpiryWakes DEF Create
<1>4. QED
  BY <1>1, <1>2, <1>3, WaitStep DEF WaitersMinded

\* A revision that keeps status and owner disturbs no one.
LEMMA RevisionKeepsWaits ==
  ASSUME TypeOK, WaitIsActionable, NEW q \in Questions, NEW type, NEW row,
         CommitRevision(q, type, row), row.status = questions[q].status,
         row.owner = questions[q].owner, UNCHANGED <<answers, waits>>
  PROVE  WaitIsActionable'
<1>1. \A p \in Questions : Untouched(p)
  BY DEF CommitRevision, Untouched, TypeOK
<1>2. QED
  BY <1>1, WaitStep DEF WaitersMinded

\* Cancelling or superseding wakes the owner, who is the caller.
LEMMA ResolveKeepsWaits ==
  ASSUME TypeOK, WaitIsActionable, NEW q \in Questions, NEW status \in {"cancelled", "superseded"},
         NEW replacement, ResolveByOwner(questions[q].owner, q, status, replacement)
  PROVE  WaitIsActionable'
<1> DEFINE row == [NextRevision(q) EXCEPT !.status = status, !.replacement = replacement]
<1>1. row.status = status
  BY RevisedTyping DEF Question
<1>2. CommitRevision(q, status, row)
  BY DEF ResolveByOwner
<1> HIDE DEF row
<1>3. LeftWoken(q)
  BY <1>1, <1>2 DEF LeftWoken, CommitRevision, ResolveByOwner, TypeOK
<1>4. ASSUME NEW p \in Questions, p # q PROVE Untouched(p)
  BY <1>2, <1>4 DEF Untouched, CommitRevision, ResolveByOwner, TypeOK
<1>5. waits' \subseteq waits
  BY DEF ResolveByOwner
<1>6. QED
  BY <1>3, <1>4, <1>5, WaitStep DEF WaitersMinded

\* A change of owner wakes the owner the Question leaves.
LEMMA ChangeOwnerKeepsWaits ==
  ASSUME TypeOK, WaitIsActionable, NEW q \in Questions, NEW o, NEW next, NEW r, NEW w,
         ChangeOwner(q, o, next, r, w)
  PROVE  WaitIsActionable'
<1> DEFINE row == [questions[q] EXCEPT !.owner = next, !.ownerRevision = @ + 1]
<1>1. row.status = "pending"
  BY DEF ChangeOwner, Pending, TypeOK, Question
<1>2. questions' = [questions EXCEPT ![q] = row]
  BY DEF ChangeOwner
<1> HIDE DEF row
<1>3. LeftWoken(q)
  BY <1>1, <1>2 DEF LeftWoken, ChangeOwner, TypeOK
<1>4. ASSUME NEW p \in Questions, p # q PROVE Untouched(p)
  BY <1>2, <1>4 DEF Untouched, ChangeOwner, TypeOK
<1>5. waits' \subseteq waits
  BY DEF ChangeOwner
<1>6. QED
  BY <1>3, <1>4, <1>5, WaitStep DEF WaitersMinded

\* proposeAnswer disturbs no one, after what was due expired.
LEMMA ProposeKeepsWaits ==
  ASSUME TypeOK, WaitIsActionable, NEW o, NEW q \in Questions, NEW value,
         ProposeAnswer(o, q, value)
  PROVE  WaitIsActionable'
<1> DEFINE row == [NextRevision(q) EXCEPT !.options = @ \cup {value}]
<1>1. row.status = questions[q].status /\ row.owner = questions[q].owner
  BY DEF NextRevision, TypeOK, Question
<1>2. questions' = [QuestionsAfterExpiry EXCEPT ![q] = row]
  BY DEF ProposeAnswer
<1> HIDE DEF row
<1>3. Untouched(q)
  BY <1>1, <1>2, ExpiryTyping, ExpiryWakes DEF Untouched, ProposeAnswer
<1>4. ASSUME NEW p \in Questions, p # q PROVE WaitersMinded(p)
  BY <1>2, <1>4, ExpiryTyping, ExpiryMinded DEF ProposeAnswer
<1>5. waits' \subseteq waits
  BY ExpiryWakes DEF ProposeAnswer
<1>6. QED
  BY <1>3, <1>4, <1>5, WaitStep DEF WaitersMinded

\* Answer and Cancel close one Question in place and wake its owner.
LEMMA ClosingKeepsWaits ==
  ASSUME TypeOK, WaitIsActionable, NEW q \in Questions, NEW status \in Terminal, NEW row,
         questions' = [QuestionsAfterExpiry EXCEPT ![q].status = status],
         answers' = [AnswersAfterExpiry EXCEPT ![q] = Append(@, row)],
         waits' = WaitsAfterExpiry \ {questions[q].owner}
  PROVE  WaitIsActionable'
<1>1. KeptWoken(q)
  <2>1. questions'[q].owner = QuestionsAfterExpiry[q].owner
    BY ExpiryTyping DEF Question
  <2>2. QuestionsAfterExpiry[q].owner = questions[q].owner
    BY DEF QuestionsAfterExpiry, TypeOK, Question
  <2>3. QED
    BY <2>1, <2>2 DEF KeptWoken
<1>2. ASSUME NEW p \in Questions, p # q PROVE WaitersMinded(p)
  BY <1>2, ExpiryTyping, ExpiryMinded
<1>3. waits' \subseteq waits
  BY ExpiryWakes
<1>4. QED
  BY <1>1, <1>2, <1>3, WaitStep DEF WaitersMinded

\* A read needs an unread Answer and makes none.
LEMMA ReadKeepsWaits ==
  ASSUME TypeOK, WaitIsActionable, NEW q \in Questions, NEW reader \in Owners, ReadAnswer(q, reader)
  PROVE  WaitIsActionable'
<1> DEFINE last == Len(answers[q])
<1>1. answers[q] \in Seq(AnswerRow) /\ last \in DOMAIN answers[q]
  BY DEF TypeOK, ReadAnswer
<1>2. HasUnread(answers[q])
  BY <1>1 DEF ReadAnswer, HasUnread
<1>3. ReadOnce(q)
  BY <1>2 DEF ReadOnce, ReadAnswer
<1>4. ASSUME NEW p \in Questions, p # q PROVE Untouched(p)
  BY <1>4 DEF Untouched, ReadAnswer, TypeOK
<1>5. waits' \subseteq waits
  BY DEF ReadAnswer
<1>6. QED
  BY <1>3, <1>4, <1>5, WaitStep DEF WaitersMinded

\* The waits change, the tables do not.
LEMMA OwnerStepKeepsWaits ==
  ASSUME WaitIsActionable, OwnerStep
  PROVE  WaitIsActionable'
<1>1. PICK o \in Owners : WaitForPostbox(o) \/ AbortWait(o) \/ PresenceChange(o)
  BY DEF OwnerStep
<1>2. waits' \subseteq waits \/ WaitForPostbox(o)
  BY <1>1 DEF AbortWait, PresenceChange
<1>3. ASSUME NEW p \in waits' PROVE PendingOf(p)' = PendingOf(p) /\ UnreadOf(p)' = UnreadOf(p)
  BY <1>1 DEF WaitForPostbox, AbortWait, PresenceChange, store, PendingOf, Pending, UnreadOf
<1>4. QED
  BY <1>2, <1>3 DEF WaitIsActionable, WaitForPostbox

\* No agent is left blocked in wait_for_postbox with nothing to wait for, or
\* with an Answer it could have taken: every call that resolves a Question or
\* moves it to another owner also resolves the wait of the owner it had.
THEOREM NoWaitHangs == Spec => []WaitIsActionable
<1>1. Init => WaitIsActionable
  BY DEF Init, WaitIsActionable
<1>2. TypeOK /\ WaitIsActionable /\ [Next]_vars => WaitIsActionable'
  <2> SUFFICES ASSUME TypeOK, WaitIsActionable, [Next]_vars PROVE WaitIsActionable'
    OBVIOUS
  <2>1. CASE AgentStep
    <3>1. PICK o \in Owners, q \in Questions :
            \/ \E options \in Contents, expiry \in {"never", "later"} : Create(o, q, options, expiry)
            \/ \E r \in 1..MaxRevision, w \in 1..MaxOwnerRevision : OwnerUpdate(o, q, r, w)
            \/ \E value \in OptionValues : ProposeAnswer(o, q, value)
            \/ GetAnswer(o, q)
            \/ GetAnswerForRecovery(o, q)
      BY <2>1 DEF AgentStep
    <3>2. ASSUME NEW r, NEW w, OwnerUpdate(o, q, r, w)
          PROVE  WaitIsActionable'
      <4>1. ASSUME NEW options, Revise(o, q, r, w, options) PROVE WaitIsActionable'
        <5>1. /\ [NextRevision(q) EXCEPT !.options = options].status = questions[q].status
              /\ [NextRevision(q) EXCEPT !.options = options].owner = questions[q].owner
          BY DEF NextRevision, TypeOK, Question
        <5>2. QED
          BY <4>1, <5>1, RevisionKeepsWaits DEF Revise
      <4>2. ASSUME Reparent(o, q, r, w) PROVE WaitIsActionable'
        <5>1. NextRevision(q).status = questions[q].status /\ NextRevision(q).owner = questions[q].owner
          BY DEF NextRevision, TypeOK, Question
        <5>2. QED
          BY <4>2, <5>1, RevisionKeepsWaits DEF Reparent
      <4>3. ASSUME CancelByOwner(o, q, r, w) PROVE WaitIsActionable'
        BY <4>3, ResolveKeepsWaits DEF CancelByOwner, Updatable
      <4>4. ASSUME NEW p, Supersede(o, q, r, w, p) PROVE WaitIsActionable'
        BY <4>4, ResolveKeepsWaits DEF Supersede, Updatable
      <4>5. ASSUME NEW p, TransferQuestionOwner(o, q, p, r, w) \/ TakeoverQuestionOwner(o, q, p, r, w)
            PROVE  WaitIsActionable'
        BY <4>5, ChangeOwnerKeepsWaits DEF TransferQuestionOwner, TakeoverQuestionOwner
      <4>6. QED
        BY <3>2, <4>1, <4>2, <4>3, <4>4, <4>5 DEF OwnerUpdate
    <3>3. ASSUME GetAnswer(o, q) \/ GetAnswerForRecovery(o, q) PROVE WaitIsActionable'
      BY <3>3, ReadKeepsWaits DEF GetAnswer, GetAnswerForRecovery
    <3>4. QED
      BY <3>1, <3>2, <3>3, CreateKeepsWaits, ProposeKeepsWaits
  <2>2. CASE HumanStep
    <3>1. PICK q \in Questions :
            \/ \E selected \in SUBSET (OptionValues \cup {Other}), expected \in Expected :
                 Answer(q, selected, expected)
            \/ Cancel(q)
      BY <2>2 DEF HumanStep
    <3>2. ASSUME NEW selected, NEW expected, Answer(q, selected, expected) PROVE WaitIsActionable'
      BY <3>2, ClosingKeepsWaits DEF Answer, Terminal
    <3>3. ASSUME Cancel(q) PROVE WaitIsActionable'
      BY <3>3, ClosingKeepsWaits DEF Cancel, Terminal
    <3>4. QED
      BY <3>1, <3>2, <3>3
  <2>3. CASE OwnerStep
    BY <2>3, OwnerStepKeepsWaits
  <2>4. CASE ExpireDue
    <3>1. \A q \in Questions : WaitersMinded(q)
      BY <2>4, ExpiryMinded DEF ExpireDue
    <3>2. waits' \subseteq waits
      BY <2>4 DEF ExpireDue, WaitsAfterExpiry
    <3>3. QED
      BY <3>1, <3>2, WaitStep
  <2>5. CASE \E q \in Questions : Elapse(q)
    <3>1. PICK q \in Questions : Elapse(q)
      BY <2>5
    <3>2. questions' = [questions EXCEPT ![q] = [questions[q] EXCEPT !.expiry = "due"]]
      BY <3>1 DEF Elapse
    <3>3. \A p \in Questions : Untouched(p)
      BY <3>1, <3>2 DEF Elapse, Untouched, TypeOK, Question
    <3>4. QED
      BY <3>1, <3>3, WaitStep DEF WaitersMinded, Elapse
  <2>6. CASE Restart
    BY <2>6 DEF Restart, WaitIsActionable
  <2>7. CASE UNCHANGED vars
    BY <2>7 DEF vars, WaitIsActionable, PendingOf, Pending, UnreadOf
  <2>8. QED
    BY <2>1, <2>2, <2>3, <2>4, <2>5, <2>6, <2>7 DEF Next
<1>3. QED
  BY <1>1, <1>2, TypeCorrect, PTL DEF Spec

-----------------------------------------------------------------------------
(* Nobody is woken for nothing: each call lets go only the owners of what it *)
(* resolves or gives away.                                                   *)

Justified(o) ==
  \E q \in PendingOf(o) : \/ questions'[q].status # "pending"
                          \/ questions'[q].ownerRevision # questions[q].ownerRevision

\* An owner that is let go for what expired.
LEMMA ExpiryJustified ==
  ASSUME TypeOK, NEW o \in waits \ WaitsAfterExpiry,
         \A q \in Overdue : questions'[q] = QuestionsAfterExpiry[q]
  PROVE  Justified(o)
<1>1. PICK q \in Overdue : questions[q].owner = o
  BY DEF WaitsAfterExpiry
<1>2. q \in PendingOf(o) /\ questions[q] \in Question
  BY <1>1 DEF Overdue, PendingOf, TypeOK
<1>3. questions'[q].status = "expired"
  BY <1>1, <1>2 DEF QuestionsAfterExpiry, Question, Overdue
<1>4. QED
  BY <1>2, <1>3 DEF Justified

\* An owner that is let go for the one Question its call resolves.
LEMMA ResolutionJustified ==
  ASSUME TypeOK, NEW q \in Questions, Pending(q), questions'[q].status # "pending",
         NEW o, o = questions[q].owner
  PROVE  Justified(o)
BY DEF Justified, PendingOf

LEMMA UpdateJustified ==
  ASSUME TypeOK, NEW o \in Owners, NEW q \in Questions, NEW r, NEW w, OwnerUpdate(o, q, r, w),
         NEW woken \in waits \ waits'
  PROVE  Justified(woken)
<1>1. ASSUME NEW status \in {"cancelled", "superseded"}, NEW replacement,
             ResolveByOwner(o, q, status, replacement), Updatable(o, q, r, w)
      PROVE  Justified(woken)
  <2> DEFINE row == [NextRevision(q) EXCEPT !.status = status, !.replacement = replacement]
  <2>1. row.status = status
    BY RevisedTyping DEF Question
  <2>2. questions' = [questions EXCEPT ![q] = row]
    BY <1>1 DEF ResolveByOwner, CommitRevision
  <2> HIDE DEF row
  <2>3. questions'[q].status # "pending"
    BY <2>1, <2>2 DEF TypeOK
  <2>4. woken = o /\ Pending(q) /\ questions[q].owner = o
    BY <1>1 DEF ResolveByOwner, Updatable
  <2>5. QED
    BY <2>3, <2>4, ResolutionJustified
<1>2. ASSUME NEW previous, NEW next, ChangeOwner(q, previous, next, r, w)
      PROVE  Justified(woken)
  <2> DEFINE row == [questions[q] EXCEPT !.owner = next, !.ownerRevision = @ + 1]
  <2>1. questions[q].ownerRevision \in Nat /\ row.ownerRevision = questions[q].ownerRevision + 1
    BY DEF TypeOK, Question
  <2>2. questions' = [questions EXCEPT ![q] = row]
    BY <1>2 DEF ChangeOwner
  <2> HIDE DEF row
  <2>3. questions'[q].ownerRevision # questions[q].ownerRevision
    BY <2>1, <2>2 DEF TypeOK
  <2>4. woken = previous /\ Pending(q) /\ questions[q].owner = previous
    BY <1>2 DEF ChangeOwner
  <2>5. QED
    BY <2>3, <2>4 DEF Justified, PendingOf
<1>3. QED
  BY <1>1, <1>2 DEF OwnerUpdate, Revise, Reparent, CancelByOwner, Supersede,
                    TransferQuestionOwner, TakeoverQuestionOwner

\* Answer and Cancel.
LEMMA ClosingJustified ==
  ASSUME TypeOK, NEW q \in Questions, NEW status \in Terminal, Pending(q), q \notin Overdue,
         questions' = [QuestionsAfterExpiry EXCEPT ![q].status = status],
         waits' = WaitsAfterExpiry \ {questions[q].owner},
         NEW woken \in waits \ waits'
  PROVE  Justified(woken)
<1>1. CASE woken = questions[q].owner
  <2>1. QuestionsAfterExpiry[q] \in Question /\ QuestionsAfterExpiry \in [Questions -> Question]
    BY ExpiryTyping
  <2>2. questions'[q] = [QuestionsAfterExpiry[q] EXCEPT !.status = status]
    BY <2>1
  <2>3. questions'[q].status # "pending"
    BY <2>1, <2>2 DEF Question, Terminal
  <2>4. QED
    BY <1>1, <2>3, ResolutionJustified
<1>2. CASE woken # questions[q].owner
  <2>1. \A p \in Overdue : questions'[p] = QuestionsAfterExpiry[p]
    BY ExpiryTyping DEF Overdue
  <2>2. QED
    BY <1>2, <2>1, ExpiryJustified
<1>3. QED
  BY <1>1, <1>2

\* A blocked agent is released for a reason: something it waited for was
\* resolved or left it (resolveOwnerWaits, in every method that calls it).
THEOREM WakesAreJustified == Spec => WakeIsJustified
<1>1. ASSUME TypeOK, [Next]_vars, NEW woken \in waits \ waits', store' # store
      PROVE  Justified(woken)
  <2>1. ASSUME NEW o \in Owners, NEW q \in Questions, NEW options, NEW expiry, Create(o, q, options, expiry)
        PROVE  Justified(woken)
    <3>1. \A p \in Overdue : questions'[p] = QuestionsAfterExpiry[p]
      BY <2>1, ExpiryTyping DEF Create, Overdue, Exists, Pending
    <3>2. QED
      BY <1>1, <2>1, <3>1, ExpiryJustified DEF Create
  <2>2. ASSUME NEW o \in Owners, NEW q \in Questions, NEW value, ProposeAnswer(o, q, value)
        PROVE  Justified(woken)
    <3>1. \A p \in Overdue : questions'[p] = QuestionsAfterExpiry[p]
      BY <2>2, ExpiryTyping DEF ProposeAnswer, Overdue
    <3>2. QED
      BY <1>1, <2>2, <3>1, ExpiryJustified DEF ProposeAnswer
  <2>3. ASSUME NEW q \in Questions, NEW selected, NEW expected, Answer(q, selected, expected) PROVE Justified(woken)
    BY <1>1, <2>3, ClosingJustified DEF Answer, Terminal
  <2>4. ASSUME NEW q \in Questions, Cancel(q) PROVE Justified(woken)
    BY <1>1, <2>4, ClosingJustified DEF Cancel, Terminal
  <2>5. CASE ExpireDue
    <3>1. \A p \in Overdue : questions'[p] = QuestionsAfterExpiry[p]
      BY <2>5 DEF ExpireDue
    <3>2. QED
      BY <1>1, <2>5, <3>1, ExpiryJustified DEF ExpireDue
  <2>6. CASE OwnerStep \/ Restart \/ UNCHANGED vars \/ \E q \in Questions : Elapse(q)
    BY <1>1, <2>6 DEF OwnerStep, WaitForPostbox, AbortWait, PresenceChange, Restart, Elapse, vars, store
  <2>7. ASSUME NEW o, NEW q \in Questions, GetAnswer(o, q) \/ GetAnswerForRecovery(o, q) PROVE Justified(woken)
    BY <1>1, <2>7 DEF GetAnswer, GetAnswerForRecovery, ReadAnswer
  <2>8. QED
    BY <1>1, <2>1, <2>2, <2>3, <2>4, <2>5, <2>6, <2>7, UpdateJustified DEF Next, AgentStep, HumanStep
<1>2. TypeOK /\ [Next]_vars =>
        [\A o \in waits \ waits' : store' # store =>
           \E q \in PendingOf(o) : \/ questions'[q].status # "pending"
                                   \/ questions'[q].ownerRevision # questions[q].ownerRevision]_vars
  BY <1>1 DEF Justified
<1>3. QED
  BY <1>2, TypeCorrect, PTL DEF Spec, WakeIsJustified

-----------------------------------------------------------------------------
(* Every Question gets one outcome, recorded once and kept.  Each call does *)
(* one of four things to each Question; what that means for the recorded    *)
(* outcome is derived from these, once and for all calls.                   *)

\* What the recorded outcome rests on: a stored Question has an owner to read
\* its lifecycle outcomes, and a snapshot of its current content.
RowSound ==
  \A q \in Questions : Exists(q) => /\ questions[q].owner \in Owners
                                    /\ SnapshotOf(questions[q]) \in revisions[q]

SoundAfter(q) ==
  /\ questions'[q].owner \in Owners
  /\ SnapshotOf(questions'[q]) \in revisions'[q]

Still(q) ==
  /\ questions'[q] = questions[q]
  /\ revisions'[q] = revisions[q]
  /\ answers'[q] = answers[q]
  /\ events'[q] = events[q]

Amended(q) ==
  /\ questions[q].status \notin Terminal
  /\ questions'[q].status \notin Terminal
  /\ answers'[q] = answers[q]
  /\ SoundAfter(q)

\* The row that records an outcome is about the Question as it is then.
Fits(row, question) ==
  /\ row.status = question.status
  /\ row.revision = question.revision
  /\ row.reader = Nobody => row.status = "answered"
  /\ row.selected \subseteq question.options \cup {Other}

Settled(q) ==
  /\ questions[q].status \notin Terminal
  /\ questions'[q].status \in Terminal
  /\ SoundAfter(q)
  /\ \E row \in AnswerRow : answers'[q] = Append(answers[q], row) /\ Fits(row, questions'[q])

FirstRead(q) ==
  /\ questions[q].status = "answered"
  /\ questions'[q] = questions[q]
  /\ revisions'[q] = revisions[q]
  /\ events'[q] = events[q]
  /\ answers[q][Len(answers[q])].reader = Nobody
  /\ \E o \in Owners : answers'[q] = [answers[q] EXCEPT ![Len(answers[q])].reader = o]

Moves(q) == Still(q) \/ Amended(q) \/ Settled(q) \/ FirstRead(q)

\* ResolutionRecorded for one Question that has been resolved.
Recorded(q) ==
  /\ Len(answers[q]) = 1
  /\ answers[q][1].status = questions[q].status
  /\ answers[q][1].revision = questions[q].revision
  /\ answers[q][1].reader = Nobody => answers[q][1].status = "answered"
  /\ \E s \in revisions[q] : /\ s.revision = answers[q][1].revision
                             /\ answers[q][1].selected \subseteq s.options \cup {Other}

\* The form of the invariant the proofs use.
LEMMA RecordedForm ==
  ResolutionRecorded <=>
    \A q \in Questions : /\ questions[q].status \in Terminal => Recorded(q)
                         /\ questions[q].status \notin Terminal => answers[q] = <<>>
BY DEF ResolutionRecorded, Recorded

-----------------------------------------------------------------------------
(* What the four moves mean *)

\* A Question that is settled gets its first and only answers row.
LEMMA SettledRecorded ==
  ASSUME TypeOK, TypeOK', NEW q \in Questions, answers[q] = <<>>, Settled(q)
  PROVE  Recorded(q)'
<1>1. PICK row \in AnswerRow : answers'[q] = Append(answers[q], row) /\ Fits(row, questions'[q])
  BY DEF Settled
<1>2. answers'[q] = <<row>>
  BY <1>1
<1>3. Len(answers'[q]) = 1 /\ answers'[q][1] = row
  BY <1>2
<1>4. SnapshotOf(questions'[q]) \in revisions'[q]
  BY DEF Settled, SoundAfter
<1>5. /\ SnapshotOf(questions'[q]).revision = row.revision
      /\ row.selected \subseteq SnapshotOf(questions'[q]).options \cup {Other}
  BY <1>1 DEF Fits, SnapshotOf
<1>6. QED
  BY <1>1, <1>3, <1>4, <1>5 DEF Recorded, Fits

\* The first reader is the only thing a read changes in the row.
LEMMA ReadRecorded ==
  ASSUME TypeOK, NEW q \in Questions, Recorded(q), FirstRead(q)
  PROVE  Recorded(q)'
<1>1. PICK o \in Owners : answers'[q] = [answers[q] EXCEPT ![Len(answers[q])].reader = o]
  BY DEF FirstRead
<1>2. answers[q] \in Seq(AnswerRow) /\ Len(answers[q]) = 1
  BY DEF TypeOK, Recorded
<1>3. answers[q][1] \in AnswerRow
  BY <1>2
<1>4. answers'[q] = [answers[q] EXCEPT ![1] = [answers[q][1] EXCEPT !.reader = o]]
  BY <1>1, <1>2
<1>5. Len(answers'[q]) = 1 /\ answers'[q][1] = [answers[q][1] EXCEPT !.reader = o]
  BY <1>2, <1>4
<1>6. /\ answers'[q][1].status = answers[q][1].status
      /\ answers'[q][1].revision = answers[q][1].revision
      /\ answers'[q][1].selected = answers[q][1].selected
  BY <1>3, <1>5 DEF AnswerRow
<1>7. answers[q][1].status = "answered"
  BY DEF Recorded, FirstRead
<1>8. QED
  BY <1>5, <1>6, <1>7 DEF Recorded, FirstRead

\* So a step in which every Question makes one of the moves keeps the outcomes.
LEMMA MovesKeepOutcomes ==
  ASSUME TypeOK, TypeOK', ResolutionRecorded, \A q \in Questions : Moves(q)
  PROVE  ResolutionRecorded'
<1>1. ASSUME NEW q \in Questions
      PROVE  /\ questions'[q].status \in Terminal => Recorded(q)'
             /\ questions'[q].status \notin Terminal => answers'[q] = <<>>
  <2>1. /\ questions[q].status \in Terminal => Recorded(q)
        /\ questions[q].status \notin Terminal => answers[q] = <<>>
    BY RecordedForm
  <2>2. CASE Still(q)
    BY <2>1, <2>2 DEF Still, Recorded
  <2>3. CASE Amended(q)
    BY <2>1, <2>3 DEF Amended
  <2>4. CASE Settled(q)
    BY <2>1, <2>4, SettledRecorded DEF Settled
  <2>5. CASE FirstRead(q)
    <3>1. questions[q].status \in Terminal /\ questions'[q].status \in Terminal
      BY <2>5 DEF FirstRead, Terminal
    <3>2. QED
      BY <2>1, <2>5, <3>1, ReadRecorded
  <2>6. QED
    BY <2>2, <2>3, <2>4, <2>5 DEF Moves
<1>2. QED
  BY <1>1 DEF ResolutionRecorded, Recorded

\* ... and the soundness of the rows,
LEMMA MovesKeepRows ==
  ASSUME RowSound, \A q \in Questions : Moves(q)
  PROVE  RowSound'
<1>1. ASSUME NEW q \in Questions, Exists(q)'
      PROVE  SoundAfter(q)
  <2>1. CASE Still(q) \/ FirstRead(q)
    BY <1>1, <2>1 DEF Still, FirstRead, RowSound, Exists, SoundAfter
  <2>2. CASE Amended(q) \/ Settled(q)
    BY <2>2 DEF Amended, Settled
  <2>3. QED
    BY <2>1, <2>2 DEF Moves
<1>2. QED
  BY <1>1 DEF RowSound, SoundAfter, Exists

\* ... and leaves a terminal Question as it is, but for its first reader.
LEMMA MovesKeepTerminal ==
  ASSUME ResolutionRecorded, NEW q \in Questions, Moves(q), questions[q].status \in Terminal
  PROVE  /\ questions'[q] = questions[q]
         /\ revisions'[q] = revisions[q]
         /\ events'[q] = events[q]
         /\ \/ answers'[q] = answers[q]
            \/ /\ answers[q][1].reader = Nobody
               /\ \E o \in Owners : answers'[q] = [answers[q] EXCEPT ![1].reader = o]
<1>1. Len(answers[q]) = 1
  BY RecordedForm DEF Recorded
<1>2. Still(q) \/ FirstRead(q)
  BY DEF Moves, Amended, Settled
<1>3. CASE Still(q)
  BY <1>3 DEF Still
<1>4. CASE FirstRead(q)
  BY <1>1, <1>4 DEF FirstRead
<1>5. QED
  BY <1>2, <1>3, <1>4

-----------------------------------------------------------------------------
(* What the calls do, Question by Question *)

\* What expires on the way of a call is settled; the rest stays.
LEMMA ExpiryMoves ==
  ASSUME TypeOK, RowSound, NEW q \in Questions,
         questions'[q] = QuestionsAfterExpiry[q], revisions'[q] = revisions[q],
         answers'[q] = AnswersAfterExpiry[q], events'[q] = EventsAfterExpiry[q]
  PROVE  Moves(q)
<1>1. CASE q \in Overdue
  <2> DEFINE row == LifecycleRow("expired", questions[q].revision, questions[q].owner)
  <2>1. questions[q] \in Question /\ questions[q].status = "pending"
    BY <1>1 DEF TypeOK, Overdue, Pending
  <2>2. questions'[q] = [questions[q] EXCEPT !.status = "expired"]
    BY <1>1 DEF QuestionsAfterExpiry
  <2>3. questions[q].owner \in Owners /\ SnapshotOf(questions[q]) \in revisions[q]
    BY <2>1 DEF RowSound, Exists
  <2>4. SoundAfter(q)
    BY <2>1, <2>2, <2>3 DEF SoundAfter, SnapshotOf, Question
  <2>5. answers'[q] = Append(answers[q], row)
    BY <1>1 DEF AnswersAfterExpiry
  <2>6. row \in AnswerRow
    BY <2>1 DEF LifecycleRow, AnswerRow, Question, Terminal
  <2>7. Fits(row, questions'[q])
    BY <2>1, <2>2, <2>3, ConstantsAssumption DEF Fits, LifecycleRow, Question
  <2>8. questions'[q].status \in Terminal /\ questions[q].status \notin Terminal
    BY <2>1, <2>2 DEF Terminal, Question
  <2>9. Settled(q)
    BY <2>4, <2>5, <2>6, <2>7, <2>8 DEF Settled
  <2>10. QED
    BY <2>9 DEF Moves
<1>2. CASE q \notin Overdue
  BY <1>2 DEF QuestionsAfterExpiry, AnswersAfterExpiry, EventsAfterExpiry, Still, Moves
<1>3. QED
  BY <1>1, <1>2

\* create amends the Question it stores.
LEMMA CreateMoves ==
  ASSUME TypeOK, RowSound, NEW o \in Owners, NEW q \in Questions, NEW options, NEW expiry,
         Create(o, q, options, expiry), NEW p \in Questions
  PROVE  Moves(p)
<1>1. CASE p = q
  <2>1. questions[q].status = "absent" /\ q \notin Overdue
    BY DEF Create, Exists, Overdue, Pending
  <2>2. questions'[q] = NewQuestion(o, options, expiry)
    BY ExpiryTyping DEF Create
  <2>3. revisions'[q] = {SnapshotOf(NewQuestion(o, options, expiry))} /\ answers'[q] = answers[q]
    BY <2>1 DEF Create, TypeOK, AnswersAfterExpiry
  <2>4. Amended(q)
    BY <2>1, <2>2, <2>3 DEF Amended, SoundAfter, NewQuestion, Terminal
  <2>5. QED
    BY <1>1, <2>4 DEF Moves
<1>2. CASE p # q
  BY <1>2, ExpiryMoves, ExpiryTyping DEF Create, TypeOK
<1>3. QED
  BY <1>1, <1>2

\* A committed revision amends its Question, or settles it with its answers row,
\* and leaves the others alone.
LEMMA CommitMoves ==
  ASSUME TypeOK, NEW q \in Questions, NEW type, NEW row,
         questions[q].status = "pending", row.owner \in Owners, CommitRevision(q, type, row),
         \/ row.status = "pending" /\ answers' = answers
         \/ /\ row.status \in Terminal
            /\ \E r \in AnswerRow : answers' = [answers EXCEPT ![q] = Append(@, r)] /\ Fits(r, row),
         NEW p \in Questions
  PROVE  Moves(p)
<1>1. CASE p = q
  <2>1. questions'[q] = row /\ SnapshotOf(row) \in revisions'[q]
    BY DEF CommitRevision, TypeOK
  <2>2. SoundAfter(q) /\ questions[q].status \notin Terminal
    BY <2>1 DEF SoundAfter, Terminal
  <2>3. CASE row.status = "pending" /\ answers' = answers
    BY <1>1, <2>1, <2>2, <2>3 DEF Amended, Moves, Terminal
  <2>4. ASSUME row.status \in Terminal, NEW r \in AnswerRow,
               answers' = [answers EXCEPT ![q] = Append(@, r)], Fits(r, row)
        PROVE  Moves(p)
    <3>1. answers'[q] = Append(answers[q], r)
      BY <2>4 DEF TypeOK
    <3>2. QED
      BY <1>1, <2>1, <2>2, <2>4, <3>1 DEF Settled, Moves
  <2>5. QED
    BY <2>3, <2>4
<1>2. CASE p # q
  <2>1. answers'[p] = answers[p]
    BY <1>2 DEF TypeOK
  <2>2. questions'[p] = questions[p] /\ revisions'[p] = revisions[p] /\ events'[p] = events[p]
    BY <1>2 DEF CommitRevision, TypeOK
  <2>3. QED
    BY <2>1, <2>2 DEF Still, Moves
<1>3. QED
  BY <1>1, <1>2

\* The lifecycle row of an owner's cancellation or supersession fits its Question.
LEMMA LifecycleFits ==
  ASSUME NEW row \in Question, row.status \in Terminal, NEW o \in Owners
  PROVE  /\ LifecycleRow(row.status, row.revision, o) \in AnswerRow
         /\ Fits(LifecycleRow(row.status, row.revision, o), row)
BY ConstantsAssumption DEF LifecycleRow, AnswerRow, Fits, Question

\* The owner's own updates are committed revisions.
LEMMA UpdateMoves ==
  ASSUME TypeOK, NEW o \in Owners, NEW q \in Questions, NEW r, NEW w, NEW p \in Questions,
         \/ \E options \in Contents : Revise(o, q, r, w, options)
         \/ Reparent(o, q, r, w)
         \/ CancelByOwner(o, q, r, w)
         \/ \E replacement \in Questions : Supersede(o, q, r, w, replacement)
  PROVE  Moves(p)
<1>1. questions[q].status = "pending" /\ questions[q].owner = o
  BY DEF Revise, Reparent, CancelByOwner, Supersede, Updatable, Pending
<1>2. NextRevision(q).status = "pending" /\ NextRevision(q).owner = o
  BY <1>1 DEF NextRevision, TypeOK, Question
<1>3. ASSUME NEW options \in Contents, Revise(o, q, r, w, options) PROVE Moves(p)
  <2> DEFINE row == [NextRevision(q) EXCEPT !.options = options]
  <2>1. row.status = "pending" /\ row.owner \in Owners
    BY <1>2
  <2>2. CommitRevision(q, "revision", row) /\ answers' = answers
    BY <1>3 DEF Revise
  <2> HIDE DEF row
  <2>3. QED
    BY <1>1, <2>1, <2>2, CommitMoves
<1>4. ASSUME Reparent(o, q, r, w) PROVE Moves(p)
  BY <1>1, <1>2, <1>4, CommitMoves DEF Reparent
<1>5. ASSUME NEW status \in Terminal, NEW replacement \in Questions \cup {NoQuestion},
             ResolveByOwner(o, q, status, replacement)
      PROVE  Moves(p)
  <2> DEFINE row == [NextRevision(q) EXCEPT !.status = status, !.replacement = replacement]
  <2>1. row \in Question
    BY RevisedTyping
  <2>2. row.status = status /\ row.owner \in Owners
    <3>1. NextRevision(q) \in Question
      BY RevisedTyping
    <3>2. QED
      BY <1>2, <3>1 DEF Question
  <2>3. CommitRevision(q, status, row)
    BY <1>5 DEF ResolveByOwner
  <2>4. answers' = [answers EXCEPT ![q] = Append(@, LifecycleRow(status, row.revision, o))]
    BY <1>5 DEF ResolveByOwner
  <2> HIDE DEF row
  <2>5. LifecycleRow(status, row.revision, o) \in AnswerRow /\ Fits(LifecycleRow(status, row.revision, o), row)
    BY <2>1, <2>2, LifecycleFits
  <2>6. QED
    BY <1>1, <2>2, <2>3, <2>4, <2>5, CommitMoves
<1>6. QED
  BY <1>3, <1>4, <1>5 DEF CancelByOwner, Supersede, Terminal

\* A change of owner amends the Question.
LEMMA ChangeOwnerMoves ==
  ASSUME TypeOK, RowSound, NEW q \in Questions, NEW previous, NEW next \in Owners, NEW r, NEW w,
         ChangeOwner(q, previous, next, r, w), NEW p \in Questions
  PROVE  Moves(p)
<1> DEFINE row == [questions[q] EXCEPT !.owner = next, !.ownerRevision = @ + 1]
<1>1. questions[q].status = "pending" /\ SnapshotOf(questions[q]) \in revisions[q]
  BY DEF ChangeOwner, Pending, RowSound, Exists
<1>2. /\ row.status = "pending" /\ row.owner = next
      /\ SnapshotOf(row) = SnapshotOf(questions[q])
  BY <1>1 DEF SnapshotOf, TypeOK, Question
<1>3. questions' = [questions EXCEPT ![q] = row]
  BY DEF ChangeOwner
<1>4. revisions' = revisions /\ answers' = answers
  BY DEF ChangeOwner
<1> HIDE DEF row
<1>5. CASE p = q
  BY <1>1, <1>2, <1>3, <1>4, <1>5 DEF Amended, SoundAfter, Moves, TypeOK, Terminal
<1>6. CASE p # q
  BY <1>3, <1>4, <1>6 DEF ChangeOwner, Still, Moves, TypeOK
<1>7. QED
  BY <1>5, <1>6

\* A proposal amends its Question, after what was due expired.
LEMMA ProposeMoves ==
  ASSUME TypeOK, RowSound, NEW o \in Owners, NEW q \in Questions, NEW value,
         ProposeAnswer(o, q, value), NEW p \in Questions
  PROVE  Moves(p)
<1> DEFINE row == [NextRevision(q) EXCEPT !.options = @ \cup {value}]
<1>1. questions[q].status = "pending" /\ questions[q].owner = o /\ q \notin Overdue
  BY DEF ProposeAnswer, Pending
<1>2. row.status = "pending" /\ row.owner = o
  BY <1>1 DEF NextRevision, TypeOK, Question
<1>3. /\ questions' = [QuestionsAfterExpiry EXCEPT ![q] = row]
      /\ revisions' = [revisions EXCEPT ![q] = Seeded(q) \cup {SnapshotOf(row)}]
  BY DEF ProposeAnswer
<1>4. answers' = AnswersAfterExpiry
  BY DEF ProposeAnswer
<1> HIDE DEF row
<1>5. CASE p = q
  <2>1. questions'[q] = row /\ SnapshotOf(row) \in revisions'[q]
    BY <1>3, ExpiryTyping DEF TypeOK
  <2>2. answers'[q] = answers[q]
    BY <1>1, <1>4 DEF AnswersAfterExpiry
  <2>3. Amended(q)
    BY <1>1, <1>2, <2>1, <2>2 DEF Amended, SoundAfter, Terminal
  <2>4. QED
    BY <1>5, <2>3 DEF Moves
<1>6. CASE p # q
  <2>1. /\ questions'[p] = QuestionsAfterExpiry[p] /\ revisions'[p] = revisions[p]
        /\ answers'[p] = AnswersAfterExpiry[p]
    BY <1>3, <1>4, <1>6, ExpiryTyping DEF TypeOK
  <2>2. events'[p] = EventsAfterExpiry[p]
    BY <1>6, ExpiryTyping DEF ProposeAnswer
  <2>3. QED
    BY <2>1, <2>2, ExpiryMoves
<1>7. QED
  BY <1>5, <1>6

\* Answer and Cancel settle one Question in place, after what was due expired.
LEMMA ClosingMoves ==
  ASSUME TypeOK, RowSound, NEW q \in Questions, NEW status \in Terminal, NEW row \in AnswerRow, NEW event,
         Pending(q), q \notin Overdue,
         questions' = [QuestionsAfterExpiry EXCEPT ![q].status = status],
         answers' = [AnswersAfterExpiry EXCEPT ![q] = Append(@, row)],
         events' = [EventsAfterExpiry EXCEPT ![q] = Append(@, event)],
         revisions' = revisions,
         Fits(row, [questions[q] EXCEPT !.status = status]),
         NEW p \in Questions
  PROVE  Moves(p)
<1>1. CASE p = q
  <2>1. questions[q] \in Question /\ questions[q].status = "pending"
    BY DEF TypeOK, Pending
  <2>2. QuestionsAfterExpiry[q] = questions[q] /\ AnswersAfterExpiry[q] = answers[q]
    BY DEF QuestionsAfterExpiry, AnswersAfterExpiry
  <2>3. questions'[q] = [questions[q] EXCEPT !.status = status]
    BY <2>2, ExpiryTyping
  <2>4. answers'[q] = Append(answers[q], row)
    BY <2>2, ExpiryTyping
  <2>5. SoundAfter(q)
    BY <2>1, <2>3 DEF SoundAfter, RowSound, Exists, SnapshotOf, Question
  <2>6. questions'[q].status \in Terminal /\ questions[q].status \notin Terminal
    BY <2>1, <2>3 DEF Question, Terminal
  <2>7. Settled(q)
    BY <2>3, <2>4, <2>5, <2>6 DEF Settled
  <2>8. QED
    BY <1>1, <2>7 DEF Moves
<1>2. CASE p # q
  BY <1>2, ExpiryMoves, ExpiryTyping
<1>3. QED
  BY <1>1, <1>2

\* A valid selection fits the content it is about.
LEMMA AnswerMoves ==
  ASSUME TypeOK, RowSound, NEW q \in Questions, NEW selected \in SUBSET (OptionValues \cup {Other}),
         NEW expected, Answer(q, selected, expected), NEW p \in Questions
  PROVE  Moves(p)
<1> DEFINE row == [revision |-> questions[q].revision, status |-> "answered",
                   selected |-> selected, reader |-> Nobody]
<1>1. questions[q] \in Question
  BY DEF TypeOK
<1>2. row \in AnswerRow
  BY <1>1 DEF AnswerRow, Question, Terminal
<1>3. Fits(row, [questions[q] EXCEPT !.status = "answered"])
  BY <1>1 DEF Fits, Question, Answer, ValidSelection
<1>4. answers' = [AnswersAfterExpiry EXCEPT ![q] = Append(@, row)]
  BY DEF Answer
<1> HIDE DEF row
<1>5. "answered" \in Terminal
  BY DEF Terminal
<1>6. QED
  BY <1>2, <1>3, <1>4, <1>5, ClosingMoves DEF Answer

\* So does the lifecycle row of a cancellation.
LEMMA CancelMoves ==
  ASSUME TypeOK, RowSound, NEW q \in Questions, Cancel(q), NEW p \in Questions
  PROVE  Moves(p)
<1> DEFINE row == LifecycleRow("cancelled", questions[q].revision, questions[q].owner)
           closed == [questions[q] EXCEPT !.status = "cancelled"]
<1>1. questions[q] \in Question /\ questions[q].owner \in Owners
  BY DEF TypeOK, Cancel, Pending, RowSound, Exists
<1>2. closed \in Question /\ closed.status = "cancelled" /\ closed.revision = questions[q].revision
  BY <1>1 DEF Question, Status, Terminal
<1>3. row \in AnswerRow /\ Fits(row, closed) /\ "cancelled" \in Terminal
  BY <1>1, <1>2, LifecycleFits DEF Terminal
<1>4. answers' = [AnswersAfterExpiry EXCEPT ![q] = Append(@, row)]
  BY DEF Cancel
<1> HIDE DEF row
<1>5. QED
  BY <1>3, <1>4, ClosingMoves DEF Cancel

\* A read that changes anything is the first.
LEMMA ReadMoves ==
  ASSUME TypeOK, NEW q \in Questions, NEW reader \in Owners, ReadAnswer(q, reader), NEW p \in Questions
  PROVE  Moves(p)
<1>1. CASE p = q
  <2>1. answers'[q] = [answers[q] EXCEPT ![Len(answers[q])].reader = reader]
    BY DEF ReadAnswer, TypeOK
  <2>2. QED
    BY <1>1, <2>1 DEF ReadAnswer, FirstRead, Moves
<1>2. CASE p # q
  BY <1>2 DEF ReadAnswer, Still, Moves, TypeOK
<1>3. QED
  BY <1>1, <1>2

\* The clock amends a pending Question.
LEMMA ElapseMoves ==
  ASSUME TypeOK, RowSound, NEW q \in Questions, Elapse(q), NEW p \in Questions
  PROVE  Moves(p)
<1> DEFINE row == [questions[q] EXCEPT !.expiry = "due"]
<1>1. questions[q].status = "pending" /\ questions[q].owner \in Owners /\ SnapshotOf(questions[q]) \in revisions[q]
  BY DEF Elapse, Pending, RowSound, Exists
<1>2. /\ row.status = "pending" /\ row.owner = questions[q].owner
      /\ SnapshotOf(row) = SnapshotOf(questions[q])
  BY <1>1 DEF SnapshotOf, TypeOK, Question
<1>3. questions' = [questions EXCEPT ![q] = row] /\ UNCHANGED <<revisions, answers, events>>
  BY DEF Elapse
<1> HIDE DEF row
<1>4. CASE p = q
  BY <1>1, <1>2, <1>3, <1>4 DEF Amended, SoundAfter, Moves, TypeOK, Terminal
<1>5. CASE p # q
  BY <1>3, <1>5 DEF Still, Moves, TypeOK
<1>6. QED
  BY <1>4, <1>5

-----------------------------------------------------------------------------
(* The theorems *)

\* Every step moves every Question in one of the four ways.
LEMMA StepMoves ==
  ASSUME TypeOK, RowSound, [Next]_vars, NEW p \in Questions
  PROVE  Moves(p)
<1>1. CASE UNCHANGED store
  BY <1>1 DEF store, Still, Moves
<1>2. CASE AgentStep
  <2>1. PICK o \in Owners, q \in Questions :
          \/ \E options \in Contents, expiry \in {"never", "later"} : Create(o, q, options, expiry)
          \/ \E r \in 1..MaxRevision, w \in 1..MaxOwnerRevision : OwnerUpdate(o, q, r, w)
          \/ \E value \in OptionValues : ProposeAnswer(o, q, value)
          \/ GetAnswer(o, q)
          \/ GetAnswerForRecovery(o, q)
    BY <1>2 DEF AgentStep
  <2>2. ASSUME NEW r, NEW w, OwnerUpdate(o, q, r, w) PROVE Moves(p)
    <3>1. ASSUME NEW n \in Owners, TransferQuestionOwner(o, q, n, r, w) \/ TakeoverQuestionOwner(o, q, n, r, w)
          PROVE  Moves(p)
      BY <3>1, ChangeOwnerMoves DEF TransferQuestionOwner, TakeoverQuestionOwner
    <3>2. QED
      BY <2>2, <3>1, UpdateMoves DEF OwnerUpdate
  <2>3. ASSUME GetAnswer(o, q) \/ GetAnswerForRecovery(o, q) PROVE Moves(p)
    BY <2>3, ReadMoves DEF GetAnswer, GetAnswerForRecovery
  <2>4. QED
    BY <2>1, <2>2, <2>3, CreateMoves, ProposeMoves
<1>3. CASE HumanStep
  BY <1>3, AnswerMoves, CancelMoves DEF HumanStep
<1>4. CASE ExpireDue
  BY <1>4, ExpiryMoves DEF ExpireDue
<1>5. CASE \E q \in Questions : Elapse(q)
  BY <1>5, ElapseMoves
<1>6. CASE OwnerStep \/ Restart \/ UNCHANGED vars
  BY <1>1, <1>6 DEF OwnerStep, WaitForPostbox, AbortWait, PresenceChange, Restart, vars, store
<1>7. QED
  BY <1>2, <1>3, <1>4, <1>5, <1>6 DEF Next

\* No Question exists at first.
LEMMA InitOutcome == Init => ResolutionRecorded /\ RowSound
BY DEF Init, Absent, ResolutionRecorded, RowSound, Exists, Terminal

\* Every stored Question has a real owner and a snapshot of its content.
THEOREM RowsSound == Spec => []RowSound
<1>1. TypeOK /\ RowSound /\ [Next]_vars => RowSound'
  BY StepMoves, MovesKeepRows
<1>2. QED
  BY <1>1, InitOutcome, TypeCorrect, PTL DEF Spec

\* Whoever comes first decides: a Question has one recorded outcome from the
\* moment it is terminal, and none before; the outcome has the status and the
\* revision of the Question, and its selection the options of that revision.
THEOREM OneOutcome == Spec => []ResolutionRecorded
<1>1. TypeOK /\ TypeOK' /\ RowSound /\ ResolutionRecorded /\ [Next]_vars => ResolutionRecorded'
  BY StepMoves, MovesKeepOutcomes
<1>2. QED
  BY <1>1, InitOutcome, TypeCorrect, RowsSound, PTL DEF Spec

\* Terminal Questions are immutable: no later call changes the row, its history,
\* its log or its Answer, except for entering the first reader, once.
THEOREM TerminalImmutable == Spec => TerminalIsFinal
<1>1. TypeOK /\ RowSound /\ ResolutionRecorded /\ [Next]_vars =>
        \A q \in Questions : questions[q].status \in Terminal =>
          /\ questions'[q] = questions[q]
          /\ revisions'[q] = revisions[q]
          /\ events'[q] = events[q]
          /\ \/ answers'[q] = answers[q]
             \/ /\ answers[q][1].reader = Nobody
                /\ \E o \in Owners : answers'[q] = [answers[q] EXCEPT ![1].reader = o]
  BY StepMoves, MovesKeepTerminal
<1>2. QED
  BY <1>1, TypeCorrect, RowsSound, OneOutcome, PTL DEF Spec, TerminalIsFinal

-----------------------------------------------------------------------------
(* The history of a Question: question_revisions holds every content it has *)
(* had, and question_events accounts for its row.  Each call either leaves  *)
(* a Question's row, snapshots and log as they are (but for the expiry), or *)
(* enters it, or appends one event for what it changes.                     *)

\* The row is the same but for its expiry.
SameRow(q) ==
  /\ questions'[q].status = questions[q].status
  /\ questions'[q].ownerRevision = questions[q].ownerRevision
  /\ questions'[q].owner = questions[q].owner
  /\ SnapshotOf(questions'[q]) = SnapshotOf(questions[q])

Unlogged(q) ==
  /\ SameRow(q)
  /\ revisions'[q] = revisions[q]
  /\ events'[q] = events[q]

Entered(q) ==
  /\ ~Exists(q)
  /\ questions'[q].status = "pending"
  /\ questions'[q].revision = 1
  /\ questions'[q].ownerRevision = 1
  /\ revisions'[q] = {SnapshotOf(questions'[q])}
  /\ events'[q] = events[q]

\* What a call that appends an event does to the content.
SameContent(q) ==
  revisions'[q] = revisions[q] /\ SnapshotOf(questions'[q]) = SnapshotOf(questions[q])
NextContent(q) ==
  /\ questions'[q].revision = questions[q].revision + 1
  /\ revisions'[q] = Seeded(q) \cup {SnapshotOf(questions'[q])}

LoggedAs(q, type) ==
  /\ events'[q] = Append(events[q], EventOf(type, questions'[q]))
  /\ questions'[q].status = IF type \in Terminal THEN type ELSE "pending"
  /\ questions'[q].ownerRevision = questions[q].ownerRevision + (IF type = "owner_changed" THEN 1 ELSE 0)
  /\ IF type \in {"revision", "parent_changed"} THEN NextContent(q)
     ELSE IF type = "owner_changed" THEN SameContent(q)
     ELSE SameContent(q) \/ NextContent(q)

Logged(q) == Pending(q) /\ \E type \in EventType : LoggedAs(q, type)

Chronicled(q) == Unlogged(q) \/ Entered(q) \/ Logged(q)

-----------------------------------------------------------------------------
(* Each call does one of the three to each Question *)

\* A Question expires with its event, or is left alone.
LEMMA ExpiryChronicled ==
  ASSUME TypeOK, NEW p \in Questions,
         questions'[p] = QuestionsAfterExpiry[p], events'[p] = EventsAfterExpiry[p],
         revisions'[p] = revisions[p]
  PROVE  Chronicled(p)
<1>1. CASE p \in Overdue
  <2>1. Pending(p) /\ questions[p] \in Question
    BY <1>1 DEF Overdue, TypeOK
  <2>2. questions'[p] = [questions[p] EXCEPT !.status = "expired"]
    BY <1>1 DEF QuestionsAfterExpiry
  <2>3. /\ questions'[p].status = "expired"
        /\ questions'[p].ownerRevision = questions[p].ownerRevision + 0
        /\ questions'[p].owner = questions[p].owner
        /\ SnapshotOf(questions'[p]) = SnapshotOf(questions[p])
        /\ questions'[p].revision = questions[p].revision
    BY <2>1, <2>2 DEF Question, SnapshotOf
  <2>4. events'[p] = Append(events[p], EventOf("expired", questions'[p]))
    BY <1>1, <2>3 DEF EventsAfterExpiry, EventOf
  <2>5. LoggedAs(p, "expired")
    BY <2>3, <2>4 DEF LoggedAs, SameContent, Terminal
  <2>6. QED
    BY <2>1, <2>5 DEF Logged, Chronicled, EventType, Terminal
<1>2. CASE p \notin Overdue
  BY <1>2 DEF QuestionsAfterExpiry, EventsAfterExpiry, Unlogged, SameRow, Chronicled
<1>3. QED
  BY <1>1, <1>2

\* A creation enters its Question, after what was due expired.
LEMMA CreateChronicled ==
  ASSUME TypeOK, NEW o \in Owners, NEW q \in Questions, NEW options, NEW expiry,
         Create(o, q, options, expiry), NEW p \in Questions
  PROVE  Chronicled(p)
<1>1. CASE p = q
  <2>1. q \notin Overdue
    BY DEF Create, Exists, Overdue, Pending
  <2>2. /\ questions'[q] = NewQuestion(o, options, expiry)
        /\ revisions'[q] = {SnapshotOf(NewQuestion(o, options, expiry))}
        /\ events'[q] = events[q]
    BY <2>1 DEF Create, QuestionsAfterExpiry, EventsAfterExpiry, TypeOK
  <2>3. QED
    BY <1>1, <2>2 DEF Create, Entered, NewQuestion, Chronicled
<1>2. CASE p # q
  BY <1>2, ExpiryChronicled, ExpiryTyping DEF Create, TypeOK
<1>3. QED
  BY <1>1, <1>2

\* A committed revision is logged as what it is.
LEMMA CommitChronicled ==
  ASSUME TypeOK, NEW q \in Questions, NEW type \in EventType \ {"owner_changed"},
         NEW row \in Question, Pending(q), CommitRevision(q, type, row),
         row.status = IF type \in Terminal THEN type ELSE "pending",
         row.ownerRevision = questions[q].ownerRevision,
         row.revision = questions[q].revision + 1,
         NEW p \in Questions
  PROVE  Chronicled(p)
<1>1. CASE p = q
  <2>1. /\ questions'[q] = row
        /\ revisions'[q] = Seeded(q) \cup {SnapshotOf(row)}
        /\ events'[q] = Append(events[q], EventOf(type, row))
    BY DEF CommitRevision, TypeOK
  <2>2. questions[q].ownerRevision \in Nat
    BY DEF TypeOK, Question
  <2>3. LoggedAs(q, type)
    BY <2>1, <2>2 DEF LoggedAs, NextContent
  <2>4. QED
    BY <1>1, <2>3 DEF Logged, Chronicled
<1>2. CASE p # q
  BY <1>2 DEF CommitRevision, TypeOK, Unlogged, SameRow, Chronicled
<1>3. QED
  BY <1>1, <1>2

\* The owner's own updates are committed revisions.
LEMMA UpdateChronicled ==
  ASSUME TypeOK, NEW o \in Owners, NEW q \in Questions, NEW r, NEW w, NEW p \in Questions,
         \/ \E options \in Contents : Revise(o, q, r, w, options)
         \/ Reparent(o, q, r, w)
         \/ CancelByOwner(o, q, r, w)
         \/ \E replacement \in Questions : Supersede(o, q, r, w, replacement)
  PROVE  Chronicled(p)
<1>1. Pending(q) /\ questions[q] \in Question
  BY DEF Revise, Reparent, CancelByOwner, Supersede, Updatable, TypeOK
<1>2. /\ NextRevision(q) \in Question
      /\ NextRevision(q).status = "pending"
      /\ NextRevision(q).ownerRevision = questions[q].ownerRevision
      /\ NextRevision(q).revision = questions[q].revision + 1
  BY <1>1 DEF NextRevision, Question, Pending
<1>3. "revision" \in EventType \ {"owner_changed"} /\ "parent_changed" \in EventType \ {"owner_changed"}
  BY DEF EventType
<1>4. ASSUME NEW options \in Contents, Revise(o, q, r, w, options) PROVE Chronicled(p)
  <2> DEFINE row == [NextRevision(q) EXCEPT !.options = options]
  <2>1. options \in SUBSET OptionValues
    BY DEF Contents
  <2>2. /\ row \in Question /\ row.status = "pending"
        /\ row.ownerRevision = questions[q].ownerRevision
        /\ row.revision = questions[q].revision + 1
    BY <1>2, <2>1, RevisedTyping DEF Question
  <2>3. CommitRevision(q, "revision", row)
    BY <1>4 DEF Revise
  <2> HIDE DEF row
  <2>4. QED
    BY <1>1, <1>3, <2>2, <2>3, CommitChronicled DEF Terminal
<1>5. ASSUME Reparent(o, q, r, w) PROVE Chronicled(p)
  BY <1>1, <1>2, <1>3, <1>5, CommitChronicled DEF Reparent, Terminal
<1>6. ASSUME NEW status \in {"cancelled", "superseded"}, NEW replacement \in Questions \cup {NoQuestion},
             ResolveByOwner(o, q, status, replacement)
      PROVE  Chronicled(p)
  <2> DEFINE row == [NextRevision(q) EXCEPT !.status = status, !.replacement = replacement]
  <2>1. row \in Question
    BY RevisedTyping DEF Terminal
  <2>2. /\ row.status = status
        /\ row.ownerRevision = questions[q].ownerRevision
        /\ row.revision = questions[q].revision + 1
    BY <1>2 DEF Question
  <2>3. CommitRevision(q, status, row)
    BY <1>6 DEF ResolveByOwner
  <2> HIDE DEF row
  <2>4. status \in EventType \ {"owner_changed"} /\ status \in Terminal
    BY DEF EventType, Terminal
  <2>5. QED
    BY <1>1, <2>1, <2>2, <2>3, <2>4, CommitChronicled
<1>7. QED
  BY <1>4, <1>5, <1>6 DEF CancelByOwner, Supersede

\* A change of owner is logged under the revision it leaves alone.
LEMMA ChangeOwnerChronicled ==
  ASSUME TypeOK, NEW q \in Questions, NEW previous, NEW next \in Owners, NEW r, NEW w,
         ChangeOwner(q, previous, next, r, w), NEW p \in Questions
  PROVE  Chronicled(p)
<1> DEFINE row == [questions[q] EXCEPT !.owner = next, !.ownerRevision = @ + 1]
<1>1. Pending(q) /\ questions[q] \in Question
  BY DEF ChangeOwner, TypeOK
<1>2. /\ row.status = "pending" /\ row.ownerRevision = questions[q].ownerRevision + 1
      /\ SnapshotOf(row) = SnapshotOf(questions[q])
  BY <1>1 DEF SnapshotOf, Question, Pending
<1>3. /\ questions' = [questions EXCEPT ![q] = row]
      /\ events' = [events EXCEPT ![q] = Append(@, EventOf("owner_changed", row))]
      /\ revisions' = revisions
  BY DEF ChangeOwner
<1> HIDE DEF row
<1>4. CASE p = q
  <2>1. /\ questions'[q] = row /\ revisions'[q] = revisions[q]
        /\ events'[q] = Append(events[q], EventOf("owner_changed", row))
    BY <1>3 DEF TypeOK
  <2>2. LoggedAs(q, "owner_changed")
    BY <1>2, <2>1 DEF LoggedAs, SameContent, Terminal
  <2>3. QED
    BY <1>1, <1>4, <2>2 DEF Logged, Chronicled, EventType
<1>5. CASE p # q
  BY <1>3, <1>5 DEF TypeOK, Unlogged, SameRow, Chronicled
<1>6. QED
  BY <1>4, <1>5

\* A proposal is a revision, after what was due expired.
LEMMA ProposeChronicled ==
  ASSUME TypeOK, NEW o \in Owners, NEW q \in Questions, NEW value,
         ProposeAnswer(o, q, value), NEW p \in Questions
  PROVE  Chronicled(p)
<1> DEFINE row == [NextRevision(q) EXCEPT !.options = @ \cup {value}]
<1>1. Pending(q) /\ q \notin Overdue /\ questions[q] \in Question
  BY DEF ProposeAnswer, TypeOK
<1>2. /\ row.status = "pending" /\ row.ownerRevision = questions[q].ownerRevision
      /\ row.revision = questions[q].revision + 1
  BY <1>1 DEF NextRevision, Question, Pending
<1>3. /\ questions' = [QuestionsAfterExpiry EXCEPT ![q] = row]
      /\ revisions' = [revisions EXCEPT ![q] = Seeded(q) \cup {SnapshotOf(row)}]
      /\ events' = [EventsAfterExpiry EXCEPT ![q] = Append(@, EventOf("revision", row))]
  BY DEF ProposeAnswer
<1> HIDE DEF row
<1>4. CASE p = q
  <2>1. EventsAfterExpiry[q] = events[q]
    BY <1>1 DEF EventsAfterExpiry
  <2>2. /\ questions'[q] = row /\ revisions'[q] = Seeded(q) \cup {SnapshotOf(row)}
        /\ events'[q] = Append(events[q], EventOf("revision", row))
    BY <1>3, <2>1, ExpiryTyping DEF TypeOK
  <2>3. questions[q].ownerRevision \in Nat
    BY <1>1 DEF Question
  <2>4. LoggedAs(q, "revision")
    BY <1>2, <2>2, <2>3 DEF LoggedAs, NextContent, Terminal
  <2>5. QED
    BY <1>1, <1>4, <2>4 DEF Logged, Chronicled, EventType
<1>5. CASE p # q
  BY <1>3, <1>5, ExpiryChronicled, ExpiryTyping DEF TypeOK
<1>6. QED
  BY <1>4, <1>5

\* Answer and Cancel close one Question in place, after what was due expired.
LEMMA ClosingChronicled ==
  ASSUME TypeOK, NEW q \in Questions, NEW status \in Terminal,
         Pending(q), q \notin Overdue,
         questions' = [QuestionsAfterExpiry EXCEPT ![q].status = status],
         events' = [EventsAfterExpiry EXCEPT ![q] = Append(@, EventOf(status, questions[q]))],
         revisions' = revisions,
         NEW p \in Questions
  PROVE  Chronicled(p)
<1>1. CASE p = q
  <2>1. questions[q] \in Question /\ EventsAfterExpiry[q] = events[q] /\ QuestionsAfterExpiry[q] = questions[q]
    BY DEF TypeOK, EventsAfterExpiry, QuestionsAfterExpiry
  <2>2. questions'[q] = [questions[q] EXCEPT !.status = status]
    BY <2>1, ExpiryTyping
  <2>3. events'[q] = Append(events[q], EventOf(status, questions[q]))
    BY <2>1, ExpiryTyping
  <2>4. /\ questions'[q].status = status
        /\ questions'[q].ownerRevision = questions[q].ownerRevision + 0
        /\ SnapshotOf(questions'[q]) = SnapshotOf(questions[q])
        /\ EventOf(status, questions'[q]) = EventOf(status, questions[q])
    BY <2>1, <2>2 DEF Question, SnapshotOf, EventOf
  <2>5. status \notin {"revision", "parent_changed", "owner_changed"} /\ status \in EventType
    BY DEF Terminal, EventType
  <2>6. LoggedAs(q, status)
    BY <2>3, <2>4, <2>5 DEF LoggedAs, SameContent
  <2>7. QED
    BY <1>1, <2>5, <2>6 DEF Logged, Chronicled
<1>2. CASE p # q
  BY <1>2, ExpiryChronicled, ExpiryTyping DEF TypeOK
<1>3. QED
  BY <1>1, <1>2

\* The clock changes nothing but the expiry.
LEMMA ElapseChronicled ==
  ASSUME TypeOK, NEW q \in Questions, Elapse(q), NEW p \in Questions
  PROVE  Chronicled(p)
<1>1. questions[q] \in Question /\ questions' = [questions EXCEPT ![q].expiry = "due"]
  BY DEF Elapse, TypeOK
<1>2. SameRow(p)
  BY <1>1 DEF SameRow, SnapshotOf, TypeOK, Question
<1>3. QED
  BY <1>2 DEF Elapse, Unlogged, Chronicled

\* Every step does one of the three to every Question.
LEMMA StepChronicled ==
  ASSUME TypeOK, [Next]_vars, NEW p \in Questions
  PROVE  Chronicled(p)
<1>1. CASE UNCHANGED <<questions, revisions, events>>
  BY <1>1 DEF Unlogged, SameRow, Chronicled
<1>2. CASE AgentStep
  <2>1. PICK o \in Owners, q \in Questions :
          \/ \E options \in Contents, expiry \in {"never", "later"} : Create(o, q, options, expiry)
          \/ \E r \in 1..MaxRevision, w \in 1..MaxOwnerRevision : OwnerUpdate(o, q, r, w)
          \/ \E value \in OptionValues : ProposeAnswer(o, q, value)
          \/ GetAnswer(o, q)
          \/ GetAnswerForRecovery(o, q)
    BY <1>2 DEF AgentStep
  <2>2. ASSUME NEW r, NEW w, OwnerUpdate(o, q, r, w) PROVE Chronicled(p)
    <3>1. ASSUME NEW n \in Owners, TransferQuestionOwner(o, q, n, r, w) \/ TakeoverQuestionOwner(o, q, n, r, w)
          PROVE  Chronicled(p)
      BY <3>1, ChangeOwnerChronicled DEF TransferQuestionOwner, TakeoverQuestionOwner
    <3>2. QED
      BY <2>2, <3>1, UpdateChronicled DEF OwnerUpdate
  <2>3. ASSUME GetAnswer(o, q) \/ GetAnswerForRecovery(o, q) PROVE Chronicled(p)
    BY <1>1, <2>3 DEF GetAnswer, GetAnswerForRecovery, ReadAnswer
  <2>4. QED
    BY <2>1, <2>2, <2>3, CreateChronicled, ProposeChronicled
<1>3. CASE HumanStep
  <2>1. ASSUME NEW q \in Questions, NEW selected, NEW expected, Answer(q, selected, expected)
        PROVE  Chronicled(p)
    BY <2>1, ClosingChronicled DEF Answer, Terminal
  <2>2. ASSUME NEW q \in Questions, Cancel(q) PROVE Chronicled(p)
    BY <2>2, ClosingChronicled DEF Cancel, Terminal
  <2>3. QED
    BY <1>3, <2>1, <2>2 DEF HumanStep
<1>4. CASE ExpireDue
  BY <1>4, ExpiryChronicled DEF ExpireDue
<1>5. CASE \E q \in Questions : Elapse(q)
  BY <1>5, ElapseChronicled
<1>6. CASE OwnerStep \/ Restart \/ UNCHANGED vars
  BY <1>1, <1>6 DEF OwnerStep, WaitForPostbox, AbortWait, PresenceChange, Restart, vars, store
<1>7. QED
  BY <1>2, <1>3, <1>4, <1>5, <1>6 DEF Next

-----------------------------------------------------------------------------
(* What that means for the snapshots *)

\* HistoryFaithful for one Question.
Faithful(q) ==
  /\ {s.revision : s \in revisions[q]} = 1..questions[q].revision
  /\ \A s, t \in revisions[q] : s.revision = t.revision => s = t
  /\ Exists(q) => SnapshotOf(questions[q]) \in revisions[q]

\* The snapshots follow the row: unchanged with it, or one more for one more
\* revision.
LEMMA HistoryKept ==
  ASSUME TypeOK, TypeOK', NEW q \in Questions, Faithful(q), Chronicled(q)
  PROVE  Faithful(q)'
<1>1. /\ questions[q].revision \in Nat /\ questions'[q].revision \in Nat
      /\ SnapshotOf(questions[q]).revision = questions[q].revision
      /\ SnapshotOf(questions'[q]).revision = questions'[q].revision
  BY DEF TypeOK, Question, SnapshotOf
<1>2. CASE SameContent(q) /\ (Exists(q)' => Exists(q))
  <2>1. questions'[q].revision = questions[q].revision
    BY <1>1, <1>2 DEF SameContent
  <2>2. QED
    BY <1>2, <2>1 DEF Faithful, SameContent, Exists
<1>3. CASE Entered(q)
  <2>1. {s.revision : s \in revisions'[q]} = {1}
    BY <1>1, <1>3 DEF Entered
  <2>2. QED
    BY <1>1, <1>3, <2>1 DEF Entered, Faithful
<1>4. CASE NextContent(q) /\ Exists(q)
  <2> DEFINE n == questions[q].revision
             new == SnapshotOf(questions'[q])
  <2>1. revisions'[q] = revisions[q] \cup {new}
    BY <1>1, <1>4 DEF NextContent, Faithful, Seeded
  <2>2. new.revision = n + 1 /\ questions'[q].revision = n + 1
    BY <1>1, <1>4 DEF NextContent
  <2>3. \A s \in revisions[q] : s.revision \in 1..n
    BY DEF Faithful
  <2>4. {s.revision : s \in revisions'[q]} = 1..(n + 1)
    <3>1. {s.revision : s \in revisions'[q]} = {s.revision : s \in revisions[q]} \cup {n + 1}
      BY <2>1, <2>2
    <3>2. {s.revision : s \in revisions[q]} = 1..n
      BY DEF Faithful
    <3>3. QED
      BY <1>1, <3>1, <3>2
  <2>5. \A s, t \in revisions'[q] : s.revision = t.revision => s = t
    BY <1>1, <2>1, <2>2, <2>3 DEF Faithful
  <2>6. new \in revisions'[q]
    BY <2>1
  <2>7. QED
    BY <2>2, <2>4, <2>5, <2>6 DEF Faithful
<1>5. QED
  BY <1>2, <1>3, <1>4 DEF Chronicled, Unlogged, SameRow, Logged, LoggedAs, SameContent, Exists, Pending

\* question_revisions is the complete history of every Question.
THEOREM HistoryComplete == Spec => []HistoryFaithful
<1>1. Init => HistoryFaithful
  BY DEF Init, Absent, Exists, HistoryFaithful
<1>2. TypeOK /\ TypeOK' /\ HistoryFaithful /\ [Next]_vars => HistoryFaithful'
  BY StepChronicled, HistoryKept DEF HistoryFaithful, Faithful
<1>3. QED
  BY <1>1, <1>2, TypeCorrect, PTL DEF Spec

-----------------------------------------------------------------------------
(* What that means for the log *)

\* The revision a Question had after the first i events of its log.
RevisionAt(q, i) == IF i = 0 THEN 1 ELSE events[q][i].revision

\* LogAgrees for one Question, and what it rests on: a Question that is not
\* stored has no events, one without events is as it was created, and a
\* terminal event is followed by a terminal row.
Accounted(q) ==
  /\ Exists(q) => questions[q].ownerRevision = 1 + Cardinality(OwnerChanges(q))
  /\ events[q] # <<>> => EventOf(events[q][Len(events[q])].type, questions[q]) = events[q][Len(events[q])]
  /\ \A i \in DOMAIN events[q] :
       /\ events[q][i].revision \in {RevisionAt(q, i - 1), RevisionAt(q, i - 1) + 1}
       /\ events[q][i].type \in Terminal => i = Len(events[q])
  /\ questions[q].status \in Terminal <=>
       events[q] # <<>> /\ events[q][Len(events[q])].type = questions[q].status
LogSound(q) ==
  /\ ~Exists(q) => events[q] = <<>>
  /\ Exists(q) /\ events[q] = <<>> => questions[q].revision = 1
  /\ \A i \in DOMAIN events[q] : events[q][i].type \in Terminal => questions[q].status = events[q][i].type

LEMMA LogForm == LogAgrees <=> \A q \in Questions : Accounted(q)
BY DEF LogAgrees, Accounted, RevisionAt

\* A Question whose log stays as it is.
LEMMA UnloggedKept ==
  ASSUME TypeOK, TypeOK', NEW q \in Questions, Accounted(q), LogSound(q), Unlogged(q)
  PROVE  (Accounted(q) /\ LogSound(q))'
<1>1. /\ questions'[q].revision = questions[q].revision
      /\ Exists(q)' <=> Exists(q)
      /\ OwnerChanges(q)' = OwnerChanges(q)
      /\ \A type : EventOf(type, questions'[q]) = EventOf(type, questions[q])
      /\ \A i : RevisionAt(q, i)' = RevisionAt(q, i)
  BY DEF Unlogged, SameRow, SnapshotOf, Exists, OwnerChanges, EventOf, RevisionAt
<1>2. QED
  BY <1>1 DEF Accounted, LogSound, Unlogged, SameRow

\* A Question that is entered has no events yet.
LEMMA EnteredKept ==
  ASSUME TypeOK, TypeOK', NEW q \in Questions, Accounted(q), LogSound(q), Entered(q)
  PROVE  (Accounted(q) /\ LogSound(q))'
<1>1. events'[q] = <<>>
  BY DEF Entered, LogSound
<1>2. OwnerChanges(q)' = {}
  BY <1>1 DEF OwnerChanges
<1>3. Cardinality(OwnerChanges(q)') = 0
  BY <1>2, FS_EmptySet
<1>4. questions'[q].ownerRevision = 1 + Cardinality(OwnerChanges(q)')
  BY <1>3 DEF Entered
<1>5. Accounted(q)'
  BY <1>1, <1>4 DEF Accounted, Entered, Terminal
<1>6. LogSound(q)'
  BY <1>1 DEF LogSound, Entered
<1>7. QED
  BY <1>5, <1>6

\* A Question whose log grows by one event.
LEMMA LoggedKept ==
  ASSUME TypeOK, TypeOK', NEW q \in Questions, Accounted(q), LogSound(q), Logged(q)
  PROVE  (Accounted(q) /\ LogSound(q))'
<1>1. PICK type \in EventType : LoggedAs(q, type)
  BY DEF Logged
<1> DEFINE log == events[q]
           new == EventOf(type, questions'[q])
<1>2. PICK n \in Nat : n = Len(events[q]) /\ log \in Seq(Event)
  BY DEF TypeOK
<1>3. events'[q] = Append(log, new)
  BY <1>1 DEF LoggedAs
<1>4. /\ Len(events'[q]) = n + 1 /\ DOMAIN events'[q] = 1..(n + 1) /\ DOMAIN log = 1..n
      /\ events'[q][n + 1] = new
      /\ \A i \in 1..n : events'[q][i] = log[i]
  BY <1>2, <1>3
<1>5. new.type = type /\ new.revision = questions'[q].revision
  BY DEF EventOf
<1>6. questions[q].revision \in Nat /\ questions[q].ownerRevision \in Nat
  BY DEF TypeOK, Question
<1>7. questions'[q].revision \in {questions[q].revision, questions[q].revision + 1}
  BY <1>1 DEF LoggedAs, SameContent, NextContent, SnapshotOf
<1>8. RevisionAt(q, n) = questions[q].revision
  <2>1. CASE n = 0
    <3>1. events[q] = <<>>
      BY <1>2, <2>1, EmptySeq
    <3>2. questions[q].revision = 1
      BY <3>1 DEF LogSound, Logged, Exists, Pending
    <3>3. QED
      BY <2>1, <3>2 DEF RevisionAt
  <2>2. CASE n # 0
    BY <1>2, <2>2 DEF RevisionAt, Accounted, EventOf
  <2>3. QED
    BY <2>1, <2>2
<1>9. \A i \in 1..n : log[i].type \notin Terminal
  BY <1>4 DEF LogSound, Logged, Pending, Terminal
<1>10. \A i \in 0..n : RevisionAt(q, i)' = RevisionAt(q, i)
  BY <1>2, <1>4 DEF RevisionAt
<1> HIDE DEF log, new
<1>11. \A i \in DOMAIN events'[q] :
         /\ events'[q][i].revision \in {RevisionAt(q, i - 1)', RevisionAt(q, i - 1)' + 1}
         /\ events'[q][i].type \in Terminal => i = Len(events'[q])
  <2>1. ASSUME NEW i \in 1..n
        PROVE  /\ events'[q][i].revision \in {RevisionAt(q, i - 1)', RevisionAt(q, i - 1)' + 1}
               /\ events'[q][i].type \notin Terminal
    <3>1. log[i].revision \in {RevisionAt(q, i - 1), RevisionAt(q, i - 1) + 1}
      BY <1>4, <2>1 DEF Accounted, log
    <3>2. RevisionAt(q, i - 1)' = RevisionAt(q, i - 1)
      BY <1>2, <1>10, <2>1
    <3>3. QED
      BY <1>4, <1>9, <2>1, <3>1, <3>2
  <2>2. events'[q][n + 1].revision \in {RevisionAt(q, n)', RevisionAt(q, n)' + 1}
    BY <1>2, <1>4, <1>5, <1>7, <1>8, <1>10
  <2>3. (n + 1) - 1 = n
    BY <1>2
  <2>4. QED
    BY <1>2, <1>4, <2>1, <2>2, <2>3
<1>12. questions'[q].ownerRevision = 1 + Cardinality(OwnerChanges(q)')
  <2>1. OwnerChanges(q) \subseteq 1..n /\ IsFiniteSet(OwnerChanges(q)) /\ Cardinality(OwnerChanges(q)) \in Nat
    <3>1. OwnerChanges(q) \subseteq 1..n
      BY <1>4 DEF OwnerChanges, log
    <3>2. IsFiniteSet(1..n)
      BY <1>2, FS_Interval
    <3>3. QED
      BY <3>1, <3>2, FS_Subset, FS_CardinalityType
  <2>2. OwnerChanges(q)' = IF type = "owner_changed" THEN OwnerChanges(q) \cup {n + 1} ELSE OwnerChanges(q)
    BY <1>2, <1>4, <1>5 DEF OwnerChanges, log
  <2>3. n + 1 \notin OwnerChanges(q)
    BY <1>2, <2>1
  <2>4. Cardinality(OwnerChanges(q)') = Cardinality(OwnerChanges(q)) + (IF type = "owner_changed" THEN 1 ELSE 0)
    <3>1. CASE type = "owner_changed"
      BY <2>1, <2>2, <2>3, <3>1, FS_AddElement
    <3>2. CASE type # "owner_changed"
      BY <2>1, <2>2, <3>2
    <3>3. QED
      BY <3>1, <3>2
  <2>5. questions[q].ownerRevision = 1 + Cardinality(OwnerChanges(q))
    BY DEF Accounted, Logged, Exists, Pending
  <2>6. questions'[q].ownerRevision = questions[q].ownerRevision + (IF type = "owner_changed" THEN 1 ELSE 0)
    BY <1>1 DEF LoggedAs
  <2>7. QED
    BY <2>1, <2>4, <2>5, <2>6
<1>13. events'[q] # <<>> /\ events'[q][Len(events'[q])] = new
  BY <1>2, <1>4
<1>14. questions'[q].status = IF type \in Terminal THEN type ELSE "pending"
  BY <1>1 DEF LoggedAs
<1>15. EventOf(events'[q][Len(events'[q])].type, questions'[q]) = events'[q][Len(events'[q])]
  BY <1>5, <1>13 DEF new
<1>16. questions'[q].status \in Terminal <=> events'[q][Len(events'[q])].type = questions'[q].status
  BY <1>5, <1>13, <1>14 DEF Terminal, EventType
<1>17. Accounted(q)'
  BY <1>11, <1>12, <1>13, <1>15, <1>16 DEF Accounted
<1>18. \A i \in DOMAIN events'[q] : events'[q][i].type \in Terminal => questions'[q].status = events'[q][i].type
  BY <1>5, <1>11, <1>13, <1>14
<1>19. LogSound(q)'
  BY <1>13, <1>14, <1>18 DEF LogSound, Exists, Terminal
<1>20. QED
  BY <1>17, <1>19

\* question_events accounts for every change of the row.
THEOREM LogComplete == Spec => []LogAgrees
<1> DEFINE Sound == \A q \in Questions : Accounted(q) /\ LogSound(q)
<1>1. Init => Sound
  BY DEF Init, Absent, Exists, Accounted, LogSound, Terminal
<1>2. TypeOK /\ TypeOK' /\ Sound /\ [Next]_vars => Sound'
  BY StepChronicled, UnloggedKept, EnteredKept, LoggedKept DEF Chronicled
<1>3. Sound => LogAgrees
  BY LogForm
<1>4. QED
  BY <1>1, <1>2, <1>3, TypeCorrect, PTL DEF Spec

\* Both together, however long a Question is revised, passed on and proposed to.
THEOREM ChronicleComplete == Spec => []HistoryAgrees
<1>1. HistoryFaithful /\ LogAgrees => HistoryAgrees
  BY DEF HistoryAgrees
<1>2. QED
  BY <1>1, HistoryComplete, LogComplete, PTL

-----------------------------------------------------------------------------
(* The copies agents and the dashboard act from.  The log is as long as the  *)
(* two versions of a pending Question are high, so that equal versions mean   *)
(* an equal log; and a snapshot with the current number is the current one.   *)

\* Every call of the store is one of the above, whatever versions it states.
LEMMA AnyUpdate ==
  ASSUME TypeOK, NEW o \in Owners, NEW q \in Questions, NEW r, NEW w, OwnerUpdate(o, q, r, w)
  PROVE  TypeOK' /\ \A p \in Questions : Chronicled(p)
<1>1. ASSUME NEW n \in Owners, TransferQuestionOwner(o, q, n, r, w) \/ TakeoverQuestionOwner(o, q, n, r, w)
      PROVE  TypeOK' /\ \A p \in Questions : Chronicled(p)
  BY <1>1, ChangeOwnerTyping, ChangeOwnerChronicled DEF TransferQuestionOwner, TakeoverQuestionOwner
<1>2. Contents \subseteq SUBSET OptionValues
  BY DEF Contents
<1>3. ASSUME NEW options \in Contents, Revise(o, q, r, w, options)
      PROVE  TypeOK' /\ \A p \in Questions : Chronicled(p)
  BY <1>2, <1>3, UpdateTyping, UpdateChronicled
<1>4. ASSUME Reparent(o, q, r, w) \/ CancelByOwner(o, q, r, w) \/ \E p \in Questions : Supersede(o, q, r, w, p)
      PROVE  TypeOK' /\ \A p \in Questions : Chronicled(p)
  BY <1>4, UpdateTyping, UpdateChronicled
<1>5. QED
  BY <1>1, <1>3, <1>4 DEF OwnerUpdate

LEMMA DeskChronicled ==
  ASSUME TypeOK, [DeskNext]_deskVars
  PROVE  TypeOK' /\ \A p \in Questions : Chronicled(p)
<1>1. CASE UNCHANGED vars
  BY <1>1 DEF vars, TypeOK, Unlogged, SameRow, Chronicled
<1>2. ASSUME NEW o \in Owners, NEW q \in Questions, UpdateFromView(o, q)
      PROVE  TypeOK' /\ \A p \in Questions : Chronicled(p)
  BY <1>2, AnyUpdate DEF UpdateFromView
<1>3. ASSUME NEW o \in Owners, NEW q \in Questions, NEW options \in Contents,
             NEW expiry \in {"never", "later"}, CreateQuestion(o, q, options, expiry)
      PROVE  TypeOK' /\ \A p \in Questions : Chronicled(p)
  BY <1>3, CreateTyping, CreateChronicled DEF CreateQuestion, Contents
<1>4. ASSUME NEW o \in Owners, NEW q \in Questions, NEW value \in OptionValues, ProposeAnswer(o, q, value)
      PROVE  TypeOK' /\ \A p \in Questions : Chronicled(p)
  BY <1>4, ProposeTyping, ProposeChronicled
<1>5. ASSUME NEW q \in Questions, NEW selected \in SUBSET (OptionValues \cup {Other}), NEW expected,
             Answer(q, selected, expected)
      PROVE  TypeOK' /\ \A p \in Questions : Chronicled(p)
  BY <1>5, AnswerTyping, ClosingChronicled DEF Answer, Terminal
<1>6. ASSUME NEW q \in Questions, Cancel(q)
      PROVE  TypeOK' /\ \A p \in Questions : Chronicled(p)
  BY <1>6, CancelTyping, ClosingChronicled DEF Cancel, Terminal
<1>7. ASSUME NEW q \in Questions, Elapse(q)
      PROVE  TypeOK' /\ \A p \in Questions : Chronicled(p)
  <2>1. [questions[q] EXCEPT !.expiry = "due"] \in Question
    BY DEF TypeOK, Question
  <2>2. questions' = [questions EXCEPT ![q] = [questions[q] EXCEPT !.expiry = "due"]]
    BY <1>7 DEF Elapse
  <2>3. TypeOK'
    BY <1>7, <2>1, <2>2 DEF Elapse, TypeOK
  <2>4. QED
    BY <1>7, <2>3, ElapseChronicled
<1>8. CASE ExpireDue
  BY <1>8, ExpiryTyping, ExpiryChronicled DEF ExpireDue, TypeOK
<1>9. ASSUME NEW o \in Owners, PresenceChange(o)
      PROVE  TypeOK' /\ \A p \in Questions : Chronicled(p)
  BY <1>9 DEF PresenceChange, store, TypeOK, Unlogged, SameRow, Chronicled
<1>10. QED
  BY <1>1, <1>2, <1>3, <1>4, <1>5, <1>6, <1>7, <1>8, <1>9
     DEF DeskNext, deskVars, ReadQuestion, UpdateRequest, Submit, AnswerPendingAsk

\* How long the log of a Question with these versions is.
LengthFor(versions, length) == length + 2 = versions.revision + versions.ownerRevision

Counted(q) ==
  /\ ~Exists(q) => events[q] = <<>> /\ revisions[q] = {}
  /\ Pending(q) => LengthFor(questions[q], Len(events[q]))

View == [revision: Nat, ownerRevision: Nat, at: Nat]
Copied(o, q) ==
  views[o][q] # Unseen =>
    /\ views[o][q] \in View /\ Exists(q)
    /\ Pending(q) => LengthFor(views[o][q], views[o][q].at)
FormHeld(q) == forms[q] # Unseen => forms[q] \in revisions[q]

DeskInv ==
  /\ TypeOK
  /\ views \in [Owners -> [Questions -> View \cup {Unseen}]]
  /\ DOMAIN forms = Questions
  /\ \A q \in Questions : Faithful(q) /\ Counted(q) /\ FormHeld(q)
  /\ \A o \in Owners, q \in Questions : Copied(o, q)

\* The log grows with the versions.
LEMMA CountedKept ==
  ASSUME TypeOK, TypeOK', NEW q \in Questions, Counted(q), Chronicled(q)
  PROVE  /\ Counted(q)'
         /\ revisions[q] \subseteq revisions'[q]
         /\ Exists(q) => Exists(q)'
         /\ Exists(q) /\ Pending(q)' => Pending(q)
<1>1. CASE Unlogged(q)
  <2>1. questions'[q].revision = questions[q].revision
    BY <1>1 DEF Unlogged, SameRow, SnapshotOf
  <2>2. QED
    BY <1>1, <2>1 DEF Unlogged, SameRow, Exists, Pending, Counted, LengthFor
<1>2. CASE Entered(q)
  BY <1>2 DEF Entered, Exists, Pending, Counted, LengthFor
<1>3. CASE Logged(q)
  <2>1. PICK type \in EventType : LoggedAs(q, type)
    BY <1>3 DEF Logged
  <2>2. /\ events[q] \in Seq(Event) /\ Len(events[q]) \in Nat
        /\ questions[q].revision \in Nat /\ questions[q].ownerRevision \in Nat
    BY DEF TypeOK, Question
  <2>3. Len(events'[q]) = Len(events[q]) + 1
    BY <2>1, <2>2 DEF LoggedAs
  <2>4. /\ SameContent(q) => questions'[q].revision = questions[q].revision
        /\ NextContent(q) => questions'[q].revision = questions[q].revision + 1
    BY DEF SameContent, NextContent, SnapshotOf
  <2>5. Exists(q)' /\ Pending(q) /\ Exists(q)
    BY <1>3, <2>1 DEF LoggedAs, Logged, Exists, Pending, Terminal
  <2>6. revisions[q] \subseteq revisions'[q]
    BY <2>1 DEF LoggedAs, SameContent, NextContent, Seeded
  <2>7. Pending(q)' => type \in {"revision", "parent_changed", "owner_changed"}
    BY <2>1 DEF LoggedAs, Pending, EventType, Terminal
  <2>8. Pending(q)' =>
          questions'[q].revision + questions'[q].ownerRevision = questions[q].revision + questions[q].ownerRevision + 1
    BY <2>1, <2>2, <2>4, <2>7 DEF LoggedAs
  <2>9. Counted(q)'
    BY <2>2, <2>3, <2>5, <2>8 DEF Counted, LengthFor
  <2>10. QED
    BY <2>5, <2>6, <2>9
<1>4. QED
  BY <1>1, <1>2, <1>3 DEF Chronicled

\* A copy is as good as when it was taken.
LEMMA CopyKept ==
  ASSUME TypeOK, TypeOK', NEW o \in Owners, NEW q \in Questions, Counted(q), Chronicled(q), Counted(q)',
         Copied(o, q),
         \/ views'[o][q] = views[o][q]
         \/ Exists(q)' /\ views'[o][q] = ViewOf(q)'
  PROVE  Copied(o, q)'
<1>1. CASE views'[o][q] = views[o][q]
  BY <1>1, CountedKept DEF Copied
<1>2. CASE Exists(q)' /\ views'[o][q] = ViewOf(q)'
  <2>1. questions'[q].revision \in Nat /\ questions'[q].ownerRevision \in Nat /\ Len(events'[q]) \in Nat
    BY DEF TypeOK, Question
  <2>2. ViewOf(q)' = [revision |-> questions'[q].revision,
                      ownerRevision |-> questions'[q].ownerRevision, at |-> Len(events'[q])]
    BY DEF ViewOf
  <2>3. QED
    BY <1>2, <2>1, <2>2 DEF Copied, View, Counted, LengthFor
<1>3. QED
  BY <1>1, <1>2

\* What a step does to the copies.
LEMMA CopiesChange ==
  ASSUME DeskInv, TypeOK', [DeskNext]_deskVars
  PROVE  /\ views' \in [Owners -> [Questions -> View \cup {Unseen}]]
         /\ DOMAIN forms' = Questions
         /\ \A o \in Owners, q \in Questions :
              \/ views'[o][q] = views[o][q]
              \/ Exists(q)' /\ views'[o][q] = ViewOf(q)'
         /\ \A q \in Questions : forms'[q] = forms[q] \/ forms'[q] \in revisions[q]
<1> DEFINE Copying(o, q) == views' = [views EXCEPT ![o][q] = ViewOf(q)'] /\ Exists(q)'
<1>1. /\ \/ UNCHANGED views
         \/ \E o \in Owners, q \in Questions : Copying(o, q)
      /\ \/ UNCHANGED forms
         \/ \E q \in Questions : \E snapshot \in revisions[q] : forms' = [forms EXCEPT ![q] = snapshot]
  <2>1. ASSUME NEW o \in Owners, NEW q \in Questions, ReadQuestion(o, q) PROVE Copying(o, q) /\ UNCHANGED forms
    BY <2>1 DEF ReadQuestion, vars, ViewOf, Exists
  <2>2. ASSUME NEW o \in Owners, NEW q \in Questions, UpdateFromView(o, q) PROVE Copying(o, q) /\ UNCHANGED forms
    <3>1. Exists(q) /\ OwnerUpdate(o, q, views[o][q].revision, views[o][q].ownerRevision)
      BY <2>2 DEF UpdateFromView, OwnerUpdate, Revise, Reparent, CancelByOwner, Supersede, Updatable,
                  TransferQuestionOwner, TakeoverQuestionOwner, ChangeOwner, Pending, Exists
    <3>2. Exists(q)'
      BY <3>1, AnyUpdate, CountedKept DEF DeskInv
    <3>3. QED
      BY <2>2, <3>2 DEF UpdateFromView
  <2>3. ASSUME NEW o \in Owners, NEW q \in Questions, NEW options \in Contents,
               NEW expiry \in {"never", "later"}, CreateQuestion(o, q, options, expiry)
        PROVE  Copying(o, q) /\ UNCHANGED forms
    <3>1. questions'[q] = NewQuestion(o, options, expiry)
      BY <2>3, ExpiryTyping DEF DeskInv, CreateQuestion, Create
    <3>2. QED
      BY <2>3, <3>1 DEF CreateQuestion, NewQuestion, Exists
  <2>4. QED
    BY <2>1, <2>2, <2>3 DEF DeskNext, desk, deskVars, UpdateRequest, Submit, AnswerPendingAsk
<1>2. \A q \in Questions : ViewOf(q)' \in View
  <2>1. ASSUME NEW q \in Questions PROVE ViewOf(q)' \in View
    <3>1. questions'[q].revision \in Nat /\ questions'[q].ownerRevision \in Nat /\ Len(events'[q]) \in Nat
      BY DEF TypeOK, Question
    <3>2. QED
      BY <3>1 DEF ViewOf, View
  <2>2. QED
    BY <2>1
<1>3. /\ views' \in [Owners -> [Questions -> View \cup {Unseen}]]
      /\ \A o \in Owners, q \in Questions :
           \/ views'[o][q] = views[o][q]
           \/ Exists(q)' /\ views'[o][q] = ViewOf(q)'
  <2>1. CASE UNCHANGED views
    BY <2>1 DEF DeskInv
  <2>2. ASSUME NEW o \in Owners, NEW q \in Questions, Copying(o, q)
        PROVE  /\ views' \in [Owners -> [Questions -> View \cup {Unseen}]]
               /\ \A a \in Owners, p \in Questions :
                    \/ views'[a][p] = views[a][p]
                    \/ Exists(p)' /\ views'[a][p] = ViewOf(p)'
    <3>1. PICK copy \in View : copy = ViewOf(q)'
      BY <1>2
    <3>2. views' = [views EXCEPT ![o][q] = copy] /\ Exists(q)'
      BY <2>2, <3>1
    <3>3. views \in [Owners -> [Questions -> View \cup {Unseen}]]
      BY DEF DeskInv
    <3>4. /\ views' \in [Owners -> [Questions -> View \cup {Unseen}]]
          /\ views'[o][q] = copy
          /\ \A a \in Owners, p \in Questions : <<a, p>> # <<o, q>> => views'[a][p] = views[a][p]
      BY <3>2, <3>3
    <3>5. QED
      BY <3>1, <3>2, <3>4
  <2>3. QED
    BY <1>1, <2>1, <2>2
<1>4. /\ DOMAIN forms' = Questions
      /\ \A q \in Questions : forms'[q] = forms[q] \/ forms'[q] \in revisions[q]
  BY <1>1 DEF DeskInv
<1>5. QED
  BY <1>3, <1>4

LEMMA DeskInvariant == DeskSpec => []DeskInv
<1>1. DeskInit => DeskInv
  <2> SUFFICES ASSUME DeskInit PROVE DeskInv
    OBVIOUS
  <2>1. TypeOK
    BY InitTyping DEF DeskInit
  <2>2. \A q \in Questions : Faithful(q) /\ Counted(q)
    BY DEF DeskInit, Init, Absent, Exists, Pending, Faithful, Counted
  <2>3. QED
    BY <2>1, <2>2 DEF DeskInit, DeskInv, FormHeld, Copied
<1>2. DeskInv /\ [DeskNext]_deskVars => DeskInv'
  <2> SUFFICES ASSUME DeskInv, [DeskNext]_deskVars PROVE DeskInv'
    OBVIOUS
  <2>1. TypeOK /\ TypeOK' /\ \A q \in Questions : Chronicled(q)
    BY DeskChronicled DEF DeskInv
  <2>2. \A q \in Questions : Faithful(q)'
    BY <2>1, HistoryKept DEF DeskInv
  <2>3. \A q \in Questions : Counted(q)' /\ revisions[q] \subseteq revisions'[q]
    BY <2>1, CountedKept DEF DeskInv
  <2>4. \A q \in Questions : FormHeld(q)'
    BY <2>1, <2>3, CopiesChange DEF FormHeld, DeskInv
  <2>5. \A o \in Owners, q \in Questions : Copied(o, q)'
    BY <2>1, <2>3, CopiesChange, CopyKept DEF DeskInv
  <2>6. QED
    BY <2>1, <2>2, <2>3, <2>4, <2>5, CopiesChange DEF DeskInv
<1>3. QED
  BY <1>1, <1>2, PTL DEF DeskSpec

\* An agent whose update goes through has seen everything that was ever done
\* to the Question (updateQuestion, transferQuestionOwner: the compare-and-swap).
THEOREM NoUpdateIsLost == DeskSpec => NoLostUpdate
<1>1. ASSUME DeskInv, NEW o \in Owners, NEW q \in Questions, UpdateFromView(o, q)
      PROVE  views[o][q].at = Len(events[q])
  <2> DEFINE seen == views[o][q]
  <2>1. /\ seen \in View /\ Counted(q)
        /\ Pending(q) => LengthFor(seen, seen.at)
    BY <1>1 DEF UpdateFromView, DeskInv, Copied
  <2>2. Pending(q) /\ questions[q].revision = seen.revision /\ questions[q].ownerRevision = seen.ownerRevision
    <3>1. seen.revision # AnyRevision
      BY <2>1, ConstantsAssumption DEF View
    <3>2. QED
      BY <1>1, <3>1 DEF UpdateFromView, OwnerUpdate, Revise, Reparent, CancelByOwner, Supersede, Updatable,
                        TransferQuestionOwner, TakeoverQuestionOwner, ChangeOwner, ExpectedRevision
  <2>3. Len(events[q]) \in Nat
    BY <1>1 DEF DeskInv, TypeOK
  <2>4. QED
    BY <2>1, <2>2, <2>3 DEF View, Counted, LengthFor
<1>2. DeskInv /\ [DeskNext]_deskVars =>
        [\A o \in Owners, q \in Questions : UpdateFromView(o, q) => views[o][q].at = Len(events[q])]_deskVars
  BY <1>1
<1>3. QED
  BY <1>2, DeskInvariant, PTL DEF DeskSpec, NoLostUpdate

\* A human answers what is on the screen, or not at all (answer: the expected
\* revision; question_revisions: one content for a number).
THEOREM AnswersMatchForms == DeskSpec => AnswerMatchesForm
<1>1. ASSUME DeskInv, NEW q \in Questions, NEW selected \in SUBSET (OptionValues \cup {Other}), Submit(q, selected)
      PROVE  /\ SnapshotOf(questions[q]) = forms[q]
             /\ answers'[q][Len(answers'[q])].revision = forms[q].revision
             /\ selected \subseteq forms[q].options \cup {Other}
  <2>1. forms[q] \in revisions[q] /\ forms[q] \in Snapshot
    BY <1>1 DEF Submit, DeskInv, FormHeld, TypeOK
  <2>2. forms[q].revision = questions[q].revision
    BY <1>1, <2>1, ConstantsAssumption DEF Submit, Answer, ExpectedRevision, Snapshot
  <2>3. SnapshotOf(questions[q]) \in revisions[q]
    BY <1>1 DEF Submit, Answer, Pending, Exists, DeskInv, Faithful
  <2>4. SnapshotOf(questions[q]) = forms[q]
    BY <1>1, <2>1, <2>2, <2>3 DEF DeskInv, Faithful, SnapshotOf
  <2>5. answers'[q][Len(answers'[q])].revision = forms[q].revision
    <3> DEFINE row == [revision |-> questions[q].revision, status |-> "answered",
                       selected |-> selected, reader |-> Nobody]
    <3>1. AnswersAfterExpiry[q] \in Seq(AnswerRow) /\ AnswersAfterExpiry \in [Questions -> Seq(AnswerRow)]
      BY <1>1, ExpiryTyping DEF DeskInv
    <3>2. answers'[q] = Append(AnswersAfterExpiry[q], row)
      BY <1>1, <3>1 DEF Submit, Answer
    <3> HIDE DEF row
    <3>3. answers'[q][Len(answers'[q])] = row
      BY <3>1, <3>2
    <3>4. QED
      BY <2>2, <3>3 DEF row
  <2>6. selected \subseteq forms[q].options \cup {Other}
    BY <1>1, <2>4 DEF Submit, Answer, ValidSelection, SnapshotOf
  <2>7. QED
    BY <2>4, <2>5, <2>6
<1>2. DeskInv /\ [DeskNext]_deskVars =>
        [\A q \in Questions, selected \in SUBSET (OptionValues \cup {Other}) :
           Submit(q, selected) =>
             /\ SnapshotOf(questions[q]) = forms[q]
             /\ answers'[q][Len(answers'[q])].revision = forms[q].revision
             /\ selected \subseteq forms[q].options \cup {Other}]_deskVars
  BY <1>1
<1>3. QED
  BY <1>2, DeskInvariant, PTL DEF DeskSpec, AnswerMatchesForm

-----------------------------------------------------------------------------
(* RequestStore implements DecisionHandoff: whatever a call does, it takes  *)
(* one Question a step further in the abstract hand-off, or none, and lets  *)
(* others at most expire.                                                   *)

-----------------------------------------------------------------------------
(* What a call does to one Question, as far as the hand-off can tell *)

Unmoved(q) ==
  /\ questions'[q].status = questions[q].status
  /\ questions'[q].owner = questions[q].owner
  /\ questions'[q].options = questions[q].options
  /\ answers'[q] = answers[q]

Posed(q) ==
  /\ ~Exists(q)
  /\ questions'[q].status = "pending"
  /\ questions'[q].owner \in Owners
  /\ questions'[q].options \in SUBSET OptionValues
  /\ answers'[q] = answers[q]

Reoffered(q) ==
  /\ Pending(q)
  /\ questions'[q].status = "pending"
  /\ questions'[q].owner = questions[q].owner
  /\ questions'[q].options \in SUBSET OptionValues
  /\ answers'[q] = answers[q]

Reassigned(q) ==
  /\ Pending(q)
  /\ questions'[q].status = "pending"
  /\ questions'[q].owner \in Owners
  /\ questions'[q].options = questions[q].options
  /\ answers'[q] = answers[q]

\* The answers row of an outcome that a Question with this owner and these
\* options can have.
Outcome(q, row) ==
  /\ row.status \in Terminal
  /\ IF row.status = "answered"
     THEN row.reader = Nobody /\ row.selected \in SUBSET (questions[q].options \cup {Other})
     ELSE row.reader = questions[q].owner /\ row.selected = {}

ClosedBy(q, row) ==
  /\ Pending(q)
  /\ Outcome(q, row)
  /\ questions'[q].status = row.status
  /\ questions'[q].owner = questions[q].owner
  /\ questions'[q].options = questions[q].options
  /\ answers'[q] = Append(answers[q], row)

Closed(q) == \E row \in AnswerRow : ClosedBy(q, row)

Chosen(q) ==
  Unmoved(q) \/ Posed(q) \/ Reoffered(q) \/ Reassigned(q) \/ Closed(q) \/ FirstRead(q)

Aside(q) == Unmoved(q) \/ (Closed(q) /\ questions'[q].status = "expired")

Handled(q) == Chosen(q) /\ \A p \in Questions \ {q} : Aside(p)

-----------------------------------------------------------------------------
(* Each call handles one Question *)

\* What is due expires, in whatever call.
LEMMA ExpiryAside ==
  ASSUME TypeOK, RowSound, NEW p \in Questions,
         questions'[p] = QuestionsAfterExpiry[p], answers'[p] = AnswersAfterExpiry[p]
  PROVE  Aside(p)
<1>1. questions[p] \in Question
  BY DEF TypeOK
<1>2. CASE p \in Overdue
  <2> DEFINE row == LifecycleRow("expired", questions[p].revision, questions[p].owner)
  <2>1. Pending(p) /\ questions[p].owner \in Owners
    BY <1>2 DEF Overdue, Pending, RowSound, Exists
  <2>2. questions'[p] = [questions[p] EXCEPT !.status = "expired"]
    BY <1>2 DEF QuestionsAfterExpiry
  <2>3. answers'[p] = Append(answers[p], row)
    BY <1>2 DEF AnswersAfterExpiry
  <2>4. row \in AnswerRow
    BY <1>1, <2>1 DEF LifecycleRow, AnswerRow, Question, Terminal
  <2>5. Outcome(p, row) /\ row.status = "expired"
    BY DEF Outcome, LifecycleRow, Terminal
  <2>6. /\ questions'[p].status = "expired"
        /\ questions'[p].owner = questions[p].owner
        /\ questions'[p].options = questions[p].options
    BY <1>1, <2>2 DEF Question
  <2> HIDE DEF row
  <2>7. ClosedBy(p, row)
    BY <2>1, <2>3, <2>5, <2>6 DEF ClosedBy
  <2>8. QED
    BY <2>4, <2>6, <2>7 DEF Closed, Aside
<1>3. CASE p \notin Overdue
  BY <1>3 DEF QuestionsAfterExpiry, AnswersAfterExpiry, Unmoved, Aside
<1>4. QED
  BY <1>2, <1>3

\* A creation poses its Question.
LEMMA CreateHandled ==
  ASSUME TypeOK, RowSound, NEW o \in Owners, NEW q \in Questions, NEW options \in Contents,
         NEW expiry, Create(o, q, options, expiry)
  PROVE  Handled(q)
<1>1. q \notin Overdue
  BY DEF Create, Exists, Overdue, Pending
<1>2. questions'[q] = NewQuestion(o, options, expiry) /\ answers'[q] = answers[q]
  BY <1>1, ExpiryTyping DEF Create, AnswersAfterExpiry
<1>3. Posed(q)
  BY <1>2 DEF Create, Posed, NewQuestion, Contents
<1>4. ASSUME NEW p \in Questions \ {q} PROVE Aside(p)
  BY <1>4, ExpiryAside, ExpiryTyping DEF Create
<1>5. QED
  BY <1>3, <1>4 DEF Handled, Chosen

\* Revisions and moves offer the Question anew, to the same owner.
LEMMA RevisionHandled ==
  ASSUME TypeOK, NEW q \in Questions, NEW type, NEW row \in Question, Pending(q),
         CommitRevision(q, type, row), row.status = "pending", row.owner = questions[q].owner,
         answers' = answers
  PROVE  Handled(q)
<1>1. questions'[q] = row /\ row.options \in SUBSET OptionValues
  BY DEF CommitRevision, TypeOK, Question
<1>2. Reoffered(q)
  BY <1>1 DEF Reoffered
<1>3. ASSUME NEW p \in Questions \ {q} PROVE Aside(p)
  BY <1>3 DEF CommitRevision, TypeOK, Unmoved, Aside
<1>4. QED
  BY <1>2, <1>3 DEF Handled, Chosen

\* The owner's cancellation or supersession closes the Question.
LEMMA ResolveHandled ==
  ASSUME TypeOK, NEW o \in Owners, NEW q \in Questions, Pending(q), questions[q].owner = o,
         NEW status \in {"cancelled", "superseded"}, NEW replacement \in Questions \cup {NoQuestion},
         ResolveByOwner(o, q, status, replacement)
  PROVE  Handled(q)
<1> DEFINE row == [NextRevision(q) EXCEPT !.status = status, !.replacement = replacement]
           outcome == LifecycleRow(status, row.revision, o)
<1>1. questions[q] \in Question /\ NextRevision(q) \in Question /\ row \in Question
  BY RevisedTyping DEF Terminal
<1>2. row.status = status /\ row.owner = o /\ row.options = questions[q].options
  BY <1>1 DEF NextRevision, Question
<1>3. /\ questions' = [questions EXCEPT ![q] = row]
      /\ answers' = [answers EXCEPT ![q] = Append(@, outcome)]
  BY DEF ResolveByOwner, CommitRevision
<1>4. outcome \in AnswerRow /\ outcome.status = status /\ outcome.reader = o /\ outcome.selected = {}
  BY <1>1 DEF LifecycleRow, AnswerRow, Terminal, Question
<1>5. Outcome(q, outcome)
  BY <1>4 DEF Outcome, Terminal
<1> HIDE DEF row, outcome
<1>6. questions'[q] = row /\ answers'[q] = Append(answers[q], outcome)
  BY <1>3 DEF TypeOK
<1>7. ClosedBy(q, outcome)
  BY <1>2, <1>4, <1>5, <1>6 DEF ClosedBy
<1>8. ASSUME NEW p \in Questions \ {q} PROVE Aside(p)
  BY <1>3, <1>8 DEF TypeOK, Unmoved, Aside
<1>9. QED
  BY <1>4, <1>7, <1>8 DEF Handled, Chosen, Closed

\* The owner's own updates.
LEMMA UpdateHandled ==
  ASSUME TypeOK, NEW o \in Owners, NEW q \in Questions, NEW r, NEW w,
         \/ \E options \in Contents : Revise(o, q, r, w, options)
         \/ Reparent(o, q, r, w)
         \/ CancelByOwner(o, q, r, w)
         \/ \E replacement \in Questions : Supersede(o, q, r, w, replacement)
  PROVE  Handled(q)
<1>1. Pending(q) /\ questions[q].owner = o /\ questions[q] \in Question
  BY DEF Revise, Reparent, CancelByOwner, Supersede, Updatable, TypeOK
<1>2. NextRevision(q) \in Question /\ NextRevision(q).status = "pending" /\ NextRevision(q).owner = o
  BY <1>1 DEF NextRevision, Question, Pending
<1>3. ASSUME NEW options \in Contents, Revise(o, q, r, w, options) PROVE Handled(q)
  <2> DEFINE row == [NextRevision(q) EXCEPT !.options = options]
  <2>1. options \in SUBSET OptionValues
    BY DEF Contents
  <2>2. row \in Question /\ row.status = "pending" /\ row.owner = o
    BY <1>2, <2>1, RevisedTyping DEF Question
  <2>3. CommitRevision(q, "revision", row) /\ answers' = answers
    BY <1>3 DEF Revise
  <2> HIDE DEF row
  <2>4. QED
    BY <1>1, <2>2, <2>3, RevisionHandled
<1>4. ASSUME Reparent(o, q, r, w) PROVE Handled(q)
  BY <1>1, <1>2, <1>4, RevisionHandled DEF Reparent
<1>5. QED
  BY <1>1, <1>3, <1>4, ResolveHandled DEF CancelByOwner, Supersede

\* A change of owner reassigns the Question.
LEMMA ChangeOwnerHandled ==
  ASSUME TypeOK, NEW q \in Questions, NEW previous, NEW next \in Owners, NEW r, NEW w,
         ChangeOwner(q, previous, next, r, w)
  PROVE  Handled(q)
<1> DEFINE row == [questions[q] EXCEPT !.owner = next, !.ownerRevision = @ + 1]
<1>1. Pending(q) /\ questions[q] \in Question
  BY DEF ChangeOwner, TypeOK
<1>2. row.status = "pending" /\ row.owner = next /\ row.options = questions[q].options
  BY <1>1 DEF Question, Pending
<1>3. questions' = [questions EXCEPT ![q] = row] /\ answers' = answers
  BY DEF ChangeOwner
<1> HIDE DEF row
<1>4. Reassigned(q)
  BY <1>1, <1>2, <1>3 DEF Reassigned, TypeOK
<1>5. ASSUME NEW p \in Questions \ {q} PROVE Aside(p)
  BY <1>3, <1>5 DEF TypeOK, Unmoved, Aside
<1>6. QED
  BY <1>4, <1>5 DEF Handled, Chosen

\* A proposal offers one more option.
LEMMA ProposeHandled ==
  ASSUME TypeOK, RowSound, NEW o \in Owners, NEW q \in Questions, NEW value \in OptionValues,
         ProposeAnswer(o, q, value)
  PROVE  Handled(q)
<1> DEFINE row == [NextRevision(q) EXCEPT !.options = @ \cup {value}]
<1>1. Pending(q) /\ q \notin Overdue /\ questions[q] \in Question
  BY DEF ProposeAnswer, TypeOK
<1>2. /\ row.status = "pending" /\ row.owner = questions[q].owner
      /\ row.options \in SUBSET OptionValues
  BY <1>1 DEF NextRevision, Question, Pending
<1>3. questions' = [QuestionsAfterExpiry EXCEPT ![q] = row] /\ answers' = AnswersAfterExpiry
  BY DEF ProposeAnswer
<1> HIDE DEF row
<1>4. questions'[q] = row /\ answers'[q] = answers[q]
  BY <1>1, <1>3, ExpiryTyping DEF AnswersAfterExpiry
<1>5. Reoffered(q)
  BY <1>1, <1>2, <1>4 DEF Reoffered
<1>6. ASSUME NEW p \in Questions \ {q} PROVE Aside(p)
  BY <1>3, <1>6, ExpiryAside, ExpiryTyping
<1>7. QED
  BY <1>5, <1>6 DEF Handled, Chosen

\* Answer and Cancel close the Question in place.
LEMMA ClosingHandled ==
  ASSUME TypeOK, RowSound, NEW q \in Questions, NEW row \in AnswerRow,
         Pending(q), q \notin Overdue, Outcome(q, row),
         questions' = [QuestionsAfterExpiry EXCEPT ![q].status = row.status],
         answers' = [AnswersAfterExpiry EXCEPT ![q] = Append(@, row)]
  PROVE  Handled(q)
<1>1. /\ questions[q] \in Question
      /\ QuestionsAfterExpiry[q] = questions[q] /\ AnswersAfterExpiry[q] = answers[q]
  BY DEF TypeOK, QuestionsAfterExpiry, AnswersAfterExpiry
<1>2. questions'[q] = [questions[q] EXCEPT !.status = row.status] /\ answers'[q] = Append(answers[q], row)
  BY <1>1, ExpiryTyping
<1>3. ClosedBy(q, row)
  BY <1>1, <1>2 DEF ClosedBy, Question
<1>4. ASSUME NEW p \in Questions \ {q} PROVE Aside(p)
  BY <1>4, ExpiryAside, ExpiryTyping
<1>5. QED
  BY <1>3, <1>4 DEF Handled, Chosen, Closed

\* An Answer starts unread.
LEMMA AnswerHandled ==
  ASSUME TypeOK, RowSound, NEW q \in Questions, NEW selected \in SUBSET (OptionValues \cup {Other}),
         NEW expected, Answer(q, selected, expected)
  PROVE  Handled(q)
<1> DEFINE row == [revision |-> questions[q].revision, status |-> "answered",
                   selected |-> selected, reader |-> Nobody]
<1>1. row \in AnswerRow
  BY DEF TypeOK, AnswerRow, Question, Terminal
<1>2. Outcome(q, row) /\ row.status = "answered"
  BY DEF Outcome, Answer, ValidSelection, Terminal
<1>3. answers' = [AnswersAfterExpiry EXCEPT ![q] = Append(@, row)]
  BY DEF Answer
<1> HIDE DEF row
<1>4. QED
  BY <1>1, <1>2, <1>3, ClosingHandled DEF Answer

\* A cancellation has been read by the owner from the start.
LEMMA CancelHandled ==
  ASSUME TypeOK, RowSound, NEW q \in Questions, Cancel(q)
  PROVE  Handled(q)
<1> DEFINE row == LifecycleRow("cancelled", questions[q].revision, questions[q].owner)
<1>1. questions[q].owner \in Owners /\ questions[q] \in Question
  BY DEF Cancel, Pending, RowSound, Exists, TypeOK
<1>2. row \in AnswerRow
  BY <1>1 DEF LifecycleRow, AnswerRow, Question, Terminal
<1>3. Outcome(q, row) /\ row.status = "cancelled"
  BY DEF Outcome, LifecycleRow, Terminal
<1>4. answers' = [AnswersAfterExpiry EXCEPT ![q] = Append(@, row)]
  BY DEF Cancel
<1> HIDE DEF row
<1>5. QED
  BY <1>2, <1>3, <1>4, ClosingHandled DEF Cancel

\* A read that changes anything is the first of its Question.
LEMMA ReadHandled ==
  ASSUME TypeOK, NEW q \in Questions, NEW reader \in Owners, ReadAnswer(q, reader)
  PROVE  Handled(q)
<1>1. answers'[q] = [answers[q] EXCEPT ![Len(answers[q])].reader = reader]
  BY DEF ReadAnswer, TypeOK
<1>2. FirstRead(q)
  BY <1>1 DEF ReadAnswer, FirstRead
<1>3. ASSUME NEW p \in Questions \ {q} PROVE Aside(p)
  BY <1>3 DEF ReadAnswer, TypeOK, Unmoved, Aside
<1>4. QED
  BY <1>2, <1>3 DEF Handled, Chosen

\* The sweep: of the Questions that expire any one is the one handled.
LEMMA SweepHandled ==
  ASSUME TypeOK, RowSound, ExpireDue
  PROVE  \E q \in Questions : Handled(q)
<1>1. \A p \in Questions : Aside(p)
  BY ExpiryAside DEF ExpireDue
<1>2. PICK q \in Questions : q \in Overdue
  BY DEF ExpireDue, Overdue
<1>3. QED
  BY <1>1, <1>2 DEF Handled, Chosen, Aside

\* Every step handles one Question, or leaves the tables the hand-off is read
\* from alone.
LEMMA StepHandled ==
  ASSUME TypeOK, RowSound, [Next]_vars
  PROVE  (\E q \in Questions : Handled(q)) \/ (\A q \in Questions : Unmoved(q))
<1>1. CASE UNCHANGED <<questions, answers>>
  BY <1>1 DEF Unmoved
<1>2. CASE AgentStep
  <2>1. PICK o \in Owners, q \in Questions :
          \/ \E options \in Contents, expiry \in {"never", "later"} : Create(o, q, options, expiry)
          \/ \E r \in 1..MaxRevision, w \in 1..MaxOwnerRevision : OwnerUpdate(o, q, r, w)
          \/ \E value \in OptionValues : ProposeAnswer(o, q, value)
          \/ GetAnswer(o, q)
          \/ GetAnswerForRecovery(o, q)
    BY <1>2 DEF AgentStep
  <2>2. ASSUME NEW r, NEW w, OwnerUpdate(o, q, r, w) PROVE Handled(q)
    <3>1. ASSUME NEW n \in Owners, TransferQuestionOwner(o, q, n, r, w) \/ TakeoverQuestionOwner(o, q, n, r, w)
          PROVE  Handled(q)
      BY <3>1, ChangeOwnerHandled DEF TransferQuestionOwner, TakeoverQuestionOwner
    <3>2. QED
      BY <2>2, <3>1, UpdateHandled DEF OwnerUpdate
  <2>3. ASSUME GetAnswer(o, q) \/ GetAnswerForRecovery(o, q) PROVE Handled(q)
    BY <2>3, ReadHandled DEF GetAnswer, GetAnswerForRecovery
  <2>4. QED
    BY <2>1, <2>2, <2>3, CreateHandled, ProposeHandled
<1>3. CASE HumanStep
  BY <1>3, AnswerHandled, CancelHandled DEF HumanStep
<1>4. CASE ExpireDue
  BY <1>4, SweepHandled
<1>5. CASE \E q \in Questions : Elapse(q)
  BY <1>5 DEF Elapse, TypeOK, Question, Unmoved
<1>6. CASE OwnerStep \/ Restart \/ UNCHANGED vars
  BY <1>1, <1>6 DEF OwnerStep, WaitForPostbox, AbortWait, PresenceChange, Restart, vars, store
<1>7. QED
  BY <1>2, <1>3, <1>4, <1>5, <1>6 DEF Next

-----------------------------------------------------------------------------
(* What that means for the hand-off *)

\* DeskEntry as a function of the two rows it is read from.
Entry(row, rows) ==
  [outcome |-> CASE row.status = "absent" -> "unasked"
                 [] row.status = "pending" -> "open"
                 [] OTHER -> row.status,
   responsible |-> row.owner,
   offer |-> row.options,
   chosen |-> IF rows # <<>> THEN rows[1].selected ELSE {},
   reader |-> IF rows # <<>> THEN rows[1].reader ELSE Nobody]

Open(owner, options) ==
  [outcome |-> "open", responsible |-> owner, offer |-> options, chosen |-> {}, reader |-> Nobody]
Decided(outcome, owner, options, chosen, reader) ==
  [outcome |-> outcome, responsible |-> owner, offer |-> options, chosen |-> chosen, reader |-> reader]

LEMMA EntryForm ==
  ASSUME NEW q \in Questions
  PROVE  /\ DeskEntry(q) = Entry(questions[q], answers[q])
         /\ DeskEntry(q)' = Entry(questions'[q], answers'[q])
BY DEF DeskEntry, Entry

LEMMA OpenForm ==
  ASSUME NEW row, row.status = "pending"
  PROVE  Entry(row, <<>>) = Open(row.owner, row.options)
BY DEF Entry, Open

LEMMA DecidedForm ==
  ASSUME NEW row, row.status \in Terminal, NEW rows, rows # <<>>
  PROVE  Entry(row, rows) = Decided(row.status, row.owner, row.options, rows[1].selected, rows[1].reader)
BY DEF Entry, Decided, Terminal

\* The steps of the hand-off, on entries written out.
LEMMA AskedForm ==
  ASSUME NEW o, NEW v
  PROVE  Handoff!Asked(o, v) = Open(o, v)
<1>1. [Handoff!Unasked EXCEPT !.outcome = "open"] = Open(Nobody, {})
  BY DEF Handoff!Unasked, Open
<1>2. [Open(Nobody, {}) EXCEPT !.responsible = o] = Open(o, {})
  BY DEF Open
<1>3. [Open(o, {}) EXCEPT !.offer = v] = Open(o, v)
  BY DEF Open
<1>4. QED
  BY <1>1, <1>2, <1>3 DEF Handoff!Asked

LEMMA AmendForm ==
  ASSUME NEW o, NEW v, NEW w \in SUBSET OptionValues
  PROVE  Handoff!Amend(Open(o, v), Open(o, w))
<1>1. [Open(o, v) EXCEPT !.offer = w] = Open(o, w) /\ Open(o, v).outcome = "open"
  BY DEF Open
<1>2. QED
  BY <1>1 DEF Handoff!Amend

LEMMA HandOverForm ==
  ASSUME NEW o, NEW v, NEW n \in Owners
  PROVE  Handoff!HandOver(Open(o, v), Open(n, v))
<1>1. [Open(o, v) EXCEPT !.responsible = n] = Open(n, v) /\ Open(o, v).outcome = "open"
  BY DEF Open
<1>2. QED
  BY <1>1 DEF Handoff!HandOver

LEMMA DecideForm ==
  ASSUME NEW o, NEW v, NEW w \in SUBSET (v \cup {Other})
  PROVE  Handoff!Decide(Open(o, v), Decided("answered", o, v, w, Nobody))
<1>1. Open(o, v).outcome = "open" /\ Open(o, v).offer = v
  BY DEF Open
<1>2. [Open(o, v) EXCEPT !.outcome = "answered"] = Decided("answered", o, v, {}, Nobody)
  BY DEF Open, Decided
<1>3. [Decided("answered", o, v, {}, Nobody) EXCEPT !.chosen = w] = Decided("answered", o, v, w, Nobody)
  BY DEF Decided
<1>4. QED
  BY <1>1, <1>2, <1>3 DEF Handoff!Decide

LEMMA DropForm ==
  ASSUME NEW o, NEW v, NEW outcome
  PROVE  Handoff!Drop(Open(o, v), Decided(outcome, o, v, {}, o), outcome)
<1>1. Open(o, v).outcome = "open" /\ Open(o, v).responsible = o
  BY DEF Open
<1>2. [Open(o, v) EXCEPT !.outcome = outcome] = Decided(outcome, o, v, {}, Nobody)
  BY DEF Open, Decided
<1>3. [Decided(outcome, o, v, {}, Nobody) EXCEPT !.reader = o] = Decided(outcome, o, v, {}, o)
  BY DEF Decided
<1>4. QED
  BY <1>1, <1>2, <1>3 DEF Handoff!Drop

\* A Question that is not stored has neither owner nor options.
Blank == \A q \in Questions : ~Exists(q) => questions[q].owner = Nobody /\ questions[q].options = {}

LEMMA StepKeepsBlank ==
  ASSUME TypeOK, RowSound, Blank, [Next]_vars
  PROVE  Blank'
<1>1. ASSUME NEW q \in Questions, Chosen(q) \/ Aside(q), ~Exists(q)'
      PROVE  questions'[q].owner = Nobody /\ questions'[q].options = {}
  <2>1. Unmoved(q) \/ FirstRead(q)
    BY <1>1 DEF Chosen, Aside, Posed, Reoffered, Reassigned, Closed, ClosedBy, Outcome, Exists, Terminal
  <2>2. QED
    BY <1>1, <2>1 DEF Unmoved, FirstRead, Blank, Exists
<1>2. QED
  BY <1>1, StepHandled DEF Handled, Chosen, Blank

\* Closing a Question decides it or drops it.
LEMMA ClosedAdvances ==
  ASSUME TypeOK, NEW q \in Questions, answers[q] = <<>>, NEW row \in AnswerRow, ClosedBy(q, row)
  PROVE  /\ Handoff!Advance(DeskEntry(q), DeskEntry(q)')
         /\ questions'[q].status = "expired" => Handoff!Expire(DeskEntry(q), DeskEntry(q)')
<1> DEFINE owner == questions[q].owner
           options == questions[q].options
<1>1. answers'[q] = <<row>> /\ answers'[q] # <<>> /\ answers'[q][1] = row
  BY DEF ClosedBy
<1>2. DeskEntry(q) = Open(owner, options)
  BY EntryForm, OpenForm DEF ClosedBy, Pending
<1>3. DeskEntry(q)' = Decided(row.status, owner, options, row.selected, row.reader)
  BY <1>1, EntryForm, DecidedForm DEF ClosedBy, Outcome
<1>4. CASE row.status = "answered"
  <2>1. row.reader = Nobody /\ row.selected \in SUBSET (options \cup {Other})
    BY <1>4 DEF ClosedBy, Outcome
  <2>2. Handoff!Decide(DeskEntry(q), DeskEntry(q)')
    BY <1>2, <1>3, <1>4, <2>1, DecideForm
  <2>3. QED
    BY <1>4, <2>2 DEF Handoff!Advance, ClosedBy
<1>5. CASE row.status # "answered"
  <2>1. row.reader = owner /\ row.selected = {} /\ row.status \in {"cancelled", "expired", "superseded"}
    BY <1>5 DEF ClosedBy, Outcome, Terminal
  <2>2. Handoff!Drop(DeskEntry(q), DeskEntry(q)', row.status)
    BY <1>2, <1>3, <2>1, DropForm
  <2>3. QED
    BY <2>1, <2>2 DEF Handoff!Advance, Handoff!Expire, ClosedBy
<1>6. QED
  BY <1>4, <1>5

\* The Question a call handles advances, or stays.
LEMMA ChosenAdvances ==
  ASSUME TypeOK, ResolutionRecorded, Blank, NEW q \in Questions, Chosen(q)
  PROVE  DeskEntry(q)' = DeskEntry(q) \/ Handoff!Advance(DeskEntry(q), DeskEntry(q)')
<1>1. questions[q].status \notin Terminal => answers[q] = <<>>
  BY DEF ResolutionRecorded
<1>2. CASE Unmoved(q)
  BY <1>2 DEF Unmoved, DeskEntry
<1>3. CASE Posed(q)
  <2>1. questions[q].status = "absent" /\ answers[q] = <<>> /\ answers'[q] = <<>>
    BY <1>1, <1>3 DEF Posed, Exists, Terminal
  <2>2. DeskEntry(q) = Handoff!Unasked
    BY <2>1 DEF DeskEntry, Handoff!Unasked, Blank, Exists
  <2>3. DeskEntry(q)' = Open(questions'[q].owner, questions'[q].options)
    BY <1>3, <2>1, EntryForm, OpenForm DEF Posed
  <2>4. DeskEntry(q)' = Handoff!Asked(questions'[q].owner, questions'[q].options)
    BY <2>3, AskedForm
  <2>5. QED
    BY <1>3, <2>2, <2>4 DEF Posed, Handoff!Ask, Handoff!Advance
<1>4. CASE Reoffered(q) \/ Reassigned(q)
  <2>1. DeskEntry(q) = Open(questions[q].owner, questions[q].options)
    BY <1>1, <1>4, EntryForm, OpenForm DEF Reoffered, Reassigned, Pending, Terminal
  <2>2. DeskEntry(q)' = Open(questions'[q].owner, questions'[q].options)
    BY <1>1, <1>4, EntryForm, OpenForm DEF Reoffered, Reassigned, Pending, Terminal
  <2>3. Handoff!Amend(DeskEntry(q), DeskEntry(q)') \/ Handoff!HandOver(DeskEntry(q), DeskEntry(q)')
    BY <1>4, <2>1, <2>2, AmendForm, HandOverForm DEF Reoffered, Reassigned
  <2>4. QED
    BY <2>3 DEF Handoff!Advance
<1>5. CASE Closed(q)
  BY <1>1, <1>5, ClosedAdvances DEF Closed, ClosedBy, Pending, Terminal
<1>6. CASE FirstRead(q)
  <2>1. /\ questions[q].status = "answered" /\ questions'[q] = questions[q]
        /\ Len(answers[q]) = 1 /\ answers[q][1].reader = Nobody
    BY <1>6 DEF FirstRead, ResolutionRecorded, Terminal
  <2>2. PICK o \in Owners : answers'[q] = [answers[q] EXCEPT ![1].reader = o]
    BY <1>6, <2>1 DEF FirstRead
  <2>3. answers[q] \in Seq(AnswerRow)
    BY DEF TypeOK
  <2>4. /\ answers[q] # <<>> /\ answers'[q] # <<>>
        /\ answers'[q][1].selected = answers[q][1].selected /\ answers'[q][1].reader = o
    BY <2>1, <2>2, <2>3 DEF AnswerRow
  <2>5. DeskEntry(q) = Decided("answered", questions[q].owner, questions[q].options, answers[q][1].selected, Nobody)
    BY <2>1, <2>4, EntryForm, DecidedForm DEF Terminal
  <2>6. DeskEntry(q)' = Decided("answered", questions[q].owner, questions[q].options, answers[q][1].selected, o)
    BY <2>1, <2>4, EntryForm, DecidedForm DEF Terminal
  <2>7. Handoff!Consume(DeskEntry(q), DeskEntry(q)')
    BY <2>5, <2>6 DEF Decided, Handoff!Consume
  <2>8. QED
    BY <2>7 DEF Handoff!Advance
<1>7. QED
  BY <1>2, <1>3, <1>4, <1>5, <1>6 DEF Chosen

\* The others stay, or expire.
LEMMA AsideExpires ==
  ASSUME TypeOK, ResolutionRecorded, NEW p \in Questions, Aside(p)
  PROVE  DeskEntry(p)' = DeskEntry(p) \/ Handoff!Expire(DeskEntry(p), DeskEntry(p)')
<1>1. CASE Unmoved(p)
  BY <1>1 DEF Unmoved, DeskEntry
<1>2. CASE Closed(p) /\ questions'[p].status = "expired"
  <2>1. answers[p] = <<>>
    BY <1>2 DEF Closed, ClosedBy, Pending, ResolutionRecorded, Terminal
  <2>2. QED
    BY <1>2, <2>1, ClosedAdvances DEF Closed
<1>3. QED
  BY <1>1, <1>2 DEF Aside

\* The store hands decisions over as promised: whatever the order of calls and
\* for any number of owners, Questions and options, each call is a step of
\* DecisionHandoff, or none.
THEOREM StoreImplementsHandoff == Spec => ImplementsHandoff
<1> DEFINE shown == [q \in Questions |-> DeskEntry(q)]
<1>1. Init => Handoff!Init /\ Blank
  BY DEF Init, Absent, DeskEntry, Exists, Blank, Handoff!Init, Handoff!Unasked
<1>2. TypeOK /\ RowSound /\ Blank /\ [Next]_vars => Blank'
  BY StepKeepsBlank
<1>3. ASSUME TypeOK, RowSound, ResolutionRecorded, Blank, [Next]_vars
      PROVE  [Handoff!Next]_shown
  <2>1. CASE \A q \in Questions : Unmoved(q)
    BY <2>1 DEF Unmoved, DeskEntry
  <2>2. ASSUME NEW q \in Questions, Handled(q) PROVE Handoff!Next
    <3>1. shown'[q] = shown[q] \/ Handoff!Advance(shown[q], shown'[q])
      BY <1>3, <2>2, ChosenAdvances DEF Handled
    <3>2. \A p \in Questions \ {q} : shown'[p] = shown[p] \/ Handoff!Expire(shown[p], shown'[p])
      BY <1>3, <2>2, AsideExpires DEF Handled
    <3>3. QED
      BY <3>1, <3>2 DEF Handoff!Next
  <2>3. QED
    BY <1>3, <2>1, <2>2, StepHandled
<1>4. QED
  BY <1>1, <1>2, <1>3, TypeCorrect, RowsSound, OneOutcome, PTL
     DEF Spec, ImplementsHandoff, Handoff!Spec
=============================================================================
