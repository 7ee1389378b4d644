-------------------------- MODULE QuestionHierarchy --------------------------
(* The tree of Questions: questions.parent_question_id, the three calls that *)
(* write it (create, createBatch and updateQuestion's reparent) and the two  *)
(* recursive queries that read it (openDescendantIds, nextUnreadQuestionId). *)
(* Everything else about a Question is in RequestStore; here it has an       *)
(* owner, a phase and, once answered, a place in the order of Answers.       *)
EXTENDS Naturals, Sequences, FiniteSets

CONSTANTS
  Owners, Questions,
  NoParent,        \* a Question at the top level
  MaxDepth,        \* levels of a hierarchy, 4 in the code
  MaxChildren,     \* direct children of a Question, 5 in the code
  MaxBatch         \* drafts in a batch (model checking only)

ASSUME HierarchyAssumption ==
  /\ NoParent \notin Questions /\ IsFiniteSet(Questions)
  /\ MaxDepth \in Nat \ {0} /\ MaxChildren \in Nat /\ MaxBatch \in Nat

VARIABLES
  parent,    \* parent[q], NoParent also while q does not exist
  owner,     \* owner[q]
  phase,     \* "absent", "pending" or "closed"
  unread,    \* the Questions with an unread Answer, oldest Answer first
  bypassed   \* history: the limits that a call went past without a look

vars == <<parent, owner, phase, unread, bypassed>>

\* Definitions named Slip... are faulty variants of the one that follows, used
\* by no specification: a property has to notice each of them.

Known == {q \in Questions : phase[q] # "absent"}

-----------------------------------------------------------------------------
(* Reading a tree, given as the function up from a Question to its parent. *)

ChildrenIn(up, q) == {c \in Questions : up[c] = q}

AncestorsIn(up, q) ==
  LET climb[n \in 0..Cardinality(Questions)] ==
        IF n = 0 THEN {up[q]} \ {NoParent}
        ELSE climb[n - 1] \cup ({up[p] : p \in climb[n - 1]} \ {NoParent})
  IN climb[Cardinality(Questions)]

DescendantsIn(up, q) == {d \in Questions : q \in AncestorsIn(up, d)}
LevelIn(up, q) == 1 + Cardinality(AncestorsIn(up, q))

\* validateHierarchy: the limits a Question below p has to respect.
SlipHierarchyAllows(up, known, p) ==
  p # NoParent => /\ p \in known
                  /\ Cardinality(ChildrenIn(up, p)) <= MaxChildren
                  /\ LevelIn(up, p) <= MaxDepth
HierarchyAllows(up, known, p) ==
  p # NoParent => /\ p \in known
                  /\ Cardinality(ChildrenIn(up, p)) < MaxChildren
                  /\ LevelIn(up, p) + 1 <= MaxDepth

-----------------------------------------------------------------------------
(* ask.create calls create, which leaves the parent to the foreign key of    *)
(* the table; createOne, which asks validateHierarchy first, has no caller.  *)
(* Below a Question it may go past either limit.                             *)

CreateQuestion(o, q, p) ==
  /\ q \notin Known
  /\ p \in Known \cup {NoParent}
  /\ parent' = [parent EXCEPT ![q] = p]
  /\ owner' = [owner EXCEPT ![q] = o]
  /\ phase' = [phase EXCEPT ![q] = "pending"]
  /\ bypassed' = IF p = NoParent THEN bypassed ELSE {"children", "depth"}
  /\ UNCHANGED unread

-----------------------------------------------------------------------------
(* ask.batch.create: the drafts are handled in order in one transaction, and *)
(* each sees what the earlier ones created.  A draft names its parent by id, *)
(* by the position (localRef) of an earlier draft, or not at all.            *)

Draft == [id: Questions, via: {"question"}, ref: Questions \cup {NoParent}, images: {"staged", "missing"}]
         \cup [id: Questions, via: {"local"}, ref: 1..MaxBatch, images: {"staged", "missing"}]

\* What draft i makes of the batch so far.  Rejecting a draft for its images
\* rolls back that draft alone; any other rejection aborts the rest.
HandleDraft(drafts, i, batch) ==
  LET draft == drafts[i]
      p == IF draft.via = "local" THEN drafts[draft.ref].id ELSE draft.ref
  IN CASE batch.aborted -> batch
       [] ~batch.aborted /\ draft.id \in batch.known -> [batch EXCEPT !.handled = @ \cup {i}]
       [] OTHER ->
          IF \/ draft.via = "local" /\ draft.ref \notin batch.handled
             \/ ~HierarchyAllows(batch.up, batch.known, p)
          THEN [batch EXCEPT !.aborted = TRUE]
          ELSE IF draft.images = "missing" THEN batch
          ELSE [batch EXCEPT !.up[draft.id] = p, !.known = @ \cup {draft.id},
                             !.handled = @ \cup {i}]

AfterBatch(drafts) ==
  LET upTo[i \in 0..Len(drafts)] ==
        IF i = 0
        THEN [up |-> parent, known |-> Known, handled |-> {}, aborted |-> FALSE]
        ELSE HandleDraft(drafts, i, upTo[i - 1])
  IN upTo[Len(drafts)]

CreateBatch(o, drafts) ==
  LET batch == AfterBatch(drafts)
      created == batch.known \ Known
  IN /\ parent' = batch.up
     /\ owner' = [q \in Questions |-> IF q \in created THEN o ELSE owner[q]]
     /\ phase' = [q \in Questions |-> IF q \in created THEN "pending" ELSE phase[q]]
     /\ UNCHANGED <<unread, bypassed>>

-----------------------------------------------------------------------------
(* Moving a Question, by its owner, while it is pending.  validateNewParent *)
(* asks validateHierarchy about the Question itself, not about what hangs   *)
(* below it, which may come to be too deep. *)

SlipNewParentAllowed(q, p) ==
  p # NoParent => p # q /\ p \in Known /\ owner[p] = owner[q] /\ HierarchyAllows(parent, Known, p)
NewParentAllowed(q, p) ==
  p # NoParent => /\ p # q
                  /\ p \in Known
                  /\ owner[p] = owner[q]
                  /\ HierarchyAllows(parent, Known, p)
                  /\ p \notin DescendantsIn(parent, q)

Reparent(o, q, p) ==
  /\ phase[q] = "pending"
  /\ owner[q] = o
  /\ NewParentAllowed(q, p)
  /\ parent' = [parent EXCEPT ![q] = p]
  /\ bypassed' = bypassed \cup {limit \in {"depth"} : p # NoParent /\ DescendantsIn(parent, q) # {}}
  /\ UNCHANGED <<owner, phase, unread>>

Transfer(q, o) ==
  /\ phase[q] = "pending"
  /\ owner' = [owner EXCEPT ![q] = o]
  /\ UNCHANGED <<parent, phase, unread, bypassed>>

Answer(q) ==
  /\ phase[q] = "pending"
  /\ phase' = [phase EXCEPT ![q] = "closed"]
  /\ unread' = Append(unread, q)
  /\ UNCHANGED <<parent, owner, bypassed>>

\* Cancelled, expired or superseded.
Withdraw(q) ==
  /\ phase[q] = "pending"
  /\ phase' = [phase EXCEPT ![q] = "closed"]
  /\ UNCHANGED <<parent, owner, unread, bypassed>>

ReadAnswer(q) ==
  /\ \E i \in DOMAIN unread :
       /\ unread[i] = q
       /\ unread' = SubSeq(unread, 1, i - 1) \o SubSeq(unread, i + 1, Len(unread))
  /\ UNCHANGED <<parent, owner, phase, bypassed>>

-----------------------------------------------------------------------------
(* nextUnreadQuestionId: an Answer with unread Answers below it comes first, *)
(* then the oldest. *)

UnreadIndexes(o) == {i \in DOMAIN unread : owner[unread[i]] = o}

UnreadBelow(q) == {d \in DescendantsIn(parent, q) : \E i \in DOMAIN unread : unread[i] = d}

SlipRanked(o) == UnreadIndexes(o)
Ranked(o) ==
  LET above == {i \in UnreadIndexes(o) : UnreadBelow(unread[i]) # {}}
  IN IF above # {} THEN above ELSE UnreadIndexes(o)

NextUnread(o) == unread[CHOOSE i \in Ranked(o) : \A j \in Ranked(o) : i <= j]

-----------------------------------------------------------------------------

Init ==
  /\ parent = [q \in Questions |-> NoParent]
  /\ owner = [q \in Questions |-> CHOOSE o \in Owners : TRUE]
  /\ phase = [q \in Questions |-> "absent"]
  /\ unread = <<>>
  /\ bypassed = {}

Batches == UNION {[1..n -> Draft] : n \in 1..MaxBatch}

Lifecycle ==
  \E q \in Questions :
    \/ \E o \in Owners : Transfer(q, o)
    \/ Answer(q) \/ Withdraw(q) \/ ReadAnswer(q)

Creating == \E o \in Owners, q \in Questions, p \in Questions \cup {NoParent} : CreateQuestion(o, q, p)
Batching == \E o \in Owners, drafts \in Batches : CreateBatch(o, drafts)
Moving == \E o \in Owners, q \in Questions, p \in Questions \cup {NoParent} : Reparent(o, q, p)

Next == Lifecycle \/ Creating \/ Batching \/ Moving
Spec == Init /\ [][Next]_vars

-----------------------------------------------------------------------------
(* Properties *)

\* No Question is below itself, and every parent exists.  On a cycle the
\* recursive queries behind answer and wait_for_postbox would not return.
Forest ==
  \A q \in Questions : /\ q \notin AncestorsIn(parent, q)
                       /\ parent[q] \in Known \cup {NoParent}
                       /\ q \notin Known => parent[q] = NoParent

\* "A Question may have at most five direct children"
ChildLimit == \A q \in Questions : Cardinality(ChildrenIn(parent, q)) <= MaxChildren

\* "the hierarchy may have at most four levels"
DepthLimit == \A q \in Questions : LevelIn(parent, q) <= MaxDepth

\* Batches respect both limits, although their drafts become each other's parents
\* and one may be dropped for its images, and so do moves: a limit is exceeded
\* only after a Question was created below another by itself, or, as to the
\* levels, one was moved below another with what hangs below it.
LimitsKept ==
  /\ "children" \notin bypassed => ChildLimit
  /\ "depth" \notin bypassed => DepthLimit

\* wait_for_postbox "chooses an ancestor before its descendant".
AncestorFirst ==
  \A o \in Owners : UnreadIndexes(o) # {} =>
    \A i \in UnreadIndexes(o) : unread[i] \notin AncestorsIn(parent, NextUnread(o))

\* What the query guarantees of it: an Answer with nothing unread below it is
\* handed out only when no unread Answer of that owner is above it.
LeafWaitsForAncestors ==
  \A o \in Owners : (UnreadIndexes(o) # {} /\ UnreadBelow(NextUnread(o)) = {}) =>
    \A i \in UnreadIndexes(o) : unread[i] \notin AncestorsIn(parent, NextUnread(o))
=============================================================================
