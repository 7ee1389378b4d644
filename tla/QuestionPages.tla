---------------------------- MODULE QuestionPages ----------------------------
(* question.list and question.status.list, read page by page (requestStore.ts *)
(* listQuestions and listQuestionStatusPage).  A page is one query: the rows  *)
(* of a filter behind the cursor, in the order of creation time and Question  *)
(* id, and one row more to know whether there is another page.  Nothing is    *)
(* kept between two pages but the cursor, which names the last row and the    *)
(* query it belongs to, so that Questions may be created, answered, read,     *)
(* closed and handed over between them.  A Question is the position of its id *)
(* among the ids.                                                             *)
EXTENDS Naturals, FiniteSets

CONSTANTS
  PageQuestions,    \* Questions, by the position of their id
  PageFeatures,     \* features a session may be in
  PageWants,        \* the status filters readers use
  PageScopes,       \* the scopes they ask for
  PageSizes,
  MaxCreatedAt, MaxRowChanges    \* bounds of the checked instances

Wants == {"pending", "read", "unread", "actionable", "everything"}
Scopes == {"owner", "feature", "global"}

ASSUME PagesAssumption ==
  /\ PageQuestions \subseteq Nat /\ IsFiniteSet(PageQuestions)
  /\ PageWants \subseteq Wants /\ PageScopes \subseteq Scopes
  /\ PageSizes \subseteq Nat \ {0}
  /\ MaxCreatedAt \in Nat /\ MaxRowChanges \in Nat

VARIABLES
  row,          \* each Question: status, whose it is, its feature, createdAt
  callerFeature,\* the feature of the reading session
  reading,      \* the filter being read, the cursor, and how far the reader is
  listed,       \* how often the pages have named each Question
  steady,       \* history: Questions that matched at every moment so far
  rowChanges

pageVars == <<row, callerFeature, reading, listed, steady, rowChanges>>

PageFilters == [want : PageWants, scope : PageScopes]
Beginning == [at |-> 0, id |-> 0, feature |-> "none", first |-> TRUE]
Statuses == {"none", "pending", "unread", "read", "closed"}
Rows == [status : Statuses, mine : BOOLEAN, feature : PageFeatures, at : Nat]
Boundaries == [at : Nat, id : Nat, feature : PageFeatures \cup {"none"}, first : BOOLEAN]

PagesTypeOk ==
  /\ row \in [PageQuestions -> Rows]
  /\ callerFeature \in PageFeatures
  /\ reading \in [phase : {"idle", "reading", "done"}, filter : PageFilters, cursor : Boundaries]
  /\ listed \in [PageQuestions -> Nat]
  /\ steady \subseteq PageQuestions
  /\ rowChanges \in Nat

\* The conditions on a row: its status, and applyQuestionDiscoveryScope.
HasStatus(r, want) ==
  \/ want = "everything" /\ r.status # "none"
  \/ want = r.status
  \/ want = "actionable" /\ r.status \in {"pending", "unread"}
InScope(r, scope, feature) ==
  \/ scope = "global"
  \/ scope = "owner" /\ r.mine
  \/ scope = "feature" /\ r.feature = feature
Matches(r, filter, feature) ==
  HasStatus(r, filter.want) /\ InScope(r, filter.scope, feature)

\* Definitions named Slip... are faulty variants of the one that follows, used
\* by no specification: a property has to notice each of them.

\* ORDER BY created_at, question_id, and the keyset condition.
Before(q, p) == row[q].at < row[p].at \/ (row[q].at = row[p].at /\ q < p)
SlipBehind(c, q) == c.first \/ row[q].at > c.at
Behind(c, q) == c.first \/ row[q].at > c.at \/ (row[q].at = c.at /\ q > c.id)

Remaining(filter, c) ==
  {q \in PageQuestions : Matches(row[q], filter, callerFeature) /\ Behind(c, q)}

\* The rows of a page that ends with `last`.
UpTo(last, rows) == {q \in rows : q = last \/ Before(q, last)}
CursorAt(p) == [at |-> row[p].at, id |-> p, feature |-> callerFeature, first |-> FALSE]

PagesInit ==
  /\ row = [q \in PageQuestions |-> [status |-> "none", mine |-> TRUE, at |-> 0,
                                     feature |-> CHOOSE f \in PageFeatures : TRUE]]
  /\ callerFeature \in PageFeatures
  /\ \E f \in PageFilters : reading = [phase |-> "idle", filter |-> f, cursor |-> Beginning]
  /\ listed = [q \in PageQuestions |-> 0]
  /\ steady = {} /\ rowChanges = 0

-----------------------------------------------------------------------------
(* The store between two pages.                                              *)

Stays(r) == {q \in steady : Matches(r[q], reading.filter, reading.cursor.feature)}
Changes(q, r) ==
  /\ rowChanges < MaxRowChanges /\ rowChanges' = rowChanges + 1
  /\ row' = [row EXCEPT ![q] = r]
  /\ steady' = Stays(row')
  /\ UNCHANGED <<callerFeature, reading, listed>>

\* create: the id is the client's, the time the server's clock, which may be
\* set back.
CreateRow(q) ==
  /\ row[q].status = "none"
  /\ \E at \in 0..MaxCreatedAt, mine \in BOOLEAN, f \in PageFeatures :
       Changes(q, [status |-> "pending", mine |-> mine, feature |-> f, at |-> at])
\* answerFromWeb, cancel and expiry.
AnswerRow(q) ==
  row[q].status = "pending" /\ Changes(q, [row[q] EXCEPT !.status = "unread"])
CloseRow(q) ==
  row[q].status = "pending" /\ Changes(q, [row[q] EXCEPT !.status = "closed"])
\* readAnswer of the owner.
ReadRow(q) ==
  row[q].status = "unread" /\ Changes(q, [row[q] EXCEPT !.status = "read"])
\* transfer and takeover: the Question keeps its grouping.
HandOver(q) ==
  row[q].status = "pending" /\ Changes(q, [row[q] EXCEPT !.mine = ~row[q].mine])

-----------------------------------------------------------------------------
(* The reader.                                                               *)

\* feature.action: the session moves to another feature.
SwitchFeature(f) ==
  /\ f # callerFeature /\ callerFeature' = f
  /\ rowChanges < MaxRowChanges /\ rowChanges' = rowChanges + 1
  /\ UNCHANGED <<row, reading, listed, steady>>

\* A page is the first `size` of the rows, and all of them when SQL's LIMIT
\* size + 1 finds no more: then there is no next cursor and the reader has it
\* all.  It is added to what the reader has.
Adds(P) == listed' = [q \in PageQuestions |-> listed[q] + IF q \in P THEN 1 ELSE 0]
Receives(filter, rows) ==
  \E size \in PageSizes :
    \/ /\ Cardinality(rows) <= size /\ Adds(rows)
       /\ reading' = [phase |-> "done", filter |-> filter,
                        cursor |-> [Beginning EXCEPT !.feature = callerFeature]]
    \/ \E last \in rows :
         /\ Cardinality(UpTo(last, rows)) = size /\ UpTo(last, rows) # rows
         /\ Adds(UpTo(last, rows))
         /\ reading' = [phase |-> "reading", filter |-> filter, cursor |-> CursorAt(last)]

\* The first page: no cursor.
FirstPage(filter) ==
  /\ reading.phase = "idle"
  /\ Receives(filter, Remaining(filter, Beginning))
  /\ steady' = Remaining(filter, Beginning)
  /\ UNCHANGED <<row, callerFeature, rowChanges>>

\* A page behind a cursor of the same query, of any size.
NextPage ==
  /\ reading.phase = "reading" /\ reading.cursor.feature = callerFeature
  /\ Receives(reading.filter, Remaining(reading.filter, reading.cursor))
  /\ UNCHANGED <<row, callerFeature, steady, rowChanges>>

\* invalid_cursor: the cursor is of another caller, or of another filter.
Refused ==
  /\ reading.phase = "reading"
  /\ \/ reading.cursor.feature # callerFeature
     \/ \E f \in PageFilters : f # reading.filter
  /\ reading' = [reading EXCEPT !.phase = "idle", !.cursor = Beginning]
  /\ listed' = [q \in PageQuestions |-> 0] /\ steady' = {}
  /\ UNCHANGED <<row, callerFeature, rowChanges>>
\* The reader has what it asked for, and may ask again.
ListAgain ==
  /\ reading.phase = "done"
  /\ reading' = [reading EXCEPT !.phase = "idle", !.cursor = Beginning]
  /\ listed' = [q \in PageQuestions |-> 0] /\ steady' = {}
  /\ UNCHANGED <<row, callerFeature, rowChanges>>

PagesNext ==
  \/ \E q \in PageQuestions :
       CreateRow(q) \/ AnswerRow(q) \/ CloseRow(q) \/ ReadRow(q) \/ HandOver(q)
  \/ \E f \in PageFeatures : SwitchFeature(f)
  \/ \E filter \in PageFilters : FirstPage(filter)
  \/ NextPage \/ Refused \/ ListAgain

PagesSpec == PagesInit /\ [][PagesNext]_pageVars

-----------------------------------------------------------------------------

\* Nothing is listed twice, whatever happens between the pages, and when the
\* last page has come every Question that matched all the while is listed: the
\* cursor of requestStore.ts:535 neither skips nor repeats a row, with several
\* Questions of one millisecond, pages of different sizes and rows that leave
\* and enter the filter.
ListingComplete ==
  /\ \A q \in PageQuestions : listed[q] <= 1
  /\ reading.phase = "done" => \A q \in steady : listed[q] = 1
=============================================================================
