---------------------------- MODULE HistoryPages -----------------------------
(* question.history.get and GET /api/requests/:id/history, read page by page  *)
(* (requestStore.ts getQuestionHistoryPage).  The revisions and the events of *)
(* one Question only grow; the first page fixes how much of both the history  *)
(* comprises and every cursor carries these bounds and an offset into the     *)
(* records they give, so that a Question revised between two pages does not   *)
(* shift what is read.  The compact "events" view leaves out of a revision    *)
(* what it did not change: its reader puts the Question together again from   *)
(* the initial snapshot and the changes.  Revisions are numbered from 1.      *)
EXTENDS Naturals, Sequences

CONSTANTS HistoryPageSizes, MaxHistory     \* the bound of the checked instances

ASSUME HistoryAssumption == HistoryPageSizes \subseteq Nat \ {0} /\ MaxHistory \in Nat

Fields == {"question", "options", "images"}
Views == {"events", "full"}
\* A content is, for each field, how often it has been written.
Contents == [Fields -> Nat]
Events == [type : {"revision", "bare", "other"}, revision : Nat, changes : SUBSET Fields]
\* A record of a page: a snapshot, what a revision changed, or an event.
Records == [kind : {"initial", "revision", "event"}, revision : Nat,
            fields : SUBSET Fields, content : Contents]

VARIABLES
  snapshots,    \* question_revisions: the content of each revision
  events,       \* question_events
  pages,        \* the reader: its view, the bounds and offset of its cursor
  got,          \* the records it has been sent
  promised      \* history: the records there were when it asked first

historyVars == <<snapshots, events, pages, got, promised>>

NoContent == [f \in Fields |-> 0]
Unread == [phase |-> "idle", view |-> "events", maxRevision |-> 0, maxEvent |-> 0, offset |-> 0]

HistoryTypeOk ==
  /\ snapshots \in Seq(Contents) /\ snapshots # <<>>
  /\ events \in Seq(Events)
  /\ pages \in [phase : {"idle", "reading", "done"}, view : Views,
                maxRevision : Nat, maxEvent : Nat, offset : Nat]
  /\ got \in Seq(Records) /\ promised \in Seq(Records)

Snapshot(kind, r, content) ==
  [kind |-> kind, revision |-> r, fields |-> Fields, content |-> content]
ContentRevision(e, content) ==
  [kind |-> "revision", revision |-> e.revision, fields |-> e.changes, content |-> content]
EventRecord(e) ==
  [kind |-> "event", revision |-> e.revision, fields |-> {}, content |-> NoContent]

\* loadQuestionHistory and, for the compact view, toEventHistory.
IsContentEvent(e) == e.type = "revision" /\ e.revision > 1
FullRecords(ss, es) ==
  [r \in 1..Len(ss) |-> Snapshot("revision", r, ss[r])] \o [e \in 1..Len(es) |-> EventRecord(es[e])]
\* The members of es at the places I, in their order.
Picked(es, I) ==
  LET pick[n \in 0..Len(es)] ==
        IF n = 0 THEN <<>> ELSE IF n \in I THEN Append(pick[n - 1], es[n]) ELSE pick[n - 1]
  IN pick[Len(es)]
ContentEvents(es) == Picked(es, {i \in DOMAIN es : IsContentEvent(es[i])})
OtherEvents(es) == Picked(es, {i \in DOMAIN es : es[i].type # "revision"})
CompactRecords(ss, es) ==
  LET content == ContentEvents(es)
      other == OtherEvents(es)
  IN <<Snapshot("initial", 1, ss[1])>>
     \o [i \in 1..Len(content) |-> ContentRevision(content[i], ss[content[i].revision])]
     \o [i \in 1..Len(other) |-> EventRecord(other[i])]
\* Definitions named Slip... are faulty variants of the one that follows, used
\* by no specification: a property has to notice each of them.

SlipRecordsUpTo(view, maxRevision, maxEvent) ==
  IF view = "full" THEN FullRecords(snapshots, events) ELSE CompactRecords(snapshots, events)
RecordsUpTo(view, maxRevision, maxEvent) ==
  LET ss == SubSeq(snapshots, 1, maxRevision)
      es == SubSeq(events, 1, maxEvent)
  IN IF view = "full" THEN FullRecords(ss, es) ELSE CompactRecords(ss, es)

HistoryInit ==
  /\ snapshots = <<NoContent>> /\ events = <<>>
  /\ pages = Unread /\ got = <<>> /\ promised = <<>>

-----------------------------------------------------------------------------
(* The Question between two pages.                                           *)

Grows == Len(events) < MaxHistory /\ UNCHANGED <<pages, got, promised>>
Logged(type, r, changes) ==
  events' = Append(events, [type |-> type, revision |-> r, changes |-> changes])

\* updateQuestion revise, which always names the question, and proposeAnswer,
\* which changes the options: the other fields are those of the revision
\* before, the images copied.
Revisable == {S \in SUBSET Fields : "question" \in S \/ S = {"options"}}
NewRevision(changes) ==
  /\ Grows
  /\ LET last == snapshots[Len(snapshots)]
     IN snapshots' = Append(snapshots, [f \in Fields |-> last[f] + IF f \in changes THEN 1 ELSE 0])
  /\ Logged("revision", Len(snapshots) + 1, changes)
\* reparent, cancel, supersede: a revision without an event of its own.
BareRevision ==
  /\ Grows
  /\ snapshots' = Append(snapshots, snapshots[Len(snapshots)])
  /\ Logged("bare", Len(snapshots) + 1, {})
\* transfer, takeover, an answer, cancellation by the session and expiry.
OtherEvent ==
  Grows /\ Logged("other", Len(snapshots), {}) /\ UNCHANGED snapshots

-----------------------------------------------------------------------------
(* The reader.                                                               *)

\* slice(offset, offset + pageSize), and a cursor unless that was the end.
Reads(view, maxRevision, maxEvent, offset, size) ==
  LET records == RecordsUpTo(view, maxRevision, maxEvent)
      last == IF offset + size < Len(records) THEN offset + size ELSE Len(records)
  IN /\ got' = got \o SubSeq(records, offset + 1, last)
     /\ pages' = [phase |-> IF last < Len(records) THEN "reading" ELSE "done", view |-> view,
                  maxRevision |-> maxRevision, maxEvent |-> maxEvent, offset |-> last]

FirstHistoryPage(view, size) ==
  /\ pages.phase = "idle"
  /\ Reads(view, Len(snapshots), Len(events), 0, size)
  /\ promised' = RecordsUpTo(view, Len(snapshots), Len(events))
  /\ UNCHANGED <<snapshots, events>>
\* With the same cursor again when the page did not arrive: the card keeps it.
NextHistoryPage(size) ==
  /\ pages.phase = "reading"
  /\ Reads(pages.view, pages.maxRevision, pages.maxEvent, pages.offset, size)
  /\ UNCHANGED <<snapshots, events, promised>>
ReadAgain ==
  /\ pages.phase = "done"
  /\ pages' = Unread /\ got' = <<>> /\ promised' = <<>>
  /\ UNCHANGED <<snapshots, events>>

HistoryNext ==
  \/ \E changes \in Revisable : NewRevision(changes)
  \/ BareRevision \/ OtherEvent
  \/ \E size \in HistoryPageSizes :
       (\E view \in Views : FirstHistoryPage(view, size)) \/ NextHistoryPage(size)
  \/ ReadAgain

HistorySpec == HistoryInit /\ [][HistoryNext]_historyVars

-----------------------------------------------------------------------------

\* The content a reader of compact pages puts together: each field as the last
\* record that carries it has it.
Rebuilt(records, f) ==
  LET carrying == {i \in 1..Len(records) : f \in records[i].fields}
      latest == CHOOSE i \in carrying : \A j \in carrying : j <= i
  IN records[latest].content[f]

\* The pages read so far are the beginning of the history there was at the
\* first request, none of it skipped, repeated or shifted by what happened to
\* the Question since, and a completed reading is all of it
\* (requestStore.ts:887).
PagesExact ==
  pages.phase # "idle" =>
    /\ pages.offset <= Len(promised) /\ got = SubSeq(promised, 1, pages.offset)
    /\ pages.phase = "done" => got = promised
\* The compact view leaves nothing out: from the initial snapshot and the
\* changes a reader rebuilds the content at the revision it asked at, whatever
\* parent changes, proposals and answers lie between (requestStore.ts:944).
ContentRebuilt ==
  pages.phase = "done" /\ pages.view = "events" =>
    \A f \in Fields : Rebuilt(got, f) = snapshots[pages.maxRevision][f]

HistoryReadable == PagesExact /\ ContentRebuilt
=============================================================================
