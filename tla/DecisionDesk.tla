---------------------------- MODULE DecisionDesk ----------------------------
(* The Question store together with the copies its callers act from: what   *)
(* an agent last read of a Question (get_question, the result of            *)
(* write_question) and the form the dashboard shows a human                 *)
(* (questionForm.svelte.ts).  Both copies go stale while somebody else      *)
(* changes the Question; the version counters have to notice.               *)
EXTENDS RequestStore

CONSTANTS Unseen   \* no copy held

VARIABLES
  views,   \* views[o][q]: the versions agent o holds, and how long the log was
  forms    \* forms[q]: the snapshot the dashboard form holds

desk == <<views, forms>>

ViewOf(q) == [revision |-> questions[q].revision,
              ownerRevision |-> questions[q].ownerRevision, at |-> Len(events[q])]

DeskInit ==
  /\ Init
  /\ views = [o \in Owners |-> [q \in Questions |-> Unseen]]
  /\ forms = [q \in Questions |-> Unseen]

-----------------------------------------------------------------------------
(* Agents.  Every agent may read every Question; the receipt of a create or *)
(* an update carries the new versions. *)

ReadQuestion(o, q) ==
  /\ Exists(q)
  /\ views' = [views EXCEPT ![o][q] = ViewOf(q)]
  /\ UNCHANGED <<vars, forms>>

CreateQuestion(o, q, options, expiry) ==
  /\ Create(o, q, options, expiry)
  /\ views' = [views EXCEPT ![o][q] = ViewOf(q)']
  /\ UNCHANGED forms

\* All six update actions carry both expected versions (UpdateQuestionPayloadSchema).
UpdateFromView(o, q) ==
  /\ views[o][q] # Unseen
  /\ OwnerUpdate(o, q, views[o][q].revision, views[o][q].ownerRevision)
  /\ views' = [views EXCEPT ![o][q] = ViewOf(q)']
  /\ UNCHANGED forms

-----------------------------------------------------------------------------
(* The dashboard.  State pushes and refreshes race, so a form may be given  *)
(* any snapshot the Question ever had.  A selection made earlier stays when *)
(* the form is given another snapshot, and may name options that are gone.  *)

UpdateRequest(q, snapshot) ==
  /\ snapshot \in revisions[q]
  /\ forms' = [forms EXCEPT ![q] = snapshot]
  /\ UNCHANGED <<vars, views>>

Submit(q, selected) ==
  /\ forms[q] # Unseen
  /\ Answer(q, selected, forms[q].revision)
  /\ UNCHANGED desk

\* answerPendingAsk: the extension answers from the terminal, with no revision.
AnswerPendingAsk(q, selected) ==
  /\ Answer(q, selected, AnyRevision)
  /\ UNCHANGED desk

-----------------------------------------------------------------------------

DeskNext ==
  \/ \E o \in Owners, q \in Questions :
       \/ ReadQuestion(o, q)
       \/ UpdateFromView(o, q)
       \/ \E options \in Contents, expiry \in {"never", "later"} :
            CreateQuestion(o, q, options, expiry)
       \/ \E value \in OptionValues : ProposeAnswer(o, q, value) /\ UNCHANGED desk
  \/ \E q \in Questions :
       \/ \E snapshot \in revisions[q] : UpdateRequest(q, snapshot)
       \/ \E selected \in SUBSET (OptionValues \cup {Other}) :
            Submit(q, selected) \/ AnswerPendingAsk(q, selected)
       \/ Cancel(q) /\ UNCHANGED desk
       \/ Elapse(q) /\ UNCHANGED desk
  \/ \E o \in Owners : PresenceChange(o) /\ UNCHANGED desk
  \/ ExpireDue /\ UNCHANGED desk

deskVars == <<vars, views, forms>>

DeskSpec == DeskInit /\ [][DeskNext]_deskVars

-----------------------------------------------------------------------------
(* Properties *)

\* No lost update: an agent's update goes through only if the Question has not
\* been touched since that agent looked, by anyone and in any way: nothing was
\* revised, proposed or moved, and ownership was not given away and back.
NoLostUpdate ==
  [][\A o \in Owners, q \in Questions :
       UpdateFromView(o, q) => views[o][q].at = Len(events[q])]_deskVars

\* An Answer submitted from the dashboard is recorded against the very content
\* its form shows, however late the form was refreshed.
AnswerMatchesForm ==
  [][\A q \in Questions, selected \in SUBSET (OptionValues \cup {Other}) :
       Submit(q, selected) =>
         /\ SnapshotOf(questions[q]) = forms[q]
         /\ answers'[q][Len(answers'[q])].revision = forms[q].revision
         /\ selected \subseteq forms[q].options \cup {Other}]_deskVars
=============================================================================
