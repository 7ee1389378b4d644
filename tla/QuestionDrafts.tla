--------------------------- MODULE QuestionDrafts ---------------------------
(* Drafts of answers in the Android app (QuestionWorkflowViewModel and the     *)
(* AndroidKeystoreQuestionDraftStore): one in memory for each Question, saved  *)
(* to encrypted files by jobs that run beside the screen.  The saves of a      *)
(* Question form a chain, and so do the clean-ups after each state of the      *)
(* server; a restored draft comes late and must not replace what was typed.    *)
EXTENDS Naturals, Sequences, FiniteSets

CONSTANTS
  DraftQuestions,
  DraftOptions,   \* what a draft selects; Other is always allowed
  Other,
  NoDraft,
  MaxEdits,       \* edits and retries by the human (model checking only)
  MaxRevisions,   \* changes of the Questions on the server (model checking only)
  MaxStoreFaults, \* failures of the store (model checking only)
  MaxAppDeaths,   \* deaths of the app's process (model checking only)
  MaxInFlight     \* states on their way, and clean-ups waiting (model checking only)

ASSUME DraftsAssumption ==
  /\ Other \in DraftOptions
  /\ \A draft \in SUBSET DraftOptions : draft # NoDraft
  /\ {MaxEdits, MaxRevisions, MaxStoreFaults, MaxAppDeaths, MaxInFlight} \subseteq Nat

VARIABLES
  offered,   \* the server: the options of each Question while it is pending
  known,     \* latestSnapshot, as offered was when it was read
  fetched,   \* the states on their way to the app, by the stream or a fetch
  shown,     \* the Question on screen and what is selected there
  submitted, \* Questions the app resolved, and did not hear back about
  drafts,    \* per Question: in memory, revision, load, failure and warning
  saves,     \* per Question: the chain of its save and delete jobs
  cleanups,  \* the chain of reconcile jobs
  files,     \* per Question: the stored draft, and whether its key still exists
  draftBounds

draftVars == <<offered, known, fetched, shown, submitted, drafts, saves, cleanups, files, draftBounds>>

Draft == SUBSET DraftOptions
Nowhere == [question |-> NoDraft, selected |-> {}]
Offers == UNION {[pending -> Draft] : pending \in SUBSET DraftQuestions}
NoPending == [q \in {} |-> {}]
Unknown == [memory |-> NoDraft, revision |-> 0, failed |-> FALSE, warned |-> FALSE,
            load |-> "never", since |-> 0, found |-> NoDraft]

Count(bound, max) ==
  draftBounds[bound] < max /\ draftBounds' = [draftBounds EXCEPT ![bound] = @ + 1]

\* sanitizeDraft: what the Question no longer offers is not selected.
Sanitized(draft, options) == draft \cap (options \cup {Other})

DraftsInit ==
  /\ offered \in [DraftQuestions -> {DraftOptions}]
  /\ known = NoPending /\ fetched = {}
  /\ shown = Nowhere /\ submitted = {}
  /\ drafts = [q \in DraftQuestions |-> Unknown]
  /\ saves = [q \in DraftQuestions |-> <<>>]
  /\ cleanups = <<>>
  /\ files = [q \in DraftQuestions |-> [draft |-> NoDraft, readable |-> TRUE]]
  /\ draftBounds = [edits |-> 0, revisions |-> 0, faults |-> 0, deaths |-> 0]

-----------------------------------------------------------------------------
\* The server

\* The agent revises the options, or the Question is resolved elsewhere.
Revised(q) ==
  /\ q \in DOMAIN offered
  /\ Count("revisions", MaxRevisions)
  /\ \/ \E options \in SUBSET DraftOptions : Other \in options /\ offered' = [offered EXCEPT ![q] = options]
     \/ offered' = [p \in DOMAIN offered \ {q} |-> offered[p]]
  /\ UNCHANGED <<known, fetched, shown, submitted, drafts, saves, cleanups, files>>

\* A state leaves the server, for the stream or a fetch: they may overtake each other.
StateRead ==
  /\ Cardinality(fetched) < MaxInFlight
  /\ fetched' = fetched \cup {offered} /\ offered \notin fetched
  /\ UNCHANGED <<offered, known, shown, submitted, drafts, saves, cleanups, files, draftBounds>>

-----------------------------------------------------------------------------
\* The jobs

\* A job joins the one before it, and runs beside everything else.
SaveJob(draft, revision) == [op |-> "save", draft |-> draft, revision |-> revision]
DeleteJob(revision) == [op |-> "delete", draft |-> NoDraft, revision |-> revision]

\* persistDraft: memory first, then a job for the file.
Persisted(table, q, draft) ==
  [table EXCEPT ![q].memory = draft, ![q].revision = @ + 1, ![q].failed = FALSE]

StartSave(q, draft) ==
  saves' = [saves EXCEPT ![q] = Append(@, SaveJob(draft, drafts[q].revision + 1))]

\* deleteDraft: the server has taken the answer.
Forgotten(table, q) ==
  [table EXCEPT ![q].memory = NoDraft, ![q].revision = @ + 1, ![q].failed = FALSE, ![q].warned = FALSE]

SlipSaveRunnable(q) == {i \in DOMAIN saves[q] : TRUE}
SaveRunnable(q) == {i \in DOMAIN saves[q] : i = 1}

Without(seq, i) == [j \in 1..(Len(seq) - 1) |-> IF j < i THEN seq[j] ELSE seq[j + 1]]

\* A clean-up that waits for saves waits for one less.
Joined(q) ==
  [i \in DOMAIN cleanups |-> [cleanups[i] EXCEPT !.waits[q] = IF @ > 0 THEN @ - 1 ELSE 0]]

JobEnds(q, i) ==
  /\ saves' = [saves EXCEPT ![q] = Without(@, i)]
  /\ cleanups' = Joined(q)

\* Only the newest save speaks for the draft.
Warn(q, job, warning) ==
  drafts' = IF job.op = "save" /\ job.revision = drafts[q].revision
            THEN [drafts EXCEPT ![q].warned = warning] ELSE drafts

\* save and delete of the store.
JobSucceeds(q) ==
  \E i \in SaveRunnable(q) :
    LET job == saves[q][i] IN
    /\ files' = [files EXCEPT ![q] = [draft |-> job.draft, readable |-> TRUE]]
    /\ Warn(q, job, FALSE)
    /\ JobEnds(q, i)
    /\ UNCHANGED <<offered, known, fetched, shown, submitted, draftBounds>>

\* A write fails and the file stays as it was; when the key turns out to be
\* invalid it is deleted, and no other file can be read any more.
JobFails(q) ==
  \E i \in SaveRunnable(q), keyLost \in BOOLEAN :
    /\ Count("faults", MaxStoreFaults)
    /\ saves[q][i].op = "delete" => ~keyLost
    /\ files' = IF keyLost THEN [p \in DraftQuestions |-> [files[p] EXCEPT !.readable = FALSE]] ELSE files
    /\ Warn(q, saves[q][i], TRUE)
    /\ JobEnds(q, i)
    /\ UNCHANGED <<offered, known, fetched, shown, submitted>>

\* reconcileServer: the files of Questions that were not pending are deleted,
\* after the clean-up before it and the saves that were there when it began.
CleanedUp ==
  /\ cleanups # <<>>
  /\ \A q \in DraftQuestions : Head(cleanups).waits[q] = 0
  /\ cleanups' = Tail(cleanups)
  /\ \/ /\ files' = [q \in DraftQuestions |->
                       IF q \in Head(cleanups).active THEN files[q] ELSE [draft |-> NoDraft, readable |-> TRUE]]
        /\ UNCHANGED draftBounds
     \/ /\ Count("faults", MaxStoreFaults)
        /\ UNCHANGED files
  /\ UNCHANGED <<offered, known, fetched, shown, submitted, drafts, saves>>

-----------------------------------------------------------------------------
\* What a new state does to the drafts

\* reconcileDraftsForServer: drafts of Questions that are not pending are dropped.
Dropped(table, active) ==
  [q \in DraftQuestions |->
     IF q \notin active /\ table[q].memory # NoDraft THEN Forgotten(table, q)[q] ELSE table[q]]

Cleanup(active) == [active |-> active, waits |-> [q \in DraftQuestions |-> Len(saves[q])]]

\* reconcileActiveDraftSelections: drafts that select what is gone.
Outgrown(state, table) ==
  {q \in DOMAIN state : table[q].memory # NoDraft /\ table[q].memory # Sanitized(table[q].memory, state[q])}

\* restoreDraft: a draft is loaded once for each Question that is opened.
LoadStarted(table, q) ==
  IF table[q].load = "never"
  THEN [table EXCEPT ![q].load = "running", ![q].since = table[q].revision] ELSE table

\* applySnapshot and selectQuestion, as far as they concern drafts: which
\* Question is shown is QuestionWorkflow's business.
ShownDraft(table, q, state) ==
  [question |-> q,
   selected |-> Sanitized(IF table[q].memory # NoDraft THEN table[q].memory
                          ELSE IF shown.question = q THEN shown.selected ELSE {}, state[q])]

SnapshotApplied(state) ==
  LET kept == Dropped(drafts, DOMAIN state)
      outgrown == Outgrown(state, kept)
      revised == [q \in DraftQuestions |->
                    IF q \in outgrown THEN Persisted(kept, q, Sanitized(kept[q].memory, state[q]))[q] ELSE kept[q]]
  IN
  /\ state \in fetched /\ fetched' = fetched \ {state}
  /\ Len(cleanups) < MaxInFlight
  /\ known' = state
  /\ cleanups' = Append(cleanups, Cleanup(DOMAIN state))
  /\ saves' = [q \in DraftQuestions |->
                 IF q \in outgrown
                 THEN Append(saves[q], SaveJob(Sanitized(kept[q].memory, state[q]), kept[q].revision + 1))
                 ELSE saves[q]]
  /\ \/ /\ shown' = Nowhere /\ drafts' = revised
     \/ \E q \in DOMAIN state :
          /\ shown' = ShownDraft(kept, q, state)
          /\ drafts' = LoadStarted(revised, q)
  /\ UNCHANGED <<offered, submitted, files, draftBounds>>

SelectQuestion(q) ==
  /\ q \in DOMAIN known /\ shown.question # q
  /\ shown' = ShownDraft(drafts, q, known)
  /\ drafts' = LoadStarted(drafts, q)
  /\ UNCHANGED <<offered, known, fetched, submitted, saves, cleanups, files, draftBounds>>

\* toggleOption and updateNote
Edit(option) ==
  LET q == shown.question
      selected == IF option \in shown.selected THEN shown.selected \ {option}
                  ELSE shown.selected \cup {option} IN
  /\ q # NoDraft
  /\ q \in DOMAIN known /\ option \in known[q] \cup {Other}
  /\ Count("edits", MaxEdits)
  /\ shown' = [shown EXCEPT !.selected = selected]
  /\ drafts' = Persisted(drafts, q, selected)
  /\ StartSave(q, selected)
  /\ UNCHANGED <<offered, known, fetched, submitted, cleanups, files>>

\* retryDraftSave: the human asks again, after a warning.
RetrySave ==
  LET q == shown.question IN
  /\ q # NoDraft /\ q \in DOMAIN known /\ drafts[q].warned
  /\ Count("edits", MaxEdits)
  /\ IF drafts[q].failed /\ drafts[q].memory = NoDraft
     THEN /\ drafts' = [drafts EXCEPT ![q].failed = FALSE, ![q].load = "running", ![q].since = drafts[q].revision]
          /\ UNCHANGED saves
     ELSE /\ drafts' = Persisted(drafts, q, shown.selected)
          /\ StartSave(q, shown.selected)
  /\ UNCHANGED <<offered, known, fetched, shown, submitted, cleanups, files>>

-----------------------------------------------------------------------------
\* load of the store

\* A file that cannot be decrypted is deleted, after it was looked at.
LoadReads(q) ==
  /\ drafts[q].load = "running"
  /\ drafts' = [drafts EXCEPT ![q].load = IF files[q].readable THEN "read" ELSE "purging",
                              ![q].found = IF files[q].readable THEN files[q].draft ELSE NoDraft]
  /\ UNCHANGED <<offered, known, fetched, shown, submitted, saves, cleanups, files, draftBounds>>

SlipUntouched(q) == TRUE
Untouched(q) == drafts[q].revision = drafts[q].since

Loaded(q) == [drafts EXCEPT ![q].load = "done", ![q].found = NoDraft]
LoadFailed(q) ==
  IF Untouched(q) THEN [Loaded(q) EXCEPT ![q].failed = TRUE, ![q].warned = TRUE] ELSE Loaded(q)

\* The draft becomes the one in memory when nobody has changed it meanwhile and
\* the Question is still pending; what it selects and the Question does not
\* offer is taken out of the file too.
DraftRestored(q) ==
  LET draft == drafts[q].found
      calm == [Loaded(q) EXCEPT ![q].failed = FALSE, ![q].warned = FALSE]
      usable == draft # NoDraft /\ q \in DOMAIN known
      clean == IF usable THEN Sanitized(draft, known[q]) ELSE {} IN
  /\ drafts[q].load = "read"
  /\ IF ~Untouched(q)
     THEN drafts' = Loaded(q) /\ UNCHANGED <<saves, shown>>
     ELSE /\ drafts' = IF ~usable THEN calm
                       ELSE IF clean = draft THEN [calm EXCEPT ![q].memory = clean]
                       ELSE Persisted(calm, q, clean)
          /\ IF usable /\ clean # draft THEN StartSave(q, clean) ELSE UNCHANGED saves
          /\ shown' = IF usable /\ shown.question = q THEN [shown EXCEPT !.selected = clean] ELSE shown
  /\ UNCHANGED <<offered, known, fetched, submitted, cleanups, files, draftBounds>>

LoadFails(q) ==
  /\ \/ /\ drafts[q].load = "purging"
        /\ files' = [files EXCEPT ![q] = [draft |-> NoDraft, readable |-> TRUE]]
        /\ UNCHANGED draftBounds
     \/ /\ drafts[q].load = "running"
        /\ Count("faults", MaxStoreFaults)
        /\ UNCHANGED files
  /\ drafts' = LoadFailed(q)
  /\ UNCHANGED <<offered, known, fetched, shown, submitted, saves, cleanups>>

-----------------------------------------------------------------------------
\* submitAnswer, cancelQuestion and dismissQuestion: the server resolves the
\* Question, and the draft is deleted when its response arrives.
SubmitDraft(q) ==
  /\ q \in DOMAIN known \cap DOMAIN offered /\ q \notin submitted
  /\ submitted' = submitted \cup {q}
  /\ offered' = [p \in DOMAIN offered \ {q} |-> offered[p]]
  /\ UNCHANGED <<known, fetched, shown, drafts, saves, cleanups, files, draftBounds>>

SubmitAccepted(q) ==
  /\ q \in submitted
  /\ submitted' = submitted \ {q}
  /\ drafts' = Forgotten(drafts, q)
  /\ saves' = [saves EXCEPT ![q] = Append(@, DeleteJob(drafts[q].revision + 1))]
  /\ UNCHANGED <<offered, known, fetched, shown, cleanups, files, draftBounds>>

\* The process is killed: only the files remain, each as its last write left it.
AppDies ==
  /\ Count("deaths", MaxAppDeaths)
  /\ known' = NoPending /\ fetched' = {}
  /\ shown' = Nowhere /\ submitted' = {}
  /\ drafts' = [q \in DraftQuestions |-> Unknown]
  /\ saves' = [q \in DraftQuestions |-> <<>>]
  /\ cleanups' = <<>>
  /\ UNCHANGED <<offered, files>>

DraftsNext ==
  \/ StateRead \/ CleanedUp \/ RetrySave \/ AppDies
  \/ \E state \in fetched : SnapshotApplied(state)
  \/ \E option \in DraftOptions : Edit(option)
  \/ \E q \in DraftQuestions :
       \/ Revised(q) \/ SelectQuestion(q) \/ SubmitDraft(q) \/ SubmitAccepted(q)
       \/ JobSucceeds(q) \/ JobFails(q)
       \/ LoadReads(q) \/ DraftRestored(q) \/ LoadFails(q)

DraftsSpec == DraftsInit /\ [][DraftsNext]_draftVars

-----------------------------------------------------------------------------
AtRest(q) == saves[q] = <<>> /\ cleanups = <<>> /\ drafts[q].load \in {"never", "done"}

\* Once the jobs are through, the store holds no draft of a Question but the
\* one in memory, or one that was not opened yet, unless the human was warned;
\* none of a Question that is over, unless the store failed.  An older write
\* never wins (persistDraft, deleteDraft, reconcileDraftsForServer).
OnlyNewestStored ==
  \A q \in DraftQuestions : AtRest(q) /\ files[q].draft # NoDraft =>
    \/ files[q].draft = drafts[q].memory \/ drafts[q].warned
    \/ /\ drafts[q].memory = NoDraft
       /\ \/ draftBounds.faults > 0
          \/ drafts[q].load = "never" /\ (q \in DOMAIN known \/ known = NoPending)

\* What the human has typed is replaced by nothing but another edit, or by
\* itself without what the Question no longer offers: a draft that is restored
\* late does not come back over it (restoreDraft, reconcileActiveDraftSelections).
EditsAreKept ==
  \A q \in DraftQuestions :
    LET old == drafts[q].memory  new == drafts'[q].memory IN
    new \notin {old, NoDraft} /\ old # NoDraft =>
      \/ draftBounds'.edits > draftBounds.edits
      \/ q \in DOMAIN known' /\ new = Sanitized(old, known'[q])

\* No step lets the files, or what the human typed, lose the newest draft to an
\* older one (persistDraft, restoreDraft).
DraftsAreKept == [][OnlyNewestStored' /\ EditsAreKept]_draftVars
=============================================================================
