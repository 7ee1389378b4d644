------------------------------ MODULE MCParts ------------------------------
(* Components that do not interact in the models, checked in one run: a       *)
(* behaviour is one of `part` and leaves the variables of the others as they  *)
(* were, so that the state spaces add up.                                     *)
EXTENDS AnswerInbox, AnswerWake, SessionPresence, SessionRegistration, ProfileTarget,
        ChatStream, QuestionDrafts, QuestionWorkflow, DashboardStore, QuestionPages,
        HistoryPages, QuestionImages, PushNotifications, TLC

CONSTANT Parts
VARIABLE part

PartsInit ==
  /\ part \in Parts
  /\ InboxInit /\ WakeInit /\ PresenceInit
  /\ RegistrationInit /\ TargetInit /\ StreamInit
  /\ DraftsInit /\ WorkflowInit /\ DashboardInit
  /\ PagesInit /\ HistoryInit /\ ImagesInit /\ PushInit
  /\ part # "registration" => regServer = "up"
  /\ part # "workflow" => history = <<{}>>
  /\ part # "pages" => /\ callerFeature = CHOOSE f \in PageFeatures : TRUE
                       /\ reading.filter = CHOOSE f \in PageFilters : TRUE
Inbox ==
  /\ part = "inbox" /\ InboxNext
  /\ UNCHANGED <<part, wakeVars, presenceVars, registrationVars, targetVars, streamVars, draftVars,
                 workflowVars, dashboardVars, pageVars, historyVars, imageVars, pushVars>>
Wake ==
  /\ part = "wake" /\ WakeNext
  /\ UNCHANGED <<part, inboxVars, presenceVars, registrationVars, targetVars, streamVars, draftVars,
                 workflowVars, dashboardVars, pageVars, historyVars, imageVars, pushVars>>
Presence ==
  /\ part = "presence" /\ PresenceNext
  /\ UNCHANGED <<part, inboxVars, wakeVars, registrationVars, targetVars, streamVars, draftVars,
                 workflowVars, dashboardVars, pageVars, historyVars, imageVars, pushVars>>
Registration ==
  /\ part = "registration" /\ RegistrationNext
  /\ UNCHANGED <<part, inboxVars, wakeVars, presenceVars, targetVars, streamVars, draftVars,
                 workflowVars, dashboardVars, pageVars, historyVars, imageVars, pushVars>>
Target ==
  /\ part = "target" /\ TargetNext
  /\ UNCHANGED <<part, inboxVars, wakeVars, presenceVars, registrationVars, streamVars, draftVars,
                 workflowVars, dashboardVars, pageVars, historyVars, imageVars, pushVars>>
Stream ==
  /\ part = "stream" /\ StreamNext
  /\ UNCHANGED <<part, inboxVars, wakeVars, presenceVars, registrationVars, targetVars, draftVars,
                 workflowVars, dashboardVars, pageVars, historyVars, imageVars, pushVars>>
Drafts ==
  /\ part = "drafts" /\ DraftsNext
  /\ UNCHANGED <<part, inboxVars, wakeVars, presenceVars, registrationVars, targetVars, streamVars,
                 workflowVars, dashboardVars, pageVars, historyVars, imageVars, pushVars>>
Workflow ==
  /\ part = "workflow" /\ WorkflowNext
  /\ UNCHANGED <<part, inboxVars, wakeVars, presenceVars, registrationVars, targetVars, streamVars,
                 draftVars, dashboardVars, pageVars, historyVars, imageVars, pushVars>>
Dashboard ==
  /\ part = "dashboard" /\ DashboardNext
  /\ UNCHANGED <<part, inboxVars, wakeVars, presenceVars, registrationVars, targetVars, streamVars,
                 draftVars, workflowVars, pageVars, historyVars, imageVars, pushVars>>
Pages ==
  /\ part = "pages" /\ PagesNext
  /\ UNCHANGED <<part, inboxVars, wakeVars, presenceVars, registrationVars, targetVars, streamVars,
                 draftVars, workflowVars, dashboardVars, historyVars, imageVars, pushVars>>
History ==
  /\ part = "history" /\ HistoryNext
  /\ UNCHANGED <<part, inboxVars, wakeVars, presenceVars, registrationVars, targetVars, streamVars,
                 draftVars, workflowVars, dashboardVars, pageVars, imageVars, pushVars>>
Images ==
  /\ part = "images" /\ ImagesNext
  /\ UNCHANGED <<part, inboxVars, wakeVars, presenceVars, registrationVars, targetVars, streamVars,
                 draftVars, workflowVars, dashboardVars, pageVars, historyVars, pushVars>>
Push ==
  /\ part = "push" /\ PushNext
  /\ UNCHANGED <<part, inboxVars, wakeVars, presenceVars, registrationVars, targetVars, streamVars,
                 draftVars, workflowVars, dashboardVars, pageVars, historyVars, imageVars>>

PartsNext ==
  \/ Inbox \/ Wake \/ Presence \/ Registration
  \/ Target \/ Stream \/ Drafts \/ Workflow \/ Dashboard
  \/ Pages \/ History \/ Images \/ Push

partsVars ==
  <<part, inboxVars, wakeVars, presenceVars, registrationVars,
    targetVars, streamVars, draftVars, workflowVars, dashboardVars,
    pageVars, historyVars, imageVars, pushVars>>

\* What tells two states apart: the variables of the part that moves.  The others
\* keep the values they began with, which are the same for all of one part.
PartsView ==
  <<part,
    CASE part = "inbox" -> inboxVars
      [] part = "wake" -> wakeVars
      [] part = "presence" -> presenceVars
      [] part = "registration" -> registrationVars
      [] part = "target" -> targetVars
      [] part = "stream" -> streamVars
      [] part = "drafts" -> draftVars
      [] part = "workflow" -> workflowVars
      [] part = "dashboard" -> dashboardVars
      [] part = "pages" -> pageVars
      [] part = "history" -> historyVars
      [] part = "images" -> imageVars
      [] part = "push" -> pushVars>>

PartsSpec == PartsInit /\ [][PartsNext]_partsVars
=============================================================================
