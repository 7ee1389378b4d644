CONSTANTS
  Parts = {"inbox", "wake", "presence", "registration", "target", "stream", "drafts", "workflow", "dashboard", "pages", "history", "images", "push"}
  InboxCallers = {c1, c2}
  InboxAnswers = {a1}
  NoLock = NoLock
  MaxInboxCalls = 2
  MaxDeaths = 1
  SlowLockWrite = TRUE
  WakeAnswers = {a1, a2}
  MaxRegistrations = 2
  MaxQueueClears = 1
  MaxNavigations = 1
  HandoverMidDelivery = FALSE
  Sessions = {s1, s2}
  SessionOwners = {p1, p2}
  MaxSockets = 2
  Features = {f1, f2}
  NoRow = NoRow
  MaxAsking = 1
  Never = Never
  StaleAfter = 1
  OfflineAfter = 2
  HideAfter = 1
  RetainFor = 2
  LateShutdown = FALSE
  MaxStarts = 2
  MaxCalls = 2
  MaxOutages = 1
  PostboxCommand = TRUE
  Servers = {t1, t2}
  Ports = {p32187, p32188}
  Readers = {r1}
  Nothing = Nothing
  MaxEvents = 3
  MaxSends = 1
  MaxLosses = 1
  Takeover = FALSE
  DraftQuestions = {q1}
  DraftOptions = {o1, other}
  Other = other
  NoDraft = NoDraft
  MaxEdits = 2
  MaxRevisions = 1
  MaxStoreFaults = 1
  MaxAppDeaths = 1
  MaxInFlight = 1
  AppQuestions = {q1, q2}
  None = None
  ReplaySize = 2
  MaxVersions = 2
  MaxVisits = 2
  MaxCommands = 1
  MaxFrames = 1
  MaxBreaks = 1
  MaxWebQuestions = 2
  MaxWebChanges = 3
  MaxForms = 1
  MaxTaps = 1
  MaxInTransit = 1
  MaxWebFailures = 2
  PageQuestions = {1, 2, 3}
  PageFeatures = {f1, f2}
  PageWants = {"actionable"}
  PageScopes = {"owner", "feature"}
  PageSizes = {1, 2}
  MaxCreatedAt = 1
  MaxRowChanges = 3
  HistoryPageSizes = {1, 3}
  MaxHistory = 3
  Pictures = {g1, g2}
  ImageQuestions = {q1}
  ImageSessions = {s1}
  ClaimTime = 1
  MaxImageClock = 2
  MaxUploads = 2
  MaxImageLinks = 2
  MaxImageCrashes = 1
  MaxImageRevisions = 2
  Tabs = {b1, b2}
  PushQuestions = {q1}
  MaxAddresses = 2
  MaxPushFaults = 1
SPECIFICATION PartsSpec
VIEW PartsView
INVARIANTS LockRecovers WakeSound PresenceIsTrue ActionableStaysVisible RegistrationSound PublishedAndFound OnlineIsCurrent ScreenIsCoherent  ListingComplete HistoryReadable GalleryIntact PushSettles
PROPERTIES MarksKept DraftsAreKept ResolvingStaysOnScreen
CHECK_DEADLOCK FALSE
