CONSTANTS
  Parts = {"inbox"}
  InboxCallers = {c1, c2}
  InboxAnswers = {a1}
  NoLock = NoLock
  MaxInboxCalls = 2
  MaxDeaths = 0
  SlowLockWrite = FALSE
  WakeAnswers = {a1, a2}
  MaxRegistrations = 2
  MaxQueueClears = 1
  MaxNavigations = 1
  HandoverMidDelivery = FALSE
  Sessions = {s1, s2}
  SessionOwners = {p1, p2}
  MaxSockets = 3
  Features = {f1}
  NoRow = NoRow
  MaxAsking = 1
  Never = Never
  StaleAfter = 1
  OfflineAfter = 2
  HideAfter = 2
  RetainFor = 3
  LateShutdown = FALSE
  MaxStarts = 2
  MaxCalls = 2
  MaxOutages = 1
  PostboxCommand = TRUE
  Servers = {t1, t2}
  Ports = {p32187, p32188}
  Readers = {r1}
  Nothing = Nothing
  MaxEvents = 4
  MaxSends = 1
  MaxLosses = 1
  Takeover = FALSE
  DraftQuestions = {q1}
  DraftOptions = {o1, other}
  Other = other
  NoDraft = NoDraft
  MaxEdits = 2
  MaxRevisions = 1
  MaxStoreFaults = 1
  MaxAppDeaths = 1
  MaxInFlight = 1
  AppQuestions = {q1, q2}
  None = None
  ReplaySize = 2
  MaxVersions = 2
  MaxVisits = 2
  MaxCommands = 1
  MaxFrames = 1
  MaxBreaks = 1
  MaxWebQuestions = 2
  MaxWebChanges = 3
  MaxForms = 1
  MaxTaps = 1
  MaxInTransit = 1
  MaxWebFailures = 1
  PageQuestions = {1, 2, 3}
  PageFeatures = {f1, f2}
  PageWants = {"actionable"}
  PageScopes = {"owner", "feature"}
  PageSizes = {1, 2}
  MaxCreatedAt = 1
  MaxRowChanges = 4
  HistoryPageSizes = {1, 3}
  MaxHistory = 3
  Pictures = {g1, g2}
  ImageQuestions = {q1}
  ImageSessions = {s1}
  ClaimTime = 1
  MaxImageClock = 2
  MaxUploads = 2
  MaxImageLinks = 2
  MaxImageCrashes = 1
  MaxImageRevisions = 2
  Tabs = {b1, b2}
  PushQuestions = {q1}
  MaxAddresses = 2
  MaxPushFaults = 1
SPECIFICATION PartsSpec
INVARIANTS LiveLockNotStolen
CHECK_DEADLOCK FALSE
