SPECIFICATION UpkeepSpec
CONSTANTS
  NProviders = 2
  Fit = {1, 2}
  DailyLimit = 2
  ConcurrencyLimit = 1
  FailureThreshold = 2
  CooldownSeconds = 1
  DayLength = 2
  MaxTime = 2
  Calls = {c1, c2, c3}
  Crashes = TRUE
  None = None
  c1 = c1
  c2 = c2
  c3 = c3
  Exports = {1, 2, 3}
  HomeFiles = {1, 2}
  Evidence = {2}
  HomeContents = {1, 2}
  NoFile = NoFile
  MaxImports = 2
  MaxWrites = 2
  Principals = {p1, p2}
  Commands = {k1, k2}
  MaxLines = 7
  Threads = {t1, t2}
  Metrics = {"tool", "error"}
  MaxEvents = 1
  WindowLength = 1
  MaxClock = 2
  MaxRecords = 3
  MaxStarts = 1
  NoTime = NoTime
  VoiceThreshold = 2
  VoiceCooldown = 2
  MaxVoiceTime = 3
  MaxVoiceCalls = 3
SYMMETRY Symmetric
CHECK_DEADLOCK FALSE
INVARIANTS
  SlotsAreRequests
  BudgetHoldsInDay
  RestoredWhole
  StagesTrue
  QuarantineHolds
  SpeechGoverned
