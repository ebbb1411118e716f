SPECIFICATION LifecyclesSpec
CONSTANTS
  Foci = {"edge", "evolution", "skills", "sources", "ventures", "knowledge", "conversation", "stream", "executive", "spend", "proof", "value", "host"}
  Requests = {r1}
  Tokens = {1, 2}
  Clients = {c1, c2}
  NoClient = NoClient
  Authority = {c1}
  Calls = {k1}
  MaxCrashes = 1
  EvoFingerprints = {fp1}
  EvoFiles = {"f", "p"}
  EvoProtected = {"p"}
  EvoContents = {"o", "a", "b"}
  EvoOriginal = "o"
  EvoReasons = {"r"}
  EvoMaxCandidates = 2
  EvoMaxEvents = 2
  SkillNames = {"n1", "n2", "n3"}
  Slug <- MCSlug
  Artifacts = {x1, x2}
  MaxSkillCandidates = 2
  SkillCalls = {k1}
  MaximumAttempts = 2
  MaxSkillEvents = 1
  Adapters = {"a1", "cat"}
  Catalogs = {"cat"}
  Settings = {"off", "s1", "s2"}
  Disabled = {"off"}
  Unconfigured = "off"
  NoSetting = "unset"
  Costs = {1, 2}
  MinimumSources = 2
  MaxWebCalls = 1
  MaxVentures = 1
  MaxRuns = 2
  e1 = e1
  e2 = e2
  Episodes = {e1, e2}
  SourceOf <- MCSourceOf
  MarkedFor <- MCMarkedFor
  Wordings = {"w1", "w2"}
  Alike = {}
  ClaimKeys = {"k1"}
  Confidences = {1}
  MinimumEvidence = 2
  DistinctSources = 2
  MaxKnowledge = 3
  Sessions = {"chat", "page"}
  ChannelOf <- MCChannelOf
  OperatorChat = "chat"
  MaxMessages = 3
  MaxActionRounds = 1
  MaxTurns = 2
  MaxClears = 1
  Vendors = {"claude", "codex", "gemini", "opencode"}
  Files = {"f1", "f2", "f3"}
  Texts = {"f1", "f3"}
  Hidden = {"f3"}
  MaxFiles = 2
  MaxEvents = 2
  MaxNormalized = 1
  MaxFrames = 5
  Directives <- MCDirectives
  ExecutiveSteps = 3
  StepLimit = 5
  Registered = {"p1", "p2"}
  Nobody = Nobody
  Threads = {h1, h2}
  Amounts = {0, 2}
  Cap = 3
  MaxDays = 2
  MaxRequests = 2
  ReleaseKeys = {"approval"}
  Evidence <- MCEvidence
  ValueMissions = {1, 2}
  ValueAmounts = {1, 2}
  Unsaid = Unsaid
  MinimumIndependentSources = 2
  MaxBriefs = 2
  MaxEvidence = 2
CHECK_DEADLOCK FALSE
INVARIANTS
  ConsentHonoured
  OneLinePerConsent
  LedgerAccounts
  SkillsSound
  EvidenceConformed
  RunsBacked
  KnowledgeAgrees
  ConversationIntact
  WholeResult
  DeliveredInOrder
  
  VerifiedFromRealized
  LeavesNoOrphan
